------------------------------ MODULE Document ------------------------------
(***************************************************************************)
(* build_document(): from what a request left behind to the document that  *)
(* goes to the sink (document.py).                                         *)
(*                                                                         *)
(* A request is a record:                                                  *)
(*   query     the query string, a sequence of components between          *)
(*             separators: [name, val, padded, size], None for an empty    *)
(*             one; padded when blanks surround the name                   *)
(*   type      the content type, as far as the code tells types apart      *)
(*   body      [size, sites, parses, value] for JSON, [size, comps] for a  *)
(*             form and for text, [parts, boundary] for multipart          *)
(*   truncated, skipped    what the middleware found of the body           *)
(*   params    path parameters, entries of a mapping                       *)
(*   hostile   a path parameter's str() raises                             *)
(*   user      what the resolver returned: a mapping from names to values  *)
(*   route     who called whom: the sender, then the proxies in order, the *)
(*             last of them the peer; empty without a transport address    *)
(*   wrote, real   what the sender put in X-Forwarded-For, and X-Real-IP   *)
(* Text stands for its content: "secret" is only ever sent under a denied  *)
(* name, so wherever it shows something went past the denylist.            *)
(***************************************************************************)
EXTENDS Redact

CONSTANTS
  Requests,          \* what build_document is called with
  MaxBodyBytes, MaxQueryBytes, MaxNodes, MaxDistinctKeys, MaxParts,
  MaxScrubBytes,     \* the settings of these names
  CaptureText,       \* the setting capture_text_bodies
  MaxUnparsed,       \* bytes kept of a body that does not parse
  MaxRoles,          \* roles kept of a user
  MaxDocs            \* bounds the documents built

ASSUME SettingsAssumption ==
  /\ {MaxBodyBytes, MaxQueryBytes, MaxNodes, MaxDistinctKeys, MaxParts,
      MaxScrubBytes, MaxUnparsed, MaxRoles, MaxDocs} \subseteq Nat
  /\ CaptureText \in BOOLEAN

VARIABLES
  doc,        \* the document in hand, None between requests
  bodies,     \* audit_bodies_skipped_total
  queries,    \* audit_queries_skipped_total
  built       \* history: documents of each shape that left

docVars == <<doc, bodies, queries, built>>

-----------------------------------------------------------------------------
(* Bounds, checked before anything is parsed.                              *)

\* Structural characters bound the nodes: one more than there are.  An empty
\* body has no window to scan.
ExceedsNodeCap(size, sites, limit) == size > 0 /\ 1 + sites > limit

Separators(comps) == Len(comps) - 1

QueryBytes(comps) ==
  FoldLeft(LAMBDA n, c : IF c = None THEN n ELSE n + c.size, Separators(comps), comps)

SmallerOf(a, b) == IF a < b THEN a ELSE b

QueryBounds ==
  [bytes |-> SmallerOf(MaxBodyBytes, MaxQueryBytes),
   pairs |-> SmallerOf(MaxNodes, IF MaxQueryBytes \div 16 > 1 THEN MaxQueryBytes \div 16 ELSE 1)]

-----------------------------------------------------------------------------
(* The query string and form bodies.                                       *)

\* A name of the code's own.
Field(f) == [text |-> <<f>>, name |-> f, class |-> "plain", len |-> 1, head |-> f]

\* _split_pairs: empty components are passed over, names are stripped.
SplitPairs(comps) ==
  LET present(c) == c # None
  IN [i \in 1..Len(SelectSeq(comps, present)) |->
        [key |-> SelectSeq(comps, present)[i].name,
         val |-> SelectSeq(comps, present)[i].val]]

\* A name that comes once keeps its value, a repeated one has a list.
Grouped(pairs) ==
  LET named(k) == SelectSeq(pairs, LAMBDA p : p.key = k)
      first(i) == \A j \in 1..(i - 1) : pairs[j].key # pairs[i].key
      firsts == SelectSeq([i \in DOMAIN pairs |-> i], first)
  IN Obj([i \in DOMAIN firsts |->
            LET k == pairs[firsts[i]].key
                vals == [j \in DOMAIN named(k) |-> named(k)[j].val]
            IN [key |-> k, val |-> IF Len(vals) = 1 THEN vals[1] ELSE List(vals)]])

Replaced_FirstOfList(pairs, reduced, i) ==
  LET found == Get(reduced, pairs[i].key.text)
  IN CASE found = None -> pairs[i].val
       [] found # None /\ found.kind = "list" -> found.items[1]
       [] OTHER -> found

\* The i-th pair with the value redaction left it, looked up by the name the
\* client sent.
Replaced(pairs, reduced, i) ==
  LET p == pairs[i]
      found == Get(reduced, p.key.text)
      index == Cardinality({j \in 1..i : pairs[j].key = p.key})
  IN CASE found = None -> p.val
       [] found # None /\ found.kind = "list" -> found.items[index]
       [] OTHER -> found

\* The parsed mapping, and the raw string rebuilt from it if a value changed.
QueryViews(comps, pairs, reduced) ==
  LET rebuilt == [i \in DOMAIN pairs |->
                    [name |-> pairs[i].key, val |-> Replaced(pairs, reduced, i)]]
  IN CASE pairs = <<>> -> [raw |-> comps, parsed |-> Obj(<<>>)]
       [] pairs # <<>> /\ reduced = None -> None
       [] OTHER -> [raw |-> IF \E i \in DOMAIN pairs : rebuilt[i].val # pairs[i].val
                            THEN rebuilt ELSE comps,
                    parsed |-> reduced]

\* _query: None when there are too many distinct names.
ParsedQuery(comps) ==
  QueryViews(comps, SplitPairs(comps), redact(Grouped(SplitPairs(comps)), MaxDistinctKeys))

\* The fixed text that takes the place of a query string that was not parsed.
SKIPPED == <<[name |-> Field("[SKIPPED]"), val |-> Str("")]>>

\* _url_query.
UrlQuery(comps) ==
  LET refused == [raw |-> SKIPPED, parsed |-> Obj(<<>>), skipped |-> "too_complex"]
      q == ParsedQuery(comps)
  IN IF comps = <<>> THEN [raw |-> <<>>, parsed |-> Obj(<<>>), skipped |-> None]
     ELSE IF \/ QueryBytes(comps) > QueryBounds.bytes
             \/ ExceedsNodeCap(QueryBytes(comps), Separators(comps), QueryBounds.pairs)
          THEN refused
     ELSE IF q = None THEN refused
     ELSE [raw |-> q.raw, parsed |-> q.parsed, skipped |-> None]

-----------------------------------------------------------------------------
(* Bodies.                                                                 *)

ScanPart_Silently(acc, part) ==
  IF Len(acc.kept) >= MaxParts \/ ~part.headed THEN acc
  ELSE [acc EXCEPT !.kept = Append(@, part)]

\* The scan over delimiters: at the limit a further part is only noticed; a part
\* without the end of its headers is passed over.
ScanPart(acc, part) ==
  IF acc.hit THEN acc
  ELSE IF Len(acc.kept) >= MaxParts THEN [acc EXCEPT !.hit = TRUE]
  ELSE IF ~part.headed THEN acc
  ELSE [acc EXCEPT !.kept = Append(@, part)]

\* _multipart: a part with a denied name keeps no file name.
Multipart(req) ==
  LET scan == FoldLeft(ScanPart, [kept |-> <<>>, hit |-> FALSE],
                       IF req.body.boundary THEN req.body.parts ELSE <<>>)
      shown(p) == IF p.name.name \in Denylist THEN REDACTED ELSE p.file
      part(p) == Obj(<<[key |-> Field("name"), val |-> Str(p.name.name)],
                       [key |-> Field("filename"), val |-> shown(p)]>>)
  IN [parts |-> redact(List([i \in DOMAIN scan.kept |-> part(scan.kept[i])]), None),
      count |-> Len(scan.kept),
      complete |-> ~req.truncated /\ ~scan.hit]

Block(req) == [body |-> None, body_raw |-> None, body_skipped |-> None,
               parse_failed |-> None, truncated |-> req.truncated, multipart |-> None]

TooComplex(req) == [Block(req) EXCEPT !.body_skipped = "too_complex"]

JsonBody(req) ==
  LET b == req.body
      reduced == redact(b.value, MaxDistinctKeys)
  IN IF ExceedsNodeCap(b.size, b.sites, MaxNodes) THEN TooComplex(req)
     ELSE IF b.parses = "never"
          THEN [Block(req) EXCEPT !.parse_failed = TRUE,
                  !.body_raw = <<[val |-> Str("unparsed"), shape |-> "prose"]>>,
                  !.truncated = @ \/ b.size > MaxUnparsed]
     ELSE IF reduced = None THEN TooComplex(req)
     ELSE [Block(req) EXCEPT !.parse_failed = FALSE,
             !.body = IF reduced.kind = "obj" THEN reduced
                      ELSE Obj(<<[key |-> <<"_value">>, val |-> reduced]>>)]

\* Every pair may be a name, so the bound on distinct names bounds the pairs.
FormBody(req) ==
  LET comps == req.body.comps
      q == ParsedQuery(comps)
  IN IF ExceedsNodeCap(req.body.size, Separators(comps), SmallerOf(MaxNodes, MaxDistinctKeys))
        \/ q = None
     THEN TooComplex(req)
     ELSE [Block(req) EXCEPT !.parse_failed = FALSE, !.body = q.parsed]

\* _scrub_text: what follows a denied name is replaced in the known shapes.
Scrubbed(comps) ==
  [i \in DOMAIN comps |->
     [val |-> IF comps[i].shape # "prose" /\ comps[i].name.name \in Denylist
              THEN REDACTED ELSE comps[i].val,
      shape |-> comps[i].shape]]

TextBody(req) ==
  LET b == req.body IN
  IF ~CaptureText THEN [Block(req) EXCEPT !.body_skipped = "content_type"]
  ELSE IF b.size > MaxScrubBytes \/ ExceedsNodeCap(b.size, b.sites, MaxNodes)
       THEN TooComplex(req)
  ELSE [Block(req) EXCEPT !.body_raw = Scrubbed(b.comps)]

\* body_kind_for: no content type is text, anything not listed is binary.
BodyKind(type) ==
  CASE type \in {"json", "form"}  -> type
    [] type \in {"text", "none"}  -> "text"
    [] OTHER                      -> "binary"

\* _body_block.
BodyBlock(req) ==
  LET kind == BodyKind(req.type)
      skipped == IF req.skipped = None /\ kind = "binary" THEN "content_type" ELSE req.skipped
  IN IF skipped # None
     THEN [Block(req) EXCEPT !.body_skipped = skipped,
             !.multipart = IF req.type = "multipart" THEN Multipart(req) ELSE None]
     ELSE CASE kind = "json" -> JsonBody(req)
            [] kind = "form" -> FormBody(req)
            [] kind = "text" -> TextBody(req)

-----------------------------------------------------------------------------
(* The user and the rest of the document.                                  *)

Scalar(v) == v.kind \in {"str", "num"}

\* _coerce_roles: one role becomes a list of one, what is no scalar is dropped.
Roles(v) ==
  LET kept == CASE v.kind = "str"  -> <<v>>
                [] v.kind = "list" -> SelectSeq(SubSeq(v.items, 1, SmallerOf(Len(v.items), MaxRoles)),
                                                Scalar)
                [] OTHER           -> <<>>
  IN IF kept = <<>> THEN None ELSE List(kept)

UserBlock_AsGiven(user) ==
  IF user = None \/ DOMAIN user \cap {"id", "name", "roles"} = {} THEN None
  ELSE [f \in DOMAIN user \cap {"id", "name", "roles"} |-> user[f]]

\* _user_block: the known fields that can be coerced; absent when empty.
UserBlock(user) ==
  LET fields == {f \in DOMAIN user \cap {"id", "name"} : Scalar(user[f])}
      roles == IF "roles" \in DOMAIN user THEN Roles(user["roles"]) ELSE None
      block == [f \in fields \cup (IF roles = None THEN {} ELSE {"roles"}) |->
                  IF f = "roles" THEN roles ELSE user[f]]
  IN IF user = None \/ DOMAIN block = {} THEN None ELSE block

\* _client_block: the transport's peer.
Peer(req) == IF req.route = <<>> THEN None ELSE Last(req.route)

Full(req) ==
  LET q == UrlQuery(req.query) IN
  [req     |-> req,
   minimal |-> FALSE,
   url     |-> q.raw,
   query   |-> q.parsed,
   query_skipped |-> q.skipped,
   body    |-> BodyBlock(req),
   params  |-> redact(Obj(req.params), None),
   user    |-> UserBlock(req.user),
   client  |-> Peer(req),
   enriched |-> None]

\* build_minimal_document: identity and outcome, nothing the client sent.
Minimal(req) ==
  [req |-> req, minimal |-> TRUE, url |-> <<>>, query |-> Obj(<<>>),
   query_skipped |-> None, body |-> Block(req), params |-> Obj(<<>>),
   user |-> None, client |-> None, enriched |-> None]

Counted == {"content_type", "too_complex"}

\* The counters move while the document is being built; the path parameters,
\* which may raise, come after them.
Build(req) ==
  \E full \in {Full(req)} :
  /\ doc = None /\ built.all < MaxDocs
  /\ doc' = IF req.hostile THEN Minimal(req) ELSE full
  /\ bodies' = bodies + (IF full.body.body_skipped \in Counted THEN 1 ELSE 0)
  /\ queries' = queries + (IF full.query_skipped # None THEN 1 ELSE 0)
  /\ UNCHANGED built

\* The document goes to the sink.
Submit ==
  /\ doc # None
  /\ doc' = None
  /\ built' = [all     |-> built.all + 1,
               minimal |-> built.minimal + (IF doc.minimal THEN 1 ELSE 0),
               bodies  |-> built.bodies + (IF doc.body.body_skipped \in Counted THEN 1 ELSE 0),
               queries |-> built.queries + (IF doc.query_skipped # None THEN 1 ELSE 0)]
  /\ UNCHANGED <<bodies, queries>>

DocInit ==
  /\ doc = None /\ bodies = 0 /\ queries = 0
  /\ built = [all |-> 0, minimal |-> 0, bodies |-> 0, queries |-> 0]
=============================================================================
