------------------------------- MODULE Redact -------------------------------
(***************************************************************************)
(* redact() over a nested structure, and filter_headers() (redact.py).     *)
(*                                                                         *)
(* A value is a record with a kind:                                        *)
(*   "str"   text; v is its content                                        *)
(*   "num"   a scalar that is not text                                     *)
(*   "list"  items, a sequence of values                                   *)
(*   "obj"   items, a sequence of [key, val]; the keys are RedactKeys keys *)
(*           before redaction and the emitted texts after it.              *)
(* The process-wide memo is empty here: KeyDecisions shows what it may     *)
(* contribute.                                                             *)
(***************************************************************************)
EXTENDS RedactKeys, SequencesExt

CONSTANT DEPTH_LIMIT   \* depth_limit of redact()

ASSUME DepthAssumption == DEPTH_LIMIT \in Nat

Str(v)     == [kind |-> "str", v |-> v]
REDACTED   == Str("[REDACTED]")
TRUNCATED  == Str("[TRUNCATED]")
List(items) == [kind |-> "list", items |-> items]
Obj(items)  == [kind |-> "obj", items |-> items]

\* "surrogate" stands for text UTF-8 cannot encode; the digest keeps two apart.
SafeValue(v) == IF v.v = "surrogate" THEN Str("sanitized") ELSE v

-----------------------------------------------------------------------------
\* The recursive worker: the value that takes v's place, and the call's state
\* after it.  Once a lookup refuses, the exception leaves every level.
RECURSIVE Walk(_, _, _)

WalkItem(acc, item, depth) ==
  IF acc.call.refused THEN acc
  ELSE LET r == Walk(item, acc.call, depth)
       IN [out |-> Append(acc.out, r.val), call |-> r.call]

WalkEntry(acc, entry, depth) ==
  IF acc.call.refused THEN acc
  ELSE IF Refuses(acc.call, entry.key) THEN [acc EXCEPT !.call.refused = TRUE]
  ELSE LET d == Decision(<<>>, acc.call, entry.key)
           c == AfterLookup(<<>>, acc.call, entry.key)
           r == IF d.denied THEN [val |-> REDACTED, call |-> c]
                ELSE Walk(entry.val, c, depth)
       IN [out |-> Append(acc.out, [key |-> d.text, val |-> r.val]), call |-> r.call]

Walk(v, c, depth) ==
  IF depth >= DEPTH_LIMIT THEN [val |-> TRUNCATED, call |-> c]
  ELSE CASE v.kind = "str"  -> [val |-> SafeValue(v), call |-> c]
         [] v.kind = "num"  -> [val |-> v, call |-> c]
         [] v.kind = "list" ->
              LET r == FoldLeft(LAMBDA acc, x : WalkItem(acc, x, depth + 1),
                                [out |-> <<>>, call |-> c], v.items)
              IN [val |-> List(r.out), call |-> r.call]
         [] v.kind = "obj"  ->
              LET r == FoldLeft(LAMBDA acc, x : WalkEntry(acc, x, depth + 1),
                                [out |-> <<>>, call |-> c], v.items)
              IN [val |-> Obj(r.out), call |-> r.call]

\* redact(v, keys, max_distinct_keys): None when the budget is exceeded.
redact(v, max) ==
  LET r == Walk(v, Fresh(max), 0) IN IF r.call.refused THEN None ELSE r.val

\* filter_headers: the allowlisted names only, repeated ones joined in order.
filter_headers(headers, allowlist) ==
  [n \in {h.name : h \in Range(headers)} \cap allowlist |->
     LET of(h) == h.name = n IN SelectSeq(headers, of)]

-----------------------------------------------------------------------------
\* Everything a value holds, at any depth.
RECURSIVE Leaves(_)
Leaves(v) ==
  CASE v.kind \in {"str", "num"} -> {v}
    [] v.kind = "list" -> UNION {Leaves(x) : x \in Range(v.items)}
    [] v.kind = "obj"  -> UNION {Leaves(e.val) : e \in Range(v.items)}

\* The number of values in it, itself included: the JSON nodes.
RECURSIVE Nodes(_)
Nodes(v) ==
  CASE v.kind \in {"str", "num"} -> 1
    [] v.kind = "list" -> 1 + FoldLeft(LAMBDA n, x : n + Nodes(x), 0, v.items)
    [] v.kind = "obj"  -> 1 + FoldLeft(LAMBDA n, e : n + Nodes(e.val), 0, v.items)

\* The entry a mapping has for a key, None without one.
Get(obj, key) ==
  IF \E e \in Range(obj.items) : e.key = key
  THEN (CHOOSE e \in Range(obj.items) : e.key = key).val ELSE None
=============================================================================
