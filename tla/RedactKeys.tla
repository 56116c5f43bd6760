----------------------------- MODULE RedactKeys -----------------------------
(***************************************************************************)
(* What redact() decides for one key it meets: the text it is emitted      *)
(* under and whether its value is replaced.                                *)
(*                                                                         *)
(* Keys that need work (long, or with characters that break a line or a    *)
(* term) draw on a budget for the call; when it is spent a stand-in        *)
(* numbered within the call is used.                                       *)
(*                                                                         *)
(* A key is a record: its text, a sequence, so that a key which spells     *)
(* what redact() itself would write can be expressed; its name, which is   *)
(* what normalize_key() leaves of it; its class, which stands for the      *)
(* tests the code makes on it; its length and its head, the first          *)
(* characters, "" when those are not plain.                                *)
(***************************************************************************)
EXTENDS Integers, Sequences, FiniteSets, Functions

CONSTANTS
  Denylist,         \* normalized names whose values are replaced
  KEY_CACHE_MAX,    \* entries of the process-wide memo, and of a call's
  COLD_KEY_BUDGET,  \* keys of one call that may take the slow path
  MEMO_MAX_CHARS,   \* characters of key text a call's memo may hold
  Digest,           \* of a rewritten key
  None              \* absent; as a bound, unbounded

ASSUME BudgetAssumption ==
  /\ KEY_CACHE_MAX \in Nat \ {0} /\ COLD_KEY_BUDGET \in Nat /\ MEMO_MAX_CHARS \in Nat
  /\ None \notin Nat

\* "odd" keys only look unsafe to the cheap test, "long" ones are within
\* MAX_KEY_BYTES all the same, "other" ones are not text.
Classes == {"plain", "odd", "unsafe", "marked", "long", "huge", "other"}

-----------------------------------------------------------------------------
(* The key itself.                                                         *)

\* At most _ALWAYS_SHORT_ENOUGH characters.
Short(k) == k.class \in {"plain", "odd", "unsafe", "marked"}

\* Short, printable and without the marker: emitted as it is.
FastPath(k) == k.class = "plain"

Rewritten_NotMarked(k) == k.class \in {"unsafe", "huge"}

\* Carries a control character, a lone surrogate or the marker, or is over
\* MAX_KEY_BYTES.
Rewritten(k) == k.class \in {"unsafe", "marked", "huge"}

\* The digest is taken over the whole key, so the rewrite keeps keys apart.
Sanitized(k) == IF Rewritten(k) THEN Append(k.text, Digest) ELSE k.text

\* The stand-in once the budget is spent.
Degraded(k, seq) == <<"over-budget", k.head, seq>>

-----------------------------------------------------------------------------
(* One lookup in _Decisions.                                               *)

Idle == [memo |-> <<>>, cold |-> 0, seq |-> 0, chars |-> 0, left |-> None,
         max |-> None, on |-> FALSE, refused |-> FALSE]

Fresh(max) == [memo |-> <<>>, cold |-> COLD_KEY_BUDGET, seq |-> 0,
               chars |-> MEMO_MAX_CHARS, left |-> max, max |-> max,
               on |-> TRUE, refused |-> FALSE]

\* Neither memo knows the key and it is not one the fast path serves.
NeedsWork(known, k) == k.class # "other" /\ k \notin DOMAIN known /\ ~FastPath(k)

OutOfBudget(known, c, k) == NeedsWork(known, k) /\ c.cold = 0

\* What is known of the key after the miss: from the cache, from the fast or
\* the slow path, or the stand-in.
Info(known, c, k) ==
  CASE k \in DOMAIN known -> known[k]
    [] k \notin DOMAIN known /\ OutOfBudget(known, c, k) ->
         [text |-> Degraded(k, c.seq), name |-> k.name]
    [] OTHER -> [text |-> Sanitized(k), name |-> k.name]

\* The stand-in is never cached, nor is a key too long for the fast path.
ToCache(known, c, k) ==
  IF Short(k) /\ k \notin DOMAIN known /\ ~OutOfBudget(known, c, k) THEN {k} ELSE {}

\* _remember: bounded in entries and in characters.
Remember(c, k, entry) ==
  LET cost == IF k.class = "other" THEN 0 ELSE k.len
  IN IF Cardinality(DOMAIN c.memo) >= KEY_CACHE_MAX \/ cost > c.chars THEN c
     ELSE [c EXCEPT !.memo = [x \in DOMAIN @ \cup {k} |->
                                IF x = k THEN entry ELSE @[x]],
                    !.chars = @ - cost]

Refuses_KnownToo(c, k) == c.left = 0

\* A key the call has not memoised is charged against max_distinct_keys.
Refuses(c, k) == k \notin DOMAIN c.memo /\ c.left = 0

Decision(known, c, k) ==
  IF k \in DOMAIN c.memo THEN c.memo[k]
  ELSE [text |-> Info(known, c, k).text, denied |-> Info(known, c, k).name \in Denylist]

AfterLookup(known, c, k) ==
  IF k \in DOMAIN c.memo THEN c
  ELSE Remember([c EXCEPT
         !.left = IF @ = None THEN None ELSE @ - 1,
         !.cold = IF NeedsWork(known, k) /\ @ > 0 THEN @ - 1 ELSE @,
         !.seq  = IF OutOfBudget(known, c, k) THEN @ + 1 ELSE @],
       k, Decision(known, c, k))
=============================================================================
