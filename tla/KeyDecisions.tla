---------------------------- MODULE KeyDecisions ----------------------------
(***************************************************************************)
(* The memos behind a key's decision (redact.py).                          *)
(*                                                                         *)
(* A decision is memoised twice: for the call (_Decisions) and, for short  *)
(* keys, for the process (_key_cache), which the event loop and the        *)
(* threads that call audit.emit() share.  A call meets any keys in any     *)
(* order, as the structures clients send make it.                          *)
(***************************************************************************)
EXTENDS RedactKeys

CONSTANTS
  Threads,   \* threads that call redact()
  Keys,      \* the keys callers may send
  Budgets,   \* values of max_distinct_keys, None for no bound
  Calls,     \* bounds the calls of redact()
  StandIns   \* bounds the stand-ins one call writes

ASSUME KeyAssumption ==
  /\ IsFiniteSet(Threads)
  /\ \A k \in Keys : k.class \in Classes /\ k.len \in Nat
  /\ Budgets \ {None} \subseteq Nat /\ Calls \in Nat /\ StandIns \in Nat

\* Two keys of one structure have two texts, and a text with a part that only
\* redact() writes is of a class that carries the marker or may; a stand-in's
\* number is not a digest.
ASSUME KeysAreTheirText ==
  /\ \A j, k \in Keys : j.text = k.text => j = k
  /\ \A k \in Keys : /\ Len(k.text) \in Nat /\ k.text = [i \in 1..Len(k.text) |-> k.text[i]]
                     /\ k.class \notin {"unsafe", "marked", "huge"} =>
                          \A i \in DOMAIN k.text : k.text[i] \notin {Digest, "over-budget"}
  /\ Digest \notin Nat

VARIABLES
  cache,     \* _key_cache: text to emit and normalized name of each key in it
  call,      \* each thread's _Decisions, or Idle
  storing,   \* keys a thread is about to put into the cache
  emitted,   \* history: the decisions of the current call
  calls      \* calls begun so far

vars == <<cache, call, storing, emitted, calls>>

-----------------------------------------------------------------------------
Init ==
  /\ cache = <<>>
  /\ call = [t \in Threads |-> Idle]
  /\ storing = [t \in Threads |-> {}]
  /\ emitted = [t \in Threads |-> {}]
  /\ calls = 0

Begin(t, max) ==
  /\ ~call[t].on /\ storing[t] = {} /\ calls < Calls
  /\ call' = [call EXCEPT ![t] = Fresh(max)]
  /\ emitted' = [emitted EXCEPT ![t] = {}]
  /\ calls' = calls + 1
  /\ UNCHANGED <<cache, storing>>

\* The lookup of one key, up to the test of the cache's size.  A full cache is
\* emptied, not frozen.
Meet(t, k) ==
  /\ call[t].on /\ storing[t] = {} /\ ~Refuses(call[t], k)
  /\ OutOfBudget(cache, call[t], k) => call[t].seq < StandIns
  /\ LET c == call[t]
         new == IF k \in DOMAIN c.memo THEN {} ELSE ToCache(cache, c, k)
     IN /\ emitted' = [emitted EXCEPT ![t] = @ \cup
                         {[key |-> k, text |-> Decision(cache, c, k).text,
                           denied |-> Decision(cache, c, k).denied]}]
        /\ call' = [call EXCEPT ![t] = AfterLookup(cache, c, k)]
        /\ storing' = [storing EXCEPT ![t] = new]
        /\ cache' = IF new # {} /\ Cardinality(DOMAIN cache) >= KEY_CACHE_MAX
                    THEN <<>> ELSE cache
  /\ UNCHANGED calls

\* ... and the insertion; another thread may have run in between.
Store(t) ==
  /\ storing[t] # {}
  /\ cache' = [k \in DOMAIN cache \cup storing[t] |->
                 IF k \in storing[t] THEN [text |-> Sanitized(k), name |-> k.name]
                 ELSE cache[k]]
  /\ storing' = [storing EXCEPT ![t] = {}]
  /\ UNCHANGED <<call, emitted, calls>>

\* RedactionBudgetExceeded: the structure is abandoned.
Refuse(t, k) ==
  /\ call[t].on /\ storing[t] = {} /\ Refuses(call[t], k)
  /\ call' = [call EXCEPT ![t] = [Idle EXCEPT !.refused = TRUE, !.max = call[t].max,
                                              !.memo = call[t].memo, !.chars = call[t].chars]]
  /\ emitted' = [emitted EXCEPT ![t] = @ \cup {[key |-> k, text |-> <<>>, denied |-> TRUE]}]
  /\ UNCHANGED <<cache, storing, calls>>

Return(t) ==
  /\ call[t].on /\ storing[t] = {}
  /\ call' = [call EXCEPT ![t] = Idle]
  /\ UNCHANGED <<cache, storing, emitted, calls>>

Next ==
  \E t \in Threads :
    \/ \E max \in Budgets : Begin(t, max)
    \/ \E k \in Keys : Meet(t, k)
    \/ Store(t)
    \/ \E k \in Keys : Refuse(t, k)
    \/ Return(t)

Spec == Init /\ [][Next]_vars

-----------------------------------------------------------------------------
\* Two keys of a structure never come out under one text, so no value replaces
\* another (redact.py:479-496, :686): not when the budget runs out between
\* them, not when the cache was emptied, not when a client's key spells a
\* rewritten one.
KeysStayApart ==
  \A t \in Threads : ~call[t].refused =>
    \A d, e \in emitted[t] : d.key # e.key => d.text # e.text

\* A structure is refused only when it has more distinct keys than allowed, as
\* long as the call's memo could hold them all (redact.py:797); and within the
\* budget no key goes uncharged.
RefusedOnlyPastBudget ==
  \A t \in Threads :
    LET met == {e.key : e \in emitted[t]} IN
    /\ call[t].refused =>
         \/ Cardinality(met) > call[t].max
         \/ Cardinality(DOMAIN call[t].memo) >= KEY_CACHE_MAX
         \/ \E k \in met : k.len > call[t].chars
    /\ call[t].on /\ call[t].max # None => Cardinality(met) <= call[t].max
=============================================================================
