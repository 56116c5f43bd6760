--------------------------- MODULE MCKeyDecisions ---------------------------
EXTENDS KeyDecisions, TLC

K(text, name, class, len, head) ==
  [text |-> text, name |-> name, class |-> class, len |-> len, head |-> head]

\* A denylisted name as it is and over MAX_KEY_BYTES, a key that needs rewriting, and two that
\* spell what redact() would write in its place.
MCKeys ==
  { K(<<"password">>, "password", "plain", 1, "password"),
    K(<<"pass_word">>, "password", "huge", 3, "pass_word"),
    K(<<"a">>, "a", "unsafe", 1, ""),
    K(<<"a", Digest>>, "a[..]", "marked", 1, "a"),
    K(<<"over-budget", "", 0>>, "overbudget", "marked", 1, "") }

ThreadsAlike == Permutations(Threads)
=============================================================================
