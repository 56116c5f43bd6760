------------------------------ MODULE MCRequest ------------------------------
EXTENDS Request

CONSTANTS r1, r2

api == <<"api">>
Quiet == [path |-> api, binary |-> FALSE, declared |-> None, sizes |-> {}, receives |-> 0,
          statuses |-> {200}, sends |-> 0, faults |-> {"none"}, talks |-> FALSE,
          sink |-> TRUE]

\* A request in every detail of its messages, whose handler annotates too.
Detailed ==
  { [path |-> api, binary |-> b, declared |-> d, sizes |-> {0, 1, 2}, receives |-> 3,
     statuses |-> {None, 200, 401, 404, 503}, sends |-> 2,
     faults |-> {"none", "resolve", "build", "mark", "enrich", "take"}, talks |-> FALSE,
     sink |-> TRUE] :
      b \in BOOLEAN, d \in {None, 3} }

\* One whose application starts tasks and threads and annotates in them.
Talking == [Quiet EXCEPT !.talks = TRUE, !.statuses = {}]

\* One whose middleware has no sink.
Sinkless == [Quiet EXCEPT !.sink = FALSE, !.faults = {"none", "mark", "enrich", "take"}]

\* Two detailed requests would multiply: one beside a short one, or two that talk.
MCMixes ==
  { [r \in Requests |-> IF r = r1 THEN k ELSE [Quiet EXCEPT !.path = p, !.statuses = {}]] :
      k \in Detailed, p \in {<<"health", "live">>, <<"healthz">>} }
  \cup {[r \in Requests |-> Talking], [r \in Requests |-> Sinkless]}

MCExcluded == {<<"health">>}
=============================================================================
