----------------------------- MODULE ClusterSetup -----------------------------
(***************************************************************************)
(* Setting up the Elasticsearch side: ElasticsearchShipper._bootstrap in   *)
(* every worker process, beside infra/elasticsearch/bootstrap.py run by an *)
(* operator.                                                               *)
(*                                                                         *)
(* A worker reads the index template, and if that carries its own schema   *)
(* version, none, or may be upgraded, it puts the ILM policy and the       *)
(* template, pushes the fields of its version onto the write index of the  *)
(* data stream, and only then ships.  The first document makes the data    *)
(* stream, with the fields of the template there is, or with a dynamic     *)
(* mapping if there is none.  A worker without elasticsearch_setup ships   *)
(* at once.  Between two requests of one worker the others go on, and a    *)
(* request may fail, be carried out without an answer, or be refused.      *)
(*                                                                         *)
(* A schema version stands for its fields: versions only add fields, so    *)
(* the write index is described by the newest version it has the fields    *)
(* of.  Elasticsearch itself, rollover and the deletion of templates are   *)
(* external, and nobody deletes a template.                                *)
(***************************************************************************)
EXTENDS Integers

CONSTANTS
  Workers,          \* processes with a shipper
  Version,          \* SCHEMA_VERSION of the package in each
  Upgraders,        \* those with schema_upgrade
  Manual,           \* those without elasticsearch_setup
  OperatorVersion   \* version of the template that bootstrap.py installs

None == -1          \* there is no template
Unversioned == 0    \* a template of 0.1, without _meta.schema_version

ASSUME SetupAssumption ==
  /\ Version \in [Workers -> Nat \ {0}] /\ OperatorVersion \in Nat \ {0}
  /\ Upgraders \subseteq Workers /\ Manual \subseteq Workers

VARIABLES
  template,    \* schema version of the index template
  stream,      \* the data stream: absent, mapped from a template, dynamic
  fields,      \* version whose fields its write index maps
  pc,          \* where each worker is
  seen,        \* the template version its last GET answered
  warned,      \* it logged that its fields may not be searchable
  operator,    \* where bootstrap.py is
  overtaken,   \* history: a template was put over one its writer had not read
  maker        \* history: who made the data stream, if not the cluster's past

vars == <<template, stream, fields, pc, seen, warned, operator, overtaken, maker>>

Templates == {None, Unversioned} \cup {Version[w] : w \in Workers} \cup {OperatorVersion}

TypeOK ==
  /\ template \in Int /\ fields \in Int
  /\ stream \in {"absent", "mapped", "dynamic"}
  /\ pc \in [Workers -> {"unset", "policy", "template", "mapping", "shipping"}]
  /\ seen \in [Workers -> Int]
  /\ warned \in [Workers -> BOOLEAN]
  /\ operator \in {"idle", "template", "stream"}
  /\ overtaken \in BOOLEAN
  /\ maker \in Workers \cup {"past", "operator"}

\* The cluster may have a past.
Init ==
  /\ template \in Templates
  /\ \/ stream = "absent" /\ fields = None
     \/ stream = "mapped" /\ template # None /\ fields = template
  /\ pc = [w \in Workers |-> "unset"] /\ seen = [w \in Workers |-> None]
  /\ warned = [w \in Workers |-> FALSE]
  /\ operator = "idle" /\ overtaken = FALSE /\ maker = "past"

At(w, label) == pc[w] = label
Go(w, label) == pc' = [pc EXCEPT ![w] = label]

-----------------------------------------------------------------------------
(* Requests to Elasticsearch.                                              *)

\* The fields of a template, for an index that is made now.
MadeNow == IF template = None THEN "dynamic" ELSE "mapped"

CreateStream(by) ==
  /\ stream = "absent"
  /\ stream' = MadeNow /\ fields' = template /\ maker' = by

Newer(v) == IF v > fields THEN v ELSE fields

-----------------------------------------------------------------------------
(* _bootstrap.                                                             *)

\* _schema_version_allows_install
MayInstall(w, version) ==
  version \in {None, Unversioned, Version[w]} \/ w \in Upgraders

\* Without elasticsearch_setup nothing is looked at: an operator manages the
\* mapping, or has yet to.
SkipsSetup(w) ==
  /\ At(w, "unset") /\ w \in Manual
  /\ Go(w, "shipping")
  /\ UNCHANGED <<template, stream, fields, seen, warned, operator, overtaken, maker>>

Forgets(w) == seen' = [seen EXCEPT ![w] = None]

\* A request that fails ends the attempt; the next tick begins again.
GivesUp(w) == Go(w, "unset") /\ Forgets(w)

Read(w) ==
  /\ At(w, "unset") /\ w \notin Manual
  /\ seen' = [seen EXCEPT ![w] = template]
  /\ MayInstall(w, template) /\ Go(w, "policy")
  /\ UNCHANGED <<template, stream, fields, warned, operator, overtaken, maker>>

\* Its status is looked at only after the template, and does not hold the worker.
PutPolicy(w) ==
  /\ At(w, "policy")
  /\ (Go(w, "template") /\ UNCHANGED seen) \/ GivesUp(w)
  /\ UNCHANGED <<template, stream, fields, warned, operator, overtaken, maker>>

\* The fields of a version that is installed already are on the write index.
AfterTemplate_OwnVersion(w) == IF seen[w] = Version[w] THEN "shipping" ELSE "mapping"
AfterTemplate(w) == "mapping"

\* What a status of 300 and above leads to.
AfterRefusal_LikePolicy(w) == "mapping"
AfterRefusal(w) == "unset"

Replaces(w) ==
  /\ template' = Version[w]
  /\ overtaken' = (overtaken \/ template \notin {seen[w], Version[w]})

PutTemplate(w) ==
  /\ At(w, "template") /\ Forgets(w)
  /\ \/ Replaces(w) /\ \E next \in {AfterTemplate(w), "unset"} : Go(w, next)
     \/ Go(w, AfterRefusal(w)) /\ UNCHANGED <<template, overtaken>>
  /\ UNCHANGED <<stream, fields, warned, operator, maker>>

\* A data stream that does not exist is no failure: the template covers it.
PushMapping(w) ==
  /\ At(w, "mapping") /\ Go(w, "shipping")
  /\ \/ /\ stream = "absent"
        /\ UNCHANGED <<fields, warned>>
     \/ /\ stream # "absent" /\ fields' = Newer(Version[w])
        /\ warned' = warned \/ warned' = [warned EXCEPT ![w] = TRUE]
     \/ /\ warned' = [warned EXCEPT ![w] = TRUE]
        /\ UNCHANGED fields
  /\ UNCHANGED <<template, stream, seen, operator, overtaken, maker>>

Ship(w) ==
  /\ At(w, "shipping") /\ CreateStream(w)
  /\ UNCHANGED <<template, pc, seen, warned, operator, overtaken>>

\* The process ends at any point and another one takes its place.
Restart(w) ==
  /\ ~At(w, "unset") /\ GivesUp(w)
  /\ warned' = [warned EXCEPT ![w] = FALSE]
  /\ UNCHANGED <<template, stream, fields, operator, overtaken, maker>>

-----------------------------------------------------------------------------
(* main() of bootstrap.py, and rollover.                                   *)

\* The ILM policy is in place; a request that fails ends the script.
OperatorBegins ==
  /\ operator = "idle" /\ operator' = "template"
  /\ UNCHANGED <<template, stream, fields, pc, seen, warned, overtaken, maker>>

OperatorPuts ==
  /\ operator = "template"
  /\ \/ template' = OperatorVersion /\ operator' \in {"stream", "idle"}
     \/ UNCHANGED template /\ operator' = "idle"
  /\ UNCHANGED <<stream, fields, pc, seen, warned, overtaken, maker>>

OperatorCreates ==
  /\ operator = "stream" /\ operator' = "idle"
  /\ CreateStream("operator") \/ UNCHANGED <<stream, fields, maker>>
  /\ UNCHANGED <<template, pc, seen, warned, overtaken>>

\* A new backing index is made from the template there is by then.
Rollover ==
  /\ stream # "absent" /\ template # None
  /\ stream' = "mapped" /\ fields' = template
  /\ UNCHANGED <<template, pc, seen, warned, operator, overtaken, maker>>

Next ==
  \/ \E w \in Workers :
       \/ SkipsSetup(w) \/ Read(w) \/ PutPolicy(w) \/ PutTemplate(w) \/ PushMapping(w)
       \/ Ship(w) \/ Restart(w)
  \/ OperatorBegins \/ OperatorPuts \/ OperatorCreates \/ Rollover

Spec == Init /\ [][Next]_vars

-----------------------------------------------------------------------------
(* Properties.                                                             *)

\* No worker that sets the cluster up, and no operator's script, makes a data
\* stream before there is a template: the one mistake no later fix undoes without a
\* reindex (shipper.py:248-253, 640-648).  Only a worker without elasticsearch_setup
\* does, if it ships first.
NeverDynamic == stream = "dynamic" => maker \in Manual

\* What config.py:132-135 says of a shipper without elasticsearch_setup too: it
\* "refuses to send anything until the template exists".
RefusesWithoutTemplate == stream # "dynamic"

\* Who may replace a template of another version leaves nobody behind.
Orderly ==
  /\ \A u \in Upgraders, w \in Workers : Version[w] <= Version[u]
  /\ \A w \in Workers : Version[w] <= OperatorVersion

\* A worker that ships has its fields on the write index or said that it may not,
\* whoever else installs, rolls over, dies half way or starts, unless a template was
\* replaced behind the back of its reader (FR-60, shipper.py:558-588).
MappedOrSaid ==
  Orderly /\ ~overtaken =>
    \A w \in Workers \ Manual :
      At(w, "shipping") /\ stream = "mapped" => fields >= Version[w] \/ warned[w]

\* README.md:589, "The shipper will not overwrite a template of another version".
OneSchemaPerDataset ==
  [][template' # template /\ template \notin {None, Unversioned} =>
       operator' # operator \/ \E u \in Upgraders : template' = Version[u]]_vars
=============================================================================
