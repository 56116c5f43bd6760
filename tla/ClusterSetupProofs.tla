------------------------- MODULE ClusterSetupProofs -------------------------
(***************************************************************************)
(* For any number of workers of any releases: no data stream is made       *)
(* without a template but by a worker that leaves the set-up to others,    *)
(* and a worker that set up and ships has its fields mapped or has said    *)
(* that it may not.                                                        *)
(***************************************************************************)
EXTENDS ClusterSetup, TLAPS

\* Those whose template is in the cluster, or was.
Installed(w) == pc[w] \in {"mapping", "shipping"}

\* Whoever sets up makes nothing before there is a template.
CInv ==
  /\ stream = "dynamic" => maker \in Manual
  /\ \A w \in Workers \ Manual : Installed(w) => template # None
  /\ operator = "stream" => template # None
  /\ stream = "mapped" => template # None

\* What a worker is about to put is what it may put over what it read.
Asked == \A w \in Workers : pc[w] \in {"policy", "template"} => MayInstall(w, seen[w])

\* As long as nobody is overtaken, the template has the fields of all who put one.
Covered ==
  \A w \in Workers \ Manual : Installed(w) => template >= Version[w]

Mapped ==
  \A w \in Workers \ Manual :
    At(w, "shipping") /\ stream = "mapped" => fields >= Version[w] \/ warned[w]

MInv ==
  /\ TypeOK
  /\ Asked
  /\ Orderly /\ ~overtaken => Covered /\ Mapped

-----------------------------------------------------------------------------
(* Versions.                                                               *)

LEMMA Versions ==
  /\ None = -1 /\ Unversioned = 0
  /\ OperatorVersion \in Int /\ OperatorVersion > 0
  /\ \A w \in Workers : Version[w] \in Int /\ Version[w] > 0
BY SetupAssumption DEF None, Unversioned

LEMMA AllInt == Templates \subseteq Int
BY Versions DEF Templates

-----------------------------------------------------------------------------
(* No dynamic mapping.                                                     *)

LEMMA CInvInit == Init => CInv
BY DEF Init, CInv, Installed

\* A template, once there, stays: a later step that needs one finds one.
LEMMA CInvNext == TypeOK /\ CInv /\ [Next]_vars => CInv'
<1> SUFFICES ASSUME TypeOK, CInv, [Next]_vars PROVE CInv'
  OBVIOUS
<1>p. pc \in [Workers -> {"unset", "policy", "template", "mapping", "shipping"}]
  BY DEF TypeOK
<1>c. /\ stream = "dynamic" => maker \in Manual
      /\ \A w \in Workers \ Manual : Installed(w) => template # None
      /\ operator = "stream" => template # None
      /\ stream = "mapped" => template # None
  BY DEF CInv
<1>1. ASSUME NEW w \in Workers, SkipsSetup(w) PROVE CInv'
  BY <1>1, <1>p, <1>c DEF SkipsSetup, At, Go, CInv, Installed
<1>2. ASSUME NEW w \in Workers, Read(w) PROVE CInv'
  BY <1>2, <1>p, <1>c DEF Read, At, Go, CInv, Installed
<1>3. ASSUME NEW w \in Workers, PutPolicy(w) PROVE CInv'
  BY <1>3, <1>p, <1>c DEF PutPolicy, GivesUp, At, Go, CInv, Installed
<1>4. ASSUME NEW w \in Workers, PutTemplate(w) PROVE CInv'
  <2>1. CASE Replaces(w)
    <3>1. template' # None
      BY <2>1, Versions DEF Replaces
    <3>2. stream' = stream /\ maker' = maker
      BY <1>4 DEF PutTemplate
    <3> QED  BY <3>1, <3>2, <1>c DEF CInv
  <2>2. CASE Go(w, AfterRefusal(w)) /\ UNCHANGED <<template, overtaken>>
    BY <2>2, <1>4, <1>p, <1>c DEF PutTemplate, AfterRefusal, Go, CInv, Installed
  <2> QED  BY <1>4, <2>1, <2>2 DEF PutTemplate
<1>5. ASSUME NEW w \in Workers, PushMapping(w) PROVE CInv'
  BY <1>5, <1>p, <1>c DEF PushMapping, At, Go, CInv, Installed
<1>6. ASSUME NEW w \in Workers, Ship(w) PROVE CInv'
  <2>1. w \in Manual \/ template # None
    BY <1>6, <1>c DEF Ship, At, Installed
  <2>2. (stream' = "mapped" /\ template # None) \/ (maker' = w /\ w \in Manual)
    BY <1>6, <2>1 DEF Ship, CreateStream, MadeNow
  <2>3. stream' = "mapped" => template # None
    BY <1>6 DEF Ship, CreateStream, MadeNow
  <2> QED  BY <1>6, <1>c, <2>2, <2>3 DEF Ship, CInv, Installed
<1>7. ASSUME NEW w \in Workers, Restart(w) PROVE CInv'
  BY <1>7, <1>p, <1>c DEF Restart, GivesUp, Go, CInv, Installed
<1>8. CASE OperatorBegins
  BY <1>8, <1>c DEF OperatorBegins, CInv, Installed
<1>9. CASE OperatorPuts
  <2>1. OperatorVersion # None
    BY Versions
  <2> QED  BY <1>9, <1>c, <2>1 DEF OperatorPuts, CInv, Installed
<1>10. CASE OperatorCreates
  <2>1. template # None
    BY <1>10, <1>c DEF OperatorCreates
  <2> QED  BY <1>10, <1>c, <2>1 DEF OperatorCreates, CreateStream, MadeNow, CInv, Installed
<1>11. CASE Rollover
  BY <1>11, <1>c DEF Rollover, CInv, Installed
<1>12. CASE UNCHANGED vars
  BY <1>12, <1>c DEF vars, CInv, Installed
<1> QED  BY <1>1, <1>2, <1>3, <1>4, <1>5, <1>6, <1>7, <1>8, <1>9, <1>10, <1>11, <1>12 DEF Next

-----------------------------------------------------------------------------
(* Types.                                                                  *)

LEMMA TypeInit == Init => TypeOK
<1> SUFFICES ASSUME Init PROVE TypeOK
  OBVIOUS
<1>1. template \in Int /\ fields \in Int
  BY AllInt, Versions DEF Init
<1>2. seen \in [Workers -> Int]
  BY Versions DEF Init
<1>3. /\ pc \in [Workers -> {"unset", "policy", "template", "mapping", "shipping"}]
      /\ warned \in [Workers -> BOOLEAN]
  BY DEF Init
<1>4. /\ stream \in {"absent", "mapped", "dynamic"}
      /\ operator \in {"idle", "template", "stream"} /\ overtaken \in BOOLEAN
      /\ maker \in Workers \cup {"past", "operator"}
  BY DEF Init
<1> QED  BY <1>1, <1>2, <1>3, <1>4 DEF TypeOK

LEMMA TypeNext == TypeOK /\ [Next]_vars => TypeOK'
<1> SUFFICES ASSUME TypeOK, [Next]_vars PROVE TypeOK'
  OBVIOUS
<1>t. /\ template \in Int /\ fields \in Int
      /\ stream \in {"absent", "mapped", "dynamic"}
      /\ operator \in {"idle", "template", "stream"} /\ overtaken \in BOOLEAN
      /\ maker \in Workers \cup {"past", "operator"}
  BY DEF TypeOK
<1>p. pc \in [Workers -> {"unset", "policy", "template", "mapping", "shipping"}]
  BY DEF TypeOK
<1>s. seen \in [Workers -> Int]
  BY DEF TypeOK
<1>w. warned \in [Workers -> BOOLEAN]
  BY DEF TypeOK
<1>m. MadeNow \in {"mapped", "dynamic"} /\ None \in Int
  BY Versions DEF MadeNow
<1>1. ASSUME NEW w \in Workers, SkipsSetup(w) PROVE TypeOK'
  BY <1>1, <1>t, <1>p, <1>s, <1>w DEF SkipsSetup, Go, TypeOK
<1>2. ASSUME NEW w \in Workers, Read(w) PROVE TypeOK'
  BY <1>2, <1>t, <1>p, <1>s, <1>w DEF Read, Go, TypeOK
<1>3. ASSUME NEW w \in Workers, PutPolicy(w) PROVE TypeOK'
  BY <1>3, <1>t, <1>p, <1>s, <1>w, <1>m DEF PutPolicy, GivesUp, Forgets, Go, TypeOK
<1>4. ASSUME NEW w \in Workers, PutTemplate(w) PROVE TypeOK'
  <2>1. template' \in Int /\ overtaken' \in BOOLEAN
    BY <1>4, <1>t, Versions DEF PutTemplate, Replaces
  <2>2. pc' \in [Workers -> {"unset", "policy", "template", "mapping", "shipping"}]
    BY <1>4, <1>p DEF PutTemplate, Go, AfterTemplate, AfterRefusal
  <2>3. seen' \in [Workers -> Int]
    BY <1>4, <1>s, <1>m DEF PutTemplate, Forgets
  <2> QED  BY <1>4, <1>t, <1>w, <2>1, <2>2, <2>3 DEF PutTemplate, TypeOK
<1>5. ASSUME NEW w \in Workers, PushMapping(w) PROVE TypeOK'
  <2>1. fields' \in Int
    BY <1>5, <1>t, Versions DEF PushMapping, Newer
  <2>2. warned' \in [Workers -> BOOLEAN]
    BY <1>5, <1>w DEF PushMapping
  <2>3. pc' \in [Workers -> {"unset", "policy", "template", "mapping", "shipping"}]
    BY <1>5, <1>p DEF PushMapping, Go
  <2> QED  BY <1>5, <1>t, <1>s, <2>1, <2>2, <2>3 DEF PushMapping, TypeOK
<1>6. ASSUME NEW w \in Workers, Ship(w) PROVE TypeOK'
  BY <1>6, <1>t, <1>p, <1>s, <1>w, <1>m DEF Ship, CreateStream, TypeOK
<1>7. ASSUME NEW w \in Workers, Restart(w) PROVE TypeOK'
  BY <1>7, <1>t, <1>p, <1>s, <1>w, <1>m DEF Restart, GivesUp, Forgets, Go, TypeOK
<1>8. CASE OperatorBegins
  BY <1>8, <1>t, <1>p, <1>s, <1>w DEF OperatorBegins, TypeOK
<1>9. CASE OperatorPuts
  BY <1>9, <1>t, <1>p, <1>s, <1>w, Versions DEF OperatorPuts, TypeOK
<1>10. CASE OperatorCreates
  BY <1>10, <1>t, <1>p, <1>s, <1>w, <1>m DEF OperatorCreates, CreateStream, TypeOK
<1>11. CASE Rollover
  BY <1>11, <1>t, <1>p, <1>s, <1>w DEF Rollover, TypeOK
<1>12. CASE UNCHANGED vars
  BY <1>12, <1>t, <1>p, <1>s, <1>w DEF vars, TypeOK
<1> QED  BY <1>1, <1>2, <1>3, <1>4, <1>5, <1>6, <1>7, <1>8, <1>9, <1>10, <1>11, <1>12 DEF Next

\* Neither a worker that sets the cluster up nor an operator's script ever makes a
\* data stream with a dynamic mapping, whoever starts, dies or is refused in between
\* (shipper.py:248-253, 640-648).
THEOREM DynamicNever == Spec => []NeverDynamic
<1>1. Init => TypeOK /\ CInv
  BY TypeInit, CInvInit
<1>2. TypeOK /\ CInv /\ [Next]_vars => (TypeOK /\ CInv)'
  BY TypeNext, CInvNext
<1>3. CInv => NeverDynamic
  BY DEF CInv, NeverDynamic
<1> QED  BY <1>1, <1>2, <1>3, PTL DEF Spec

-----------------------------------------------------------------------------
(* Fields mapped, or said.                                                 *)

LEMMA AskedNext == TypeOK /\ Asked /\ [Next]_vars => Asked'
<1> SUFFICES ASSUME TypeOK, Asked, [Next]_vars, NEW x \in Workers,
                    pc'[x] \in {"policy", "template"}
             PROVE  MayInstall(x, seen'[x])
  BY DEF Asked, MayInstall
<1>p. pc \in [Workers -> {"unset", "policy", "template", "mapping", "shipping"}]
  BY DEF TypeOK
<1>s. seen \in [Workers -> Int]
  BY DEF TypeOK
<1>a. pc[x] \in {"policy", "template"} => MayInstall(x, seen[x])
  BY DEF Asked
<1>1. CASE pc'[x] = pc[x] /\ seen'[x] = seen[x]
  BY <1>1, <1>a
<1>2. CASE Read(x)
  BY <1>2, <1>s DEF Read
<1>3. CASE PutPolicy(x)
  BY <1>3, <1>p, <1>s, <1>a DEF PutPolicy, GivesUp, Go, At
<1>4. CASE \/ SkipsSetup(x) \/ PutTemplate(x) \/ PushMapping(x) \/ Restart(x)
  BY <1>4, <1>p DEF SkipsSetup, PutTemplate, PushMapping, Restart, GivesUp, Go, AfterTemplate, AfterRefusal
<1>5. ASSUME NEW w \in Workers, w # x,
             \/ SkipsSetup(w) \/ Read(w) \/ PutPolicy(w) \/ PutTemplate(w)
             \/ PushMapping(w) \/ Restart(w)
      PROVE  pc'[x] = pc[x] /\ seen'[x] = seen[x]
  BY <1>5, <1>p, <1>s DEF SkipsSetup, Read, PutPolicy, PutTemplate, PushMapping, Restart, GivesUp, Forgets, Go
<1>6. ASSUME \/ \E w \in Workers : Ship(w)
             \/ OperatorBegins \/ OperatorPuts \/ OperatorCreates \/ Rollover \/ UNCHANGED vars
      PROVE  pc'[x] = pc[x] /\ seen'[x] = seen[x]
  BY <1>6 DEF Ship, OperatorBegins, OperatorPuts, OperatorCreates, Rollover, vars
<1> QED  BY <1>1, <1>2, <1>3, <1>4, <1>5, <1>6 DEF Next

\* Who replaces what it read leaves the template of every worker that is set up covered.
LEMMA NobodyLeftBehind ==
  ASSUME NEW w \in Workers, NEW x \in Workers, TypeOK, Orderly,
         template >= Version[x], MayInstall(w, seen[w]), template \in {seen[w], Version[w]}
  PROVE  Version[w] >= Version[x]
<1>0. template \in Int /\ Version[x] \in Int /\ Version[x] > 0 /\ Version[w] \in Int
  BY Versions DEF TypeOK
<1>1. CASE template = Version[w]
  BY <1>1
<1>2. CASE template = seen[w] /\ seen[w] \in {None, Unversioned, Version[w]}
  BY <1>2, <1>0, Versions
<1>3. CASE w \in Upgraders
  BY <1>3, <1>0 DEF Orderly
<1> QED  BY <1>1, <1>2, <1>3 DEF MayInstall

LEMMA MInvInit == Init => MInv
BY TypeInit DEF Init, MInv, Asked, Covered, Mapped, Installed, At

LEMMA MInvNext == MInv /\ [Next]_vars => MInv'
<1> SUFFICES ASSUME MInv, [Next]_vars PROVE MInv'
  OBVIOUS
<1>t. TypeOK /\ TypeOK' /\ Asked /\ Asked'
  BY TypeNext, AskedNext DEF MInv
<1> SUFFICES ASSUME Orderly, ~overtaken' PROVE Covered' /\ Mapped'
  BY <1>t DEF MInv, Orderly
<1>o. ~overtaken
  BY DEF Next, SkipsSetup, Read, PutPolicy, PutTemplate, Replaces, PushMapping, Ship, Restart,
         OperatorBegins, OperatorPuts, OperatorCreates, Rollover, vars
<1>h. Covered /\ Mapped
  BY <1>o DEF MInv
<1>n. template \in Int /\ fields \in Int
  BY <1>t DEF TypeOK
<1>p. pc \in [Workers -> {"unset", "policy", "template", "mapping", "shipping"}]
  BY <1>t DEF TypeOK
<1>w. warned \in [Workers -> BOOLEAN]
  BY <1>t DEF TypeOK
<1>1. ASSUME NEW w \in Workers, SkipsSetup(w) PROVE Covered' /\ Mapped'
  BY <1>1, <1>p, <1>h DEF SkipsSetup, Go, Covered, Mapped, Installed, At
<1>2. ASSUME NEW w \in Workers, Read(w) PROVE Covered' /\ Mapped'
  BY <1>2, <1>p, <1>h DEF Read, Go, Covered, Mapped, Installed, At
<1>3. ASSUME NEW w \in Workers, PutPolicy(w) PROVE Covered' /\ Mapped'
  BY <1>3, <1>p, <1>h DEF PutPolicy, GivesUp, Go, Covered, Mapped, Installed, At
<1>4. ASSUME NEW w \in Workers, PutTemplate(w) PROVE Covered' /\ Mapped'
  <2>p. \A x \in Workers : x # w => pc'[x] = pc[x]
    BY <1>4, <1>p DEF PutTemplate, Go
  <2>q. pc'[w] \in {"mapping", "unset"}
    BY <1>4, <1>p DEF PutTemplate, Go, AfterTemplate, AfterRefusal
  <2>1. Mapped'
    BY <1>4, <1>h, <2>p, <2>q DEF PutTemplate, Mapped, At
  <2>2. CASE Replaces(w)
    <3>1. template' = Version[w] /\ template \in {seen[w], Version[w]}
      BY <2>2 DEF Replaces
    <3>2. MayInstall(w, seen[w])
      BY <1>4, <1>t DEF PutTemplate, At, Asked
    <3>3. ASSUME NEW x \in Workers \ Manual, pc'[x] \in {"mapping", "shipping"}
          PROVE  Version[w] >= Version[x]
      <4>1. CASE x = w
        BY <4>1, Versions
      <4>2. CASE x # w
        <5>1. template >= Version[x]
          BY <4>2, <3>3, <2>p, <1>h DEF Covered, Installed
        <5> QED  BY <5>1, <3>1, <3>2, <1>t, NobodyLeftBehind
      <4> QED  BY <4>1, <4>2
    <3>4. Covered'
      BY <3>1, <3>3 DEF Covered, Installed
    <3> QED  BY <3>4, <2>1
  <2>3. CASE Go(w, AfterRefusal(w)) /\ UNCHANGED <<template, overtaken>>
    <3>1. pc'[w] = "unset"
      BY <2>3, <1>p DEF Go, AfterRefusal
    <3> QED  BY <2>1, <2>3, <2>p, <3>1, <1>h DEF Covered, Installed
  <2> QED  BY <1>4, <2>2, <2>3 DEF PutTemplate
<1>5. ASSUME NEW w \in Workers, PushMapping(w) PROVE Covered' /\ Mapped'
  <2>p. \A x \in Workers : x # w => pc'[x] = pc[x]
    BY <1>5, <1>p DEF PushMapping, Go
  <2>q. pc[w] = "mapping"
    BY <1>5 DEF PushMapping, At
  <2>1. Covered'
    BY <1>5, <1>h, <2>p, <2>q DEF PushMapping, Covered, Installed
  <2>2. fields' >= fields /\ template' = template /\ stream' = stream
    BY <1>5, <1>n, Versions DEF PushMapping, Newer
  <2>i. fields' \in Int
    BY <1>t DEF TypeOK
  <2>3. \A x \in Workers : x # w => (warned[x] => warned'[x])
    BY <1>5, <1>w DEF PushMapping
  <2>4. stream = "mapped" => fields' >= Version[w] \/ warned'[w]
    <3>1. CASE fields' = Newer(Version[w])
      BY <3>1, <1>n, Versions DEF Newer
    <3>2. CASE warned' = [warned EXCEPT ![w] = TRUE]
      BY <3>2, <1>w
    <3> QED  BY <1>5, <3>1, <3>2 DEF PushMapping
  <2>5. ASSUME NEW x \in Workers \ Manual, pc'[x] = "shipping", stream' = "mapped"
        PROVE  fields' >= Version[x] \/ warned'[x]
    <3>1. CASE x = w
      BY <3>1, <2>4, <2>5, <2>2
    <3>2. CASE x # w
      <4>1. fields >= Version[x] \/ warned[x]
        BY <3>2, <2>5, <2>p, <2>2, <1>h DEF Mapped, At
      <4>2. CASE fields >= Version[x]
        BY <4>2, <2>2, <2>i, <1>n, Versions
      <4>3. CASE warned[x]
        BY <4>3, <3>2, <2>3
      <4> QED  BY <4>1, <4>2, <4>3
    <3> QED  BY <3>1, <3>2
  <2>6. Mapped'
    BY <2>5 DEF Mapped, At
  <2> QED  BY <2>1, <2>6
<1>6. ASSUME NEW w \in Workers, Ship(w) PROVE Covered' /\ Mapped'
  BY <1>6, <1>h DEF Ship, CreateStream, Covered, Mapped, Installed, At
<1>7. ASSUME NEW w \in Workers, Restart(w) PROVE Covered' /\ Mapped'
  <2>1. \A x \in Workers : x # w => pc'[x] = pc[x] /\ warned'[x] = warned[x]
    BY <1>7, <1>p, <1>w DEF Restart, GivesUp, Go
  <2>2. pc'[w] = "unset"
    BY <1>7, <1>p DEF Restart, GivesUp, Go
  <2> QED  BY <1>7, <1>h, <2>1, <2>2 DEF Restart, Covered, Mapped, Installed, At
<1>8. CASE OperatorBegins
  BY <1>8, <1>h DEF OperatorBegins, Covered, Mapped, Installed, At
<1>9. CASE OperatorPuts
  <2>1. Mapped'
    BY <1>9, <1>h DEF OperatorPuts, Mapped, At
  <2>2. Covered'
    BY <1>9, <1>h, Versions DEF OperatorPuts, Covered, Installed, Orderly
  <2> QED  BY <2>1, <2>2
<1>10. CASE OperatorCreates
  BY <1>10, <1>h DEF OperatorCreates, CreateStream, Covered, Mapped, Installed, At
<1>11. CASE Rollover
  BY <1>11, <1>h DEF Rollover, Covered, Mapped, Installed, At
<1>12. CASE UNCHANGED vars
  BY <1>12, <1>h DEF vars, Covered, Mapped, Installed, At
<1> QED  BY <1>1, <1>2, <1>3, <1>4, <1>5, <1>6, <1>7, <1>8, <1>9, <1>10, <1>11, <1>12 DEF Next

\* A worker that ships has its fields on the write index or has said that it may not
\* (FR-60, shipper.py:558-588).
THEOREM MappedOrSaidHolds == Spec => []MappedOrSaid
<1>1. MInv => MappedOrSaid
  BY DEF MInv, Mapped, MappedOrSaid
<1> QED  BY MInvInit, MInvNext, <1>1, PTL DEF Spec
=============================================================================
