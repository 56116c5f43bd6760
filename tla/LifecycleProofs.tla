--------------------------- MODULE LifecycleProofs ---------------------------
(***************************************************************************)
(* For any stack of middlewares, any number of mounted ones and of         *)
(* documents: emit() finds a sink while the application serves, shutdown   *)
(* takes things down in order, and what is lost is counted once.           *)
(***************************************************************************)
EXTENDS Lifecycle, FiniteSetTheorems, TLAPS

-----------------------------------------------------------------------------
(* Where the lifespan stands decides what has been closed.                 *)

LifeTyped ==
  /\ stage \in {"boot", "starting", "serving", "closing", "over", "gone"}
  /\ at \in DOMAIN Stack
  /\ started \subseteq Middlewares /\ closed \subseteq started
  /\ sink \in [Middlewares -> {"new", "open", "closing", "closed"}]
  /\ shipper \in [Middlewares -> {"none", "running", "stopped"}]
  /\ enricher \in [Middlewares -> {"open", "closed"}]
  /\ active \in Middlewares \cup {None}

\* How far a turn of each stage can be.
StepOfStage ==
  /\ stage \in {"boot", "serving"} => step = "sink" /\ at = 1
  /\ stage = "starting" => step \in {"sink", "activate", "ship"}
  /\ stage = "closing" => step \in {"ship", "sink", "drain"}

\* Nobody has begun to close m.
Untouched(m) == m \notin closed /\ sink[m] \in {"new", "open"} /\ enricher[m] = "open"

\* Nothing of m is left.
Down(m) ==
  /\ m \in closed /\ sink[m] = "closed" /\ enricher[m] = "closed"
  /\ shipper[m] # "running"

\* The middleware whose turn it is to close.
HalfDown(m) ==
  /\ step \in {"ship", "sink"} => Untouched(m)
  /\ step \in {"sink", "drain"} => shipper[m] # "running"
  /\ step = "drain" => m \in closed /\ sink[m] = "closing" /\ enricher[m] = "open"

\* Closing goes down the stack, and reaches nobody else.
ClosedInTurn ==
  /\ \A m \in Mounted : Untouched(m) /\ shipper[m] = "none"
  /\ stage \in {"boot", "starting", "serving"} => \A m \in Middlewares : Untouched(m)
  /\ stage = "closing" => \A i \in DOMAIN Stack :
       /\ i < at => Down(Stack[i])
       /\ i = at => HalfDown(Stack[i])
       /\ i > at => Untouched(Stack[i])
  /\ stage \in {"over", "gone"} => \A i \in DOMAIN Stack : Down(Stack[i])

\* Starting goes down the stack; whoever is started is or has been registered,
\* but for the one that is about to be.
StartedInTurn ==
  /\ stage = "starting" => \A i \in DOMAIN Stack :
       i < at \/ (i = at /\ step # "sink") => Stack[i] \in started
  /\ stage \in {"serving", "closing", "over", "gone"} => Range(Stack) \subseteq started
  /\ stage \in {"boot", "starting", "serving"} /\ active = None =>
       started \subseteq (IF stage = "starting" /\ step = "activate" THEN {Stack[at]} ELSE {})

ActiveIsLive == active # None => active \in started \ closed

LInv == LifeTyped /\ StepOfStage /\ ClosedInTurn /\ StartedInTurn /\ ActiveIsLive

LEMMA TurnIsInStack ==
  ASSUME at \in DOMAIN Stack
  PROVE  /\ Turn \in Middlewares /\ Turn \in Range(Stack) /\ Turn \notin Mounted
         /\ Turn # None
         /\ DOMAIN Stack = 1..Len(Stack) /\ Len(Stack) \in Nat /\ at \in 1..Len(Stack)
         /\ \A i \in DOMAIN Stack : Stack[i] = Turn <=> i = at
         /\ \A i \in DOMAIN Stack : Stack[i] \in Middlewares
  BY StackAssumption DEF Turn, Middlewares, Range

LEMMA LInit == Init => LInv
<1> SUFFICES ASSUME Init PROVE LInv
  OBVIOUS
<1>1. 1 \in DOMAIN Stack
  BY StackAssumption
<1>2. LifeTyped /\ StepOfStage
  BY <1>1 DEF Init, LifeTyped, StepOfStage
<1>3. ClosedInTurn
  BY DEF Init, ClosedInTurn, Untouched, Middlewares
<1>4. StartedInTurn /\ ActiveIsLive
  BY DEF Init, StartedInTurn, ActiveIsLive
<1> QED  BY <1>2, <1>3, <1>4 DEF LInv

\* What leaves the lifespan, the sinks and the active one alone.
LEMMA LElsewhere ==
  ASSUME LInv, UNCHANGED <<life, sink, active>>
  PROVE  LInv'
  BY DEF LInv, life, LifeTyped, StepOfStage, ClosedInTurn, StartedInTurn, ActiveIsLive,
         Untouched, Down, HalfDown

\* A sink that was built is started, by a task; or a middleware starts itself on
\* a request, and becomes the active one.
LEMMA LRequest ==
  ASSUME LInv, NEW m \in Middlewares,
         \/ /\ UNCHANGED <<life, active>>
            /\ sink' = IF sink[m] = "new" THEN [sink EXCEPT ![m] = "open"] ELSE sink
         \/ /\ UNCHANGED <<stage, at, step, closed, shipper, enricher, sink>>
            /\ EnsureStarted(m)
  PROVE  LInv'
<1>1. CASE /\ UNCHANGED <<life, active>>
           /\ sink' = IF sink[m] = "new" THEN [sink EXCEPT ![m] = "open"] ELSE sink
  BY <1>1, TurnIsInStack
  DEF LInv, life, LifeTyped, StepOfStage, ClosedInTurn, StartedInTurn, ActiveIsLive,
      Untouched, Down, HalfDown, Middlewares
<1>2. CASE /\ UNCHANGED <<stage, at, step, closed, shipper, enricher, sink>>
           /\ EnsureStarted(m)
  BY <1>2, StackAssumption
  DEF LInv, EnsureStarted, LifeTyped, StepOfStage, ClosedInTurn, StartedInTurn,
      ActiveIsLive, Untouched, Down, HalfDown
<1> QED  BY <1>1, <1>2

-----------------------------------------------------------------------------
(* The steps of the lifespan.                                              *)

LEMMA LStarting ==
  ASSUME LInv, \/ StartupCompletes \/ AlreadyStarted \/ StartSink
               \/ \E ok \in BOOLEAN : Activate(ok) \/ StartShipper(ok)
  PROVE  LInv'
<1> USE DEF LInv
<1>0. /\ at \in DOMAIN Stack
      /\ Turn \in Middlewares /\ Turn \in Range(Stack) /\ Turn # None /\ Turn = Stack[at]
      /\ DOMAIN Stack = 1..Len(Stack) /\ Len(Stack) \in Nat
  BY TurnIsInStack DEF LifeTyped, Turn
<1>1. CASE StartupCompletes
  BY <1>0, <1>1
  DEF StartupCompletes, LifeTyped, StepOfStage, ClosedInTurn, StartedInTurn, ActiveIsLive,
      Untouched
<1>2. CASE AlreadyStarted
  <2>1. active # None
    BY <1>2 DEF AlreadyStarted, StartedInTurn
  <2>2. LifeTyped' /\ StepOfStage'
    BY <1>0, <1>2 DEF AlreadyStarted, PassOn, LifeTyped, StepOfStage
  <2>3. ClosedInTurn'
    BY <1>2 DEF AlreadyStarted, PassOn, ClosedInTurn, Untouched
  <2>4. StartedInTurn'
    BY <1>0, <1>2, <2>1 DEF AlreadyStarted, PassOn, StartedInTurn, Range
  <2>5. ActiveIsLive'
    BY <1>2 DEF AlreadyStarted, ActiveIsLive
  <2> QED  BY <2>2, <2>3, <2>4, <2>5
<1>3. CASE StartSink
  <2>1. LifeTyped' /\ StepOfStage'
    BY <1>0, <1>3 DEF StartSink, here, LifeTyped, StepOfStage
  <2>2. ClosedInTurn' /\ ActiveIsLive'
    BY <1>3 DEF StartSink, here, ClosedInTurn, Untouched, ActiveIsLive
  <2>3. StartedInTurn'
    BY <1>0, <1>3 DEF StartSink, here, StartedInTurn
  <2> QED  BY <2>1, <2>2, <2>3
<1>4. ASSUME NEW ok \in BOOLEAN, Activate(ok) PROVE LInv'
  <2>1. LifeTyped' /\ StepOfStage'
    BY <1>0, <1>4 DEF Activate, PassOn, here, LifeTyped, StepOfStage
  <2>2. ClosedInTurn'
    BY <1>0, <1>4 DEF Activate, PassOn, here, LifeTyped, ClosedInTurn, Untouched, Middlewares
  <2>3. StartedInTurn'
    BY <1>0, <1>4 DEF Activate, PassOn, here, StartedInTurn, Range
  <2>4. ActiveIsLive'
    BY <1>0, <1>4 DEF Activate, StartedInTurn, ClosedInTurn, Untouched, ActiveIsLive
  <2> QED  BY <2>1, <2>2, <2>3, <2>4
<1>5. ASSUME NEW ok \in BOOLEAN, StartShipper(ok) PROVE LInv'
  <2>1. LifeTyped' /\ StepOfStage'
    BY <1>0, <1>5 DEF StartShipper, PassOn, LifeTyped, StepOfStage
  <2>2. ClosedInTurn'
    BY <1>0, <1>5, StackAssumption
    DEF StartShipper, PassOn, LifeTyped, ClosedInTurn, Untouched
  <2>3. StartedInTurn'
    BY <1>0, <1>5 DEF StartShipper, PassOn, StartedInTurn, Range
  <2>4. ActiveIsLive'
    BY <1>5 DEF StartShipper, ActiveIsLive
  <2> QED  BY <2>1, <2>2, <2>3, <2>4
<1> QED  BY <1>1, <1>2, <1>3, <1>4, <1>5

LEMMA LClosing ==
  ASSUME LInv, \/ ShutdownArrives \/ CloseSink \/ LoopEnds
               \/ \E inTime \in BOOLEAN : CloseShipper(inTime) \/ SinkClosed(inTime)
  PROVE  LInv'
<1> USE DEF LInv
<1>0. /\ at \in DOMAIN Stack
      /\ Turn \in Middlewares /\ Turn \in Range(Stack) /\ Turn # None /\ Turn = Stack[at]
      /\ Turn \notin Mounted
      /\ DOMAIN Stack = 1..Len(Stack) /\ Len(Stack) \in Nat /\ at \in 1..Len(Stack)
      /\ \A i \in DOMAIN Stack : Stack[i] = Turn <=> i = at
      /\ \A i \in DOMAIN Stack : Stack[i] \in Middlewares
  BY TurnIsInStack DEF LifeTyped, Turn
<1>1. CASE ShutdownArrives
  BY <1>0, <1>1
  DEF ShutdownArrives, LifeTyped, StepOfStage, ClosedInTurn, StartedInTurn, ActiveIsLive,
      Untouched, Down, HalfDown
<1>2. ASSUME NEW inTime \in BOOLEAN, CloseShipper(inTime) PROVE LInv'
  <2>1. LifeTyped' /\ StepOfStage'
    BY <1>0, <1>2 DEF CloseShipper, here, LifeTyped, StepOfStage
  <2>2. ClosedInTurn'
    BY <1>0, <1>2
    DEF CloseShipper, here, LifeTyped, ClosedInTurn, Untouched, Down, HalfDown, Middlewares
  <2>3. StartedInTurn' /\ ActiveIsLive'
    BY <1>2 DEF CloseShipper, here, StartedInTurn, ActiveIsLive
  <2> QED  BY <2>1, <2>2, <2>3
<1>3. CASE CloseSink
  <2>1. Turn \in started
    BY <1>0, <1>3 DEF CloseSink, StartedInTurn
  <2>2. LifeTyped' /\ StepOfStage'
    BY <1>0, <1>3, <2>1
    DEF CloseSink, Cleared, EnricherAtClose, here, LifeTyped, StepOfStage
  <2>3. ClosedInTurn'
    BY <1>0, <1>3
    DEF CloseSink, EnricherAtClose, here, LifeTyped, ClosedInTurn, Untouched, Down,
        HalfDown, Middlewares
  <2>4. StartedInTurn' /\ ActiveIsLive'
    BY <1>3 DEF CloseSink, Cleared, here, StartedInTurn, ActiveIsLive
  <2> QED  BY <2>2, <2>3, <2>4
<1>4. ASSUME NEW inTime \in BOOLEAN, SinkClosed(inTime) PROVE LInv'
  <2>1. LifeTyped' /\ StepOfStage'
    BY <1>0, <1>4 DEF SinkClosed, PassOn, LifeTyped, StepOfStage
  <2>2. \A i \in DOMAIN Stack : /\ i < at => Down(Stack[i])'
                                /\ i = at => Down(Stack[i])'
                                /\ i > at => Untouched(Stack[i])'
    <3> SUFFICES ASSUME NEW i \in DOMAIN Stack
                 PROVE  /\ i < at => Down(Stack[i])'
                        /\ i = at => Down(Stack[i])'
                        /\ i > at => Untouched(Stack[i])'
      OBVIOUS
    <3>1. /\ i < at => Down(Stack[i])
          /\ i = at => HalfDown(Stack[i])
          /\ i > at => Untouched(Stack[i])
      BY <1>4 DEF SinkClosed, ClosedInTurn
    <3>2. CASE i = at
      BY <1>0, <1>4, <3>1, <3>2 DEF SinkClosed, LifeTyped, Down, HalfDown
    <3>3. CASE i # at
      BY <1>0, <1>4, <3>1, <3>3 DEF SinkClosed, LifeTyped, Down, Untouched
    <3> QED  BY <3>2, <3>3
  <2>3. \A m \in Mounted : Untouched(m)' /\ shipper'[m] = "none"
    BY <1>0, <1>4 DEF SinkClosed, LifeTyped, ClosedInTurn, Untouched, Middlewares
  <2>4. ClosedInTurn'
    <3>1. CASE at < Len(Stack)
      <4>1. \A i \in DOMAIN Stack : i < at + 1 => i <= at
        BY <1>0
      <4>2. stage' = "closing" /\ at' = at + 1 /\ step' = "ship"
        BY <1>4, <3>1 DEF SinkClosed, PassOn
      <4>3. \A i \in DOMAIN Stack : /\ i <= at => Down(Stack[i])'
                                    /\ i > at => Untouched(Stack[i])'
        BY <1>0, <2>2
      <4> QED  BY <1>0, <2>3, <4>1, <4>2, <4>3 DEF ClosedInTurn, HalfDown, Untouched
    <3>2. CASE ~(at < Len(Stack))
      <4>1. stage' = "over" /\ \A i \in DOMAIN Stack : i <= at
        BY <1>0, <1>4, <3>2 DEF SinkClosed, PassOn
      <4>2. \A i \in DOMAIN Stack : Down(Stack[i])'
        BY <1>0, <2>2, <4>1
      <4> QED  BY <2>3, <4>1, <4>2 DEF ClosedInTurn
    <3> QED  BY <3>1, <3>2
  <2>5. StartedInTurn' /\ ActiveIsLive'
    BY <1>4 DEF SinkClosed, PassOn, StartedInTurn, ActiveIsLive
  <2> QED  BY <2>1, <2>4, <2>5
<1>5. CASE LoopEnds
  BY <1>0, <1>5
  DEF LoopEnds, LifeTyped, StepOfStage, ClosedInTurn, StartedInTurn, ActiveIsLive,
      Untouched, Down
<1> QED  BY <1>1, <1>2, <1>3, <1>4, <1>5

LEMMA LStep == LInv /\ [Next]_vars => LInv'
<1> SUFFICES ASSUME LInv, [Next]_vars PROVE LInv'
  OBVIOUS
<1>1. CASE UNCHANGED vars
  BY <1>1, LElsewhere DEF vars
<1>2. ASSUME NEW m \in Middlewares, LazyStart(m) \/ Flush(m) \/ Ship(m) PROVE LInv'
  BY <1>2, LElsewhere, LRequest DEF LazyStart, Flush, Ship
<1>3. ASSUME NEW m \in Middlewares, NEW d \in Docs, NEW taken \in BOOLEAN, Submit(m, d, taken)
      PROVE LInv'
  BY <1>3, LRequest DEF Submit
<1>4. ASSUME NEW d \in Docs, EmitFindsNone(d) \/ ThreadReads(d) \/ ThreadHandsOver(d)
      PROVE LInv'
  BY <1>4, LElsewhere DEF EmitFindsNone, ThreadReads, ThreadHandsOver
<1>5. ASSUME NEW d \in Docs, NEW fate \in Fates, EmitOnLoop(d, fate) \/ ThreadSubmits(d, fate)
      PROVE LInv'
  BY <1>5, LElsewhere DEF EmitOnLoop, ThreadSubmits
<1>6. ASSUME NEW d \in Docs, NEW taken \in BOOLEAN, LoopEnqueues(d, taken) PROVE LInv'
  BY <1>6, LElsewhere DEF LoopEnqueues
<1>7. CASE \/ StartupCompletes \/ AlreadyStarted \/ StartSink
           \/ \E ok \in BOOLEAN : Activate(ok) \/ StartShipper(ok)
  BY <1>7, LStarting
<1>8. CASE \/ ShutdownArrives \/ CloseSink \/ LoopEnds
           \/ \E inTime \in BOOLEAN : CloseShipper(inTime) \/ SinkClosed(inTime)
  BY <1>8, LClosing
<1> QED  BY <1>1, <1>2, <1>3, <1>4, <1>5, <1>6, <1>7, <1>8, Zenon DEF Next

-----------------------------------------------------------------------------
(* What follows.                                                           *)

\* How far any middleware has been taken down.
LEMMA HowFarDown ==
  ASSUME LInv, NEW m \in Middlewares
  PROVE  \/ Untouched(m) /\ (stage \in {"over", "gone"} => m \in Mounted)
         \/ Down(m)
         \/ HalfDown(m) /\ stage = "closing" /\ step \in {"ship", "sink", "drain"}
<1> USE DEF LInv
<1>1. CASE m \in Mounted
  BY <1>1 DEF ClosedInTurn
<1>2. CASE m \in Range(Stack)
  <2>1. PICK i \in DOMAIN Stack : m = Stack[i]
    BY <1>2 DEF Range
  <2>2. i \in Int /\ at \in Int
    BY TurnIsInStack DEF LifeTyped
  <2>3. stage # "closing" => \/ Untouched(m) /\ stage \in {"boot", "starting", "serving"}
                             \/ Down(m)
    BY <2>1 DEF LifeTyped, ClosedInTurn
  <2>4. stage = "closing" => Untouched(m) \/ Down(m) \/ HalfDown(m)
    BY <2>1, <2>2 DEF ClosedInTurn
  <2> QED  BY <2>3, <2>4 DEF StepOfStage
<1> QED  BY <1>1, <1>2 DEF Middlewares

\* While the application serves there is an active sink, and it takes documents:
\* starting registers it before anything is served, closing takes it away first.
THEOREM EmitFindsASinkHolds == Spec => []EmitFindsASink
<1>1. LInv => EmitFindsASink
  <2> SUFFICES ASSUME LInv PROVE EmitFindsASink
    OBVIOUS
  <2>1. stage = "serving" => active # None
    <3> SUFFICES ASSUME stage = "serving", active = None PROVE FALSE
      OBVIOUS
    <3>1. Stack[at] \in started
      BY DEF LInv, LifeTyped, StartedInTurn, Range
    <3> QED  BY <3>1 DEF LInv, StartedInTurn
  <2>2. \A m \in Middlewares : m \notin closed => TakesMore(m)
    BY HowFarDown DEF LInv, HalfDown, Untouched, Down, TakesMore
  <2> QED  BY <2>1, <2>2 DEF LInv, LifeTyped, ActiveIsLive, EmitFindsASink
<1> QED  BY <1>1, LInit, LStep, PTL DEF Spec

\* The enricher outlives the sink that calls it, the shipper is stopped before
\* its sink closes, and nothing is left when the lifespan is over.
THEOREM TornDownInOrderHolds == Spec => []TornDownInOrder
<1>1. LInv => TornDownInOrder
  BY HowFarDown, StackAssumption DEF Untouched, Down, HalfDown, TornDownInOrder
<1> QED  BY <1>1, LInit, LStep, PTL DEF Spec
-----------------------------------------------------------------------------
(* One loss counter.                                                       *)

CallStates == {"new", "read", "handed", "yes", "no"}
InPlace(d) == \E m \in Middlewares : d \in queue[m] \cup stored[m]
Denied == {d \in Docs : call[d].state = "no"}

\* A document is in a queue or stored only for a submitter that was told so, and
\* a thread on its way to a sink knows which.
CallsKnown ==
  /\ call \in [Docs -> [state : CallStates, to : Middlewares \cup {None}]]
  /\ \A d \in Docs : /\ call[d].state \in {"read", "handed"} => call[d].to \in Middlewares
                     /\ InPlace(d) => call[d].state = "yes"

CountersTyped ==
  /\ lost \in [Middlewares -> Nat] /\ refused \in [Middlewares -> Nat] /\ withoutSink \in Nat
  /\ queue \in [Middlewares -> SUBSET Docs] /\ stored \in [Middlewares -> SUBSET Docs]

Whose == Middlewares \cup {None}
GoneAt(m) == {d \in Gone : call[d].to = m}
DeniedAt(m) == {d \in Denied : call[d].to = m}
Refusals(m) == IF m = None THEN withoutSink ELSE refused[m]

MInv ==
  /\ CallsKnown /\ CountersTyped
  /\ \A m \in Whose : Cardinality(GoneAt(m)) = Counted(m) /\ Refusals(m) <= Cardinality(DeniedAt(m))

LEMMA MInit == Init => MInv
<1> SUFFICES ASSUME Init PROVE MInv
  OBVIOUS
<1>1. CallsKnown /\ CountersTyped
  BY DEF Init, CallsKnown, CountersTyped, CallStates, InPlace
<1>2. \A m \in Whose : GoneAt(m) = {} /\ DeniedAt(m) = {}
  BY DEF Init, Gone, Denied, GoneAt, DeniedAt
<1>3. \A m \in Whose : Counted(m) = 0 /\ Refusals(m) = 0
  BY DEF Init, Whose, Counted, Refusals
<1> QED  BY <1>1, <1>2, <1>3, FS_EmptySet DEF MInv

LEMMA SetsOfDocs ==
  ASSUME NEW S, S \subseteq Docs
  PROVE  /\ IsFiniteSet(S) /\ Cardinality(S) \in Nat
         /\ \A d \in Docs \ S : Cardinality(S \cup {d}) = Cardinality(S) + 1
  BY FiniteAssumption, FS_Subset, FS_CardinalityType, FS_AddElement

\* Documents stay gone, and nobody gets an answer.
LEMMA MElsewhere ==
  ASSUME MInv, CallsKnown', CountersTyped', UNCHANGED counters,
         \A d \in Docs : /\ call[d].state \in {"yes", "no"} <=> call'[d].state \in {"yes", "no"}
                         /\ call[d].state = "no" <=> call'[d].state = "no"
                         /\ call[d].state \in {"yes", "no"} => call'[d].to = call[d].to
                         /\ InPlace(d) <=> InPlace(d)'
  PROVE  MInv'
<1>1. Gone' = Gone /\ Denied' = Denied
  BY DEF Gone, InPlace, Denied
<1>2. \A m : GoneAt(m)' = GoneAt(m) /\ DeniedAt(m)' = DeniedAt(m)
  BY <1>1 DEF Gone, Denied, GoneAt, DeniedAt
<1>3. \A m : Counted(m)' = Counted(m) /\ Refusals(m)' = Refusals(m)
  BY DEF Counted, Refusals, counters
<1> QED  BY <1>2, <1>3 DEF MInv

\* One submitter gets its answer: its document is in place, or gone and counted
\* once by whom it was meant for; who is told no has been counted as refused at
\* most once.
LEMMA MAnswers ==
  ASSUME MInv, CallsKnown', CountersTyped', NEW d \in Docs,
         call[d].state \notin {"yes", "no"}, call'[d].state \in {"yes", "no"},
         \A e \in Docs \ {d} : call'[e] = call[e] /\ (InPlace(e) <=> InPlace(e)'),
         \A m \in Whose :
           /\ Counted(m)' = Counted(m) + (IF m = call'[d].to /\ ~InPlace(d)' THEN 1 ELSE 0)
           /\ Refusals(m)' <= Refusals(m) + (IF m = call'[d].to /\ call'[d].state = "no" THEN 1 ELSE 0)
  PROVE  MInv'
<1> SUFFICES ASSUME NEW m \in Whose
             PROVE  Cardinality(GoneAt(m)') = Counted(m)' /\ Refusals(m)' <= Cardinality(DeniedAt(m)')
  BY DEF MInv, Whose
<1> DEFINE lose == m = call'[d].to /\ ~InPlace(d)'
           deny == m = call'[d].to /\ call'[d].state = "no"
<1>1. GoneAt(m)' = IF lose THEN GoneAt(m) \cup {d} ELSE GoneAt(m)
  BY DEF Gone, GoneAt, InPlace
<1>2. DeniedAt(m)' = IF deny THEN DeniedAt(m) \cup {d} ELSE DeniedAt(m)
  BY DEF Denied, DeniedAt
<1>3. GoneAt(m) \subseteq Docs /\ DeniedAt(m) \subseteq Docs /\ d \notin GoneAt(m) /\ d \notin DeniedAt(m)
  BY DEF Gone, Denied, GoneAt, DeniedAt
<1>4. /\ Cardinality(GoneAt(m) \cup {d}) = Cardinality(GoneAt(m)) + 1
      /\ Cardinality(DeniedAt(m) \cup {d}) = Cardinality(DeniedAt(m)) + 1
      /\ Cardinality(GoneAt(m)) \in Nat /\ Cardinality(DeniedAt(m)) \in Nat
  BY <1>3, SetsOfDocs
<1>5. /\ Cardinality(GoneAt(m)) = Counted(m) /\ Refusals(m) <= Cardinality(DeniedAt(m))
      /\ Counted(m)' = Counted(m) + (IF lose THEN 1 ELSE 0)
      /\ Refusals(m)' <= Refusals(m) + (IF deny THEN 1 ELSE 0)
  BY DEF MInv
<1>6. Counted(m) \in Nat /\ Refusals(m) \in Nat /\ Refusals(m)' \in Nat
  BY DEF MInv, CountersTyped, Counted, Refusals, Whose
<1> HIDE DEF lose, deny
<1>7. Cardinality(GoneAt(m)') = Counted(m)'
  BY <1>1, <1>4, <1>5
<1>8. Refusals(m)' <= Cardinality(DeniedAt(m)')
  BY <1>2, <1>4, <1>5, <1>6
<1> QED  BY <1>7, <1>8

\* A document d goes to the queue of m, or nowhere.
LEMMA MQueues ==
  ASSUME MInv, NEW d \in Docs, NEW m \in Middlewares, NEW to \in Middlewares \cup {None},
         NEW taken \in BOOLEAN, NEW yes \in BOOLEAN, taken => yes,
         call[d].state \notin {"yes", "no"},
         queue' = IF taken THEN [queue EXCEPT ![m] = @ \cup {d}] ELSE queue,
         UNCHANGED stored, call' = Answered(d, to, yes)
  PROVE  /\ CallsKnown' /\ queue' \in [Middlewares -> SUBSET Docs] /\ stored' \in [Middlewares -> SUBSET Docs]
         /\ call'[d].state = (IF yes THEN "yes" ELSE "no") /\ call'[d].to = to
         /\ InPlace(d)' <=> taken
         /\ \A e \in Docs \ {d} : call'[e] = call[e] /\ (InPlace(e) <=> InPlace(e)')
<1> DEFINE answer == [state |-> IF yes THEN "yes" ELSE "no", to |-> to]
<1>1. /\ call \in [Docs -> [state : CallStates, to : Middlewares \cup {None}]]
      /\ queue \in [Middlewares -> SUBSET Docs] /\ stored \in [Middlewares -> SUBSET Docs]
      /\ ~InPlace(d)
  BY DEF MInv, CallsKnown, CountersTyped
<1>2. answer \in [state : CallStates, to : Middlewares \cup {None}]
  BY DEF CallStates
<1>3. answer.state = (IF yes THEN "yes" ELSE "no") /\ answer.to = to
  OBVIOUS
<1>4. call' = [call EXCEPT ![d] = answer]
  BY DEF Answered
<1> HIDE DEF answer
<1>5. /\ call' \in [Docs -> [state : CallStates, to : Middlewares \cup {None}]]
      /\ call'[d] = answer /\ \A e \in Docs \ {d} : call'[e] = call[e]
  BY <1>1, <1>2, <1>4
<1>6. /\ queue' \in [Middlewares -> SUBSET Docs]
      /\ queue'[m] = (IF taken THEN queue[m] \cup {d} ELSE queue[m])
      /\ \A n \in Middlewares \ {m} : queue'[n] = queue[n]
  BY <1>1
<1>7. \A e \in Docs \ {d} : InPlace(e) <=> InPlace(e)'
  BY <1>6 DEF InPlace
<1>8. InPlace(d)' <=> taken
  BY <1>1, <1>6 DEF InPlace
<1>9. CallsKnown'
  <2>1. ASSUME NEW e \in Docs
        PROVE  /\ call'[e].state \in {"read", "handed"} => call'[e].to \in Middlewares
               /\ InPlace(e)' => call'[e].state = "yes"
    <3>1. CASE e = d
      BY <3>1, <1>3, <1>5, <1>8
    <3>2. CASE e # d
      BY <3>2, <1>5, <1>7 DEF MInv, CallsKnown
    <3> QED  BY <3>1, <3>2
  <2> QED  BY <2>1, <1>5 DEF CallsKnown
<1> QED  BY <1>1, <1>3, <1>5, <1>6, <1>7, <1>8, <1>9

\* What does not answer anybody, and loses nothing.
LEMMA MQuiet ==
  ASSUME MInv, UNCHANGED <<queue, stored, call, counters>>
  PROVE  MInv'
<1>1. CallsKnown' /\ CountersTyped'
  BY DEF MInv, CallsKnown, CountersTyped, InPlace, counters
<1>2. Gone' = Gone /\ Denied' = Denied
  BY DEF Gone, Denied
<1>3. \A m : Counted(m)' = Counted(m) /\ Refusals(m)' = Refusals(m)
  BY DEF Counted, Refusals, counters
<1>4. \A m : GoneAt(m)' = GoneAt(m) /\ DeniedAt(m)' = DeniedAt(m)
  BY <1>2 DEF GoneAt, DeniedAt
<1> QED  BY <1>1, <1>3, <1>4 DEF MInv

\* A queue is written to its file.
LEMMA MWritten ==
  ASSUME MInv, NEW m \in Middlewares,
         stored' = [stored EXCEPT ![m] = @ \cup queue[m]],
         queue' = [queue EXCEPT ![m] = {}], UNCHANGED <<call, counters>>
  PROVE  MInv'
<1>1. queue \in [Middlewares -> SUBSET Docs] /\ stored \in [Middlewares -> SUBSET Docs]
  BY DEF MInv, CountersTyped
<1>2. \A n \in Middlewares : queue'[n] \cup stored'[n] = queue[n] \cup stored[n]
  BY <1>1
<1>3. \A d \in Docs : InPlace(d) <=> InPlace(d)'
  BY <1>2 DEF InPlace
<1>4. CallsKnown' /\ CountersTyped'
  BY <1>1, <1>3 DEF MInv, CallsKnown, CountersTyped, counters
<1> QED  BY <1>3, <1>4, MElsewhere

\* A thread goes one step further.
LEMMA MThread ==
  ASSUME MInv, NEW d \in Docs, NEW s \in {"read", "handed"}, NEW to \in Middlewares,
         call[d].state \in {"new", "read"}, call' = [call EXCEPT ![d] = [state |-> s, to |-> to]],
         UNCHANGED <<queue, stored, counters>>
  PROVE  MInv'
<1> DEFINE way == [state |-> s, to |-> to]
<1>1. call \in [Docs -> [state : CallStates, to : Middlewares \cup {None}]]
  BY DEF MInv, CallsKnown
<1>2. /\ way \in [state : CallStates, to : Middlewares \cup {None}]
      /\ way.state = s /\ way.to = to
  BY DEF CallStates
<1> HIDE DEF way
<1>3. /\ call' \in [Docs -> [state : CallStates, to : Middlewares \cup {None}]]
      /\ call'[d] = way /\ \A e \in Docs \ {d} : call'[e] = call[e]
  BY <1>1, <1>2 DEF way
<1>4. \A e \in Docs : InPlace(e) <=> InPlace(e)'
  BY DEF InPlace
<1>5. ~InPlace(d)
  BY DEF MInv, CallsKnown
<1>6. \A e \in Docs : /\ call'[e].state \in {"read", "handed"} => call'[e].to \in Middlewares
                      /\ InPlace(e)' => call'[e].state = "yes"
  BY <1>2, <1>3, <1>4, <1>5 DEF MInv, CallsKnown
<1>7. CallsKnown' /\ CountersTyped'
  BY <1>3, <1>6 DEF MInv, CallsKnown, CountersTyped, counters
<1>8. \A e \in Docs : /\ call[e].state \in {"yes", "no"} <=> call'[e].state \in {"yes", "no"}
                      /\ call[e].state = "no" <=> call'[e].state = "no"
                      /\ call[e].state \in {"yes", "no"} => call'[e].to = call[e].to
  BY <1>2, <1>3
<1> QED  BY <1>4, <1>7, <1>8, MElsewhere

\* A sink takes a document or counts its loss.
LEMMA MEnqueued ==
  ASSUME MInv, NEW d \in Docs, NEW m \in Middlewares, NEW taken \in BOOLEAN,
         NEW yes \in BOOLEAN, taken => yes, call[d].state \notin {"yes", "no"},
         Enqueue(m, d, taken), call' = Answered(d, m, yes),
         UNCHANGED <<stored, refused, withoutSink>>
  PROVE  MInv'
<1>1. /\ lost \in [Middlewares -> Nat] /\ refused \in [Middlewares -> Nat] /\ withoutSink \in Nat
  BY DEF MInv, CountersTyped
<1>2. queue' = (IF taken THEN [queue EXCEPT ![m] = @ \cup {d}] ELSE queue)
  BY DEF Enqueue
<1>3. /\ CallsKnown' /\ queue' \in [Middlewares -> SUBSET Docs] /\ stored' \in [Middlewares -> SUBSET Docs]
      /\ call'[d].state = (IF yes THEN "yes" ELSE "no") /\ call'[d].to = m
      /\ InPlace(d)' <=> taken
      /\ \A e \in Docs \ {d} : call'[e] = call[e] /\ (InPlace(e) <=> InPlace(e)')
  BY <1>2, MQueues
<1>4. lost' \in [Middlewares -> Nat]
  BY <1>1 DEF Enqueue
<1>5. CountersTyped'
  BY <1>1, <1>3, <1>4 DEF CountersTyped
<1>6. \A n \in Middlewares : lost'[n] = lost[n] + (IF n = m /\ ~taken THEN 1 ELSE 0)
  BY <1>1 DEF Enqueue
<1>7. m # None
  BY StackAssumption
<1>8. ASSUME NEW n \in Whose
      PROVE  /\ Counted(n)' = Counted(n) + (IF n = call'[d].to /\ ~InPlace(d)' THEN 1 ELSE 0)
             /\ Refusals(n)' <= Refusals(n) + (IF n = call'[d].to /\ call'[d].state = "no" THEN 1 ELSE 0)
  <2>1. Counted(n)' = Counted(n) + (IF n = m /\ ~taken THEN 1 ELSE 0)
    BY <1>1, <1>6, <1>7 DEF Counted, Whose
  <2>2. Refusals(n)' = Refusals(n) /\ Refusals(n) \in Nat
    BY <1>1 DEF Refusals, Whose
  <2> QED  BY <1>3, <2>1, <2>2
<1>9. call'[d].state \in {"yes", "no"}
  BY <1>3
<1> QED  BY <1>3, <1>5, <1>8, <1>9, MAnswers

\* emit() reaches a middleware.
LEMMA MEmitted ==
  ASSUME MInv, NEW d \in Docs, NEW m \in Middlewares, NEW fate \in Fates,
         call[d].state \notin {"yes", "no"}, Emitted(m, d, fate), UNCHANGED <<stored, withoutSink>>
  PROVE  MInv'
<1> DEFINE taken == fate = "taken"
           k == IF taken THEN 0 ELSE 1
<1>1. /\ lost \in [Middlewares -> Nat] /\ refused \in [Middlewares -> Nat] /\ withoutSink \in Nat
  BY DEF MInv, CountersTyped
<1>2. /\ queue' = (IF taken THEN [queue EXCEPT ![m] = @ \cup {d}] ELSE queue)
      /\ call' = Answered(d, m, taken)
      /\ taken \in BOOLEAN
  BY DEF Emitted
<1>3. k \in Nat /\ lost[m] \in Nat /\ refused[m] \in Nat
  BY <1>1
<1>4. /\ lost[m] + (IF fate = "refused" THEN 1 ELSE 0)
                 + (IF fate # "taken" /\ CountsLost(fate) THEN 1 ELSE 0) = lost[m] + k
      /\ refused[m] + (IF fate = "taken" THEN 0 ELSE 1) = refused[m] + k
  BY <1>3 DEF Fates, CountsLost
<1>5. /\ lost' = [lost EXCEPT ![m] = @ + k]
      /\ refused' = [refused EXCEPT ![m] = @ + k]
  BY <1>1, <1>4 DEF Emitted
<1>6. /\ CallsKnown' /\ queue' \in [Middlewares -> SUBSET Docs] /\ stored' \in [Middlewares -> SUBSET Docs]
      /\ call'[d].state = (IF taken THEN "yes" ELSE "no") /\ call'[d].to = m
      /\ InPlace(d)' <=> taken
      /\ \A e \in Docs \ {d} : call'[e] = call[e] /\ (InPlace(e) <=> InPlace(e)')
  <2> HIDE DEF taken, k
  <2> QED  BY <1>2, MQueues
<1>7. k = IF taken THEN 0 ELSE 1
  OBVIOUS
<1> HIDE DEF taken, k
<1>8. lost' \in [Middlewares -> Nat] /\ refused' \in [Middlewares -> Nat]
  BY <1>1, <1>3, <1>5
<1>9. CountersTyped'
  BY <1>1, <1>6, <1>8 DEF CountersTyped
<1>10. \A n \in Middlewares : /\ lost'[n] = lost[n] + (IF n = m THEN k ELSE 0)
                              /\ refused'[n] = refused[n] + (IF n = m THEN k ELSE 0)
  BY <1>1, <1>3, <1>5
<1>11. m # None
  BY StackAssumption
<1>12. ASSUME NEW n \in Whose
       PROVE  /\ Counted(n)' = Counted(n) + (IF n = call'[d].to /\ ~InPlace(d)' THEN 1 ELSE 0)
              /\ Refusals(n)' <= Refusals(n) + (IF n = call'[d].to /\ call'[d].state = "no" THEN 1 ELSE 0)
  <2>1. /\ Counted(n)' = Counted(n) + (IF n = m THEN k ELSE 0)
        /\ Refusals(n)' = Refusals(n) + (IF n = m THEN k ELSE 0) /\ Refusals(n) \in Nat
    BY <1>1, <1>3, <1>10, <1>11 DEF Counted, Refusals, Whose
  <2>2. k = (IF InPlace(d)' THEN 0 ELSE 1) /\ k = (IF call'[d].state = "no" THEN 1 ELSE 0)
    BY <1>6, <1>7
  <2> QED  BY <1>6, <2>1, <2>2
<1>13. call'[d].state \in {"yes", "no"}
  BY <1>6
<1> QED  BY <1>6, <1>9, <1>12, <1>13, MAnswers

\* emit() finds nobody.
LEMMA MFindsNone ==
  ASSUME MInv, NEW d \in Docs, EmitFindsNone(d)
  PROVE  MInv'
<1>1. /\ lost \in [Middlewares -> Nat] /\ refused \in [Middlewares -> Nat] /\ withoutSink \in Nat
      /\ queue \in [Middlewares -> SUBSET Docs] /\ stored \in [Middlewares -> SUBSET Docs]
      /\ call \in [Docs -> [state : CallStates, to : Middlewares \cup {None}]]
      /\ ~InPlace(d)
  BY DEF MInv, CallsKnown, CountersTyped, EmitFindsNone
<1>2. /\ call' = [call EXCEPT ![d] = [state |-> "no", to |-> None]]
      /\ UNCHANGED <<queue, stored, lost, refused>> /\ withoutSink' = withoutSink + 1
      /\ call[d].state = "new"
  BY DEF EmitFindsNone, Answered
<1>3. /\ call' \in [Docs -> [state : CallStates, to : Middlewares \cup {None}]]
      /\ call'[d].state = "no" /\ call'[d].to = None
      /\ \A e \in Docs \ {d} : call'[e] = call[e]
  BY <1>1, <1>2 DEF CallStates
<1>4. \A e \in Docs : InPlace(e) <=> InPlace(e)'
  BY <1>2 DEF InPlace
<1>5. \A e \in Docs : /\ call'[e].state \in {"read", "handed"} => call'[e].to \in Middlewares
                      /\ InPlace(e)' => call'[e].state = "yes"
  BY <1>1, <1>3, <1>4 DEF MInv, CallsKnown
<1>6. CallsKnown' /\ CountersTyped'
  BY <1>1, <1>2, <1>3, <1>5 DEF CallsKnown, CountersTyped
<1>7. ASSUME NEW n \in Whose
      PROVE  /\ Counted(n)' = Counted(n) + (IF n = call'[d].to /\ ~InPlace(d)' THEN 1 ELSE 0)
             /\ Refusals(n)' <= Refusals(n) + (IF n = call'[d].to /\ call'[d].state = "no" THEN 1 ELSE 0)
  <2>1. /\ Counted(n)' = Counted(n) + (IF n = None THEN 1 ELSE 0)
        /\ Refusals(n)' = Refusals(n) + (IF n = None THEN 1 ELSE 0) /\ Refusals(n) \in Nat
    BY <1>1, <1>2 DEF Counted, Refusals, Whose
  <2>2. ~InPlace(d)'
    BY <1>1, <1>4
  <2> QED  BY <1>3, <2>1, <2>2
<1>8. call[d].state \notin {"yes", "no"} /\ call'[d].state \in {"yes", "no"}
  BY <1>2, <1>3
<1> QED  BY <1>3, <1>4, <1>6, <1>7, <1>8, MAnswers

LEMMA MStep == LInv /\ MInv /\ [Next]_vars => MInv'
<1> SUFFICES ASSUME LInv, MInv, [Next]_vars PROVE MInv'
  OBVIOUS
<1>0. /\ Turn \in Middlewares
      /\ active # None => active \in Middlewares
      /\ \A d \in Docs : call[d].state \in {"read", "handed"} => call[d].to \in Middlewares
  BY TurnIsInStack DEF LInv, LifeTyped, MInv, CallsKnown
<1>1. ASSUME NEW m \in Middlewares, LazyStart(m) \/ Flush(m) \/ Ship(m) PROVE MInv'
  BY <1>1, MQuiet, MWritten DEF LazyStart, Flush, Ship
<1>2. ASSUME NEW m \in Middlewares, NEW d \in Docs, NEW taken \in BOOLEAN, Submit(m, d, taken)
      PROVE  MInv'
  <2>1. /\ call[d].state \notin {"yes", "no"} /\ Enqueue(m, d, taken)
        /\ call' = Answered(d, m, taken) /\ UNCHANGED <<stored, refused, withoutSink>>
    BY <1>2 DEF Submit
  <2> QED  BY <2>1, MEnqueued
<1>3. ASSUME NEW d \in Docs, ThreadReads(d) \/ ThreadHandsOver(d) PROVE MInv'
  <2>1. CASE ThreadReads(d)
    <3>1. /\ active \in Middlewares /\ call[d].state \in {"new", "read"}
          /\ call' = [call EXCEPT ![d] = [state |-> "read", to |-> active]]
          /\ UNCHANGED <<queue, stored, counters>>
      BY <2>1, <1>0 DEF ThreadReads
    <3> QED  BY <3>1, MThread
  <2>2. CASE ThreadHandsOver(d)
    <3>1. call \in [Docs -> [state : CallStates, to : Middlewares \cup {None}]]
      BY DEF MInv, CallsKnown
    <3>2. /\ call[d].state \in {"new", "read"} /\ call[d].to \in Middlewares
          /\ call' = [call EXCEPT ![d].state = "handed"]
          /\ UNCHANGED <<queue, stored, counters>>
      BY <2>2, <1>0 DEF ThreadHandsOver
    <3>3. call' = [call EXCEPT ![d] = [state |-> "handed", to |-> call[d].to]]
      <4>1. call[d] \in [state : CallStates, to : Middlewares \cup {None}]
        BY <3>1
      <4>2. [call[d] EXCEPT !.state = "handed"] = [state |-> "handed", to |-> call[d].to]
        BY <4>1
      <4>3. call' = [call EXCEPT ![d] = [call[d] EXCEPT !.state = "handed"]]
        BY <3>2
      <4> QED  BY <4>2, <4>3
    <3> QED  BY <3>2, <3>3, MThread
  <2> QED  BY <1>3, <2>1, <2>2
<1>4. ASSUME NEW d \in Docs, NEW fate \in Fates, EmitOnLoop(d, fate) PROVE MInv'
  <2>1. /\ active \in Middlewares /\ call[d].state \notin {"yes", "no"}
        /\ Emitted(active, d, fate) /\ UNCHANGED <<stored, withoutSink>>
    BY <1>4, <1>0 DEF EmitOnLoop
  <2> QED  BY <2>1, MEmitted
<1>5. ASSUME NEW d \in Docs, NEW fate \in Fates, ThreadSubmits(d, fate) PROVE MInv'
  <2>1. /\ call[d].to \in Middlewares /\ call[d].state \notin {"yes", "no"}
        /\ Emitted(call[d].to, d, fate) /\ UNCHANGED <<stored, withoutSink>>
    BY <1>5, <1>0 DEF ThreadSubmits
  <2> QED  BY <2>1, MEmitted
<1>6. ASSUME NEW d \in Docs, NEW taken \in BOOLEAN, LoopEnqueues(d, taken) PROVE MInv'
  <2>1. /\ call[d].to \in Middlewares /\ call[d].state \notin {"yes", "no"}
        /\ Enqueue(call[d].to, d, taken) /\ call' = Answered(d, call[d].to, TRUE)
        /\ UNCHANGED <<stored, refused, withoutSink>>
    BY <1>6, <1>0 DEF LoopEnqueues
  <2> QED  BY <2>1, MEnqueued
<1>7. CASE \/ StartupCompletes \/ AlreadyStarted \/ StartSink \/ ShutdownArrives \/ CloseSink
           \/ LoopEnds \/ \E ok \in BOOLEAN : Activate(ok) \/ StartShipper(ok)
           \/ \E inTime \in BOOLEAN : CloseShipper(inTime)
  <2>1. UNCHANGED <<queue, stored, call, counters>>
    BY <1>7 DEF StartupCompletes, AlreadyStarted, StartSink, ShutdownArrives, CloseSink,
                LoopEnds, Activate, StartShipper, CloseShipper
  <2> QED  BY <2>1, MQuiet
<1>8. ASSUME NEW inTime \in BOOLEAN, SinkClosed(inTime) PROVE MInv'
  BY <1>8, <1>0, MQuiet, MWritten DEF SinkClosed
<1>9. CASE UNCHANGED vars
  BY <1>9, MQuiet DEF vars
<1>10. CASE \E d \in Docs : EmitFindsNone(d)
  BY <1>10, MFindsNone
<1> QED  BY <1>1, <1>2, <1>3, <1>4, <1>5, <1>6, <1>7, <1>8, <1>9, <1>10 DEF Next

\* Whatever is refused, raises, comes late or finds no sink is counted as lost
\* exactly once, and emit() says False only of a record that is nowhere, for any
\* number of middlewares, documents and threads.
THEOREM CountedOnceHolds == Spec => []CountedOnce
<1>1. Init => LInv /\ MInv
  BY LInit, MInit
<1>2. LInv /\ MInv /\ [Next]_vars => LInv' /\ MInv'
  BY LStep, MStep
<1>3. LInv /\ MInv => CountedOnce
  <2> SUFFICES ASSUME MInv PROVE CountedOnce
    OBVIOUS
  <2>1. Denied \subseteq Gone
    BY DEF MInv, CallsKnown, Denied, Gone, InPlace
  <2>2. \A m \in Whose : Counted(m) = Cardinality(GoneAt(m))
    BY DEF MInv
  <2>3. ASSUME NEW m \in Middlewares PROVE refused[m] <= Cardinality(DeniedAt(m))
    <3>1. m \in Whose /\ m # None
      BY StackAssumption DEF Whose
    <3> QED  BY <3>1 DEF MInv, Refusals
  <2>4. \A m : DeniedAt(m) = {d \in Docs : call[d].state = "no" /\ call[d].to = m}
    BY DEF DeniedAt, Denied
  <2> QED  BY <2>1, <2>2, <2>3, <2>4 DEF CountedOnce, Denied, Whose, GoneAt
<1> QED  BY <1>1, <1>2, <1>3, PTL DEF Spec
=============================================================================
