---------------------------- MODULE SinkFileProofs ----------------------------
(***************************************************************************)
(* For any number of threads, descriptors, files and generations: whatever *)
(* opens, rotates, writes and closes at the same time, audit bytes go to   *)
(* the file they were meant for, the active descriptor leads to the active *)
(* file, nothing stays open, and until close() no path is taken twice but  *)
(* by the fallback.  With one writer at a time, the cached size is the     *)
(* file's and no file outgrows its bound.                                  *)
(***************************************************************************)
EXTENDS SinkFile, FiniteSetTheorems, WellFoundedInduction, SequenceTheorems, TLAPS

-----------------------------------------------------------------------------
(* Induction, stated over a set, the values for which the claim holds; it  *)
(* follows from the well-foundedness of the naturals.                      *)

LEMMA Minimal ==
  ASSUME NEW R, NEW U, IsWellFoundedOn(R, U), NEW S, S \subseteq U, S # {}
  PROVE  \E n \in S : \A m \in S : <<m, n>> \notin R
  BY WFMin

LEMMA NaturalsDescend ==
  \E R : IsWellFoundedOn(R, Nat) /\ \A x, y \in Nat : x < y => <<x, y>> \in R
<1>1. \A x, y \in Nat : x < y => <<x, y>> \in OpToRel(<, Nat)
  BY DEF OpToRel
<1> QED  BY <1>1, NatLessThanWellFounded, Zenon

LEMMA Least ==
  ASSUME NEW S, S \subseteq Nat, S # {}
  PROVE  \E n \in S : \A m \in S : n <= m
<1>1. PICK R : IsWellFoundedOn(R, Nat) /\ \A x, y \in Nat : x < y => <<x, y>> \in R
  BY NaturalsDescend, Zenon
<1>2. PICK n \in S : \A m \in S : <<m, n>> \notin R
  <2>1. IsWellFoundedOn(R, Nat)
    BY <1>1
  <2> QED  BY <2>1, Minimal
<1>3. ASSUME NEW m \in S PROVE n <= m
  <2>1. m \in Nat /\ n \in Nat
    OBVIOUS
  <2>2. ~(m < n)
    BY <1>1, <1>2, <2>1, Zenon
  <2> QED  BY <2>1, <2>2
<1> QED  BY <1>3

\* A set of naturals with 0 and the successors of its members has them all.
LEMMA Induction ==
  ASSUME NEW S, 0 \in S, \A n \in Nat : n \in S => n + 1 \in S
  PROVE  Nat \subseteq S
<1> SUFFICES ASSUME ~ Nat \subseteq S PROVE FALSE
  OBVIOUS
<1>1. PICK n \in Nat \ S : \A m \in Nat \ S : n <= m
  BY Least
<1>2. n - 1 \in Nat /\ n - 1 \notin Nat \ S
  BY <1>1
<1> QED  BY <1>1, <1>2

\* A set of subsets of S has them all when it has the empty one, and every one
\* of which it has all those with one element less.
LEMMA SubsetInduction ==
  ASSUME NEW S, IsFiniteSet(S), NEW G, {} \in G,
         \A s \in SUBSET S : s # {} /\ (\A x \in s : s \ {x} \in G) => s \in G
  PROVE  SUBSET S \subseteq G
<1> DEFINE Bad == (SUBSET S) \ G
           Orders == {n \in Nat : \E s \in Bad : Cardinality(s) = n}
<1> SUFFICES ASSUME Bad # {} PROVE FALSE
  OBVIOUS
<1>1. \A s \in SUBSET S : IsFiniteSet(s) /\ Cardinality(s) \in Nat
  BY FS_Subset, FS_CardinalityType
<1>2. Orders # {} /\ Orders \subseteq Nat
  BY <1>1
<1>3. PICK n \in Orders : \A m \in Orders : n <= m
  BY <1>2, Least
<1>4. PICK s \in Bad : Cardinality(s) = n
  BY <1>3
<1>5. PICK x \in s : s \ {x} \notin G
  OBVIOUS
<1>6. Cardinality(s \ {x}) = n - 1 /\ s \ {x} \in Bad /\ n - 1 \in Nat
  <2>1. Cardinality(s \ {x}) = Cardinality(s) - 1 /\ s \ {x} \in SUBSET S
    BY <1>1, FS_RemoveElement
  <2>2. Cardinality(s \ {x}) \in Nat
    BY <1>1, <2>1
  <2> QED  BY <1>4, <1>5, <2>1, <2>2
<1> QED  BY <1>3, <1>6

-----------------------------------------------------------------------------
(* Sums over a finite set, as the folds of Functions compute them.         *)

Some(s) == CHOOSE x \in s : TRUE

SumStep(f, F, s) == IF s = {} THEN 0 ELSE f[Some(s)] + F[s \ {Some(s)}]

\* F has the sum of f over every subset of S.
Sums(F, f, S) == F = [s \in SUBSET S |-> SumStep(f, F, s)]

LEMMA SomeIsMember == \A s : s # {} => Some(s) \in s
  BY DEF Some

LEMMA SumsExist ==
  ASSUME NEW f, NEW S, IsFiniteSet(S)
  PROVE  \E F : Sums(F, f, S)
<1> DEFINE Small(n) == {s \in SUBSET S : Cardinality(s) <= n}
           N == {n \in Nat : \E F : F = [s \in Small(n) |-> SumStep(f, F, s)]}
<1>1. \A s \in SUBSET S : /\ IsFiniteSet(s) /\ Cardinality(s) \in Nat
                          /\ Cardinality(s) <= Cardinality(S)
                          /\ Cardinality(s) = 0 <=> s = {}
  BY FS_Subset, FS_CardinalityType, FS_EmptySet
<1>2. 0 \in N
  <2> DEFINE F == [s \in Small(0) |-> 0]
  <2>1. \A s \in Small(0) : s = {}
    BY <1>1
  <2>2. F = [s \in Small(0) |-> SumStep(f, F, s)]
    BY <2>1 DEF SumStep
  <2> QED  BY <2>2
<1>3. ASSUME NEW n \in N PROVE n + 1 \in N
  <2>1. PICK F : F = [s \in Small(n) |-> SumStep(f, F, s)]
    BY <1>3
  <2> DEFINE G == [s \in Small(n + 1) |-> SumStep(f, F, s)]
  <2>2. ASSUME NEW s \in Small(n + 1) PROVE SumStep(f, G, s) = SumStep(f, F, s)
    <3>1. CASE s = {}
      BY <3>1 DEF SumStep
    <3>2. CASE s # {}
      <4> DEFINE x == Some(s)
      <4>1. x \in s
        BY <3>2, SomeIsMember
      <4>2. s \ {x} \in Small(n)
        <5>1. Cardinality(s \ {x}) = Cardinality(s) - 1
          BY <1>1, <4>1, FS_RemoveElement
        <5> QED  BY <1>1, <5>1
      <4>3. s \ {x} \in Small(n + 1)
        BY <1>1, <4>2
      <4>4. G[s \ {x}] = F[s \ {x}]
        BY <2>1, <4>2, <4>3
      <4> QED  BY <4>4 DEF SumStep
    <3> QED  BY <3>1, <3>2
  <2>3. G = [s \in Small(n + 1) |-> SumStep(f, G, s)]
    BY <2>2
  <2>4. n + 1 \in Nat
    OBVIOUS
  <2> HIDE DEF G
  <2> QED  BY <2>3, <2>4, Zenon
<1>4. Cardinality(S) \in N
  <2> HIDE DEF N
  <2>1. Nat \subseteq N
    BY <1>2, <1>3, Induction
  <2> QED  BY <1>1, <2>1
<1>5. Small(Cardinality(S)) = SUBSET S
  BY <1>1
<1> QED  BY <1>4, <1>5 DEF Sums

LEMMA SumByDefinition ==
  ASSUME NEW f, NEW S, IsFiniteSet(S)
  PROVE  \E F : Sums(F, f, S) /\ SumFunctionOnSet(f, S) = F[S]
<1>1. PICK F : Sums(F, f, S) /\ F = CHOOSE G : Sums(G, f, S)
  BY SumsExist
<1>2. SumFunctionOnSet(f, S) = (CHOOSE G : Sums(G, f, S))[S]
  BY DEF SumFunctionOnSet, FoldFunctionOnSet, MapThenFoldSet, Sums, SumStep, Some
<1> QED  BY <1>1, <1>2

LEMMA SumsSteps ==
  ASSUME NEW f, NEW S, NEW F, Sums(F, f, S)
  PROVE  \A s \in SUBSET S : /\ s = {} => F[s] = 0
                             /\ s # {} => /\ Some(s) \in s
                                          /\ F[s] = f[Some(s)] + F[s \ {Some(s)}]
<1> SUFFICES ASSUME NEW s \in SUBSET S
             PROVE  /\ s = {} => F[s] = 0
                    /\ s # {} => Some(s) \in s /\ F[s] = f[Some(s)] + F[s \ {Some(s)}]
  OBVIOUS
<1>1. F[s] = SumStep(f, F, s)
  BY DEF Sums
<1> QED  BY <1>1, SomeIsMember DEF SumStep

LEMMA SumsType ==
  ASSUME NEW f, NEW S, IsFiniteSet(S), NEW F, Sums(F, f, S),
         NEW V, V \in {Nat, Int}, \A x \in S : f[x] \in V
  PROVE  \A s \in SUBSET S : F[s] \in V
<1> DEFINE G == {s \in SUBSET S : F[s] \in V}
<1>1. {} \in G
  <2>1. {} \in SUBSET S /\ 0 \in V
    OBVIOUS
  <2>2. F[{}] = 0
    BY <2>1, SumsSteps
  <2> QED  BY <2>1, <2>2
<1>2. ASSUME NEW s \in SUBSET S, s # {}, \A x \in s : s \ {x} \in G PROVE s \in G
  <2>1. Some(s) \in s /\ F[s] = f[Some(s)] + F[s \ {Some(s)}]
    BY <1>2, SumsSteps
  <2>2. f[Some(s)] \in V /\ F[s \ {Some(s)}] \in V
    BY <1>2, <2>1
  <2>3. F[s] \in V
    BY <2>1, <2>2
  <2> QED  BY <2>3
<1> HIDE DEF G
<1>3. SUBSET S \subseteq G
  BY <1>1, <1>2, SubsetInduction
<1> QED  BY <1>3 DEF G

\* Any element may be taken out first.
LEMMA SumsTakeOut ==
  ASSUME NEW f, NEW S, IsFiniteSet(S), NEW F, Sums(F, f, S), \A x \in S : f[x] \in Int
  PROVE  \A s \in SUBSET S : \A y \in s : F[s] = f[y] + F[s \ {y}]
<1> DEFINE G == {s \in SUBSET S : \A y \in s : F[s] = f[y] + F[s \ {y}]}
<1>1. {} \in G
  OBVIOUS
<1>2. ASSUME NEW s \in SUBSET S, s # {}, \A x \in s : s \ {x} \in G PROVE s \in G
  <2> SUFFICES ASSUME NEW y \in s PROVE F[s] = f[y] + F[s \ {y}]
    OBVIOUS
  <2> DEFINE x == Some(s)
  <2>1. x \in s /\ F[s] = f[x] + F[s \ {x}]
    BY <1>2, SumsSteps
  <2> HIDE DEF x
  <2>2. CASE y = x
    BY <2>1, <2>2
  <2>3. CASE y # x
    <3>1. (s \ {x}) \ {y} = (s \ {y}) \ {x} /\ y \in s \ {x} /\ x \in s \ {y}
      BY <2>1, <2>3
    <3>2. F[s \ {x}] = f[y] + F[(s \ {x}) \ {y}]
      BY <1>2, <2>1, <3>1
    <3>3. F[s \ {y}] = f[x] + F[(s \ {y}) \ {x}]
      BY <1>2, <2>1, <3>1
    <3>4. f[x] \in Int /\ f[y] \in Int /\ F[(s \ {x}) \ {y}] \in Int
      <4>1. (s \ {x}) \ {y} \in SUBSET S /\ x \in S /\ y \in S
        BY <2>1
      <4> QED  BY <4>1, SumsType
    <3> DEFINE c == F[(s \ {x}) \ {y}]
    <3>5. F[s \ {y}] = f[x] + c
      BY <3>1, <3>3
    <3>6. F[s] = f[x] + (f[y] + c)
      BY <2>1, <3>2
    <3> HIDE DEF c
    <3>7. f[x] + (f[y] + c) = f[y] + (f[x] + c)
      BY <3>4 DEF c
    <3> QED  BY <3>5, <3>6, <3>7
  <2> QED  BY <2>2, <2>3
<1> HIDE DEF G
<1>3. SUBSET S \subseteq G
  BY <1>1, <1>2, SubsetInduction
<1> QED  BY <1>3 DEF G

\* Only the values over the set count.
LEMMA SumsAgree ==
  ASSUME NEW f, NEW g, NEW S, NEW T, IsFiniteSet(S), NEW F, Sums(F, f, S),
         NEW H, Sums(H, g, T), S \subseteq T, \A x \in S : f[x] = g[x]
  PROVE  F[S] = H[S]
<1> DEFINE G == {s \in SUBSET S : F[s] = H[s]}
<1>0. \A s \in SUBSET T : /\ s = {} => H[s] = 0
                          /\ s # {} => H[s] = g[Some(s)] + H[s \ {Some(s)}]
  BY SumsSteps
<1>1. {} \in G
  <2>1. {} \in SUBSET S /\ {} \in SUBSET T
    OBVIOUS
  <2>2. F[{}] = 0
    BY <2>1, SumsSteps
  <2>3. H[{}] = 0
    BY <1>0, <2>1
  <2> QED  BY <2>2, <2>3
<1>2. ASSUME NEW s \in SUBSET S, s # {}, \A x \in s : s \ {x} \in G PROVE s \in G
  <2>1. Some(s) \in s /\ F[s] = f[Some(s)] + F[s \ {Some(s)}]
    BY <1>2, SumsSteps
  <2>2. s \in SUBSET T
    OBVIOUS
  <2>3. H[s] = g[Some(s)] + H[s \ {Some(s)}]
    BY <1>0, <1>2, <2>2
  <2>4. F[s \ {Some(s)}] = H[s \ {Some(s)}] /\ f[Some(s)] = g[Some(s)]
    BY <1>2, <2>1
  <2> QED  BY <2>1, <2>3, <2>4
<1> HIDE DEF G
<1>3. SUBSET S \subseteq G
  BY <1>1, <1>2, SubsetInduction
<1> QED  BY <1>3 DEF G

-----------------------------------------------------------------------------
(* What is known of a sum.                                                 *)

LEMMA SumType ==
  ASSUME NEW f, NEW S, IsFiniteSet(S), NEW V, V \in {Nat, Int}, \A x \in S : f[x] \in V
  PROVE  SumFunctionOnSet(f, S) \in V
<1>1. PICK F : Sums(F, f, S) /\ SumFunctionOnSet(f, S) = F[S]
  BY SumByDefinition
<1>2. Sums(F, f, S) /\ S \in SUBSET S
  BY <1>1
<1>3. F[S] \in V
  BY <1>2, SumsType
<1> QED  BY <1>1, <1>3

LEMMA SumOfNothing == \A f : SumFunctionOnSet(f, {}) = 0
<1> SUFFICES ASSUME NEW f PROVE SumFunctionOnSet(f, {}) = 0
  OBVIOUS
<1>1. PICK F : Sums(F, f, {}) /\ SumFunctionOnSet(f, {}) = F[{}]
  BY SumByDefinition, FS_EmptySet
<1>2. Sums(F, f, {})
  BY <1>1
<1>3. F[{}] = 0
  BY <1>2, SumsSteps
<1> QED  BY <1>1, <1>3

\* One value for all the elements it is the same of.
LEMMA SameSum ==
  ASSUME NEW f, NEW g, NEW S, IsFiniteSet(S), \A x \in S : f[x] = g[x]
  PROVE  SumFunctionOnSet(f, S) = SumFunctionOnSet(g, S)
<1>1. PICK F : Sums(F, f, S) /\ SumFunctionOnSet(f, S) = F[S]
  BY SumByDefinition
<1>2. PICK H : Sums(H, g, S) /\ SumFunctionOnSet(g, S) = H[S]
  BY SumByDefinition
<1>3. F[S] = H[S]
  <2>1. Sums(F, f, S) /\ Sums(H, g, S)
    BY <1>1, <1>2
  <2> QED  BY <2>1, SumsAgree
<1> QED  BY <1>1, <1>2, <1>3

\* A sum is any one of its values and the sum of the others.
LEMMA SumTakeOut ==
  ASSUME NEW f, NEW S, IsFiniteSet(S), \A x \in S : f[x] \in Int, NEW y \in S
  PROVE  SumFunctionOnSet(f, S) = f[y] + SumFunctionOnSet(f, S \ {y})
<1>1. PICK F : Sums(F, f, S) /\ SumFunctionOnSet(f, S) = F[S]
  BY SumByDefinition
<1>2. IsFiniteSet(S \ {y})
  BY FS_RemoveElement
<1>3. PICK H : Sums(H, f, S \ {y}) /\ SumFunctionOnSet(f, S \ {y}) = H[S \ {y}]
  BY <1>2, SumByDefinition
<1>4. Sums(F, f, S) /\ Sums(H, f, S \ {y})
  BY <1>1, <1>3
<1>5. F[S] = f[y] + F[S \ {y}]
  <2>1. S \in SUBSET S
    OBVIOUS
  <2> QED  BY <1>4, <2>1, SumsTakeOut
<1>6. H[S \ {y}] = F[S \ {y}]
  BY <1>2, <1>4, SumsAgree
<1> QED  BY <1>1, <1>3, <1>5, <1>6

-----------------------------------------------------------------------------
(* Sums over a sequence.                                                   *)

LEMMA SumOfSequence ==
  ASSUME NEW s \in Seq(Nat)
  PROVE  /\ SumFunction(s) \in Nat
         /\ s = <<>> => SumFunction(s) = 0
<1>1. IsFiniteSet(DOMAIN s) /\ s \in [DOMAIN s -> Nat]
  <2>1. DOMAIN s = 1..Len(s) /\ Len(s) \in Nat
    OBVIOUS
  <2>2. s \in [1..Len(s) -> Nat]
    OBVIOUS
  <2> QED  BY <2>1, <2>2, FS_Interval
<1>2. SumFunctionOnSet(s, DOMAIN s) \in Nat
  <2>1. \A x \in DOMAIN s : s[x] \in Nat
    BY <1>1
  <2> QED  BY <1>1, <2>1, SumType
<1>3. s = <<>> => DOMAIN s = {}
  OBVIOUS
<1> QED  BY <1>2, <1>3, SumOfNothing DEF SumFunction

\* One element more.
LEMMA SumOfPrefix ==
  ASSUME NEW s \in Seq(Nat), NEW k \in Nat, k + 1 <= Len(s)
  PROVE  /\ SubSeq(s, 1, k) \in Seq(Nat) /\ SubSeq(s, 1, k + 1) \in Seq(Nat)
         /\ SumFunction(SubSeq(s, 1, k + 1)) = SumFunction(SubSeq(s, 1, k)) + s[k + 1]
<1> DEFINE f == SubSeq(s, 1, k)
           g == SubSeq(s, 1, k + 1)
<1>1. /\ f \in Seq(Nat) /\ g \in Seq(Nat)
      /\ DOMAIN f = 1..k /\ DOMAIN g = 1..(k + 1)
      /\ \A i \in 1..k : f[i] = g[i]
      /\ g[k + 1] = s[k + 1]
      /\ \A i \in 1..(k + 1) : g[i] \in Int
  BY SubSeqProperties
<1>2. SumFunction(f) = SumFunctionOnSet(f, 1..k) /\ SumFunction(g) = SumFunctionOnSet(g, 1..(k + 1))
  BY <1>1 DEF SumFunction
<1> HIDE DEF f, g
<1>3. IsFiniteSet(1..(k + 1)) /\ IsFiniteSet(1..k)
  BY FS_Interval
<1>4. SumFunctionOnSet(g, 1..(k + 1)) = g[k + 1] + SumFunctionOnSet(g, 1..k)
  <2> DEFINE D == 1..(k + 1)
             y == k + 1
  <2>1. IsFiniteSet(D) /\ y \in D /\ D \ {y} = 1..k /\ \A i \in D : g[i] \in Int
    BY <1>1, <1>3
  <2> HIDE DEF D, y
  <2>2. SumFunctionOnSet(g, D) = g[y] + SumFunctionOnSet(g, D \ {y})
    BY <2>1, SumTakeOut
  <2>3. SumFunctionOnSet(g, D) = g[y] + SumFunctionOnSet(g, 1..k)
    BY <2>1, <2>2
  <2> QED  BY <2>3 DEF D, y
<1>5. SumFunctionOnSet(f, 1..k) = SumFunctionOnSet(g, 1..k)
  BY <1>1, <1>3, SameSum
<1>6. SumFunction(g) = s[k + 1] + SumFunction(f)
  BY <1>1, <1>2, <1>4, <1>5
<1>7. SumFunction(f) \in Nat /\ s[k + 1] \in Nat
  BY <1>1, SumOfSequence
<1>8. SumFunction(g) = SumFunction(f) + s[k + 1]
  BY <1>6, <1>7
<1> QED  BY <1>1, <1>8 DEF f, g

-----------------------------------------------------------------------------
(* Where the threads are: _open_lock, and the stages of close().           *)

Rotating == {"rotate", "shut", "rename"}
Undoing == {"undo", "undoClose", "undoCheck", "undoUnclaim", "undoDiscard"}
Claiming == {"claim", "probe", "abandon", "another"}
Locked == Claiming \cup {"open", "create", "install", "recheck", "unlock"} \cup Undoing \cup Rotating
Ending == {"end", "endClose", "endCheck", "endUnclaim", "endDiscard", "down"}

Placed ==
  /\ pc \in [Threads -> Labels] /\ back \in [Threads -> {"up", "check", "segment"}]
  /\ back["loop"] = "up" /\ (\A w \in Workers : back[w] # "up")
  /\ terminated \in BOOLEAN
  /\ terminated <=> pc["loop"] \in Ending
  /\ pc["loop"] \in {"off", "up", "ensure", "lock"} \cup (Locked \ Rotating) \cup Ending
  /\ \A w \in Workers : pc[w] \notin {"off", "up"} \cup Ending
  /\ \A t \in Threads : pc[t] \in Locked => openLock = t
  /\ \A t \in Threads : pc[t] \in Undoing => terminated

LEMMA LoopIsNoWorker ==
  /\ "loop" \in Threads /\ "loop" \notin Workers /\ "free" \notin Threads
  /\ Workers \subseteq Threads
  /\ \A t \in Threads : t # "loop" <=> t \in Workers
  BY FileAssumption DEF Threads

\* What a step of _claim_path moves: the claim, and names of files.
LEMMA ClaimStep ==
  ASSUME NEW t \in Threads, ClaimPath(t)
  PROVE  /\ pc[t] \in Claiming
         /\ \E l \in {"probe", "abandon", "another", "create"} : pc' = [pc EXCEPT ![t] = l]
         /\ UNCHANGED <<fd, writers, orphans, fileBytes, openLock, terminated, rival, table,
                        got, aimed, closing, back, broken, lines, rest>>
         /\ files' = files \/ files' = [g \in Generations |-> None]
         /\ size' = size \/ size' = Sizes(files', table)
<1> USE DEF At, Go, Claiming, borrow, disk, local, task
<1>1. CASE TryName(t)
  BY <1>1 DEF TryName
<1>2. CASE ProbeName(t)
  BY <1>2 DEF ProbeName
<1>3. CASE AbandonName(t)
  BY <1>3 DEF AbandonName
<1>4. CASE TakeAnother(t)
  BY <1>4 DEF TakeAnother
<1> QED  BY <1>1, <1>2, <1>3, <1>4 DEF ClaimPath

LEMMA PlacedInit == Init => Placed
<1> SUFFICES ASSUME Init PROVE Placed
  OBVIOUS
<1> USE LoopIsNoWorker
<1>1. /\ pc["loop"] = "off" /\ \A w \in Workers : pc[w] = "idle"
      /\ pc \in [Threads -> Labels]
  BY DEF Init, Labels
<1>2. /\ back["loop"] = "up" /\ \A w \in Workers : back[w] = "check"
      /\ back \in [Threads -> {"up", "check", "segment"}]
  BY DEF Init
<1>3. \A t \in Threads : pc[t] \in {"off", "idle"}
  BY <1>1
<1> QED  BY <1>1, <1>2, <1>3 DEF Init, Placed, Claiming, Locked, Undoing, Rotating, Ending

\* A step that leaves the lock and the flag alone and keeps a thread on its side
\* of the lock.
LEMMA PlacedMove ==
  ASSUME Placed, NEW t \in Threads, NEW to \in Labels,
         pc' = [pc EXCEPT ![t] = to],
         UNCHANGED <<back, openLock, terminated>>,
         to \in Locked => pc[t] \in Locked,
         to \in Undoing => terminated,
         IF t = "loop"
         THEN /\ to \in Ending <=> pc[t] \in Ending
              /\ to \in {"off", "up", "ensure", "lock"} \cup (Locked \ Rotating) \cup Ending
         ELSE to \notin {"off", "up"} \cup Ending
  PROVE  Placed'
  BY LoopIsNoWorker DEF Placed

LEMMA PlacedOpening ==
  ASSUME Placed, NEW t \in Threads,
         \/ EnsureOpen(t) \/ TakeOpenLock(t) \/ OpenGuards(t) \/ ClaimPath(t)
         \/ CreateFile(t) \/ InstallFd(t) \/ Recheck(t) \/ Unlock(t)
  PROVE  Placed'
<1> USE LoopIsNoWorker
    DEF At, Go, Claiming, Locked, Undoing, Rotating, Ending, Labels
<1>1. CASE EnsureOpen(t)
  BY <1>1 DEF EnsureOpen, local, task, Placed
<1>2. CASE TakeOpenLock(t)
  BY <1>2 DEF TakeOpenLock, Locks, Placed
<1>3. CASE OpenGuards(t)
  BY <1>3 DEF OpenGuards, local, task, Placed
<1>4. CASE ClaimPath(t)
  <2>1. /\ pc[t] \in Claiming /\ UNCHANGED <<back, openLock, terminated>>
        /\ \E l \in {"probe", "abandon", "another", "create"} : pc' = [pc EXCEPT ![t] = l]
    BY <1>4, ClaimStep
  <2> QED  BY <2>1 DEF Placed
<1>5. CASE CreateFile(t)
  <2>1. /\ pc[t] = "create" /\ UNCHANGED <<back, openLock, terminated>>
        /\ pc' = [pc EXCEPT ![t] = "unlock"] \/ pc' = [pc EXCEPT ![t] = "install"]
    BY <1>5 DEF CreateFile
  <2> QED  BY <2>1 DEF Placed
<1>6. CASE InstallFd(t)
  BY <1>6 DEF InstallFd, task, Placed
<1>7. CASE Recheck(t)
  BY <1>7 DEF Recheck, AfterInstall, local, task, Placed
<1>8. CASE Unlock(t)
  BY <1>8 DEF Unlock, local, task, Placed
<1> QED  BY <1>1, <1>2, <1>3, <1>4, <1>5, <1>6, <1>7, <1>8

\* The places from which a descriptor or the path is given back.
Keeps(t, from, to) ==
  /\ to \in Labels
  /\ to \in Locked => from \in Locked
  /\ to \in Undoing => from \in Undoing
  /\ IF t = "loop"
     THEN /\ to \in Ending <=> from \in Ending
          /\ to \in {"off", "up", "ensure", "lock"} \cup (Locked \ Rotating) \cup Ending
     ELSE to \notin {"off", "up"} \cup Ending

LEMMA PlacedGiving ==
  ASSUME Placed, NEW t \in Threads, NEW from, NEW close, NEW to,
         \/ RetireFd(t, from, close, to) \/ OsClose(t, from, to)
         \/ ReleaseCheck(t, from, close, to) \/ Unclaim(t, from, to) \/ Discard(t, from, to),
         Keeps(t, from, close), Keeps(t, from, to)
  PROVE  Placed'
<1>1. /\ pc[t] = from /\ UNCHANGED <<back, openLock, terminated>>
      /\ \E l \in {close, to} : pc' = [pc EXCEPT ![t] = l]
  <2>1. CASE RetireFd(t, from, close, to)
    BY <2>1 DEF RetireFd, At, Go, task
  <2>2. CASE OsClose(t, from, to)
    BY <2>2 DEF OsClose, At, Go, task
  <2>3. CASE ReleaseCheck(t, from, close, to)
    BY <2>3 DEF ReleaseCheck, At, Go, local, task
  <2>4. CASE Unclaim(t, from, to) \/ Discard(t, from, to)
    BY <2>4 DEF Unclaim, Discard, At, Go, local, task
  <2> QED  BY <2>1, <2>2, <2>3, <2>4
<1>2. PICK l \in {close, to} : pc' = [pc EXCEPT ![t] = l]
  BY <1>1
<1>3. (pc[t] \in Undoing => terminated) /\ l \in Labels /\ Keeps(t, pc[t], l)
  BY <1>1 DEF Placed, Keeps
<1> QED  BY <1>1, <1>2, <1>3, PlacedMove DEF Keeps

LEMMA PlacedWriting ==
  ASSUME Placed, NEW w \in Workers,
         \/ BeginBatch(w) \/ EndBatch(w) \/ CheckBatch(w) \/ NextSegment(w) \/ AcquireFd(w)
         \/ WriteSome(w) \/ WriteEnds(w) \/ ReleaseFd(w) \/ Rename(w)
  PROVE  Placed'
<1> USE LoopIsNoWorker
    DEF At, Go, Claiming, Locked, Undoing, Rotating, Ending, Labels
<1>1. CASE BeginBatch(w)
  BY <1>1 DEF BeginBatch, Placed
<1>2. CASE EndBatch(w)
  BY <1>2 DEF EndBatch, Placed
<1>3. CASE CheckBatch(w)
  BY <1>3 DEF CheckBatch, local, task, Placed
<1>4. CASE NextSegment(w)
  BY <1>4 DEF NextSegment, Placed
<1>5. CASE AcquireFd(w)
  BY <1>5 DEF AcquireFd, task, Placed
<1>6. CASE WriteSome(w)
  BY <1>6 DEF WriteSome, Placed
<1>7. CASE WriteEnds(w)
  BY <1>7 DEF WriteEnds, Placed
<1>8. CASE ReleaseFd(w)
  BY <1>8 DEF ReleaseFd, task, Placed
<1>9. CASE Rename(w)
  BY <1>9 DEF Rename, Placed
<1> QED  BY <1>1, <1>2, <1>3, <1>4, <1>5, <1>6, <1>7, <1>8, <1>9

LEMMA PlacedRest ==
  ASSUME Placed,
         \/ StartOpens \/ Terminate \/ RivalClaims \/ RivalShares \/ RivalReleases \/ UNCHANGED vars
         \/ \E f \in FDs : ForeignOpen(f) \/ ForeignClose(f)
  PROVE  Placed'
<1> USE LoopIsNoWorker
    DEF At, Go, Claiming, Locked, Undoing, Rotating, Ending, Labels, local, task
<1>1. CASE StartOpens
  BY <1>1 DEF StartOpens, Placed
<1>2. CASE Terminate
  BY <1>2 DEF Terminate, Placed
<1>3. CASE RivalClaims \/ RivalShares \/ RivalReleases \/ UNCHANGED vars
  BY <1>3 DEF RivalClaims, RivalShares, RivalReleases, vars, Placed
<1>4. CASE \E f \in FDs : ForeignOpen(f) \/ ForeignClose(f)
  BY <1>4 DEF ForeignOpen, ForeignClose, Placed
<1> QED  BY <1>1, <1>2, <1>3, <1>4

LEMMA PlacesKept ==
  /\ \A t \in Threads :
       /\ Keeps(t, "undo", "undoClose") /\ Keeps(t, "undo", "undoCheck")
       /\ Keeps(t, "undoClose", "undoCheck")
       /\ Keeps(t, "undoCheck", "undoUnclaim") /\ Keeps(t, "undoCheck", "unlock")
       /\ Keeps(t, "undoUnclaim", "undoDiscard")
       /\ Keeps(t, "undoDiscard", "unlock")
  /\ \A w \in Workers :
       /\ Keeps(w, "letgo", "ended") /\ Keeps(w, "letgo", "segment")
       /\ Keeps(w, "rotate", "shut") /\ Keeps(w, "rotate", "rename")
       /\ Keeps(w, "shut", "rename")
  /\ Keeps("loop", "end", "endClose") /\ Keeps("loop", "end", "endCheck")
  /\ Keeps("loop", "endClose", "endCheck")
  /\ Keeps("loop", "endCheck", "endUnclaim") /\ Keeps("loop", "endCheck", "down")
  /\ Keeps("loop", "endUnclaim", "endDiscard")
  /\ Keeps("loop", "endDiscard", "down")
  BY LoopIsNoWorker DEF Keeps, Labels, Claiming, Locked, Undoing, Rotating, Ending

LEMMA PlacedNext == Placed /\ [Next]_vars => Placed'
<1> SUFFICES ASSUME Placed, [Next]_vars PROVE Placed'
  OBVIOUS
<1>1. ASSUME NEW t \in Threads, OpenStep(t) PROVE Placed'
  <2>1. ASSUME UndoOpen(t) PROVE Placed'
    BY <2>1, PlacesKept, PlacedGiving DEF UndoOpen
  <2> QED  BY <1>1, <2>1, PlacedOpening DEF OpenStep
<1>2. ASSUME NEW w \in Workers, BeginBatch(w) \/ WriteStep(w) \/ Rotate(w) PROVE Placed'
  <2>0. w \in Threads
    BY LoopIsNoWorker
  <2>1. ASSUME OsClose(w, "letgo", IF broken[w] THEN "ended" ELSE "segment") PROVE Placed'
    BY <2>0, <2>1, PlacesKept, PlacedGiving
  <2>2. ASSUME RetireFd(w, "rotate", "shut", "rename") \/ OsClose(w, "shut", "rename")
        PROVE  Placed'
    BY <2>0, <2>2, PlacesKept, PlacedGiving
  <2> QED  BY <1>2, <2>1, <2>2, PlacedWriting DEF WriteStep, Rotate
<1>3. ASSUME Teardown PROVE Placed'
  BY <1>3, PlacesKept, PlacedGiving, LoopIsNoWorker DEF Teardown
<1> QED  BY <1>1, <1>2, <1>3, PlacedRest DEF Next

-----------------------------------------------------------------------------
(* Who owns which descriptor.                                              *)

Borrowers == {w \in Workers : pc[w] \in {"write", "return"}}
Closers == {"undoClose", "shut", "letgo", "endClose"}
Late == {"endClose", "endCheck", "endUnclaim", "endDiscard", "down"}

\* What a thread alone holds: what it is about to close, or has just opened.
Share(t) == closing[t] \cup {f \in {got[t]} : At(t, "install")}
Owned(f) == f = fd \/ f \in orphans \/ \E t \in Threads : f \in Share(t)

OwnTyped ==
  /\ fd \in FDs \cup {None} /\ writers \in Nat /\ orphans \in SUBSET FDs
  /\ table \in [FDs -> Inodes \cup {"closed", "foreign"}]
  /\ files \in [Generations -> Inodes \cup {None}]
  /\ got \in [Threads -> FDs \cup {None}]
  /\ aimed \in [Threads -> Inodes \cup {None}]
  /\ closing \in [Threads -> SUBSET FDs]

\* Every descriptor that is open on a file of the sink has one owner.
OneOwner ==
  /\ \A f \in FDs : table[f] \in Inodes <=> Owned(f)
  /\ fd \notin orphans
  /\ \A t \in Threads :
       /\ fd \notin Share(t) /\ Share(t) \cap orphans = {}
       /\ \A u \in Threads : t # u => Share(t) \cap Share(u) = {}
  /\ \A t \in Threads :
       /\ closing[t] # {} => pc[t] \in Closers
       /\ At(t, "install") => got[t] \in FDs

\* The current descriptor, or the one about to become it, is open on the file
\* with the active name; the names only change while there is none.
Current ==
  /\ fd # None => table[fd] = files[0]
  /\ \A t \in Threads :
       /\ At(t, "install") => table[got[t]] = files[0]
       /\ pc[t] \in Claiming \cup {"create", "install", "shut", "rename"} => fd = None

\* A borrowed descriptor is the current one or an orphan, and still open on the
\* file it was borrowed for; orphans wait for the last borrower.
Borrowed ==
  /\ writers = Cardinality(Borrowers)
  /\ orphans # {} => Borrowers # {}
  /\ \A w \in Borrowers :
       /\ got[w] \in FDs /\ (got[w] = fd \/ got[w] \in orphans)
       /\ aimed[w] = table[got[w]]

\* A descriptor that shows up after close() has taken the old one away is about
\* to be undone.
LateOpen ==
  pc["loop"] \in Late /\ fd # None => \E t \in Threads : pc[t] \in {"recheck", "undo"}

OInv == OwnTyped /\ OneOwner /\ Current /\ Borrowed /\ LateOpen

LEMMA OwnInit == Init => OInv
<1> SUFFICES ASSUME Init PROVE OInv
  OBVIOUS
<1> USE LoopIsNoWorker, FileAssumption
<1>1. /\ \A t \in Threads : pc[t] \in {"off", "idle"} /\ Share(t) = {}
      /\ pc["loop"] = "off"
  BY DEF Init, Share, At
<1>2. Borrowers = {} /\ Cardinality({}) = 0
  BY <1>1, FS_EmptySet DEF Borrowers
<1>3. OwnTyped /\ Current /\ LateOpen
  BY <1>1 DEF Init, OwnTyped, Current, LateOpen, Late, At, None
<1>4. OneOwner
  BY <1>1, <1>3 DEF Init, OneOwner, OwnTyped, Owned, At, None
<1>5. Borrowed
  BY <1>2 DEF Init, Borrowed
<1> QED  BY <1>3, <1>4, <1>5 DEF OInv

\* A step of thread t that moves no descriptor.
LEMMA OwnMove ==
  ASSUME OInv, Placed, NEW t \in Threads, NEW to \in Labels,
         pc' = [pc EXCEPT ![t] = to],
         UNCHANGED <<fd, writers, orphans, table, files, got, aimed, closing>>,
         pc[t] \in {"write", "return"} <=> to \in {"write", "return"},
         pc[t] # "install", to # "install",
         pc[t] \in Closers => closing[t] = {},
         to \in Claiming \cup {"create", "shut", "rename"} => fd = None,
         pc[t] \in {"recheck", "undo"} /\ to \notin {"recheck", "undo"} =>
           fd = None \/ ~terminated,
         t = "loop" /\ to \in Late => pc[t] \in Late \/ fd = None
  PROVE  OInv'
<1>1. /\ \A u \in Threads : Share(u)' = Share(u)
      /\ \A f : Owned(f)' <=> Owned(f)
  BY DEF Share, At, Placed, Owned
<1>2. Borrowers' = Borrowers
  BY LoopIsNoWorker DEF Borrowers, Placed
<1>3. OwnTyped'
  BY DEF OInv, OwnTyped
<1>4. OneOwner'
  BY <1>1 DEF OInv, OneOwner, At, Placed
<1>5. Current'
  BY DEF OInv, Current, At, Placed
<1>6. Borrowed'
  BY <1>2 DEF OInv, Borrowed
<1>7. LateOpen'
  BY LoopIsNoWorker DEF OInv, LateOpen, Placed, Late, Ending
<1> QED  BY <1>3, <1>4, <1>5, <1>6, <1>7 DEF OInv

\* The same where nobody moves.
LEMMA OwnStay ==
  ASSUME OInv, UNCHANGED <<pc, fd, writers, orphans, table, files, got, aimed, closing>>
  PROVE  OInv'
<1>1. \A u \in Threads : Share(u)' = Share(u)
  BY DEF Share, At
<1>2. \A f : Owned(f)' <=> Owned(f)
  BY <1>1 DEF Owned
<1>3. Borrowers' = Borrowers
  BY DEF Borrowers
<1>4. OwnTyped' /\ Current' /\ LateOpen'
  BY DEF OInv, OwnTyped, Current, LateOpen, At
<1>5. OneOwner'
  BY <1>1, <1>2 DEF OInv, OneOwner, At
<1>6. Borrowed'
  BY <1>3 DEF OInv, Borrowed
<1> QED  BY <1>4, <1>5, <1>6 DEF OInv

LEMMA OwnLooking ==
  ASSUME OInv, Placed, NEW t \in Threads,
         \/ EnsureOpen(t) \/ TakeOpenLock(t) \/ OpenGuards(t) \/ Recheck(t) \/ Unlock(t)
  PROVE  OInv'
<1> USE DEF At, Go, borrow, disk, local, task
<1>1. CASE EnsureOpen(t)
  <2>1. /\ pc[t] = "ensure" /\ pc' = [pc EXCEPT ![t] = IF fd # None THEN back[t] ELSE "lock"]
        /\ UNCHANGED <<fd, writers, orphans, table, files, got, aimed, closing>>
        /\ back[t] \in {"up", "check", "segment"}
    BY <1>1 DEF EnsureOpen, Placed
  <2> QED  BY <2>1, OwnMove DEF Labels, Closers, Late, Claiming
<1>2. CASE TakeOpenLock(t)
  <2>1. /\ \/ pc[t] = "lock" /\ pc' = [pc EXCEPT ![t] = "open"]
           \/ pc[t] = "wantRotate" /\ pc' = [pc EXCEPT ![t] = "rotate"]
        /\ UNCHANGED <<fd, writers, orphans, table, files, got, aimed, closing>>
    BY <1>2 DEF TakeOpenLock
  <2> QED  BY <2>1, OwnMove DEF Labels, Closers, Late, Claiming
<1>3. CASE OpenGuards(t)
  <2>1. /\ pc[t] = "open"
        /\ \/ pc' = [pc EXCEPT ![t] = "unlock"]
           \/ fd = None /\ pc' = [pc EXCEPT ![t] = "claim"]
        /\ UNCHANGED <<fd, writers, orphans, table, files, got, aimed, closing>>
    BY <1>3 DEF OpenGuards
  <2> QED  BY <2>1, OwnMove DEF Labels, Closers, Late, Claiming
<1>4. CASE Recheck(t)
  <2>1. /\ pc[t] = "recheck"
        /\ \/ ~terminated /\ pc' = [pc EXCEPT ![t] = "unlock"]
           \/ pc' = [pc EXCEPT ![t] = "undo"]
        /\ UNCHANGED <<fd, writers, orphans, table, files, got, aimed, closing>>
    BY <1>4 DEF Recheck, AfterInstall
  <2> QED  BY <2>1, OwnMove DEF Labels, Closers, Late, Claiming
<1>5. CASE Unlock(t)
  <2>1. /\ pc[t] = "unlock"
        /\ pc' = [pc EXCEPT ![t] = IF t # "loop" /\ broken[t] THEN "ended" ELSE back[t]]
        /\ UNCHANGED <<fd, writers, orphans, table, files, got, aimed, closing>>
        /\ back[t] \in {"up", "check", "segment"}
    BY <1>5 DEF Unlock, Placed
  <2> QED  BY <2>1, OwnMove DEF Labels, Closers, Late, Claiming
<1> QED  BY <1>1, <1>2, <1>3, <1>4, <1>5

\* While a thread is in the open path nobody else is in it.
LEMMA AloneInside ==
  ASSUME Placed, NEW t \in Threads, NEW u \in Threads,
         pc[t] \in Locked, pc[u] \in Locked
  PROVE  t = u
  BY DEF Placed

LEMMA OwnClaim ==
  ASSUME OInv, Placed, NEW t \in Threads, ClaimPath(t)
  PROVE  OInv'
<1>1. /\ pc[t] \in Claiming /\ fd = None
      /\ \E l \in {"probe", "abandon", "another", "create"} : pc' = [pc EXCEPT ![t] = l]
      /\ UNCHANGED <<fd, writers, orphans, table, got, aimed, closing>>
      /\ files' = files \/ files' = [g \in Generations |-> None]
  BY ClaimStep DEF OInv, Current
<1> USE DEF Claiming
<1>2. \A u \in Threads : pc[u] # "install" /\ pc'[u] # "install"
  BY <1>1, AloneInside DEF Locked, Placed
<1>3. /\ \A u \in Threads : Share(u)' = Share(u)
      /\ \A f : Owned(f)' <=> Owned(f)
  BY <1>1, <1>2 DEF Share, At, Owned
<1>4. Borrowers' = Borrowers
  BY <1>1 DEF Borrowers, Placed
<1>5. OwnTyped' /\ Current'
  BY <1>1, <1>2 DEF OInv, OwnTyped, Current, At, Placed
<1>6. OneOwner'
  BY <1>1, <1>2, <1>3 DEF OInv, OneOwner, At, Placed, Closers
<1>7. Borrowed' /\ LateOpen'
  BY <1>1, <1>4 DEF OInv, Borrowed, LateOpen, Late
<1> QED  BY <1>5, <1>6, <1>7 DEF OInv

LEMMA OwnCreate ==
  ASSUME OInv, Placed, NEW t \in Threads, CreateFile(t)
  PROVE  OInv'
<1>0. pc[t] = "create" /\ fd = None /\ closing[t] = {}
  BY DEF CreateFile, At, OInv, Current, OneOwner, Closers
<1>1. CASE pc' = [pc EXCEPT ![t] = "unlock"] /\ UNCHANGED <<disk, got, aimed>>
  <2>1. UNCHANGED <<fd, writers, orphans, table, files, got, aimed, closing>>
    BY <1>1 DEF CreateFile, borrow, disk
  <2> QED  BY <1>0, <1>1, <2>1, OwnMove DEF Labels, Closers, Late, Claiming
<1>2. ASSUME NEW i \in Inodes, NEW f \in FDs,
             pc' = [pc EXCEPT ![t] = "install"], table[f] = "closed",
             table' = [table EXCEPT ![f] = i], files' = [files EXCEPT ![0] = i],
             got' = [got EXCEPT ![t] = f], aimed' = [aimed EXCEPT ![t] = i]
      PROVE  OInv'
  <2>0. UNCHANGED <<fd, writers, orphans, closing>> /\ 0 \in Generations
    BY FileAssumption DEF CreateFile, borrow, Generations
  <2>1. \A u \in Threads : pc[u] # "install" /\ (pc'[u] = "install" <=> u = t)
    BY <1>0, <1>2, AloneInside DEF Locked, Placed
  <2>2. ~Owned(f)
    BY <1>2, FileAssumption DEF OInv, OneOwner
  <2>3. /\ Share(t)' = {f} /\ Share(t) = {}
        /\ \A u \in Threads \ {t} : Share(u)' = Share(u) /\ f \notin Share(u)
    BY <1>0, <1>2, <2>0, <2>1, <2>2 DEF Share, At, Owned, OInv, OwnTyped
  <2>4. \A g \in FDs : Owned(g)' <=> Owned(g) \/ g = f
    BY <2>0, <2>3 DEF Owned
  <2>5. OwnTyped'
    BY <1>2, <2>0 DEF OInv, OwnTyped
  <2>6. OneOwner'
    <3>1. \A g \in FDs : table'[g] \in Inodes <=> Owned(g)'
      BY <1>2, <2>4 DEF OInv, OwnTyped, OneOwner
    <3>2. /\ fd' \notin orphans'
          /\ \A u \in Threads : fd' \notin Share(u)' /\ Share(u)' \cap orphans' = {}
      BY <1>0, <2>0, <2>2, <2>3, FileAssumption DEF OInv, OneOwner, Owned, None
    <3>3. \A u, v \in Threads : u # v => Share(u)' \cap Share(v)' = {}
      BY <2>3 DEF OInv, OneOwner
    <3>4. \A u \in Threads : /\ closing'[u] # {} => pc'[u] \in Closers
                             /\ At(u, "install")' => got'[u] \in FDs
      BY <1>0, <1>2, <2>0, <2>1 DEF OInv, OwnTyped, OneOwner, At, Placed
    <3> QED  BY <3>1, <3>2, <3>3, <3>4 DEF OneOwner
  <2>7. Current'
    BY <1>0, <1>2, <2>0, <2>1 DEF OInv, OwnTyped, Current, At, Placed
  <2>8. Borrowers' = Borrowers
    BY <1>0, <1>2, LoopIsNoWorker DEF Borrowers, Placed
  <2>9. Borrowed'
    <3>1. \A w \in Borrowers : got[w] # f /\ w # t /\ w \in Threads
      BY <1>0, <2>2, LoopIsNoWorker DEF OInv, Borrowed, Owned, Borrowers
    <3>2. \A w \in Borrowers : /\ got'[w] = got[w] /\ aimed'[w] = aimed[w]
                               /\ table'[got[w]] = table[got[w]]
      BY <1>2, <3>1 DEF OInv, OwnTyped, Borrowed
    <3> QED  BY <2>0, <2>8, <3>2 DEF OInv, Borrowed
  <2>10. LateOpen'
    BY <1>0, <2>0 DEF LateOpen
  <2> QED  BY <2>5, <2>6, <2>7, <2>9, <2>10 DEF OInv
<1>3. CASE files[0] # None \/ Inodes \ Kept(files, table) # {}
  <2>1. 0 \in Generations
    BY FileAssumption DEF Generations
  <2>2. (IF files[0] # None THEN files[0] ELSE NewFile) \in Inodes
    BY <1>3, <2>1 DEF NewFile, OInv, OwnTyped
  <2> DEFINE new == IF files[0] # None THEN files[0] ELSE NewFile
  <2>3. \/ pc' = [pc EXCEPT ![t] = "unlock"] /\ UNCHANGED <<disk, got, aimed>>
        \/ /\ pc' = [pc EXCEPT ![t] = "install"]
           /\ \E f \in FDs :
                /\ table[f] = "closed" /\ table' = [table EXCEPT ![f] = new]
                /\ files' = [files EXCEPT ![0] = new]
                /\ got' = [got EXCEPT ![t] = f] /\ aimed' = [aimed EXCEPT ![t] = new]
    BY DEF CreateFile, Go
  <2>4. new \in Inodes
    BY <2>2
  <2> HIDE DEF new
  <2> QED  BY <1>1, <1>2, <2>3, <2>4
<1> QED  BY <1>1, <1>3 DEF CreateFile, Go

LEMMA OwnInstall ==
  ASSUME OInv, Placed, NEW t \in Threads, InstallFd(t)
  PROVE  OInv'
<1>0. /\ pc[t] = "install" /\ pc' = [pc EXCEPT ![t] = "recheck"] /\ fd = None
      /\ closing[t] = {} /\ got[t] \in FDs /\ table[got[t]] = files[0]
      /\ fd' = got[t] /\ got' = [got EXCEPT ![t] = None]
      /\ aimed' = [aimed EXCEPT ![t] = None]
      /\ UNCHANGED <<writers, orphans, table, files, closing>>
  BY DEF InstallFd, At, Go, disk, OInv, Current, OneOwner, Closers
<1>1. \A u \in Threads : pc'[u] # "install"
  BY <1>0, AloneInside DEF Locked, Placed
<1>2. /\ Share(t) = {got[t]} /\ Share(t)' = {}
      /\ \A u \in Threads \ {t} : Share(u)' = Share(u)
  BY <1>0, <1>1 DEF Share, At, Placed, OInv, OwnTyped
<1>3. \A g \in FDs : Owned(g)' <=> Owned(g)
  BY <1>0, <1>2, FileAssumption DEF Owned, None
<1>4. OwnTyped'
  BY <1>0 DEF OInv, OwnTyped
<1>5. OneOwner'
  <2>1. \A g \in FDs : table'[g] \in Inodes <=> Owned(g)'
    BY <1>0, <1>3 DEF OInv, OneOwner
  <2>2. /\ fd' \notin orphans'
        /\ \A u \in Threads : fd' \notin Share(u)' /\ Share(u)' \cap orphans' = {}
    BY <1>0, <1>2 DEF OInv, OneOwner
  <2>3. \A u, v \in Threads : u # v => Share(u)' \cap Share(v)' = {}
    BY <1>2 DEF OInv, OneOwner
  <2>4. \A u \in Threads : /\ closing'[u] # {} => pc'[u] \in Closers
                           /\ At(u, "install")' => got'[u] \in FDs
    BY <1>0, <1>1 DEF OInv, OneOwner, At, Placed
  <2> QED  BY <2>1, <2>2, <2>3, <2>4 DEF OneOwner
<1>6. Current'
  BY <1>0, <1>1, AloneInside DEF Current, At, Placed, Claiming, Locked, Rotating
<1>7. Borrowers' = Borrowers
  BY <1>0, LoopIsNoWorker DEF Borrowers, Placed
<1>8. Borrowed'
  <2>1. \A w \in Borrowers : w \in Threads /\ w # t /\ got[w] \in orphans
    BY <1>0, LoopIsNoWorker, FileAssumption DEF OInv, Borrowed, Borrowers, None
  <2>2. \A w \in Borrowers : got'[w] = got[w] /\ aimed'[w] = aimed[w]
    BY <1>0, <2>1 DEF OInv, OwnTyped
  <2> QED  BY <1>0, <1>7, <2>1, <2>2 DEF OInv, Borrowed
<1>9. LateOpen'
  BY <1>0 DEF LateOpen, Placed
<1> QED  BY <1>4, <1>5, <1>6, <1>8, <1>9 DEF OInv

LEMMA OwnRetire ==
  ASSUME OInv, Placed, NEW t \in Threads, NEW from, NEW close \in Closers, NEW to \in Labels,
         RetireFd(t, from, close, to),
         from \notin {"write", "return", "install"} \cup Closers,
         to \notin {"write", "return", "install"}
  PROVE  OInv'
<1>0. /\ pc[t] = from /\ closing[t] = {} /\ fd' = None
      /\ UNCHANGED <<writers, table, files, got, aimed>>
      /\ pc' = [pc EXCEPT ![t] = close] \/ pc' = [pc EXCEPT ![t] = to]
      /\ close \notin {"write", "return", "install"}
  BY DEF RetireFd, Retired, At, Go, disk, task, OInv, OneOwner, Closers
<1>1. \A u \in Threads : pc'[u] = "install" <=> pc[u] = "install"
  BY <1>0 DEF Placed
<1>2. Borrowers' = Borrowers /\ IsFiniteSet(Borrowers)
  BY <1>0, FileAssumption, LoopIsNoWorker, FS_Subset DEF Borrowers, Placed
<1>3. \/ fd = None /\ UNCHANGED <<orphans, closing>>
      \/ /\ fd \in FDs /\ writers > 0
         /\ orphans' = orphans \cup {fd} /\ UNCHANGED closing
      \/ /\ fd \in FDs /\ writers = 0 /\ UNCHANGED orphans
         /\ closing' = [closing EXCEPT ![t] = {fd}] /\ pc' = [pc EXCEPT ![t] = close]
  <2>1. CASE fd = None
    BY <2>1 DEF RetireFd
  <2>2. CASE fd # None /\ writers > 0
    BY <2>2 DEF RetireFd, Retired, OInv, OwnTyped
  <2>3. CASE fd # None /\ ~(writers > 0)
    <3>1. fd \in FDs /\ writers = 0 /\ UNCHANGED orphans
          /\ closing' = [closing EXCEPT ![t] = {fd}]
      BY <2>3 DEF RetireFd, Retired, OInv, OwnTyped
    <3>2. closing'[t] # {}
      BY <3>1 DEF OInv, OwnTyped
    <3> QED  BY <3>1, <3>2 DEF RetireFd, Go
  <2> QED  BY <2>1, <2>2, <2>3
<1>4. OwnTyped'
  BY <1>0, <1>3 DEF OInv, OwnTyped
<1>5. /\ \A u \in Threads \ {t} : Share(u)' = Share(u)
      /\ Share(t) = {}
      /\ Share(t)' = closing'[t]
  BY <1>0, <1>1, <1>3 DEF Share, At, Placed, OInv, OwnTyped
<1>6. OneOwner'
  <2>1. \A f \in FDs : Owned(f)' <=> Owned(f)
    <3>1. closing[t] = {} /\ closing \in [Threads -> SUBSET FDs] /\ None \notin FDs
      BY <1>0, FileAssumption DEF OInv, OwnTyped, None
    <3> QED  BY <1>0, <1>3, <1>5, <3>1 DEF Owned
  <2>2. \A f \in FDs : table'[f] \in Inodes <=> Owned(f)'
    BY <1>0, <2>1 DEF OInv, OneOwner
  <2>3. /\ fd' \notin orphans'
        /\ \A u \in Threads : fd' \notin Share(u)' /\ Share(u)' \cap orphans' = {}
    <3>1. \A u \in Threads : Share(u)' \subseteq FDs
      BY <1>1, <1>4, <1>0 DEF Share, At, OwnTyped, OInv, OneOwner
    <3>2. fd' \notin orphans' /\ \A u \in Threads : fd' \notin Share(u)'
      BY <1>0, <1>4, <3>1, FileAssumption DEF OwnTyped, None
    <3>3. \A u \in Threads : Share(u)' \cap orphans' = {}
      BY <1>0, <1>3, <1>5 DEF OInv, OneOwner, OwnTyped
    <3> QED  BY <3>2, <3>3
  <2>4. \A u, v \in Threads : u # v => Share(u)' \cap Share(v)' = {}
    BY <1>0, <1>3, <1>5 DEF OInv, OneOwner, OwnTyped
  <2>5. \A u \in Threads : /\ closing'[u] # {} => pc'[u] \in Closers
                           /\ At(u, "install")' => got'[u] \in FDs
    BY <1>0, <1>1, <1>3 DEF OInv, OneOwner, OwnTyped, At, Placed
  <2> QED  BY <2>2, <2>3, <2>4, <2>5 DEF OneOwner
<1>7. Current'
  BY <1>0, <1>1 DEF OInv, Current, At
<1>8. Borrowed'
  <2>1. writers > 0 => Borrowers # {}
    BY FS_EmptySet DEF OInv, Borrowed
  <2>2. writers = 0 => Borrowers = {}
    BY <1>2, FS_EmptySet DEF OInv, Borrowed
  <2>3. \A w \in Borrowers : got[w] = fd' \/ got[w] \in orphans'
    BY <1>0, <1>3, <2>2, FileAssumption DEF OInv, Borrowed, None
  <2>4. orphans' # {} => Borrowers # {}
    BY <1>3, <2>1 DEF OInv, Borrowed
  <2> QED  BY <1>0, <1>2, <2>3, <2>4 DEF OInv, Borrowed
<1>9. LateOpen'
  BY <1>0 DEF LateOpen
<1> QED  BY <1>4, <1>6, <1>7, <1>8, <1>9 DEF OInv

LEMMA OwnClose ==
  ASSUME OInv, Placed, NEW t \in Threads, NEW from \in Closers, NEW to \in Labels,
         OsClose(t, from, to),
         to \notin {"write", "return", "install"} \cup Closers,
         to \in Claiming \cup {"create", "shut", "rename"} => from = "shut",
         t = "loop" /\ to \in Late => from \in Late
  PROVE  OInv'
<1>0. /\ pc[t] = from /\ pc' = [pc EXCEPT ![t] = to]
      /\ from \notin {"write", "return", "install", "recheck", "undo"}
      /\ table' = [f \in FDs |-> IF f \in closing[t] THEN "closed" ELSE table[f]]
      /\ closing' = [closing EXCEPT ![t] = {}]
      /\ UNCHANGED <<fd, writers, orphans, files, got, aimed>>
  BY DEF OsClose, At, Go, borrow, task, Closers
<1>1. \A u \in Threads : pc'[u] = "install" <=> pc[u] = "install"
  BY <1>0 DEF Placed
<1>2. Borrowers' = Borrowers
  BY <1>0, LoopIsNoWorker DEF Borrowers, Placed
<1>3. OwnTyped'
  BY <1>0 DEF OInv, OwnTyped
<1>4. /\ \A u \in Threads \ {t} : Share(u)' = Share(u)
      /\ Share(t) = closing[t] /\ Share(t)' = {}
  BY <1>0, <1>1 DEF Share, At, Placed, OInv, OwnTyped
<1>5. \A f \in FDs : IF f \in closing[t]
                    THEN table'[f] = "closed" /\ ~Owned(f)'
                    ELSE table'[f] = table[f] /\ (Owned(f)' <=> Owned(f))
  BY <1>0, <1>4 DEF Owned, OInv, OneOwner
<1>6. OneOwner'
  <2>1. \A f \in FDs : table'[f] \in Inodes <=> Owned(f)'
    BY <1>5, FileAssumption DEF OInv, OneOwner
  <2>2. /\ fd' \notin orphans'
        /\ \A u \in Threads : fd' \notin Share(u)' /\ Share(u)' \cap orphans' = {}
    BY <1>0, <1>4 DEF OInv, OneOwner
  <2>3. \A u, v \in Threads : u # v => Share(u)' \cap Share(v)' = {}
    BY <1>4 DEF OInv, OneOwner
  <2>4. \A u \in Threads : /\ closing'[u] # {} => pc'[u] \in Closers
                           /\ At(u, "install")' => got'[u] \in FDs
    BY <1>0, <1>1 DEF OInv, OneOwner, OwnTyped, At, Placed
  <2> QED  BY <2>1, <2>2, <2>3, <2>4 DEF OneOwner
<1>7. Current'
  <2>1. fd # None => fd \in FDs /\ fd \notin closing[t]
    BY <1>4 DEF OInv, OwnTyped, OneOwner
  <2>2. \A u \in Threads : At(u, "install") => got[u] \in FDs /\ got[u] \notin closing[t]
    <3> SUFFICES ASSUME NEW u \in Threads, At(u, "install")
                 PROVE  got[u] \in FDs /\ got[u] \notin closing[t]
      OBVIOUS
    <3>1. u # t /\ got[u] \in Share(u)
      BY <1>0 DEF At, Share
    <3> QED  BY <1>4, <3>1 DEF OInv, OneOwner
  <2>3. fd' # None => table'[fd'] = files'[0]
    BY <1>0, <2>1 DEF OInv, Current
  <2>4. \A u \in Threads : At(u, "install")' => table'[got'[u]] = files'[0]
    BY <1>0, <1>1, <2>2 DEF OInv, Current, At
  <2>5. \A u \in Threads :
          pc'[u] \in Claiming \cup {"create", "install", "shut", "rename"} => fd' = None
    BY <1>0 DEF OInv, Current, Placed
  <2> QED  BY <2>3, <2>4, <2>5 DEF Current, At
<1>8. Borrowed'
  <2>1. \A w \in Borrowers : got[w] \in FDs /\ got[w] \notin closing[t]
    BY <1>4 DEF OInv, OneOwner, Borrowed
  <2> QED  BY <1>0, <1>2, <2>1 DEF OInv, Borrowed
<1>9. LateOpen'
  BY <1>0, LoopIsNoWorker DEF OInv, LateOpen, Placed
<1> QED  BY <1>3, <1>6, <1>7, <1>8, <1>9 DEF OInv

LEMMA OwnGivingUp ==
  ASSUME OInv, Placed, NEW t \in Threads, UndoOpen(t)
  PROVE  OInv'
<1> USE DEF Labels, Closers, Late, Claiming
<1>1. CASE RetireFd(t, "undo", "undoClose", "undoCheck")
  BY <1>1, OwnRetire
<1>2. CASE OsClose(t, "undoClose", "undoCheck")
  BY <1>2, OwnClose
<1>3. CASE ReleaseCheck(t, "undoCheck", "undoUnclaim", "unlock")
  BY <1>3, OwnMove DEF ReleaseCheck, At, Go, borrow, disk, local
<1>4. CASE Unclaim(t, "undoUnclaim", "undoDiscard") \/ Discard(t, "undoDiscard", "unlock")
  BY <1>4, OwnMove DEF Unclaim, Discard, At, Go, borrow, disk, local
<1> QED  BY <1>1, <1>2, <1>3, <1>4 DEF UndoOpen

LEMMA OwnTeardown ==
  ASSUME OInv, Placed, Teardown
  PROVE  OInv'
<1> USE LoopIsNoWorker DEF Labels, Closers, Late, Claiming
<1>1. CASE RetireFd("loop", "end", "endClose", "endCheck")
  BY <1>1, OwnRetire
<1>2. CASE OsClose("loop", "endClose", "endCheck")
  BY <1>2, OwnClose
<1>3. CASE ReleaseCheck("loop", "endCheck", "endUnclaim", "down")
  BY <1>3, OwnMove DEF ReleaseCheck, At, Go, borrow, disk, local
<1>4. CASE Unclaim("loop", "endUnclaim", "endDiscard") \/ Discard("loop", "endDiscard", "down")
  BY <1>4, OwnMove DEF Unclaim, Discard, At, Go, borrow, disk, local
<1> QED  BY <1>1, <1>2, <1>3, <1>4 DEF Teardown

LEMMA OwnRename ==
  ASSUME OInv, Placed, NEW w \in Workers, Rename(w)
  PROVE  OInv'
<1>1. /\ w \in Threads /\ pc[w] = "rename" /\ pc' = [pc EXCEPT ![w] = "open"] /\ fd = None
      /\ UNCHANGED <<fd, writers, orphans, table, got, aimed, closing>>
  BY LoopIsNoWorker DEF Rename, At, Go, borrow, OInv, Current
<1>2. \A u \in Threads : pc[u] # "install" /\ pc'[u] # "install"
  BY <1>1, AloneInside DEF Locked, Rotating, Placed
<1>3. /\ \A u \in Threads : Share(u)' = Share(u)
      /\ \A f : Owned(f)' <=> Owned(f)
  BY <1>1, <1>2 DEF Share, At, Owned
<1>4. files' \in [Generations -> Inodes \cup {None}]
  <2>1. \A g \in Generations : g # 0 => g - 1 \in Generations
    BY FileAssumption DEF Generations
  <2>2. \A p, g \in Generations : ~(g <= p) => g # 0
    BY FileAssumption DEF Generations
  <2>3. files' = Shifted \/ \E p \in Generations : files' = Interrupted(p)
    BY DEF Rename
  <2> QED  BY <2>1, <2>2, <2>3 DEF Shifted, Interrupted, OInv, OwnTyped
<1>5. Borrowers' = Borrowers
  BY <1>1, LoopIsNoWorker DEF Borrowers, Placed
<1>6. OwnTyped'
  BY <1>1, <1>4 DEF OInv, OwnTyped
<1>7. Current'
  BY <1>1, <1>2 DEF OInv, Current, At, Placed
<1>8. OneOwner'
  BY <1>1, <1>2, <1>3 DEF OInv, OneOwner, At, Placed, Closers
<1>9. Borrowed' /\ LateOpen'
  BY <1>1, <1>5 DEF OInv, Borrowed, LateOpen
<1> QED  BY <1>6, <1>7, <1>8, <1>9 DEF OInv

LEMMA OwnForeign ==
  ASSUME OInv, NEW f \in FDs, ForeignOpen(f) \/ ForeignClose(f)
  PROVE  OInv'
<1>1. /\ UNCHANGED <<pc, fd, writers, orphans, files, got, aimed, closing>>
      /\ table[f] \notin Inodes
      /\ \E x \in {"closed", "foreign"} : table' = [table EXCEPT ![f] = x]
  BY FileAssumption DEF ForeignOpen, ForeignClose, borrow, local
<1>2. ~Owned(f)
  BY <1>1 DEF OInv, OneOwner
<1>3. table' \in [FDs -> Inodes \cup {"closed", "foreign"}] /\ table'[f] \notin Inodes
      /\ \A g \in FDs : g # f => table'[g] = table[g]
  BY <1>1, FileAssumption DEF OInv, OwnTyped
<1>4. /\ \A u \in Threads : Share(u)' = Share(u)
      /\ \A g : Owned(g)' <=> Owned(g)
  BY <1>1 DEF Share, At, Owned
<1>5. OwnTyped' /\ LateOpen'
  BY <1>1, <1>3 DEF OInv, OwnTyped, LateOpen
<1>6. OneOwner'
  BY <1>1, <1>2, <1>3, <1>4 DEF OInv, OneOwner, At
<1>7. Current'
  <2>1. fd # f /\ \A u \in Threads : At(u, "install") => got[u] # f
    BY <1>2 DEF Owned, Share
  <2>2. fd # None => fd \in FDs /\ fd # f
    BY <2>1 DEF OInv, OwnTyped
  <2>3. \A u \in Threads : At(u, "install") => got[u] \in FDs
    BY DEF OInv, OneOwner
  <2> QED  BY <1>1, <1>3, <2>1, <2>2, <2>3 DEF OInv, Current, At
<1>8. Borrowed'
  <2>1. Borrowers' = Borrowers
    BY <1>1 DEF Borrowers
  <2>2. \A w \in Borrowers : got[w] \in FDs /\ got[w] # f
    BY <1>2 DEF OInv, Borrowed, Owned
  <2> QED  BY <1>1, <1>3, <2>1, <2>2 DEF OInv, Borrowed
<1> QED  BY <1>5, <1>6, <1>7, <1>8 DEF OInv

LEMMA OwnAcquire ==
  ASSUME OInv, Placed, NEW w \in Workers, AcquireFd(w)
  PROVE  OInv'
<1> USE DEF At, Go
<1>0. /\ w \in Threads /\ w # "loop" /\ pc[w] = "borrow" /\ w \notin Borrowers
      /\ UNCHANGED <<fd, orphans, table, files, closing>>
  BY LoopIsNoWorker DEF AcquireFd, Borrowers, disk
<1>1. CASE fd = None
  <2>1. pc' = [pc EXCEPT ![w] = "ended"] /\ UNCHANGED <<writers, got, aimed>>
    BY <1>1 DEF AcquireFd
  <2> QED  BY <1>0, <2>1, OwnMove DEF Labels, Closers, Claiming
<1>2. CASE fd # None
  <2>1. /\ pc' = [pc EXCEPT ![w] = "write"] /\ writers' = writers + 1
        /\ got' = [got EXCEPT ![w] = fd] /\ fd \in FDs
        /\ table[fd] \in Inodes /\ aimed' = [aimed EXCEPT ![w] = table[fd]]
    BY <1>2 DEF AcquireFd, CountBorrower, OInv, OwnTyped, OneOwner, Owned
  <2>2. \A u \in Threads : pc'[u] = "install" <=> pc[u] = "install"
    BY <1>0, <2>1 DEF Placed
  <2>3. /\ \A u \in Threads : Share(u)' = Share(u)
        /\ \A f : Owned(f)' <=> Owned(f)
    BY <1>0, <2>1, <2>2 DEF Share, Owned, OInv, OwnTyped
  <2>4. Borrowers' = Borrowers \cup {w} /\ IsFiniteSet(Borrowers)
    BY <1>0, <2>1, FileAssumption, LoopIsNoWorker, FS_Subset DEF Borrowers, Placed
  <2>5. OwnTyped'
    BY <1>0, <2>1 DEF OInv, OwnTyped
  <2>6. OneOwner'
    BY <1>0, <2>1, <2>2, <2>3 DEF OInv, OneOwner, OwnTyped, Placed, Closers
  <2>7. Current' /\ LateOpen'
    BY <1>0, <2>1, <2>2 DEF OInv, OwnTyped, Current, LateOpen, Placed, Claiming
  <2>8. writers' = Cardinality(Borrowers')
    BY <1>0, <2>1, <2>4, FS_AddElement DEF OInv, Borrowed
  <2>9. Borrowed'
    BY <1>0, <2>1, <2>4, <2>8 DEF OInv, OwnTyped, Borrowed
  <2> QED  BY <2>5, <2>6, <2>7, <2>9 DEF OInv
<1> QED  BY <1>1, <1>2

LEMMA OwnRelease ==
  ASSUME OInv, Placed, NEW w \in Workers, ReleaseFd(w)
  PROVE  OInv'
<1> USE DEF At, Go
<1>0. /\ w \in Threads /\ w # "loop" /\ pc[w] = "return" /\ w \in Borrowers
      /\ pc' = [pc EXCEPT ![w] = "letgo"] /\ writers' = writers - 1
      /\ got' = [got EXCEPT ![w] = None] /\ aimed' = [aimed EXCEPT ![w] = None]
      /\ UNCHANGED <<fd, table, files>> /\ closing[w] = {}
  BY LoopIsNoWorker DEF ReleaseFd, Borrowers, disk, OInv, OneOwner, Closers
<1>1. \A u \in Threads : pc'[u] = "install" <=> pc[u] = "install"
  BY <1>0 DEF Placed
<1>2. Borrowers' = Borrowers \ {w} /\ IsFiniteSet(Borrowers)
  BY <1>0, FileAssumption, LoopIsNoWorker, FS_Subset DEF Borrowers, Placed
<1>3. writers' = Cardinality(Borrowers') /\ writers' \in Nat
  <2>1. /\ Cardinality(Borrowers \ {w}) = Cardinality(Borrowers) - 1
        /\ IsFiniteSet(Borrowers \ {w})
    BY <1>0, <1>2, FS_RemoveElement
  <2>2. Cardinality(Borrowers \ {w}) \in Nat
    BY <2>1, FS_CardinalityType
  <2> QED  BY <1>0, <1>2, <2>1, <2>2 DEF OInv, Borrowed
<1>4. writers' = 0 <=> Borrowers' = {}
  BY <1>2, <1>3, FS_EmptySet, FS_RemoveElement
<1>5. \/ writers' = 0 /\ orphans' = {} /\ closing' = [closing EXCEPT ![w] = orphans]
      \/ writers' # 0 /\ UNCHANGED <<orphans, closing>>
  BY DEF ReleaseFd
<1>6. OwnTyped'
  BY <1>0, <1>3, <1>5 DEF OInv, OwnTyped
<1>7. /\ \A u \in Threads \ {w} : Share(u)' = Share(u)
      /\ Share(w) = {}
      /\ Share(w)' = closing'[w]
  BY <1>0, <1>1, <1>5 DEF Share, OInv, OwnTyped
<1>8. OneOwner'
  <2>1. \A f \in FDs : Owned(f)' <=> Owned(f)
    BY <1>0, <1>5, <1>7 DEF Owned, OInv, OwnTyped
  <2>2. \A f \in FDs : table'[f] \in Inodes <=> Owned(f)'
    BY <1>0, <2>1 DEF OInv, OneOwner
  <2>3. /\ fd' \notin orphans'
        /\ \A u \in Threads : fd' \notin Share(u)' /\ Share(u)' \cap orphans' = {}
    BY <1>0, <1>5, <1>7 DEF OInv, OneOwner, OwnTyped
  <2>4. \A u, v \in Threads : u # v => Share(u)' \cap Share(v)' = {}
    BY <1>0, <1>5, <1>7 DEF OInv, OneOwner, OwnTyped
  <2>5. \A u \in Threads :
          /\ closing'[u] # {} => pc'[u] \in Closers
          /\ At(u, "install")' => got'[u] \in FDs
    BY <1>0, <1>1, <1>5 DEF OInv, OneOwner, OwnTyped, Placed, Closers
  <2> QED  BY <2>2, <2>3, <2>4, <2>5 DEF OneOwner
<1>9. Current' /\ LateOpen'
  BY <1>0, <1>1 DEF OInv, OwnTyped, Current, LateOpen, Placed, Claiming
<1>10. Borrowed'
  <2>1. \A v \in Borrowers' :
          got'[v] \in FDs /\ (got'[v] = fd \/ got'[v] \in orphans) /\ aimed'[v] = table[got'[v]]
    BY <1>0, <1>2, LoopIsNoWorker DEF OInv, OwnTyped, Borrowed, Borrowers
  <2>2. \A v \in Borrowers' : orphans' = orphans
    BY <1>4, <1>5
  <2> QED  BY <1>0, <1>3, <1>4, <1>5, <2>1, <2>2 DEF Borrowed
<1> QED  BY <1>6, <1>8, <1>9, <1>10 DEF OInv

LEMMA OwnWriting ==
  ASSUME OInv, Placed, NEW w \in Workers,
         \/ BeginBatch(w) \/ EndBatch(w) \/ CheckBatch(w) \/ NextSegment(w)
         \/ WriteSome(w) \/ WriteEnds(w)
  PROVE  OInv'
<1> USE DEF At, Go, borrow, disk, local, task
<1>0. w \in Threads /\ w # "loop"
  BY LoopIsNoWorker
<1>1. CASE WriteSome(w)
  BY <1>1, OwnStay DEF WriteSome
<1>2. ASSUME ~WriteSome(w) PROVE OInv'
  <2>1. /\ UNCHANGED <<fd, writers, orphans, table, files, got, aimed, closing>>
        /\ \/ pc[w] = "write" /\ pc' = [pc EXCEPT ![w] = "return"]
           \/ /\ pc[w] \in {"idle", "ended", "check", "segment"}
              /\ \E to \in {"idle", "ensure", "ended", "wantRotate", "segment", "borrow"} :
                   pc' = [pc EXCEPT ![w] = to]
    BY <1>2 DEF BeginBatch, EndBatch, CheckBatch, NextSegment, WriteEnds
  <2> QED  BY <1>0, <2>1, OwnMove DEF Labels, Closers, Late, Claiming
<1> QED  BY <1>1, <1>2

LEMMA OwnRest ==
  ASSUME OInv, Placed,
         StartOpens \/ Terminate \/ RivalClaims \/ RivalShares \/ RivalReleases \/ UNCHANGED vars
  PROVE  OInv'
<1> USE DEF At, Go, borrow, disk, local, task
<1>1. CASE StartOpens \/ Terminate
  <2>1. /\ UNCHANGED <<fd, writers, orphans, table, files, got, aimed, closing>>
        /\ pc["loop"] \in {"off", "up"}
        /\ pc' = [pc EXCEPT !["loop"] = "ensure"] \/ pc' = [pc EXCEPT !["loop"] = "end"]
    BY <1>1 DEF StartOpens, Terminate
  <2> QED  BY <2>1, LoopIsNoWorker, OwnMove DEF Labels, Closers, Late, Claiming
<1>2. CASE RivalClaims \/ RivalShares \/ RivalReleases \/ UNCHANGED vars
  BY <1>2, OwnStay DEF RivalClaims, RivalShares, RivalReleases, vars
<1> QED  BY <1>1, <1>2

LEMMA OwnNext == OInv /\ Placed /\ [Next]_vars => OInv'
<1> SUFFICES ASSUME OInv, Placed, [Next]_vars PROVE OInv'
  OBVIOUS
<1>1. ASSUME NEW t \in Threads, OpenStep(t) PROVE OInv'
  BY <1>1, OwnLooking, OwnClaim, OwnCreate, OwnInstall, OwnGivingUp DEF OpenStep
<1>2. ASSUME NEW w \in Workers, BeginBatch(w) \/ WriteStep(w) \/ Rotate(w) PROVE OInv'
  <2> USE DEF Labels, Closers, Late, Claiming
  <2>0. w \in Threads /\ w # "loop"
    BY LoopIsNoWorker
  <2>1. ASSUME OsClose(w, "letgo", IF broken[w] THEN "ended" ELSE "segment") PROVE OInv'
    <3>1. CASE broken[w]
      BY <2>0, <2>1, <3>1, OwnClose
    <3>2. CASE ~broken[w]
      BY <2>0, <2>1, <3>2, OwnClose
    <3> QED  BY <3>1, <3>2
  <2>2. ASSUME RetireFd(w, "rotate", "shut", "rename") PROVE OInv'
    BY <2>0, <2>2, OwnRetire
  <2>3. ASSUME OsClose(w, "shut", "rename") PROVE OInv'
    BY <2>0, <2>3, OwnClose
  <2> QED
    BY <1>2, <2>1, <2>2, <2>3, OwnAcquire, OwnRelease, OwnWriting, OwnRename
    DEF WriteStep, Rotate
<1> QED
  BY <1>1, <1>2, OwnTeardown, OwnForeign, OwnRest DEF Next

-----------------------------------------------------------------------------
(* Who owns the path.                                                      *)

PathTyped ==
  /\ claimed \in BOOLEAN /\ rival \in BOOLEAN /\ terminated \in BOOLEAN /\ shared \in BOOLEAN
  /\ path \in Names /\ registry \in SUBSET Names

\* The name is in the registry, and not through the other sink.
Mine == path \in registry /\ (path = "plain" => ~rival)

\* Until close() begins, and unless the fallback has been taken: what is claimed
\* and what is being probed is this sink's, and whatever is open or being opened
\* has been claimed.
PathsKept ==
  ~terminated /\ ~shared =>
    /\ claimed => Mine
    /\ rival => "plain" \in registry
    /\ fd # None => claimed
    /\ \A t \in Threads :
         /\ pc[t] \in {"create", "install", "write", "return"} => claimed
         /\ pc[t] \in {"probe", "abandon"} => ~claimed /\ Mine
         /\ pc[t] = "another" => ~claimed

PInv == PathTyped /\ PathsKept

LEMMA PathInit == Init => PInv
<1> SUFFICES ASSUME Init PROVE PInv
  OBVIOUS
<1>1. \A t \in Threads : pc[t] \in {"off", "idle"}
  BY DEF Init
<1> QED  BY <1>1 DEF Init, PInv, PathTyped, PathsKept, Mine, Names, None

\* A step that leaves the claim alone, and no descriptor appears but from an
\* open that claimed the path.
LEMMA PathMove ==
  ASSUME PInv, Placed, Placed', NEW t \in Threads, NEW to,
         pc' = [pc EXCEPT ![t] = to],
         UNCHANGED <<claimed, path, registry, rival, shared>>,
         terminated => terminated',
         to \notin {"probe", "abandon", "another"},
         to = "create" => claimed,
         to = "install" => pc[t] = "create",
         to = "write" => fd # None,
         to = "return" => pc[t] = "write",
         fd' # None /\ fd' # fd => pc[t] = "install"
  PROVE  PInv'
<1>1. PathTyped'
  BY DEF PInv, PathTyped, Placed
<1>2. \A u \in Threads : pc'[u] = IF u = t THEN to ELSE pc[u]
  BY DEF Placed
<1>3. PathsKept'
  <2> SUFFICES ASSUME ~terminated', ~shared' PROVE PathsKept'
    BY DEF PathsKept
  <2>1. ~terminated /\ ~shared /\ (Mine' <=> Mine)
    BY DEF Mine
  <2>2. fd' # None => claimed'
    BY <2>1 DEF PInv, PathsKept
  <2>3. \A u \in Threads :
          /\ pc'[u] \in {"create", "install", "write", "return"} => claimed'
          /\ pc'[u] \in {"probe", "abandon"} => ~claimed' /\ Mine'
          /\ pc'[u] = "another" => ~claimed'
    BY <1>2, <2>1 DEF PInv, PathsKept
  <2> QED  BY <2>1, <2>2, <2>3 DEF PInv, PathsKept
<1> QED  BY <1>1, <1>3 DEF PInv

\* After close() has begun, or once the path is shared, there is nothing to keep.
LEMMA PathOver ==
  ASSUME PInv, Placed', UNCHANGED <<rival, path>>, claimed' \in BOOLEAN, shared' \in BOOLEAN,
         registry' \in SUBSET Names, terminated' \/ shared'
  PROVE  PInv'
  BY DEF PInv, PathTyped, PathsKept, Placed

LEMMA PathClaim ==
  ASSUME PInv, Placed, Placed', OInv, NEW t \in Threads, ClaimPath(t)
  PROVE  PInv'
<1> USE DEF Names
<1>0. /\ pc[t] \in Claiming /\ fd = None /\ UNCHANGED <<fd, terminated, rival>>
      /\ \A u \in Threads : u # t => pc[u] \notin Locked
      /\ pc[t] \in Locked
  BY ClaimStep, AloneInside DEF OInv, Current, Claiming, Locked
<1>1. CASE TryName(t)
  <2>1. CASE claimed
    <3>1. UNCHANGED <<claimed, path, registry, rival, shared>> /\ pc' = [pc EXCEPT ![t] = "create"]
      BY <1>1, <2>1 DEF TryName, Go
    <3> QED  BY <1>0, <2>1, <3>1, PathMove
  <2>2. CASE ~claimed
    <3>1. /\ UNCHANGED <<claimed, path, shared>>
          /\ \/ /\ path \in registry /\ registry' = registry /\ pc' = [pc EXCEPT ![t] = "another"]
             \/ /\ path \notin registry /\ registry' = registry \cup {path}
                /\ pc' = [pc EXCEPT ![t] = "probe"]
      BY <1>1, <2>2 DEF TryName, NameTaken, Go
    <3>2. \A u \in Threads : u # t => pc'[u] = pc[u] /\ pc[u] \notin Claiming \cup {"create", "install"}
      BY <1>0, <3>1 DEF Placed, Locked
    <3>3. PathTyped'
      BY <1>0, <3>1 DEF PInv, PathTyped
    <3>4. CASE path \in registry /\ registry' = registry /\ pc' = [pc EXCEPT ![t] = "another"]
      <4>1. pc'[t] = "another"
        BY <3>4 DEF Placed
      <4> QED  BY <1>0, <2>2, <3>1, <3>2, <3>3, <3>4, <4>1 DEF PInv, PathsKept, Mine, Claiming
    <3>5. CASE /\ path \notin registry /\ registry' = registry \cup {path}
               /\ pc' = [pc EXCEPT ![t] = "probe"]
      <4>1. pc'[t] = "probe"
        BY <3>5 DEF Placed
      <4>2. ~terminated' /\ ~shared' => (rival => path # "plain")
        BY <1>0, <3>1, <3>5 DEF PInv, PathsKept
      <4> QED  BY <1>0, <2>2, <3>1, <3>2, <3>3, <3>5, <4>1, <4>2 DEF PInv, PathsKept, Mine, Claiming
    <3> QED  BY <3>1, <3>4, <3>5
  <2> QED  BY <2>1, <2>2 DEF PInv, PathTyped
<1>2. CASE ProbeName(t)
  <2>1. /\ pc[t] = "probe" /\ UNCHANGED <<path, registry, shared>>
        /\ \/ claimed' = TRUE /\ pc' = [pc EXCEPT ![t] = "create"]
           \/ UNCHANGED claimed /\ pc' = [pc EXCEPT ![t] = "abandon"]
    BY <1>2 DEF ProbeName, At, Go
  <2>2. \A u \in Threads : u # t => pc'[u] = pc[u] /\ pc[u] \notin Claiming \cup {"create", "install"}
    BY <1>0, <2>1 DEF Placed, Locked
  <2>3. PathTyped'
    BY <1>0, <2>1 DEF PInv, PathTyped
  <2>4. CASE claimed' = TRUE /\ pc' = [pc EXCEPT ![t] = "create"]
    <3>1. pc'[t] = "create"
      BY <2>4 DEF Placed
    <3> QED  BY <1>0, <2>1, <2>2, <2>3, <2>4, <3>1 DEF PInv, PathsKept, Mine, Claiming
  <2>5. CASE UNCHANGED claimed /\ pc' = [pc EXCEPT ![t] = "abandon"]
    <3>1. pc'[t] = "abandon"
      BY <2>5 DEF Placed
    <3> QED  BY <1>0, <2>1, <2>2, <2>3, <2>5, <3>1 DEF PInv, PathsKept, Mine, Claiming
  <2> QED  BY <2>1, <2>4, <2>5
<1>3. CASE AbandonName(t)
  <2>1. /\ pc[t] = "abandon" /\ registry' = registry \ {path} /\ UNCHANGED <<claimed, path, shared>>
        /\ pc' = [pc EXCEPT ![t] = "another"]
    BY <1>3 DEF AbandonName, At, Go
  <2>2. \A u \in Threads : u # t => pc'[u] = pc[u] /\ pc[u] \notin Claiming \cup {"create", "install"}
    BY <1>0, <2>1 DEF Placed, Locked
  <2>3. PathTyped' /\ pc'[t] = "another"
    BY <1>0, <2>1 DEF PInv, PathTyped, Placed
  <2> QED  BY <1>0, <2>1, <2>2, <2>3 DEF PInv, PathsKept, Mine, Claiming
<1>4. CASE TakeAnother(t)
  <2>1. /\ claimed' = TRUE /\ pc' = [pc EXCEPT ![t] = "create"]
        /\ \/ path' = "token" /\ registry' = registry \cup {"token"} /\ UNCHANGED shared
           \/ path' = path /\ registry' = registry \cup {path} /\ shared' = TRUE
    BY <1>4 DEF TakeAnother, Go
  <2>2. \A u \in Threads : u # t => pc'[u] = pc[u] /\ pc[u] \notin Claiming \cup {"create", "install"}
    BY <1>0, <2>1 DEF Placed, Locked
  <2>3. PathTyped' /\ pc'[t] = "create"
    BY <1>0, <2>1 DEF PInv, PathTyped, Placed
  <2> QED  BY <1>0, <2>1, <2>2, <2>3 DEF PInv, PathsKept, Mine, Claiming
<1> QED  BY <1>1, <1>2, <1>3, <1>4 DEF ClaimPath

\* The release comes after close().
LEMMA PathGivenUp ==
  ASSUME PInv, Placed, Placed', NEW t \in Threads, NEW from, NEW to,
         Unclaim(t, from, to) \/ Discard(t, from, to),
         from \in Undoing \/ (from \in Ending /\ t = "loop")
  PROVE  PInv'
<1>1. /\ pc[t] = from /\ UNCHANGED <<terminated, path, rival, shared>>
      /\ claimed' \in {claimed, FALSE} /\ registry' \in {registry, registry \ {path}}
  BY DEF Unclaim, Discard, At
<1>2. terminated
  BY <1>1 DEF Placed
<1> QED  BY <1>1, <1>2, PathOver DEF PInv, PathTyped

LEMMA PathOpening ==
  ASSUME PInv, Placed, Placed', OInv, NEW t \in Threads, OpenStep(t)
  PROVE  PInv'
<1> USE DEF At, Go, borrow, claim, local, task
<1>1. CASE ClaimPath(t)
  BY <1>1, PathClaim
<1>2. CASE CreateFile(t)
  <2>1. /\ pc[t] = "create" /\ UNCHANGED <<fd, claimed, path, registry, rival, shared, terminated>>
        /\ pc' = [pc EXCEPT ![t] = "unlock"] \/ pc' = [pc EXCEPT ![t] = "install"]
    BY <1>2 DEF CreateFile
  <2> QED  BY <2>1, PathMove
<1>3. CASE InstallFd(t)
  <2>1. /\ pc[t] = "install" /\ UNCHANGED <<claimed, path, registry, rival, shared, terminated>>
        /\ pc' = [pc EXCEPT ![t] = "recheck"]
    BY <1>3 DEF InstallFd
  <2>2. ASSUME NEW to, to = "recheck" PROVE PInv'
    <3>1. /\ pc' = [pc EXCEPT ![t] = to] /\ UNCHANGED <<claimed, path, registry, rival, shared>>
          /\ to \notin {"probe", "abandon", "another", "create", "install", "write", "return"}
          /\ terminated => terminated'
          /\ fd' # None /\ fd' # fd => pc[t] = "install"
      BY <2>1, <2>2
    <3> QED  BY <3>1, PathMove
  <2> QED  BY <2>2
<1>4. CASE UndoOpen(t)
  <2>1. ASSUME NEW close, NEW to, RetireFd(t, "undo", close, to),
               {close, to} \cap (Claiming \cup {"create", "install", "write", "return"}) = {}
        PROVE  PInv'
    <3>1. /\ UNCHANGED <<claimed, path, registry, rival, shared, terminated>>
          /\ fd' = None \/ fd' = fd
          /\ pc' = [pc EXCEPT ![t] = close] \/ pc' = [pc EXCEPT ![t] = to]
      BY <2>1 DEF RetireFd, Retired
    <3> QED  BY <2>1, <3>1, PathMove DEF Claiming
  <2>2. CASE OsClose(t, "undoClose", "undoCheck")
    <3>1. /\ UNCHANGED <<fd, claimed, path, registry, rival, shared, terminated>>
          /\ pc' = [pc EXCEPT ![t] = "undoCheck"]
      BY <2>2 DEF OsClose
    <3> QED  BY <3>1, PathMove
  <2>3. CASE ReleaseCheck(t, "undoCheck", "undoUnclaim", "unlock")
    <3>1. /\ UNCHANGED <<fd, claimed, path, registry, rival, shared, terminated>>
          /\ pc' = [pc EXCEPT ![t] = "undoUnclaim"] \/ pc' = [pc EXCEPT ![t] = "unlock"]
      BY <2>3 DEF ReleaseCheck
    <3> QED  BY <3>1, PathMove
  <2>4. CASE Unclaim(t, "undoUnclaim", "undoDiscard") \/ Discard(t, "undoDiscard", "unlock")
    BY <2>4, PathGivenUp DEF Undoing
  <2> QED  BY <1>4, <2>1, <2>2, <2>3, <2>4 DEF UndoOpen, Claiming
<1>5. CASE EnsureOpen(t) \/ TakeOpenLock(t) \/ OpenGuards(t) \/ Recheck(t) \/ Unlock(t)
  <2>1. back[t] \in {"up", "check", "segment"}
    BY DEF Placed
  <2>2. /\ UNCHANGED <<fd, claimed, path, registry, rival, shared, terminated>>
        /\ \E to \in {"up", "check", "segment", "lock", "open", "claim", "rotate", "undo",
                      "unlock", "ended"} : pc' = [pc EXCEPT ![t] = to]
    BY <1>5, <2>1 DEF EnsureOpen, TakeOpenLock, OpenGuards, Recheck, AfterInstall, Unlock
  <2> QED  BY <2>2, PathMove
<1> QED  BY <1>1, <1>2, <1>3, <1>4, <1>5 DEF OpenStep

LEMMA PathTeardown ==
  ASSUME PInv, Placed, Placed', Teardown
  PROVE  PInv'
<1> USE LoopIsNoWorker DEF At, Go, borrow, claim, local, task
<1>1. CASE RetireFd("loop", "end", "endClose", "endCheck")
  <2>1. /\ UNCHANGED <<claimed, path, registry, rival, shared, terminated>>
        /\ fd' = None \/ fd' = fd
        /\ pc' = [pc EXCEPT !["loop"] = "endClose"] \/ pc' = [pc EXCEPT !["loop"] = "endCheck"]
    BY <1>1 DEF RetireFd, Retired
  <2> QED  BY <2>1, PathMove
<1>2. CASE OsClose("loop", "endClose", "endCheck")
  <2>1. /\ UNCHANGED <<fd, claimed, path, registry, rival, shared, terminated>>
        /\ pc' = [pc EXCEPT !["loop"] = "endCheck"]
    BY <1>2 DEF OsClose
  <2> QED  BY <2>1, PathMove
<1>3. CASE ReleaseCheck("loop", "endCheck", "endUnclaim", "down")
  <2>1. /\ UNCHANGED <<fd, claimed, path, registry, rival, shared, terminated>>
        /\ pc' = [pc EXCEPT !["loop"] = "endUnclaim"] \/ pc' = [pc EXCEPT !["loop"] = "down"]
    BY <1>3 DEF ReleaseCheck
  <2> QED  BY <2>1, PathMove
<1>4. CASE Unclaim("loop", "endUnclaim", "endDiscard") \/ Discard("loop", "endDiscard", "down")
  BY <1>4, PathGivenUp DEF Ending
<1> QED  BY <1>1, <1>2, <1>3, <1>4 DEF Teardown

LEMMA PathWorking ==
  ASSUME PInv, Placed, Placed', NEW w \in Workers, BeginBatch(w) \/ WriteStep(w) \/ Rotate(w)
  PROVE  PInv'
<1> USE DEF At, Go, borrow, claim, local, task
<1>1. /\ UNCHANGED <<claimed, path, registry, rival, shared, terminated>>
      /\ fd' = None \/ fd' = fd
      /\ \/ UNCHANGED pc
         \/ \E to \in Labels \ (Claiming \cup {"create", "install", "write", "return"}) :
              pc' = [pc EXCEPT ![w] = to]
         \/ fd # None /\ pc' = [pc EXCEPT ![w] = "write"]
         \/ pc[w] = "write" /\ pc' = [pc EXCEPT ![w] = "return"]
  <2> USE DEF Claiming, Labels
  <2>1. CASE BeginBatch(w) \/ EndBatch(w)
    BY <2>1 DEF BeginBatch, EndBatch
  <2>2. CASE CheckBatch(w) \/ NextSegment(w) \/ AcquireFd(w)
    BY <2>2 DEF CheckBatch, NextSegment, AcquireFd
  <2>3. CASE WriteSome(w) \/ WriteEnds(w) \/ ReleaseFd(w)
    BY <2>3 DEF WriteSome, WriteEnds, ReleaseFd
  <2>4. CASE \/ OsClose(w, "letgo", IF broken[w] THEN "ended" ELSE "segment")
             \/ OsClose(w, "shut", "rename")
    BY <2>4 DEF OsClose
  <2>5. CASE RetireFd(w, "rotate", "shut", "rename") \/ Rename(w)
    BY <2>5 DEF RetireFd, Retired, Rename
  <2> QED  BY <2>1, <2>2, <2>3, <2>4, <2>5 DEF WriteStep, Rotate
<1>2. w \in Threads /\ w # "loop"
  BY LoopIsNoWorker
<1>3. CASE UNCHANGED pc
  <2>1. PathTyped'
    BY <1>1 DEF PInv, PathTyped
  <2> QED  BY <1>1, <1>3, <2>1 DEF PInv, PathsKept, Mine
<1>4. CASE \E to \in Labels \ (Claiming \cup {"create", "install", "write", "return"}) :
             pc' = [pc EXCEPT ![w] = to]
  BY <1>1, <1>2, <1>4, PathMove DEF Claiming
<1>5. ASSUME NEW to, (to = "write" /\ fd # None) \/ (to = "return" /\ pc[w] = "write"),
             pc' = [pc EXCEPT ![w] = to]
      PROVE  PInv'
  <2>1. /\ UNCHANGED <<claimed, path, registry, rival, shared>> /\ (terminated => terminated')
        /\ to \notin {"probe", "abandon", "another", "create", "install"}
        /\ to = "write" => fd # None
        /\ to = "return" => pc[w] = "write"
        /\ ~(fd' # None /\ fd' # fd)
    BY <1>1, <1>5
  <2> QED  BY <1>2, <1>5, <2>1, PathMove
<1>6. CASE fd # None /\ pc' = [pc EXCEPT ![w] = "write"]
  BY <1>5, <1>6
<1>7. CASE pc[w] = "write" /\ pc' = [pc EXCEPT ![w] = "return"]
  BY <1>5, <1>7
<1> QED  BY <1>1, <1>3, <1>4, <1>6, <1>7

LEMMA PathRest ==
  ASSUME PInv, Placed, Placed',
         \/ StartOpens \/ Terminate \/ RivalClaims \/ RivalShares \/ RivalReleases
         \/ UNCHANGED vars \/ \E f \in FDs : ForeignOpen(f) \/ ForeignClose(f)
  PROVE  PInv'
<1> USE DEF At, Go, borrow, claim, local, task
<1>1. CASE StartOpens \/ Terminate
  <2>1. /\ UNCHANGED <<fd, claimed, path, registry, rival, shared>> /\ (terminated => terminated')
        /\ pc' = [pc EXCEPT !["loop"] = "ensure"] \/ pc' = [pc EXCEPT !["loop"] = "end"]
    BY <1>1 DEF StartOpens, Terminate
  <2> QED  BY <2>1, LoopIsNoWorker, PathMove
<1>2. CASE RivalClaims
  <2>1. /\ UNCHANGED <<pc, fd, claimed, path, shared, terminated>>
        /\ "plain" \notin registry /\ rival' = TRUE /\ registry' = registry \cup {"plain"}
    BY <1>2 DEF RivalClaims
  <2>2. PathTyped'
    BY <2>1 DEF PInv, PathTyped, Names
  <2> QED  BY <2>1, <2>2 DEF PInv, PathsKept, Mine
<1>3. CASE RivalShares
  <2>1. /\ UNCHANGED <<claimed, path, terminated>>
        /\ rival' = TRUE /\ registry' = registry \cup {"plain"} /\ shared' = TRUE
    BY <1>3 DEF RivalShares
  <2> QED  BY <2>1 DEF PInv, PathTyped, PathsKept, Names
<1>4. CASE RivalReleases
  <2>1. /\ UNCHANGED <<pc, fd, claimed, path, shared, terminated>>
        /\ rival /\ rival' = FALSE /\ registry' = registry \ {"plain"}
    BY <1>4 DEF RivalReleases
  <2>2. PathTyped'
    BY <2>1 DEF PInv, PathTyped
  <2>3. Mine => Mine'
    BY <2>1 DEF Mine
  <2> QED  BY <2>1, <2>2, <2>3 DEF PInv, PathsKept
<1>5. CASE UNCHANGED vars \/ \E f \in FDs : ForeignOpen(f) \/ ForeignClose(f)
  <2>1. UNCHANGED <<pc, fd, claimed, path, registry, rival, shared, terminated>>
    BY <1>5 DEF vars, ForeignOpen, ForeignClose
  <2> QED  BY <2>1 DEF PInv, PathTyped, PathsKept, Mine
<1> QED  BY <1>1, <1>2, <1>3, <1>4, <1>5

LEMMA PathNext == PInv /\ Placed /\ Placed' /\ OInv /\ [Next]_vars => PInv'
  BY PathOpening, PathTeardown, PathWorking, PathRest DEF Next

-----------------------------------------------------------------------------
(* The theorems.                                                           *)

LEMMA FileInvariant == Spec => [](Placed /\ OInv /\ PInv)
<1>1. Init => Placed /\ OInv /\ PInv
  BY PlacedInit, OwnInit, PathInit
<1>2. Placed /\ OInv /\ PInv /\ [Next]_vars => (Placed /\ OInv /\ PInv)'
  BY PlacedNext, OwnNext, PathNext
<1> QED  BY <1>1, <1>2, PTL DEF Spec

\* Whatever close(), rotations and other owners of the number do meanwhile, the
\* descriptor a thread writes through is open on the file it borrowed it for.
THEOREM NoWriteGoesAstray == Spec => []NoMisdirectedWrite
<1>1. OInv => NoMisdirectedWrite
  BY DEF OInv, OneOwner, Borrowed, Owned, Borrowers, NoMisdirectedWrite, At
<1> QED  BY <1>1, FileInvariant, PTL

\* A closed sink that has come to rest has let go of every descriptor, also of
\* those that writers held or late opens made while it was closed.
THEOREM NothingStaysOpen == Spec => []NothingLeftOpen
<1>1. Placed /\ OInv => NothingLeftOpen
  <2> SUFFICES ASSUME Placed, OInv, At("loop", "down"), \A w \in Workers : At(w, "idle")
               PROVE  fd = None /\ orphans = {} /\ \A f \in FDs : table[f] \notin Inodes
    BY DEF NothingLeftOpen
  <2>1. \A t \in Threads : pc[t] \in {"idle", "down"}
    BY LoopIsNoWorker DEF At
  <2>2. fd = None
    BY <2>1, LoopIsNoWorker DEF OInv, LateOpen, Late, At
  <2>3. Borrowers = {}
    BY DEF Borrowers, At
  <2>4. orphans = {}
    BY <2>3 DEF OInv, Borrowed
  <2>5. \A t \in Threads : Share(t) = {}
    BY <2>1 DEF OInv, OneOwner, Closers, Share, At
  <2> QED  BY <2>2, <2>4, <2>5, FileAssumption DEF OInv, OneOwner, Owned, None
<1> QED  BY <1>1, FileInvariant, PTL

\* The current descriptor leads to the file with the active name.
THEOREM ActiveFileHolds == Spec => []AppendsToActive
<1>1. OInv => AppendsToActive
  BY DEF OInv, Current, AppendsToActive
<1> QED  BY <1>1, FileInvariant, PTL

\* Until close() begins, and but for the fallback: a sink that has its file open
\* or a write in flight has its path in the registry, and no other sink has
\* claimed it, whatever either opens, rotates, gives up and claims again.
THEOREM PathsStayDisjoint == Spec => []PathsDisjoint
<1>1. PInv => PathsDisjoint
  BY LoopIsNoWorker DEF PInv, PathsKept, PathsDisjoint, Mine, At
<1> QED  BY <1>1, FileInvariant, PTL
-----------------------------------------------------------------------------
(* Bytes, with one writer.                                                 *)

\* One call of _write_batch at a time, as FileSink has it unless a flush is
\* cancelled; the event loop opens and closes beside it.
OneWriter == \A v, w \in Workers : v = w

\* A batch under way has a file, or close() has taken it away.
Working == {"check", "segment", "borrow", "wantRotate", "write", "return", "letgo", "recheck"}
HasFile ==
  \A w \in Workers : pc[w] \in Working \/ (At(w, "unlock") /\ ~broken[w])
                       => fd # None \/ terminated

\* A descriptor that is borrowed but no longer the current one was taken away
\* by close().
LastOpen == \A w \in Borrowers : got[w] # fd => pc["loop"] \in Late

Counted ==
  /\ fileBytes \in Nat /\ size \in [Inodes -> Nat]
  /\ fd # None => fileBytes = size[table[fd]]
  /\ \A t \in Threads : At(t, "install") => fileBytes = size[table[got[t]]]

CInv == HasFile /\ LastOpen /\ Counted /\ DOMAIN broken = Threads

\* The lines of a batch, and what a file may hold.
Given == UNION {Range(b) : b \in BatchShapes}
Within(n) == n <= Limit \/ \E l \in Given : l > Limit /\ n <= l

Amounts ==
  /\ rest \in [Threads -> Nat]
  /\ lines \in [Threads -> Seq(Given)]

Fit ==
  /\ \A i \in Inodes : Within(size[i])
  /\ \A w \in Workers :
       /\ At(w, "borrow") /\ fd # None => Within(size[table[fd]] + rest[w])
       /\ At(w, "write") => Within(size[table[got[w]]] + rest[w])

BInv == Amounts /\ Fit

\* What happens to the files in a step that writes none of them: a file is
\* forgotten or keeps its bytes, and a descriptor that is open on one of them
\* stays open on it.
Steady ==
  /\ size' \in [Inodes -> Nat]
  /\ \A i \in Inodes : size'[i] \in {size[i], 0}
  /\ \A f \in FDs : table[f] \in Inodes /\ table'[f] \in Inodes
                      => table'[f] = table[f] /\ size'[table[f]] = size[table[f]]

LEMMA SizesSteady ==
  ASSUME table \in [FDs -> Inodes \cup {"closed", "foreign"}], size \in [Inodes -> Nat],
         table' \in [FDs -> Inodes \cup {"closed", "foreign"}],
         \A f \in FDs : table[f] \in Inodes /\ table'[f] \in Inodes => table'[f] = table[f],
         size' = size \/ size' = Sizes(files', table')
  PROVE  Steady
<1>1. CASE size' = size
  BY <1>1 DEF Steady
<1>2. CASE size' = Sizes(files', table')
  <2>1. /\ size' \in [Inodes -> Nat]
        /\ \A i \in Inodes : size'[i] = IF i \in Kept(files', table') THEN size[i] ELSE 0
    BY <1>2 DEF Sizes
  <2>2. \A f \in FDs : table'[f] \in Kept(files', table')
    BY DEF Kept, Range
  <2> QED  BY <2>1, <2>2 DEF Steady
<1> QED  BY <1>1, <1>2

LEMMA FilesSteady ==
  ASSUME OInv, OInv', size \in [Inodes -> Nat], [Next]_vars, \A w \in Workers : ~WriteSome(w)
  PROVE  Steady
<1> USE DEF disk
<1>0. /\ table \in [FDs -> Inodes \cup {"closed", "foreign"}]
      /\ table' \in [FDs -> Inodes \cup {"closed", "foreign"}]
  BY DEF OInv, OwnTyped
<1>1. ASSUME UNCHANGED <<table, size>> PROVE Steady
  BY <1>0, <1>1, SizesSteady
<1>2. ASSUME UNCHANGED table, size' = size \/ size' = Sizes(files', table) PROVE Steady
  BY <1>0, <1>2, SizesSteady
<1>3. ASSUME NEW t \in Threads, CreateFile(t) PROVE Steady
  <2>1. \A f \in FDs : table[f] \in Inodes => table'[f] = table[f]
    BY <1>0, <1>3, FileAssumption DEF CreateFile
  <2>2. size' = size
    BY <1>3 DEF CreateFile
  <2> QED  BY <1>0, <2>1, <2>2, SizesSteady
<1>4. ASSUME NEW t, NEW from, NEW to, OsClose(t, from, to) PROVE Steady
  <2>1. /\ \A f \in FDs : table'[f] \in Inodes => table'[f] = table[f]
        /\ size' = Sizes(files', table')
    BY <1>4, FileAssumption DEF OsClose
  <2> QED  BY <1>0, <2>1, SizesSteady
<1>5. ASSUME NEW f \in FDs, ForeignOpen(f) \/ ForeignClose(f) PROVE Steady
  <2>1. /\ \A g \in FDs : table[g] \in Inodes => table'[g] = table[g]
        /\ size' = size
    BY <1>0, <1>5, FileAssumption DEF ForeignOpen, ForeignClose
  <2> QED  BY <1>0, <2>1, SizesSteady
<1>6. ASSUME NEW t, NEW from, NEW close, NEW to,
             \/ RetireFd(t, from, close, to) \/ ReleaseCheck(t, from, close, to)
             \/ Unclaim(t, from, to) \/ Discard(t, from, to)
      PROVE  Steady
  BY <1>1, <1>6 DEF RetireFd, ReleaseCheck, Unclaim, Discard
<1>7. ASSUME NEW t \in Threads, OpenStep(t) PROVE Steady
  <2>1. CASE EnsureOpen(t) \/ TakeOpenLock(t) \/ OpenGuards(t) \/ InstallFd(t) \/ Recheck(t) \/ Unlock(t)
    BY <1>1, <2>1 DEF EnsureOpen, TakeOpenLock, OpenGuards, InstallFd, Recheck, Unlock
  <2>2. CASE ClaimPath(t)
    BY <1>2, <2>2, ClaimStep
  <2>3. CASE UndoOpen(t)
    BY <1>4, <1>6, <2>3 DEF UndoOpen
  <2> QED  BY <1>3, <1>7, <2>1, <2>2, <2>3 DEF OpenStep
<1>8. ASSUME NEW w \in Workers, BeginBatch(w) \/ WriteStep(w) \/ Rotate(w) PROVE Steady
  <2>1. CASE \/ BeginBatch(w) \/ CheckBatch(w) \/ NextSegment(w) \/ AcquireFd(w)
             \/ WriteEnds(w) \/ ReleaseFd(w) \/ EndBatch(w)
    BY <1>1, <2>1 DEF BeginBatch, CheckBatch, NextSegment, AcquireFd, WriteEnds, ReleaseFd,
                      EndBatch
  <2>2. CASE Rename(w)
    BY <1>2, <2>2 DEF Rename
  <2>3. CASE OsClose(w, "letgo", IF broken[w] THEN "ended" ELSE "segment")
    BY <1>4, <2>3
  <2> QED  BY <1>4, <1>6, <1>8, <2>1, <2>2, <2>3 DEF WriteStep, Rotate
<1>9. ASSUME Teardown PROVE Steady
  BY <1>4, <1>6, <1>9 DEF Teardown
<1>10. CASE StartOpens \/ Terminate \/ RivalClaims \/ RivalShares \/ RivalReleases \/ UNCHANGED vars
  BY <1>1, <1>10 DEF StartOpens, Terminate, RivalClaims, RivalShares, RivalReleases, vars
<1> QED  BY <1>5, <1>7, <1>8, <1>9, <1>10 DEF Next

LEMMA CountInit == Init => CInv
<1> SUFFICES ASSUME Init PROVE CInv
  OBVIOUS
<1>1. \A t \in Threads : pc[t] \in {"off", "idle"}
  BY DEF Init
<1>2. HasFile /\ LastOpen
  BY <1>1, LoopIsNoWorker DEF HasFile, LastOpen, Borrowers, Working, At
<1>3. Counted
  BY <1>1 DEF Init, Counted, At
<1> QED  BY <1>2, <1>3 DEF CInv, Init

\* A step of t that neither opens nor borrows a descriptor.
LEMMA CountMove ==
  ASSUME CInv, OInv, OInv', Placed, Steady, NEW t \in Threads, NEW to,
         pc' = [pc EXCEPT ![t] = to],
         UNCHANGED <<fd, fileBytes>>, DOMAIN broken' = Threads,
         \A u \in Threads \ {t} : got'[u] = got[u] /\ broken'[u] = broken[u],
         terminated => terminated',
         to # "install", to \in {"write", "return"} => pc[t] \in {"write", "return"} /\ got'[t] = got[t],
         t \in Workers /\ (to \in Working \/ (to = "unlock" /\ ~broken'[t])) => fd # None \/ terminated,
         t = "loop" /\ pc[t] \in Late => to \in Late
  PROVE  CInv'
<1>1. \A u \in Threads : pc'[u] = IF u = t THEN to ELSE pc[u]
  BY DEF Placed
<1>2. HasFile'
  BY <1>1, LoopIsNoWorker DEF CInv, HasFile, At
<1>3. LastOpen'
  BY <1>1, LoopIsNoWorker DEF CInv, LastOpen, Borrowers
<1>4. \A f \in FDs : Owned(f) <=> table[f] \in Inodes
  BY DEF OInv, OneOwner
<1>5. \A f \in FDs : Owned(f)' <=> table'[f] \in Inodes
  BY DEF OInv, OneOwner
<1>6. Counted'
  <2>1. ASSUME fd' # None PROVE fileBytes' = size'[table'[fd']]
    <3>1. fd \in FDs /\ fd' = fd /\ Owned(fd) /\ Owned(fd)'
      BY <2>1 DEF OInv, OwnTyped, Owned
    <3>2. table'[fd] = table[fd] /\ size'[table[fd]] = size[table[fd]]
      BY <3>1, <1>4, <1>5 DEF Steady
    <3> QED  BY <2>1, <3>2 DEF CInv, Counted
  <2>2. ASSUME NEW u \in Threads, pc'[u] = "install" PROVE fileBytes' = size'[table'[got'[u]]]
    <3>1. u # t /\ pc[u] = "install" /\ got'[u] = got[u]
      BY <1>1, <2>2
    <3>2. got[u] \in FDs /\ Owned(got[u])
      BY <3>1 DEF OInv, OneOwner, Owned, Share, At
    <3>3. got'[u] \in FDs /\ table'[got'[u]] \in Inodes
      BY <2>2 DEF OInv, OneOwner, Owned, Share, At
    <3>4. table'[got[u]] = table[got[u]] /\ size'[table[got[u]]] = size[table[got[u]]]
      BY <3>1, <3>2, <3>3, <1>4 DEF Steady
    <3> QED  BY <3>1, <3>4 DEF CInv, Counted, At
  <2> QED  BY <2>1, <2>2 DEF CInv, Counted, At, Steady
<1> QED  BY <1>2, <1>3, <1>6 DEF CInv

\* Nobody moves.
LEMMA CountStay ==
  ASSUME CInv, OInv, OInv', Steady, UNCHANGED <<pc, fd, fileBytes, got, broken, terminated>>
  PROVE  CInv'
<1>1. HasFile' /\ LastOpen'
  BY DEF CInv, HasFile, LastOpen, Borrowers, At
<1>2. \A f \in FDs : (Owned(f) <=> table[f] \in Inodes) /\ (Owned(f)' <=> table'[f] \in Inodes)
  BY DEF OInv, OneOwner
<1>3. ASSUME NEW f \in FDs, f = fd \/ \E u \in Threads : pc[u] = "install" /\ f = got[u]
      PROVE  table'[f] = table[f] /\ size'[table[f]] = size[table[f]]
  <2>1. Owned(f) /\ Owned(f)'
    BY <1>3 DEF Owned, Share, At
  <2> QED  BY <1>2, <2>1 DEF Steady
<1>4. Counted'
  <2>1. ASSUME fd' # None PROVE fileBytes' = size'[table'[fd']]
    BY <1>3, <2>1 DEF CInv, Counted, OInv, OwnTyped
  <2>2. ASSUME NEW u \in Threads, pc'[u] = "install" PROVE fileBytes' = size'[table'[got'[u]]]
    <3>1. got[u] \in FDs /\ pc[u] = "install"
      BY <2>2 DEF OInv, OneOwner, At
    <3> QED  BY <1>3, <3>1 DEF CInv, Counted, At
  <2> QED  BY <2>1, <2>2 DEF CInv, Counted, At, Steady
<1> QED  BY <1>1, <1>4 DEF CInv

\* The new descriptor counts the bytes it finds.
LEMMA CountCreate ==
  ASSUME CInv, OInv, OInv', Placed, Steady, NEW t \in Threads, CreateFile(t)
  PROVE  CInv'
<1>1. CASE pc' = [pc EXCEPT ![t] = "unlock"] /\ broken' = [broken EXCEPT ![t] = TRUE] /\ UNCHANGED <<got, fileBytes>>
  <2>1. /\ UNCHANGED <<fd, fileBytes, terminated, got>>
        /\ \A u \in Threads \ {t} : broken'[u] = broken[u]
        /\ pc[t] = "create"
    BY <1>1 DEF CreateFile, borrow, At
  <2>2. broken'[t] /\ DOMAIN broken' = Threads
    BY <1>1 DEF CInv
  <2> QED  BY <1>1, <2>1, <2>2, CountMove DEF Working, Late
<1>2. CASE ~(pc' = [pc EXCEPT ![t] = "unlock"] /\ broken' = [broken EXCEPT ![t] = TRUE] /\ UNCHANGED <<got, fileBytes>>)
  <2>0. PICK f \in FDs : \E i :
          /\ pc[t] = "create" /\ pc' = [pc EXCEPT ![t] = "install"]
          /\ table' = [table EXCEPT ![f] = i] /\ got' = [got EXCEPT ![t] = f]
          /\ fileBytes' = size[i] /\ UNCHANGED <<fd, size, broken, terminated>>
    BY <1>2 DEF CreateFile, SizeFound, At, Go, borrow, disk
  <2>1. PICK i :
          /\ pc[t] = "create" /\ pc' = [pc EXCEPT ![t] = "install"]
          /\ table' = [table EXCEPT ![f] = i] /\ got' = [got EXCEPT ![t] = f]
          /\ fileBytes' = size[i] /\ UNCHANGED <<fd, size, broken, terminated>>
    BY <2>0
  <2>2. /\ fd' = None /\ \A u \in Threads : pc'[u] = IF u = t THEN "install" ELSE pc[u]
        /\ \A u \in Threads \ {t} : pc[u] # "install" /\ got'[u] = got[u]
        /\ got'[t] = f /\ table'[f] = i
    BY <2>1, AloneInside DEF OInv, OwnTyped, Current, Placed, Locked
  <2>3. i \in Inodes
    BY <2>2 DEF OInv, OneOwner, Owned, Share, At
  <2>4. Counted'
    BY <2>1, <2>2, <2>3 DEF CInv, Counted, At, Steady
  <2>5. HasFile'
    BY <2>1, <2>2, LoopIsNoWorker DEF CInv, HasFile, At, Working
  <2>6. LastOpen'
    BY <2>1, <2>2, LoopIsNoWorker DEF CInv, LastOpen, Borrowers, Late
  <2> QED  BY <2>1, <2>4, <2>5, <2>6 DEF CInv
<1> QED  BY <1>1, <1>2

LEMMA CountInstall ==
  ASSUME CInv, OInv, Placed, NEW t \in Threads, InstallFd(t)
  PROVE  CInv'
<1>1. /\ pc[t] = "install" /\ pc' = [pc EXCEPT ![t] = "recheck"] /\ fd = None
      /\ fd' = got[t] /\ fd' # None /\ got' = [got EXCEPT ![t] = None]
      /\ UNCHANGED <<table, size, fileBytes, broken, terminated>>
  BY FileAssumption DEF InstallFd, At, Go, disk, task, OInv, Current, OneOwner, None
<1>2. \A u \in Threads : pc'[u] # "install"
  BY <1>1, AloneInside DEF Locked, Placed
<1>3. HasFile' /\ Counted'
  BY <1>1, <1>2 DEF CInv, HasFile, Counted, At
<1>4. LastOpen'
  <2>1. \A w \in Workers : w \in Borrowers' => w \in Borrowers /\ w # t /\ got[w] # fd
    BY <1>1, FileAssumption, LoopIsNoWorker DEF Borrowers, Placed, OInv, Borrowed, None
  <2>2. pc["loop"] \in Late => pc'["loop"] \in Late
    BY <1>1, LoopIsNoWorker DEF Placed, Late
  <2> QED  BY <2>1, <2>2 DEF CInv, LastOpen, Borrowers
<1> QED  BY <1>1, <1>3, <1>4 DEF CInv

LEMMA CountRetire ==
  ASSUME OneWriter, CInv, OInv, Placed, NEW t \in Threads, NEW from, NEW close, NEW to,
         RetireFd(t, from, close, to),
         \/ /\ from = "undo" \/ (from = "rotate" /\ t \in Workers)
            /\ {close, to} \cap (Working \cup {"unlock", "install"}) = {}
         \/ from = "end" /\ t = "loop" /\ {close, to} \subseteq Late
  PROVE  CInv'
<1>1. /\ pc[t] = from /\ fd' = None /\ UNCHANGED <<fileBytes, table, size, got, broken, terminated>>
      /\ pc' = [pc EXCEPT ![t] = close] \/ pc' = [pc EXCEPT ![t] = to]
  BY DEF RetireFd, Retired, At, Go, disk, task
<1>2. /\ \A u \in Threads \ {t} : pc'[u] = pc[u]
      /\ pc'[t] \in {close, to}
  BY <1>1 DEF Placed
<1>3. pc'[t] \notin Working \cup {"unlock", "install"}
  BY <1>2 DEF Late, Working
<1>4. Counted'
  BY <1>1, <1>2, <1>3 DEF CInv, Counted, At
<1>5. terminated \/ t \in Workers
  BY <1>1, LoopIsNoWorker DEF Placed, Undoing, Ending
<1>6. HasFile'
  <2>1. CASE terminated
    BY <1>1, <2>1 DEF HasFile
  <2>2. CASE t \in Workers
    BY <1>3, <2>2 DEF HasFile, OneWriter, At
  <2> QED  BY <1>5, <2>1, <2>2
<1>7. LastOpen'
  <2>1. CASE t \in Workers
    BY <1>3, <2>1 DEF LastOpen, OneWriter, Borrowers, Working
  <2>2. CASE t = "loop" /\ from = "end"
    BY <1>2, <2>2, LoopIsNoWorker DEF LastOpen
  <2>3. CASE t = "loop" /\ from = "undo"
    BY <1>1, <2>3 DEF Placed, Undoing, Ending
  <2> QED  BY <2>1, <2>2, <2>3, LoopIsNoWorker
<1> QED  BY <1>1, <1>4, <1>6, <1>7 DEF CInv

LEMMA CountRename ==
  ASSUME CInv, OInv, Placed, Steady, NEW w \in Workers, Rename(w)
  PROVE  CInv'
<1>1. /\ pc[w] = "rename" /\ pc' = [pc EXCEPT ![w] = "open"] /\ fd = None /\ fd' = None
      /\ fileBytes' = 0 /\ UNCHANGED <<got, terminated>> /\ w \in Threads
      /\ \A u \in Threads \ {w} : broken'[u] = broken[u]
      /\ DOMAIN broken' = Threads
  BY LoopIsNoWorker DEF Rename, At, Go, borrow, OInv, Current, CInv
<1>2. \A u \in Threads : pc'[u] # "install" /\ pc'[u] = IF u = w THEN "open" ELSE pc[u]
  BY <1>1, AloneInside DEF Locked, Rotating, Placed
<1>3. Counted'
  BY <1>1, <1>2 DEF Counted, Steady, At
<1>4. HasFile' /\ LastOpen'
  BY <1>1, <1>2, LoopIsNoWorker DEF CInv, HasFile, LastOpen, Borrowers, At, Working
<1> QED  BY <1>1, <1>3, <1>4 DEF CInv

LEMMA CountAcquire ==
  ASSUME CInv, OInv, OInv', Placed, Steady, NEW w \in Workers, AcquireFd(w)
  PROVE  CInv'
<1>1. /\ pc[w] = "borrow" /\ UNCHANGED <<fd, fileBytes, terminated, broken, table, size>>
      /\ w \in Threads /\ \A u \in Threads \ {w} : got'[u] = got[u]
      /\ DOMAIN broken' = Threads
  BY LoopIsNoWorker DEF AcquireFd, At, disk, task, CInv, OInv, OwnTyped
<1>2. CASE fd = None
  <2>1. pc' = [pc EXCEPT ![w] = "ended"]
    BY <1>2 DEF AcquireFd, Go
  <2> QED  BY <1>1, <2>1, LoopIsNoWorker, CountMove DEF Working
<1>3. CASE fd # None
  <2>1. got'[w] = fd /\ \A u \in Threads : pc'[u] = IF u = w THEN "write" ELSE pc[u]
    BY <1>1, <1>3 DEF AcquireFd, CountBorrower, Go, OInv, OwnTyped, Placed
  <2>2. HasFile' /\ Counted'
    BY <1>1, <1>3, <2>1 DEF CInv, HasFile, Counted, At, Working
  <2>3. LastOpen'
    BY <1>1, <2>1, LoopIsNoWorker DEF CInv, LastOpen, Borrowers
  <2> QED  BY <1>1, <2>2, <2>3 DEF CInv
<1> QED  BY <1>2, <1>3

\* While its writer writes, the current descriptor is the borrowed one.
LEMMA WritesCurrent ==
  ASSUME OneWriter, CInv, OInv, Placed, NEW w \in Workers, pc[w] = "write"
  PROVE  /\ got[w] \in FDs /\ table[got[w]] \in Inodes
         /\ fd # None => got[w] = fd
         /\ \A t \in Threads : pc[t] # "install"
<1>1. w \in Borrowers
  BY DEF Borrowers
<1>2. got[w] \in FDs /\ table[got[w]] \in Inodes
  BY <1>1 DEF OInv, Borrowed, OneOwner, Owned
<1>3. ASSUME got[w] # fd PROVE fd = None /\ terminated
  <2>1. pc["loop"] \in Late
    BY <1>1, <1>3 DEF CInv, LastOpen
  <2>2. \A t \in Threads : pc[t] \notin {"recheck", "undo"}
    BY <2>1, LoopIsNoWorker DEF OneWriter, Late
  <2> QED  BY <2>1, <2>2 DEF OInv, LateOpen, Placed, Late, Ending
<1>4. ASSUME NEW t \in Threads, pc[t] = "install" PROVE FALSE
  <2>1. t = "loop"
    BY <1>4, LoopIsNoWorker DEF OneWriter
  <2>2. fd = None
    BY <1>4 DEF OInv, Current
  <2>3. terminated
    BY <1>2, <1>3, <2>2, FileAssumption DEF None
  <2> QED  BY <1>4, <2>1, <2>3 DEF Placed, Ending
<1> QED  BY <1>2, <1>3, <1>4

LEMMA CountWrite ==
  ASSUME OneWriter, CInv, OInv, Placed, NEW w \in Workers, Amounts, WriteSome(w)
  PROVE  CInv'
<1>1. PICK n \in 1..rest[w] :
        /\ fileBytes' = fileBytes + n
        /\ size' = [i \in Inodes |-> size[i] + (IF table[got[w]] = i THEN n ELSE 0)]
  BY DEF WriteSome
<1>2. n \in Nat
  BY LoopIsNoWorker DEF Amounts
<1>3. pc[w] = "write" /\ UNCHANGED <<fd, table, got, pc, broken, terminated>>
  BY DEF WriteSome, At, borrow
<1>4. /\ got[w] \in FDs /\ table[got[w]] \in Inodes
      /\ fd # None => got[w] = fd
      /\ \A t \in Threads : pc[t] # "install"
  BY <1>3, WritesCurrent
<1>5. fileBytes \in Nat /\ size \in [Inodes -> Nat]
  BY DEF CInv, Counted
<1>6. fileBytes' \in Nat /\ size' \in [Inodes -> Nat]
  BY <1>1, <1>2, <1>5
<1>7. size'[table[got[w]]] = size[table[got[w]]] + n
  BY <1>1, <1>4
<1>8. Counted'
  BY <1>1, <1>3, <1>4, <1>6, <1>7 DEF CInv, Counted, At
<1>9. HasFile' /\ LastOpen'
  BY <1>3 DEF CInv, HasFile, LastOpen, Borrowers, At
<1> QED  BY <1>3, <1>8, <1>9 DEF CInv

LEMMA CountOpening ==
  ASSUME OneWriter, CInv, OInv, OInv', Placed, Placed', Steady, NEW t \in Threads, OpenStep(t)
  PROVE  CInv'
<1> USE DEF At, Go, borrow, disk, local, task
<1>1. ASSUME NEW to, pc' = [pc EXCEPT ![t] = to], UNCHANGED <<fd, fileBytes, terminated, got, broken>>,
             to \notin {"install", "write", "return"}, t = "loop" => pc[t] \notin Late,
             t \in Workers /\ (to \in Working \/ (to = "unlock" /\ ~broken[t])) => fd # None \/ terminated
      PROVE  CInv'
  <2>1. DOMAIN broken' = Threads
    BY <1>1 DEF CInv
  <2> QED  BY <1>1, <2>1, CountMove
<1>2. CASE EnsureOpen(t)
  <2>1. /\ pc[t] = "ensure" /\ UNCHANGED <<fd, fileBytes, terminated, got, broken>>
        /\ pc' = [pc EXCEPT ![t] = IF fd # None THEN back[t] ELSE "lock"]
        /\ back[t] \in {"up", "check", "segment"}
    BY <1>2 DEF EnsureOpen, Placed
  <2> QED  BY <1>1, <2>1 DEF Working, Late
<1>3. CASE TakeOpenLock(t)
  <2>1. /\ pc[t] \in {"lock", "wantRotate"} /\ UNCHANGED <<fd, fileBytes, terminated, got, broken>>
        /\ pc' = [pc EXCEPT ![t] = "open"] \/ pc' = [pc EXCEPT ![t] = "rotate"]
    BY <1>3 DEF TakeOpenLock
  <2> QED  BY <1>1, <2>1 DEF Working, Late
<1>4. CASE OpenGuards(t)
  <2>1. /\ pc[t] = "open" /\ UNCHANGED <<fd, fileBytes, terminated, got, broken>>
        /\ \/ pc' = [pc EXCEPT ![t] = "claim"]
           \/ (fd # None \/ terminated) /\ pc' = [pc EXCEPT ![t] = "unlock"]
    BY <1>4 DEF OpenGuards
  <2> QED  BY <1>1, <2>1 DEF Working, Late
<1>5. CASE ClaimPath(t)
  <2>1. /\ pc[t] \in Claiming /\ UNCHANGED <<fd, fileBytes, terminated, got, broken>>
        /\ \E l \in {"probe", "abandon", "another", "create"} : pc' = [pc EXCEPT ![t] = l]
    BY <1>5, ClaimStep
  <2> QED  BY <1>1, <2>1 DEF Working, Late, Claiming
<1>6. CASE Recheck(t)
  <2>1. /\ pc[t] = "recheck" /\ UNCHANGED <<fd, fileBytes, terminated, got, broken>>
        /\ pc' = [pc EXCEPT ![t] = "undo"] \/ pc' = [pc EXCEPT ![t] = "unlock"]
        /\ t \in Workers => fd # None \/ terminated
    BY <1>6 DEF Recheck, AfterInstall, CInv, HasFile, Working
  <2> QED  BY <1>1, <2>1 DEF Working, Late
<1>7. CASE Unlock(t)
  <2>1. /\ pc[t] = "unlock" /\ UNCHANGED <<fd, fileBytes, terminated, got, broken>>
        /\ pc' = [pc EXCEPT ![t] = IF t # "loop" /\ broken[t] THEN "ended" ELSE back[t]]
        /\ back[t] \in {"up", "check", "segment"}
        /\ t \in Workers /\ ~broken[t] => t # "loop" /\ (fd # None \/ terminated)
    BY <1>7, LoopIsNoWorker DEF Unlock, Placed, CInv, HasFile
  <2>2. CASE t # "loop" /\ broken[t]
    BY <1>1, <2>1, <2>2 DEF Working, Late
  <2>3. CASE ~(t # "loop" /\ broken[t])
    BY <1>1, <2>1, <2>3, LoopIsNoWorker DEF Working, Late
  <2> QED  BY <2>2, <2>3
<1>8. CASE UndoOpen(t)
  <2>1. CASE RetireFd(t, "undo", "undoClose", "undoCheck")
    BY <2>1, CountRetire DEF Working
  <2>2. CASE OsClose(t, "undoClose", "undoCheck")
    <3>1. /\ pc[t] = "undoClose" /\ UNCHANGED <<fd, fileBytes, terminated, got, broken>>
          /\ pc' = [pc EXCEPT ![t] = "undoCheck"]
      BY <2>2 DEF OsClose
    <3> QED  BY <1>1, <3>1 DEF Working, Late
  <2>3. CASE ReleaseCheck(t, "undoCheck", "undoUnclaim", "unlock")
    <3>1. /\ pc[t] = "undoCheck" /\ UNCHANGED <<fd, fileBytes, terminated, got, broken>>
          /\ pc' = [pc EXCEPT ![t] = "undoUnclaim"] \/ pc' = [pc EXCEPT ![t] = "unlock"]
          /\ terminated
      BY <2>3 DEF ReleaseCheck, Placed, Undoing
    <3> QED  BY <1>1, <3>1 DEF Working, Late
  <2>4. CASE Unclaim(t, "undoUnclaim", "undoDiscard") \/ Discard(t, "undoDiscard", "unlock")
    <3>1. /\ pc[t] \in Undoing /\ UNCHANGED <<fd, fileBytes, terminated, got, broken>>
          /\ pc' = [pc EXCEPT ![t] = "undoDiscard"] \/ pc' = [pc EXCEPT ![t] = "unlock"]
          /\ terminated
      BY <2>4 DEF Unclaim, Discard, Placed, Undoing
    <3> QED  BY <1>1, <3>1 DEF Working, Late, Undoing
  <2> QED  BY <1>8, <2>1, <2>2, <2>3, <2>4 DEF UndoOpen
<1> QED
  BY <1>2, <1>3, <1>4, <1>5, <1>6, <1>7, <1>8, CountCreate, CountInstall DEF OpenStep

LEMMA CountWorking ==
  ASSUME OneWriter, CInv, OInv, OInv', Placed, Amounts, NEW w \in Workers,
         BeginBatch(w) \/ WriteStep(w) \/ Rotate(w), ~WriteSome(w) => Steady
  PROVE  CInv'
<1> USE DEF At, Go, borrow, disk, local, task
<1>0. w \in Threads /\ w # "loop"
  BY LoopIsNoWorker
<1>1. ASSUME ~WriteSome(w), NEW to, pc' = [pc EXCEPT ![w] = to], UNCHANGED <<fd, fileBytes, terminated>>,
             \A u \in Threads \ {w} : got'[u] = got[u] /\ broken'[u] = broken[u],
             DOMAIN broken' = Threads,
             to \notin {"install", "write", "unlock"},
             to = "return" => pc[w] = "write" /\ got'[w] = got[w],
             to \in Working => fd # None \/ terminated
      PROVE  CInv'
  BY <1>0, <1>1, CountMove
<1>2. ASSUME ~WriteSome(w), NEW to, pc' = [pc EXCEPT ![w] = to],
             UNCHANGED <<fd, fileBytes, terminated, got, broken>>,
             to \notin {"install", "write", "return", "unlock"},
             to \in Working => pc[w] \in Working
      PROVE  CInv'
  <2>1. pc[w] \in Working => fd # None \/ terminated
    BY DEF CInv, HasFile
  <2> QED  BY <1>1, <1>2, <2>1 DEF CInv
<1>3. CASE WriteSome(w)
  BY <1>3, CountWrite
<1>4. CASE ~WriteSome(w)
  <2>1. CASE BeginBatch(w)
    <3>1. /\ UNCHANGED <<fd, fileBytes, terminated, got, broken>>
          /\ pc' = [pc EXCEPT ![w] = "ensure"]
      BY <2>1 DEF BeginBatch
    <3> QED  BY <1>2, <1>4, <3>1 DEF Working
  <2>2. CASE CheckBatch(w)
    <3>1. /\ UNCHANGED <<fd, fileBytes, terminated, got, broken>> /\ pc[w] = "check"
          /\ \E to \in {"ended", "wantRotate", "segment"} : pc' = [pc EXCEPT ![w] = to]
      BY <2>2 DEF CheckBatch
    <3> QED  BY <1>2, <1>4, <3>1 DEF Working
  <2>3. CASE NextSegment(w)
    <3>1. /\ UNCHANGED <<fd, fileBytes, terminated, got, broken>> /\ pc[w] = "segment"
          /\ \E to \in {"ended", "wantRotate", "borrow"} : pc' = [pc EXCEPT ![w] = to]
      BY <2>3 DEF NextSegment
    <3> QED  BY <1>2, <1>4, <3>1 DEF Working
  <2>4. CASE AcquireFd(w)
    BY <1>4, <2>4, CountAcquire
  <2>5. CASE WriteEnds(w)
    <3>1. /\ UNCHANGED <<fd, fileBytes, terminated, got>> /\ pc[w] = "write"
          /\ pc' = [pc EXCEPT ![w] = "return"]
          /\ broken' = broken \/ broken' = [broken EXCEPT ![w] = TRUE]
      BY <2>5 DEF WriteEnds
    <3>2. /\ \A u \in Threads \ {w} : broken'[u] = broken[u]
          /\ DOMAIN broken' = Threads
      BY <3>1 DEF CInv
    <3>3. fd # None \/ terminated
      BY <3>1 DEF CInv, HasFile, Working
    <3> QED  BY <1>1, <1>4, <3>1, <3>2, <3>3
  <2>6. CASE ReleaseFd(w)
    <3>1. /\ UNCHANGED <<fd, fileBytes, terminated, broken>> /\ pc[w] = "return"
          /\ pc' = [pc EXCEPT ![w] = "letgo"]
          /\ got' = [got EXCEPT ![w] = None]
      BY <2>6 DEF ReleaseFd
    <3>2. \A u \in Threads \ {w} : got'[u] = got[u]
      BY <3>1 DEF OInv, OwnTyped
    <3>3. (fd # None \/ terminated) /\ DOMAIN broken' = Threads
      BY <3>1 DEF CInv, HasFile, Working
    <3> QED  BY <1>1, <1>4, <3>1, <3>2, <3>3
  <2>7. CASE OsClose(w, "letgo", IF broken[w] THEN "ended" ELSE "segment")
    <3>1. /\ UNCHANGED <<fd, fileBytes, terminated, got, broken>> /\ pc[w] = "letgo"
          /\ \E to \in {"ended", "segment"} : pc' = [pc EXCEPT ![w] = to]
      BY <2>7 DEF OsClose
    <3> QED  BY <1>2, <1>4, <3>1 DEF Working
  <2>8. CASE EndBatch(w)
    <3>1. /\ UNCHANGED <<fd, fileBytes, terminated, got>>
          /\ pc' = [pc EXCEPT ![w] = "idle"]
          /\ broken' = [broken EXCEPT ![w] = FALSE]
      BY <2>8 DEF EndBatch
    <3>2. /\ \A u \in Threads \ {w} : broken'[u] = broken[u]
          /\ DOMAIN broken' = Threads
      BY <3>1 DEF CInv
    <3> QED  BY <1>1, <1>4, <3>1, <3>2 DEF Working
  <2>9. CASE RetireFd(w, "rotate", "shut", "rename")
    BY <1>0, <2>9, CountRetire DEF Working
  <2>10. CASE OsClose(w, "shut", "rename")
    <3>1. /\ UNCHANGED <<fd, fileBytes, terminated, got, broken>>
          /\ pc' = [pc EXCEPT ![w] = "rename"]
      BY <2>10 DEF OsClose
    <3> QED  BY <1>2, <1>4, <3>1 DEF Working
  <2>11. CASE Rename(w)
    BY <1>4, <2>11, CountRename
  <2> QED
    BY <1>4, <2>1, <2>2, <2>3, <2>4, <2>5, <2>6, <2>7, <2>8, <2>9, <2>10, <2>11
    DEF WriteStep, Rotate
<1> QED  BY <1>3, <1>4

LEMMA CountRest ==
  ASSUME OneWriter, CInv, OInv, OInv', Placed, Steady,
         \/ StartOpens \/ Terminate \/ Teardown \/ RivalClaims \/ RivalShares \/ RivalReleases
         \/ UNCHANGED vars \/ \E f \in FDs : ForeignOpen(f) \/ ForeignClose(f)
  PROVE  CInv'
<1> USE DEF At, Go, borrow, claim, disk, local, task
<1>0. "loop" \in Threads /\ "loop" \notin Workers
  BY LoopIsNoWorker
<1>1. ASSUME NEW to, pc' = [pc EXCEPT !["loop"] = to], UNCHANGED <<fd, fileBytes, got, broken>>,
             terminated => terminated', to \notin {"install", "write", "return"},
             pc["loop"] \in Late => to \in Late
      PROVE  CInv'
  <2>1. DOMAIN broken' = Threads
    BY <1>1 DEF CInv
  <2> QED  BY <1>0, <1>1, <2>1, CountMove
<1>2. CASE StartOpens
  <2>1. /\ UNCHANGED <<fd, fileBytes, got, broken, terminated>> /\ pc["loop"] = "off"
        /\ pc' = [pc EXCEPT !["loop"] = "ensure"]
    BY <1>2 DEF StartOpens
  <2> QED  BY <1>1, <2>1 DEF Late
<1>3. CASE Terminate
  <2>1. /\ UNCHANGED <<fd, fileBytes, got, broken>> /\ pc["loop"] \in {"off", "up"}
        /\ pc' = [pc EXCEPT !["loop"] = "end"] /\ terminated' = TRUE
    BY <1>3 DEF Terminate
  <2> QED  BY <1>1, <2>1 DEF Late
<1>4. CASE Teardown
  <2>1. CASE RetireFd("loop", "end", "endClose", "endCheck")
    BY <1>0, <2>1, CountRetire DEF Late
  <2>2. CASE \/ OsClose("loop", "endClose", "endCheck")
             \/ ReleaseCheck("loop", "endCheck", "endUnclaim", "down")
             \/ Unclaim("loop", "endUnclaim", "endDiscard")
             \/ Discard("loop", "endDiscard", "down")
    <3>1. /\ UNCHANGED <<fd, fileBytes, got, broken, terminated>>
          /\ \E to \in {"endCheck", "endUnclaim", "endDiscard", "down"} :
               pc' = [pc EXCEPT !["loop"] = to]
      BY <2>2 DEF OsClose, ReleaseCheck, Unclaim, Discard
    <3> QED  BY <1>1, <3>1 DEF Late
  <2> QED  BY <1>4, <2>1, <2>2 DEF Teardown
<1>5. CASE RivalClaims \/ RivalShares \/ RivalReleases \/ UNCHANGED vars
  BY <1>5, CountStay DEF RivalClaims, RivalShares, RivalReleases, vars
<1>6. CASE \E f \in FDs : ForeignOpen(f) \/ ForeignClose(f)
  BY <1>6, CountStay DEF ForeignOpen, ForeignClose
<1> QED  BY <1>2, <1>3, <1>4, <1>5, <1>6

LEMMA CountNext ==
  ASSUME OneWriter, CInv, OInv, OInv', Placed, Placed', Amounts, [Next]_vars
  PROVE  CInv'
<1>1. (\A w \in Workers : ~WriteSome(w)) => Steady
  BY FilesSteady DEF CInv, Counted
<1>2. ASSUME NEW w \in Workers, WriteSome(w) PROVE CInv'
  BY <1>2, CountWrite
<1>3. CASE \A w \in Workers : ~WriteSome(w)
  BY <1>1, <1>3, CountOpening, CountWorking, CountRest DEF Next
<1> QED  BY <1>2, <1>3

-----------------------------------------------------------------------------
(* How large a file grows.                                                 *)

LEMMA GivenAreSizes ==
  /\ Given \subseteq Nat \ {0}
  /\ \A b \in BatchShapes : b \in Seq(Given)
<1>1. ASSUME NEW b \in BatchShapes PROVE b \in Seq(Nat \ {0}) /\ Range(b) \subseteq Given
  BY <1>1, FileAssumption DEF Given
<1>2. ASSUME NEW b \in BatchShapes PROVE Range(b) \subseteq Nat \ {0}
  <2>1. b \in Seq(Nat \ {0})
    BY <1>1
  <2> QED  BY <2>1 DEF Range
<1>3. ASSUME NEW b \in BatchShapes PROVE b \in Seq(Given)
  <2>1. b \in Seq(Nat \ {0}) /\ Range(b) \subseteq Given
    BY <1>1
  <2>2. Len(b) \in Nat /\ DOMAIN b = 1..Len(b) /\ b \in [1..Len(b) -> Given]
    BY <2>1 DEF Range
  <2> QED  BY <2>2
<1> QED  BY <1>2, <1>3 DEF Given

LEMMA SmallerIsWithin ==
  \A m, n \in Nat : m <= n /\ Within(n) => Within(m)
  BY GivenAreSizes, FileAssumption DEF Within

\* The lines that fit are within what a file may hold.
LEMMA FittingIsWithin ==
  ASSUME NEW s \in Seq(Given), NEW n \in Nat
  PROVE  /\ Fitting(s, n) \in 0..Len(s)
         /\ SumFunction(SubSeq(s, 1, Fitting(s, n))) \in Nat
         /\ Fitting(s, n) # 0 => Within(n + SumFunction(SubSeq(s, 1, Fitting(s, n))))
<1> DEFINE Stops == {j \in 0..Len(s) : j = Len(s) \/ ~Fits(s, n, j + 1)}
           k == Fitting(s, n)
<1>1. s \in Seq(Nat) /\ Len(s) \in Nat /\ \A i \in 1..Len(s) : s[i] \in Given
  <2>1. \A i \in 1..Len(s) : s[i] \in Given
    OBVIOUS
  <2>2. \A i \in 1..Len(s) : s[i] \in Nat
    BY <2>1, GivenAreSizes
  <2>3. s \in [1..Len(s) -> Nat] /\ Len(s) \in Nat
    BY <2>2
  <2> QED  BY <2>1, <2>3
<1>2. Stops \subseteq Nat /\ Len(s) \in Stops
  BY <1>1
<1>3. PICK m \in Stops : \A j \in Stops : m <= j
  BY <1>2, Least
<1>4. \A j \in 1..m : Fits(s, n, j)
  <2>1. ASSUME NEW j \in 1..m, ~Fits(s, n, j) PROVE FALSE
    <3>1. j - 1 \in 0..Len(s) /\ (j - 1) + 1 = j /\ ~(m <= j - 1)
      BY <1>1, <1>3
    <3>2. j - 1 \in Stops
      BY <2>1, <3>1
    <3> QED  BY <1>3, <3>1, <3>2
  <2> QED  BY <2>1
<1>5. /\ k \in 0..Len(s)
      /\ \A j \in 1..k : Fits(s, n, j)
  BY <1>3, <1>4 DEF Fitting
<1> HIDE DEF k
<1>6. CASE k = 0
  <2>1. SubSeq(s, 1, 0) = <<>> /\ <<>> \in Seq(Nat)
    BY <1>1, SubSeqProperties
  <2>2. SumFunction(SubSeq(s, 1, k)) \in Nat
    BY <1>6, <2>1, SumOfSequence
  <2> QED  BY <1>5, <1>6, <2>2 DEF k
<1>7. CASE k # 0
  <2> DEFINE before == SumFunction(SubSeq(s, 1, k - 1))
  <2>1. k - 1 \in Nat /\ (k - 1) + 1 = k /\ k <= Len(s) /\ k \in 1..Len(s)
    BY <1>1, <1>5, <1>7
  <2>2. /\ SubSeq(s, 1, k - 1) \in Seq(Nat)
        /\ SumFunction(SubSeq(s, 1, k)) = before + s[k]
    <3>1. ASSUME NEW j \in Nat, j + 1 <= Len(s)
          PROVE  /\ SubSeq(s, 1, j) \in Seq(Nat)
                 /\ SumFunction(SubSeq(s, 1, j + 1)) = SumFunction(SubSeq(s, 1, j)) + s[j + 1]
      BY <1>1, <3>1, SumOfPrefix
    <3>2. /\ SubSeq(s, 1, k - 1) \in Seq(Nat)
          /\ SumFunction(SubSeq(s, 1, (k - 1) + 1)) = SumFunction(SubSeq(s, 1, k - 1)) + s[(k - 1) + 1]
      BY <2>1, <3>1
    <3> QED  BY <2>1, <3>2
  <2>3. before \in Nat
    BY <2>2, SumOfSequence
  <2>4. n + before = 0 \/ n + before + s[k] <= Limit
    BY <1>5, <2>1 DEF Fits
  <2>5. s[k] \in Given /\ s[k] \in Nat
    BY <1>1, <2>1, GivenAreSizes
  <2> HIDE DEF before
  <2>6. SumFunction(SubSeq(s, 1, k)) \in Nat
    BY <2>2, <2>3, <2>5
  <2>7. Within(n + SumFunction(SubSeq(s, 1, k)))
    BY <2>2, <2>3, <2>4, <2>5, FileAssumption DEF Within
  <2> QED  BY <1>5, <2>6, <2>7 DEF k
<1> QED  BY <1>6, <1>7

LEMMA AmountsInit == Init => BInv
<1> SUFFICES ASSUME Init PROVE BInv
  OBVIOUS
<1>1. \A w \in Workers : pc[w] = "idle"
  BY LoopIsNoWorker DEF Init
<1>2. Within(0)
  BY FileAssumption DEF Within
<1> QED  BY <1>1, <1>2 DEF Init, BInv, Amounts, Fit, At

\* A file that nobody writes to gets no larger, and whoever has chosen the lines
\* of a segment has chosen them for the file it is about to write.
LEMMA FitMove ==
  ASSUME BInv, Amounts', CInv, OInv, OInv', Placed, Steady,
         \A w \in Workers :
           /\ pc'[w] = "borrow" => pc[w] = "borrow" /\ rest'[w] = rest[w]
           /\ pc'[w] = "write" => pc[w] = "write" /\ rest'[w] = rest[w] /\ got'[w] = got[w],
         fd' \in {fd, None}
  PROVE  BInv'
<1>1. \A f \in FDs : (Owned(f) <=> table[f] \in Inodes) /\ (Owned(f)' <=> table'[f] \in Inodes)
  BY DEF OInv, OneOwner
<1>2. \A i \in Inodes : Within(size[i])'
  <2>1. Within(0)
    BY FileAssumption DEF Within
  <2> QED  BY <2>1 DEF BInv, Fit, Steady
<1>3. ASSUME NEW w \in Workers, pc'[w] = "borrow", fd' # None
      PROVE  Within(size'[table'[fd']] + rest'[w])
  <2>1. fd \in FDs /\ fd' = fd /\ Owned(fd) /\ Owned(fd)'
    BY <1>3 DEF OInv, OwnTyped, Owned
  <2>2. table'[fd] = table[fd] /\ size'[table[fd]] = size[table[fd]]
    BY <1>1, <2>1 DEF Steady
  <2> QED  BY <1>3, <2>1, <2>2 DEF BInv, Fit, At
<1>4. ASSUME NEW w \in Workers, pc'[w] = "write"
      PROVE  Within(size'[table'[got'[w]]] + rest'[w])
  <2>1. w \in Borrowers /\ w \in Borrowers' /\ got'[w] = got[w]
    BY <1>4 DEF Borrowers
  <2>2. got[w] \in FDs /\ table[got[w]] \in Inodes
    BY <2>1 DEF OInv, Borrowed, OneOwner, Owned
  <2>3. table'[got'[w]] \in Inodes
    BY <2>1 DEF OInv, Borrowed, OneOwner, Owned
  <2>4. table'[got[w]] = table[got[w]] /\ size'[table[got[w]]] = size[table[got[w]]]
    BY <2>1, <2>2, <2>3 DEF Steady
  <2> QED  BY <1>4, <2>4 DEF BInv, Fit, At
<1> QED  BY <1>2, <1>3, <1>4 DEF BInv, Fit, At, Within

LEMMA FitSegment ==
  ASSUME BInv, CInv, Placed, NEW w \in Workers, NextSegment(w)
  PROVE  BInv'
<1> DEFINE s == lines[w]
           k == Fitting(s, fileBytes)
<1>0. w \in Threads /\ w # "loop"
  BY LoopIsNoWorker
<1>1. /\ UNCHANGED <<fd, got, table, size>>
      /\ pc' = [pc EXCEPT ![w] = IF s = <<>> THEN "ended"
                                 ELSE IF k = 0 THEN "wantRotate" ELSE "borrow"]
      /\ rest' = [rest EXCEPT ![w] = SumFunction(SubSeq(s, 1, k))]
      /\ lines' = [lines EXCEPT ![w] = SubSeq(s, k + 1, Len(s))]
  BY DEF NextSegment, Go, borrow, disk
<1>2. s \in Seq(Given) /\ fileBytes \in Nat
  BY <1>0 DEF BInv, Amounts, CInv, Counted
<1>3. /\ k \in 0..Len(s) /\ SumFunction(SubSeq(s, 1, k)) \in Nat
      /\ k # 0 => Within(fileBytes + SumFunction(SubSeq(s, 1, k)))
  BY <1>2, FittingIsWithin
<1>4. SubSeq(s, k + 1, Len(s)) \in Seq(Given)
  BY <1>2, <1>3, SubSeqProperties
<1> HIDE DEF s, k
<1>5. Amounts'
  BY <1>0, <1>1, <1>3, <1>4 DEF BInv, Amounts
<1>6. /\ pc'[w] = "borrow" => k # 0
      /\ pc'[w] # "write"
      /\ rest'[w] = SumFunction(SubSeq(s, 1, k))
      /\ \A v \in Workers \ {w} : pc'[v] = pc[v] /\ rest'[v] = rest[v]
  BY <1>0, <1>1, LoopIsNoWorker DEF Placed, BInv, Amounts
<1>7. ASSUME NEW v \in Workers
      PROVE  /\ At(v, "borrow")' /\ fd' # None => Within(size[table[fd]] + rest'[v])
             /\ At(v, "write")' => Within(size[table[got[v]]] + rest'[v])
  <2>1. CASE v = w
    BY <1>1, <1>3, <1>6, <2>1 DEF CInv, Counted, At
  <2>2. CASE v # w
    BY <1>1, <1>6, <2>2 DEF BInv, Fit, At
  <2> QED  BY <2>1, <2>2
<1> QED  BY <1>1, <1>5, <1>7 DEF BInv, Fit, Within

LEMMA FitAcquire ==
  ASSUME BInv, OInv, Placed, NEW w \in Workers, AcquireFd(w)
  PROVE  BInv'
<1>0. w \in Threads
  BY LoopIsNoWorker
<1>1. /\ UNCHANGED <<fd, table, size, rest, lines>> /\ pc[w] = "borrow"
      /\ \A v \in Workers \ {w} : pc'[v] = pc[v] /\ got'[v] = got[v]
      /\ fd = None => pc'[w] = "ended"
      /\ fd # None => pc'[w] = "write" /\ got'[w] = fd
  BY <1>0, LoopIsNoWorker DEF AcquireFd, CountBorrower, At, Go, disk, task, Placed, OInv, OwnTyped
<1>2. Amounts'
  BY <1>1 DEF BInv, Amounts
<1>3. ASSUME NEW v \in Workers
      PROVE  /\ At(v, "borrow")' /\ fd' # None => Within(size[table[fd]] + rest[v])
             /\ At(v, "write")' => Within(size[table[got'[v]]] + rest[v])
  BY <1>1 DEF BInv, Fit, At
<1> QED  BY <1>1, <1>2, <1>3 DEF BInv, Fit, Within

LEMMA FitWrite ==
  ASSUME OneWriter, BInv, CInv, OInv, Placed, NEW w \in Workers, WriteSome(w)
  PROVE  BInv'
<1> DEFINE i == table[got[w]]
<1>0. w \in Threads
  BY LoopIsNoWorker
<1>1. PICK n \in 1..rest[w] :
        /\ rest' = [rest EXCEPT ![w] = @ - n]
        /\ size' = [x \in Inodes |-> size[x] + (IF i = x THEN n ELSE 0)]
  BY DEF WriteSome
<1>2. /\ pc[w] = "write" /\ UNCHANGED <<fd, table, got, pc, lines>>
      /\ rest \in [Threads -> Nat] /\ size \in [Inodes -> Nat] /\ n \in Nat /\ rest[w] \in Nat
  BY <1>0 DEF WriteSome, At, borrow, BInv, Amounts, CInv, Counted
<1>3. i \in Inodes
  BY <1>2, WritesCurrent
<1> HIDE DEF i
<1>4. /\ rest'[w] = rest[w] - n /\ rest'[w] \in Nat
      /\ size'[i] = size[i] + n /\ size[i] \in Nat
      /\ \A x \in Inodes \ {i} : size'[x] = size[x]
  BY <1>0, <1>1, <1>2, <1>3
<1>5. Within(size[i] + rest[w])
  BY <1>2 DEF BInv, Fit, At, i
<1>6. size'[i] + rest'[w] = size[i] + rest[w]
  BY <1>2, <1>4
<1>7. Within(size'[i] + rest'[w])
  BY <1>5, <1>6
<1>8. Within(size'[i])
  BY <1>2, <1>4, <1>5, SmallerIsWithin
<1>9. \A x \in Inodes : Within(size'[x])
  BY <1>4, <1>8 DEF BInv, Fit
<1>10. Amounts'
  BY <1>1, <1>2, <1>4 DEF BInv, Amounts
<1>11. \A v \in Workers : v = w
  BY DEF OneWriter
<1>12. /\ \A v \in Workers : At(v, "write")' => Within(size'[table[got[v]]] + rest'[v])
       /\ \A v \in Workers : ~At(v, "borrow")'
  BY <1>2, <1>7, <1>11 DEF At, i
<1> QED  BY <1>2, <1>9, <1>10, <1>12 DEF BInv, Fit, Within

LEMMA FitInstall ==
  ASSUME OneWriter, BInv, CInv, OInv, Placed, NEW t \in Threads, InstallFd(t)
  PROVE  BInv'
<1>1. /\ pc[t] = "install" /\ pc' = [pc EXCEPT ![t] = "recheck"] /\ fd = None
      /\ UNCHANGED <<table, size, rest, lines>> /\ got' = [got EXCEPT ![t] = None]
  BY DEF InstallFd, At, Go, disk, task, OInv, Current
<1>2. \A w \in Workers : pc[w] # "borrow"
  BY <1>1, LoopIsNoWorker DEF OneWriter, CInv, HasFile, Working, Placed, Ending
<1>3. \A w \in Workers : /\ pc'[w] # "borrow"
                         /\ pc'[w] = "write" => pc[w] = "write" /\ got'[w] = got[w]
  BY <1>1, <1>2, LoopIsNoWorker DEF Placed, OInv, OwnTyped
<1>4. Amounts'
  BY <1>1 DEF BInv, Amounts
<1> QED  BY <1>1, <1>3, <1>4 DEF BInv, Fit, Within, At

LEMMA FitNext ==
  ASSUME OneWriter, BInv, CInv, OInv, OInv', Placed, Placed', [Next]_vars
  PROVE  BInv'
<1> USE DEF At, Go, borrow, local, task
<1>0. (\A w \in Workers : ~WriteSome(w)) => Steady
  BY FilesSteady DEF CInv, Counted
\* What most steps do: nothing with the lines, and nothing with the descriptors
\* that are borrowed.
<1>1. ASSUME Steady, UNCHANGED <<rest, lines>>, fd' \in {fd, None},
             \A w \in Workers : /\ pc'[w] = "borrow" => pc[w] = "borrow"
                                /\ pc'[w] = "write" => pc[w] = "write" /\ got'[w] = got[w]
      PROVE  BInv'
  <2>1. Amounts'
    BY <1>1 DEF BInv, Amounts
  <2> QED  BY <1>1, <2>1, FitMove
<1>2. ASSUME Steady, NEW t \in Threads, NEW to, to \notin {"borrow", "write"},
             pc' = [pc EXCEPT ![t] = to], fd' \in {fd, None}, UNCHANGED <<rest, lines>>,
             \A u \in Threads \ {t} : got'[u] = got[u]
      PROVE  BInv'
  <2>1. \A w \in Workers : /\ pc'[w] = "borrow" => pc[w] = "borrow"
                           /\ pc'[w] = "write" => pc[w] = "write" /\ got'[w] = got[w]
    BY <1>2, LoopIsNoWorker DEF Placed
  <2> QED  BY <1>1, <1>2, <2>1
<1>3. ASSUME Steady, NEW t \in Threads, NEW from, NEW close, NEW to,
             \/ RetireFd(t, from, close, to) \/ OsClose(t, from, to)
             \/ ReleaseCheck(t, from, close, to) \/ Unclaim(t, from, to) \/ Discard(t, from, to),
             {close, to} \cap {"borrow", "write"} = {}
      PROVE  BInv'
  <2>1. /\ UNCHANGED <<rest, lines, got>> /\ fd' \in {fd, None}
        /\ \E l \in {close, to} : pc' = [pc EXCEPT ![t] = l]
    BY <1>3 DEF RetireFd, Retired, OsClose, ReleaseCheck, Unclaim, Discard
  <2> QED  BY <1>2, <1>3, <2>1
<1>4. ASSUME Steady, NEW t \in Threads, OpenStep(t) PROVE BInv'
  <2>1. CASE EnsureOpen(t) \/ Unlock(t)
    <3>1. /\ UNCHANGED <<fd, rest, lines, got>>
          /\ \E to \in {"up", "check", "segment", "lock", "ended"} : pc' = [pc EXCEPT ![t] = to]
      BY <2>1 DEF EnsureOpen, Unlock, Placed
    <3> QED  BY <1>2, <1>4, <3>1
  <2>2. CASE TakeOpenLock(t) \/ OpenGuards(t) \/ ClaimPath(t) \/ Recheck(t)
    <3>1. /\ UNCHANGED <<fd, rest, lines, got>>
          /\ \E to \in {"open", "rotate", "unlock", "create", "undo"} \cup Claiming :
               pc' = [pc EXCEPT ![t] = to]
      BY <2>2, ClaimStep DEF Claiming, TakeOpenLock, OpenGuards, Recheck, AfterInstall
    <3> QED  BY <1>2, <1>4, <3>1 DEF Claiming
  <2>3. CASE CreateFile(t)
    <3>1. /\ UNCHANGED <<fd, rest, lines>>
          /\ \E to \in {"unlock", "install"} : pc' = [pc EXCEPT ![t] = to]
          /\ \A u \in Threads \ {t} : got'[u] = got[u]
      BY <2>3 DEF CreateFile, OInv, OwnTyped
    <3> QED  BY <1>2, <1>4, <3>1
  <2>4. CASE InstallFd(t)
    BY <2>4, FitInstall
  <2>5. CASE UndoOpen(t)
    BY <1>3, <1>4, <2>5 DEF UndoOpen
  <2> QED  BY <1>4, <2>1, <2>2, <2>3, <2>4, <2>5 DEF OpenStep
<1>5. ASSUME NEW w \in Workers, BeginBatch(w) \/ WriteStep(w) \/ Rotate(w), ~WriteSome(w) => Steady
      PROVE  BInv'
  <2>0. w \in Threads
    BY LoopIsNoWorker
  <2>1. CASE BeginBatch(w) \/ EndBatch(w)
    <3>1. PICK b \in BatchShapes \cup {<<>>} :
            /\ lines' = [lines EXCEPT ![w] = b]
            /\ rest' = rest \/ rest' = [rest EXCEPT ![w] = 0]
            /\ UNCHANGED <<fd, got>>
            /\ pc' = [pc EXCEPT ![w] = "ensure"] \/ pc' = [pc EXCEPT ![w] = "idle"]
      BY <2>1 DEF BeginBatch, EndBatch
    <3>2. b \in Seq(Given)
      BY GivenAreSizes, EmptySeq
    <3>3. Amounts'
      <4>1. rest \in [Threads -> Nat] /\ lines \in [Threads -> Seq(Given)]
        BY DEF BInv, Amounts
      <4>2. rest' \in [Threads -> Nat]
        <5>1. rest' = rest \/ rest' = [rest EXCEPT ![w] = 0]
          BY <3>1
        <5> QED  BY <4>1, <5>1
      <4>3. lines' \in [Threads -> Seq(Given)]
        BY <3>1, <3>2, <4>1
      <4> QED  BY <4>2, <4>3 DEF Amounts
    <3>4. \A v \in Workers :
            /\ pc'[v] = "borrow" => pc[v] = "borrow" /\ rest'[v] = rest[v]
            /\ pc'[v] = "write" => pc[v] = "write" /\ rest'[v] = rest[v] /\ got'[v] = got[v]
      BY <2>0, <3>1, LoopIsNoWorker DEF Placed, BInv, Amounts
    <3>5. Steady
      BY <1>5, <2>1 DEF BeginBatch, EndBatch, WriteSome, OneWriter
    <3> QED  BY <3>1, <3>3, <3>4, <3>5, FitMove
  <2>2. CASE CheckBatch(w) \/ WriteEnds(w) \/ ReleaseFd(w) \/ Rename(w)
    <3>1. /\ UNCHANGED <<fd, rest, lines>>
          /\ \E to \in {"ended", "wantRotate", "segment", "return", "letgo", "open"} :
               pc' = [pc EXCEPT ![w] = to]
          /\ \A u \in Threads \ {w} : got'[u] = got[u]
          /\ ~WriteSome(w)
      BY <2>0, <2>2 DEF CheckBatch, WriteEnds, ReleaseFd, Rename, WriteSome, OInv, OwnTyped, Placed
    <3> QED  BY <1>2, <1>5, <2>0, <3>1
  <2>3. CASE \/ OsClose(w, "letgo", IF broken[w] THEN "ended" ELSE "segment")
             \/ RetireFd(w, "rotate", "shut", "rename") \/ OsClose(w, "shut", "rename")
    <3>1. ~WriteSome(w)
      BY <2>3 DEF OsClose, RetireFd, WriteSome
    <3>2. ASSUME NEW to, to = (IF broken[w] THEN "ended" ELSE "segment"), OsClose(w, "letgo", to)
          PROVE  BInv'
      BY <1>3, <1>5, <2>0, <3>1, <3>2
    <3> QED  BY <1>3, <1>5, <2>0, <2>3, <3>1, <3>2
  <2> QED
    BY <1>5, <2>1, <2>2, <2>3, FitSegment, FitAcquire, FitWrite DEF WriteStep, Rotate
<1>6. ASSUME Steady,
             StartOpens \/ Terminate \/ Teardown \/ RivalClaims \/ RivalShares \/ RivalReleases \/ UNCHANGED vars
      PROVE  BInv'
  <2>1. CASE StartOpens \/ Terminate
    <3>1. /\ UNCHANGED <<fd, rest, lines, got>>
          /\ \E to \in {"ensure", "end"} : pc' = [pc EXCEPT !["loop"] = to]
      BY <2>1 DEF StartOpens, Terminate
    <3> QED  BY <1>2, <1>6, <3>1, LoopIsNoWorker
  <2>2. CASE Teardown
    BY <1>3, <1>6, <2>2, LoopIsNoWorker DEF Teardown
  <2>3. CASE RivalClaims \/ RivalShares \/ RivalReleases \/ UNCHANGED vars
    BY <1>1, <1>6, <2>3 DEF RivalClaims, RivalShares, RivalReleases, vars
  <2> QED  BY <1>6, <2>1, <2>2, <2>3
<1>7. ASSUME Steady, NEW f \in FDs, ForeignOpen(f) \/ ForeignClose(f) PROVE BInv'
  BY <1>1, <1>7 DEF ForeignOpen, ForeignClose
<1>8. ASSUME NEW w \in Workers, WriteSome(w) PROVE BInv'
  BY <1>8, FitWrite
<1>9. CASE \A w \in Workers : ~WriteSome(w)
  BY <1>0, <1>4, <1>5, <1>6, <1>7, <1>9 DEF Next
<1> QED  BY <1>8, <1>9

LEMMA BytesInvariant == ASSUME OneWriter PROVE Spec => [](CInv /\ BInv)
<1>1. Init => CInv /\ BInv
  BY CountInit, AmountsInit
<1>2. Placed /\ OInv /\ CInv /\ BInv /\ Placed' /\ OInv' /\ [Next]_vars => CInv' /\ BInv'
  BY CountNext, FitNext DEF BInv
<1> QED  BY <1>1, <1>2, FileInvariant, PTL DEF Spec

\* With one call of _write_batch at a time, whatever the event loop opens and
\* closes beside it: _file_bytes is the size of the active file, also of one
\* that was there before, one a rotation made and one that os.write filled in
\* pieces.
THEOREM BytesAreCounted == ASSUME OneWriter PROVE Spec => []CountsItsBytes
<1>1. CInv => CountsItsBytes
  BY DEF CInv, Counted, CountsItsBytes
<1> QED  BY <1>1, BytesInvariant, PTL

\* And no file outgrows the limit, except by a single line that is larger.
THEOREM FilesStayBounded == ASSUME OneWriter PROVE Spec => []FilesBounded
<1>1. BInv => FilesBounded
  <2> SUFFICES ASSUME BInv, NEW i \in Inodes, ~(size[i] <= Limit)
               PROVE  \E b \in BatchShapes : \E j \in DOMAIN b : b[j] > Limit /\ size[i] <= b[j]
    BY DEF FilesBounded
  <2>1. PICK l \in Given : l > Limit /\ size[i] <= l
    BY DEF BInv, Fit, Within
  <2>2. PICK b \in BatchShapes : \E j \in DOMAIN b : b[j] = l
    BY DEF Given, Range
  <2> QED  BY <2>1, <2>2
<1> QED  BY <1>1, BytesInvariant, PTL
=============================================================================
