---------------------------- MODULE ShipperProofs ----------------------------
(***************************************************************************)
(* For any number of processes, files and lines, any batch size and any    *)
(* deaths, restarts, rotations and lost replies: what an offset passes     *)
(* over was delivered, and no line is sent twice unless something was lost *)
(* or a pid came back to files others had, as long as inode numbers are    *)
(* not reused and no rotation falls between the stat and the open of a     *)
(* file; and no line counted as refused is in the index.                   *)
(***************************************************************************)
EXTENDS Shipper, SequenceTheorems, WellFoundedInduction, TLAPS

-----------------------------------------------------------------------------
(* Minima.                                                                 *)

LEMMA MinIsLeast ==
  ASSUME NEW T, T \subseteq Nat, T # {}
  PROVE  Min(T) \in T /\ \A y \in T : Min(T) <= y
<1>1. PICK x \in T : \A y \in T : ~ (<<y, x>> \in OpToRel(<, Nat))
  BY NatLessThanWellFounded, WFMin
<1>2. \A y \in T : ~(y < x)
  BY <1>1 DEF OpToRel
<1>3. \A y \in T : x <= y
  BY <1>2
<1> QED  BY <1>3 DEF Min

LEMMA MinOfTwo ==
  ASSUME NEW a \in Nat, NEW b \in Nat
  PROVE  Min({a, b}) \in {a, b} /\ Min({a, b}) <= a /\ Min({a, b}) <= b
  BY MinIsLeast

LEMMA MaxOfTwo ==
  ASSUME NEW a \in Nat, NEW b \in Nat
  PROVE  Max({a, b}) \in {a, b}
<1>1. \E x \in {a, b} : \A y \in {a, b} : x >= y
  OBVIOUS
<1> QED  BY <1>1 DEF Max

\* Names have an order, so the next file of a tick is one of those that are left.
LEMMA FirstIsOne ==
  ASSUME NEW S, S \subseteq Names, S # {}
  PROVE  First(S) \in S
<1>0. ASSUME NEW n \in S
      PROVE  n[1] \in Nat /\ n[2] \in Nat /\ n = <<n[1], n[2]>>
  <2>1. Procs \subseteq Nat /\ 0..Backups \subseteq Nat /\ n \in Names
    BY ShipperAssumption
  <2>2. n[1] \in Nat
    BY <2>1 DEF Names
  <2>3. n[2] \in Nat
    BY <2>1 DEF Names
  <2>4. n = <<n[1], n[2]>>
    BY <2>1 DEF Names
  <2> QED  BY <2>2, <2>3, <2>4
<1> DEFINE P == {n[1] : n \in S}
           Q == {n[2] : n \in {m \in S : m[1] = Min(P)}}
<1>1. P \subseteq Nat /\ P # {}
  <2>1. PICK n : n \in S
    OBVIOUS
  <2>2. n[1] \in P
    BY <2>1
  <2> QED  BY <1>0, <2>2
<1>2. Min(P) \in P /\ \A x \in P : Min(P) <= x
  BY <1>1, MinIsLeast
<1>3. Q \subseteq Nat /\ Q # {}
  <2>1. PICK n \in S : n[1] = Min(P)
    BY <1>2
  <2>2. n[2] \in Q
    BY <2>1
  <2> QED  BY <1>0, <2>2
<1>4. Min(Q) \in Q /\ \A x \in Q : Min(Q) <= x
  BY <1>3, MinIsLeast
<1>5. PICK n \in S : n[1] = Min(P) /\ n[2] = Min(Q)
  BY <1>4
<1>6. \A m \in S \ {n} : Before(n, m)
  <2> SUFFICES ASSUME NEW m \in S \ {n} PROVE Before(n, m)
    OBVIOUS
  <2>1. /\ m[1] \in Nat /\ m[2] \in Nat /\ n[1] \in Nat /\ n[2] \in Nat
        /\ m = <<m[1], m[2]>> /\ n = <<n[1], n[2]>>
    BY <1>0
  <2>2. n[1] <= m[1]
    BY <1>2, <1>5
  <2>3. m[1] = n[1] => n[2] <= m[2]
    BY <1>4, <1>5
  <2> QED  BY <2>1, <2>2, <2>3 DEF Before
<1> QED  BY <1>6 DEF First

-----------------------------------------------------------------------------
(* Types, a part of the state at a time.                                   *)

DiskTyped ==
  /\ names \in [Procs -> Seq(Inodes)] /\ content \in [Inodes -> Seq(Lines)]
  /\ spent \subseteq Inodes /\ written \in 0..MaxLines /\ dropped \subseteq Lines
TaskTyped ==
  /\ todo \in [Procs -> SUBSET Names]
  /\ key \in [Procs -> Inodes \cup {None}] /\ off \in [Procs -> Nat]
  /\ file \in [Procs -> Inodes \cup {None}] /\ batch \in [Procs -> Seq(Lines)]
BookTyped ==
  /\ offs \in [Procs -> [Inodes -> Nat]] /\ saved \in [Procs -> [Inodes -> Nat]]
  /\ dirty \in [Procs -> BOOLEAN] /\ locks \in [Procs -> SUBSET (Names \X Inodes)]
IndexTyped ==
  copies \in [Lines -> 0..2] /\ refused \subseteq Lines /\ disturbed \in BOOLEAN
LifeTyped ==
  /\ pc \in [Procs -> {"sleep", "file", "open", "read", "post", "stopped", "dead"}]
  /\ closing \in [Procs -> {"no", "asked", "final", "cancelled"}]
  /\ owed \in [Procs -> SUBSET Lines] /\ stops \in 0..Stops

LEMMA TypeParts ==
  TypeOK <=> DiskTyped /\ TaskTyped /\ BookTyped /\ IndexTyped /\ LifeTyped
  BY DEF TypeOK, DiskTyped, TaskTyped, BookTyped, IndexTyped, LifeTyped

\* A shipper that looks at a file has one.
Aimed(p) ==
  /\ At(p, "open") => todo[p] # {} /\ key[p] \in Inodes
  /\ pc[p] \in {"read", "post"} => file[p] \in Inodes /\ key[p] \in Inodes

TInv == TypeOK /\ \A p \in Procs : Aimed(p)

LEMMA TypeInit == Init => TypeOK
<1> SUFFICES ASSUME Init PROVE TypeOK
  OBVIOUS
<1>1. DiskTyped /\ LifeTyped
  BY ShipperAssumption DEF Init, DiskTyped, LifeTyped
<1>2. TaskTyped
  BY DEF Init, TaskTyped
<1>3. BookTyped
  BY DEF Init, BookTyped
<1>4. IndexTyped
  <2>1. copies = [l \in Lines |-> 0] /\ refused = {} /\ disturbed = FALSE
    BY DEF Init
  <2>2. copies \in [Lines -> 0..2]
    BY <2>1
  <2>3. refused \subseteq Lines /\ disturbed \in BOOLEAN
    BY <2>1
  <2> QED  BY <2>2, <2>3 DEF IndexTyped
<1> QED  BY <1>1, <1>2, <1>3, <1>4, TypeParts

LEMMA LinesOnDisk ==
  ASSUME DiskTyped
  PROVE  /\ \A i \in Inodes : LinesOf(i) \subseteq Lines
         /\ \A p \in Procs : Range(names[p]) \subseteq Inodes /\ OwnLines(p) \subseteq Lines
         /\ NamedInodes \subseteq Inodes
<1>1. \A i \in Inodes : LinesOf(i) \subseteq Lines
  BY DEF DiskTyped, LinesOf, Range
<1>2. \A p \in Procs : Range(names[p]) \subseteq Inodes
  BY DEF DiskTyped, Range
<1> QED  BY <1>1, <1>2 DEF OwnLines, NamedInodes

\* An existing name leads to an inode.
LEMMA ExistingName ==
  ASSUME DiskTyped, NEW n \in Names, Exists(n)
  PROVE  InodeAt(n) \in Inodes /\ InodeAt(n) \in NamedInodes
<1>1. n[1] \in Procs /\ n[2] \in Nat /\ n[2] + 1 \in 1..Len(names[n[1]])
  BY DEF Names, Exists, DiskTyped
<1>2. names[n[1]] \in Seq(Inodes) /\ InodeAt(n) \in Range(names[n[1]])
  BY <1>1 DEF DiskTyped, InodeAt, Range
<1> QED  BY <1>1, <1>2, LinesOnDisk DEF NamedInodes

\* What a rotation makes of the names of a process.
LEMMA Rotated ==
  ASSUME DiskTyped, NEW p \in Procs, NEW i \in Inodes
  PROVE  LET kept == SubSeq(names[p], 1, Min({Len(names[p]), Backups}))
         IN  /\ kept \in Seq(Inodes) /\ <<i>> \o kept \in Seq(Inodes)
             /\ Range(kept) \subseteq Range(names[p])
             /\ Range(<<i>> \o kept) = {i} \cup Range(kept)
<1> DEFINE k == Min({Len(names[p]), Backups})
           kept == SubSeq(names[p], 1, k)
<1>1. names[p] \in Seq(Inodes) /\ Len(names[p]) \in Nat
  BY DEF DiskTyped
<1>2. k \in Nat /\ k <= Len(names[p])
  BY <1>1, MinOfTwo, ShipperAssumption
<1> HIDE DEF k
<1>3. kept \in Seq(Inodes) /\ Len(kept) = k /\ \A j \in 1..k : kept[j] = names[p][j]
  BY <1>1, <1>2
<1>4. Range(kept) \subseteq Range(names[p])
  BY <1>1, <1>2, <1>3 DEF Range
<1> HIDE DEF kept
<1>5. <<i>> \o kept \in Seq(Inodes)
  BY <1>3
<1>6. /\ DOMAIN (<<i>> \o kept) = 1..(k + 1) /\ (<<i>> \o kept)[1] = i
      /\ \A j \in 1..k : (<<i>> \o kept)[j + 1] = kept[j]
  BY <1>2, <1>3
<1>7. Range(<<i>> \o kept) = {i} \cup Range(kept)
  <2>1. DOMAIN kept = 1..k
    BY <1>3
  <2>2. \A j \in 1..(k + 1) : j = 1 \/ j - 1 \in 1..k
    BY <1>2
  <2>3. 1 \in 1..(k + 1) /\ \A j \in 1..k : j + 1 \in 1..(k + 1)
    BY <1>2
  <2>4. \A j \in 1..(k + 1) : (<<i>> \o kept)[j] \in {i} \cup Range(kept)
    <3> SUFFICES ASSUME NEW j \in 1..(k + 1), j # 1
                 PROVE  (<<i>> \o kept)[j] \in Range(kept)
      BY <1>6
    <3>1. PICK h \in 1..k : h = j - 1
      BY <2>2
    <3>2. h + 1 = j
      BY <1>2, <3>1
    <3>3. (<<i>> \o kept)[j] = kept[h]
      BY <1>6, <3>2
    <3> QED  BY <2>1, <3>3 DEF Range
  <2> QED  BY <1>6, <2>1, <2>3, <2>4 DEF Range
<1> QED  BY <1>3, <1>4, <1>5, <1>7 DEF kept, k

Sinks(p) == Write(p) \/ Rotate(p) \/ Retire(p)
Walks(p) == Look(p) \/ Open(p) \/ Read(p)
Posts(p) == Answered(p) \/ Unanswered(p) \/ Garbled(p) \/ CloseTimesOut(p)
Ends(p)  == Exit(p) \/ Die(p)

LEMMA Actions ==
  Next => \E p \in Procs : Sinks(p) \/ Tick(p) \/ Walks(p) \/ Prune(p) \/ Posts(p)
                            \/ Close(p) \/ Ends(p) \/ Restart(p)
  BY DEF Next, Sinks, Walks, Posts, Ends

LEMMA DiskTypedNext == TInv /\ [Next]_vars => DiskTyped'
<1> SUFFICES ASSUME TInv, [Next]_vars PROVE DiskTyped'
  OBVIOUS
<1>0. DiskTyped /\ MaxLines \in Nat /\ PerFile \in Nat
  BY TypeParts, ShipperAssumption DEF TInv
<1>1. CASE UNCHANGED disk
  BY <1>0, <1>1 DEF DiskTyped, disk
<1>2. ASSUME NEW p \in Procs, Write(p) PROVE DiskTyped'
  <2>1. /\ written < MaxLines /\ names[p] # <<>> /\ written' = written + 1
        /\ content' = [content EXCEPT ![names[p][1]] = Append(@, written + 1)]
        /\ UNCHANGED <<names, spent, dropped>>
    BY <1>2 DEF Write, Full
  <2>2. written + 1 \in Lines /\ written + 1 \in 0..MaxLines
    BY <1>0, <2>1 DEF DiskTyped, Lines
  <2>3. content' \in [Inodes -> Seq(Lines)]
    BY <1>0, <2>1, <2>2 DEF DiskTyped
  <2> QED  BY <1>0, <2>1, <2>2, <2>3 DEF DiskTyped
<1>3. ASSUME NEW p \in Procs, Rotate(p) PROVE DiskTyped'
  <2> DEFINE kept == SubSeq(names[p], 1, Min({Len(names[p]), Backups}))
             gone == Range(names[p]) \ Range(kept)
             free == {i \in Inodes : Free(i, NamedInodes \ gone)}
  <2>1. /\ free # {} /\ names' = [names EXCEPT ![p] = <<Min(free)>> \o kept]
        /\ content' = [content EXCEPT ![Min(free)] = <<>>]
        /\ spent' = spent \cup {Min(free)} /\ UNCHANGED written
        /\ dropped' = dropped \cup (UNION {LinesOf(i) : i \in gone} \ Settled)
    BY <1>3 DEF Rotate
  <2>2. Min(free) \in Inodes
    BY <2>1, MinIsLeast, ShipperAssumption
  <2>3. gone \subseteq Inodes
    BY <1>0, LinesOnDisk
  <2>4. <<Min(free)>> \o kept \in Seq(Inodes)
    BY <1>0, <2>2, Rotated
  <2> HIDE DEF kept, gone, free
  <2>5. names' \in [Procs -> Seq(Inodes)] /\ content' \in [Inodes -> Seq(Lines)]
    BY <1>0, <2>1, <2>2, <2>4 DEF DiskTyped
  <2>6. dropped' \subseteq Lines
    BY <1>0, <2>1, <2>3, LinesOnDisk DEF DiskTyped
  <2> QED  BY <1>0, <2>1, <2>2, <2>5, <2>6 DEF DiskTyped
<1>4. ASSUME NEW p \in Procs, Retire(p) PROVE DiskTyped'
  <2>1. /\ names[p] # <<>> /\ names' = [names EXCEPT ![p] = Front(@)]
        /\ dropped' = dropped \cup (LinesOf(Last(names[p])) \ Settled)
        /\ UNCHANGED <<content, spent, written>>
    BY <1>4 DEF Retire
  <2>2. Front(names[p]) \in Seq(Inodes) /\ Last(names[p]) \in Inodes
    BY <1>0, <2>1 DEF DiskTyped, Front, Last
  <2>3. dropped' \subseteq Lines
    BY <1>0, <2>1, <2>2, LinesOnDisk DEF DiskTyped
  <2> QED  BY <1>0, <2>1, <2>2, <2>3 DEF DiskTyped
<1>5. ASSUME NEW p \in Procs,
             \/ Tick(p) \/ Walks(p) \/ Prune(p) \/ Posts(p) \/ Close(p) \/ Ends(p) \/ Restart(p)
      PROVE  UNCHANGED disk
  BY <1>5 DEF Tick, Walks, Look, Open, Read, Prune, Posts, Answered, Unanswered, Garbled,
              CloseTimesOut, Close, Ends, Exit, Die, Gone, Restart
<1>6. CASE UNCHANGED vars
  BY <1>1, <1>6 DEF vars
<1> QED  BY <1>1, <1>2, <1>3, <1>4, <1>5, <1>6, Actions DEF Sinks

LEMMA PieceIs ==
  ASSUME NEW s \in Seq(Lines), NEW o \in Nat, NEW u \in Nat, u <= Len(s)
  PROVE  /\ SubSeq(s, o + 1, u) \in Seq(Lines)
         /\ o <= Len(s) =>
              /\ o + Len(SubSeq(s, o + 1, u)) <= Len(s)
              /\ \A j \in 1..Len(SubSeq(s, o + 1, u)) : SubSeq(s, o + 1, u)[j] = s[o + j]
<1>1. CASE o + 1 <= u
  <2>1. SubSeq(s, o + 1, u) \in Seq(Lines) /\ Len(SubSeq(s, o + 1, u)) = u - o
    BY <1>1
  <2>2. \A j \in 1..(u - o) : SubSeq(s, o + 1, u)[j] = s[o + j]
    BY <1>1
  <2> DEFINE piece == SubSeq(s, o + 1, u)
  <2>3. Len(piece) = u - o /\ piece \in Seq(Lines) /\ \A j \in 1..(u - o) : piece[j] = s[o + j]
    BY <2>1, <2>2
  <2> HIDE DEF piece
  <2>4. o + Len(piece) <= Len(s) /\ \A j \in 1..Len(piece) : piece[j] = s[o + j]
    BY <2>3
  <2> QED  BY <2>3, <2>4 DEF piece
<1>2. CASE ~(o + 1 <= u)
  <2>1. SubSeq(s, o + 1, u) = <<>>
    BY <1>2
  <2> QED  BY <2>1
<1> QED  BY <1>1, <1>2

\* What a shipper reads next.
LEMMA BatchIs ==
  ASSUME DiskTyped, TaskTyped, NEW p \in Procs, file[p] \in Inodes
  PROVE  LET c == content[file[p]]
         IN  /\ NextBatch(p) \in Seq(Lines)
             /\ off[p] <= Len(c) =>
                  /\ off[p] + Len(NextBatch(p)) <= Len(c)
                  /\ \A j \in 1..Len(NextBatch(p)) : NextBatch(p)[j] = c[off[p] + j]
<1>1. content[file[p]] \in Seq(Lines) /\ off[p] \in Nat /\ BatchSize \in Nat
  BY ShipperAssumption DEF DiskTyped, TaskTyped
<1>2. Len(content[file[p]]) \in Nat /\ off[p] + BatchSize \in Nat
  BY <1>1
<1> DEFINE u == Min({Len(content[file[p]]), off[p] + BatchSize})
<1>3. u \in Nat /\ u <= Len(content[file[p]])
  BY <1>2, MinOfTwo
<1>4. NextBatch(p) = SubSeq(content[file[p]], off[p] + 1, u)
  BY DEF NextBatch
<1> HIDE DEF u
<1> DEFINE c == content[file[p]]
           o == off[p]
<1>5. c \in Seq(Lines) /\ o \in Nat /\ u <= Len(c)
  BY <1>1, <1>3
<1> HIDE DEF c, o
<1>6. /\ SubSeq(c, o + 1, u) \in Seq(Lines)
      /\ o <= Len(c) =>
           /\ o + Len(SubSeq(c, o + 1, u)) <= Len(c)
           /\ \A j \in 1..Len(SubSeq(c, o + 1, u)) : SubSeq(c, o + 1, u)[j] = c[o + j]
  BY <1>3, <1>5, PieceIs
<1>7. NextBatch(p) = SubSeq(c, o + 1, u)
  BY <1>4 DEF c, o
<1> QED  BY <1>6, <1>7 DEF c, o

LEMMA TaskTypedNext == TInv /\ [Next]_vars => TaskTyped'
<1> SUFFICES ASSUME TInv, [Next]_vars PROVE TaskTyped'
  OBVIOUS
<1>0. TaskTyped /\ BookTyped /\ DiskTyped
  BY TypeParts DEF TInv
<1>1. CASE UNCHANGED task
  BY <1>0, <1>1 DEF TaskTyped, task
<1>2. ASSUME NEW p \in Procs, LetGo(p),
             \E S \in SUBSET todo[p] : todo' = [todo EXCEPT ![p] = S]
      PROVE  TaskTyped'
  BY <1>0, <1>2 DEF TaskTyped, LetGo
<1>3. ASSUME NEW p \in Procs, LeaveFile(p) \/ AbortTick(p) PROVE TaskTyped'
  <2>1. \E S \in SUBSET todo[p] : todo' = [todo EXCEPT ![p] = S]
    BY <1>3 DEF LeaveFile, AbortTick
  <2> QED  BY <1>2, <1>3, <2>1 DEF LeaveFile, AbortTick
<1>4. ASSUME NEW p \in Procs, Tick(p) PROVE TaskTyped'
  <2>1. /\ \E S \in SUBSET Names : todo' = [todo EXCEPT ![p] = S]
        /\ UNCHANGED <<key, off, file, batch>>
    BY <1>4 DEF Tick, ClaimFiles
  <2> QED  BY <1>0, <2>1 DEF TaskTyped
<1>5. ASSUME NEW p \in Procs, Look(p) PROVE TaskTyped'
  <2> DEFINE n == First(todo[p])
  <2>1. n \in Names
    BY <1>0, <1>5, FirstIsOne DEF Look, TaskTyped
  <2>2. \/ SkipFile(p)
        \/ /\ Exists(n) /\ key' = [key EXCEPT ![p] = InodeAt(n)]
           /\ off' = [off EXCEPT ![p] = offs[p][InodeAt(n)]] /\ UNCHANGED todo
    BY <1>5 DEF Look
  <2>3. UNCHANGED <<file, batch>>
    BY <1>5 DEF Look
  <2>4. CASE SkipFile(p)
    BY <1>0, <2>3, <2>4 DEF SkipFile, TaskTyped
  <2> HIDE DEF n
  <2>5. CASE /\ Exists(n) /\ key' = [key EXCEPT ![p] = InodeAt(n)]
             /\ off' = [off EXCEPT ![p] = offs[p][InodeAt(n)]] /\ UNCHANGED todo
    <3>1. InodeAt(n) \in Inodes /\ offs[p][InodeAt(n)] \in Nat
      BY <1>0, <2>1, <2>5, ExistingName DEF BookTyped
    <3> QED  BY <1>0, <2>3, <2>5, <3>1 DEF TaskTyped
  <2> QED  BY <2>2, <2>4, <2>5
<1>6. ASSUME NEW p \in Procs, Open(p) PROVE TaskTyped'
  <2> DEFINE n == First(todo[p])
  <2>1. UNCHANGED <<todo, key, off, batch>>
        /\ \/ Exists(n) /\ file' = [file EXCEPT ![p] = InodeAt(n)]
           \/ UNCHANGED file
    BY <1>6 DEF Open
  <2>2. CASE UNCHANGED file
    BY <1>0, <2>1, <2>2 DEF TaskTyped
  <2>3. CASE Exists(n) /\ file' = [file EXCEPT ![p] = InodeAt(n)]
    <3>1. todo[p] # {}
      BY <1>6 DEF Open, TInv, Aimed
    <3>2. InodeAt(n) \in Inodes
      BY <1>0, <2>3, <3>1, FirstIsOne, ExistingName DEF TaskTyped
    <3> HIDE DEF n
    <3> QED  BY <1>0, <2>1, <2>3, <3>2 DEF TaskTyped
  <2> QED  BY <2>1, <2>2, <2>3
<1>7. ASSUME NEW p \in Procs, Read(p) PROVE TaskTyped'
  <2>1. CASE LeaveFile(p)
    BY <1>3, <2>1
  <2>2. CASE batch' = [batch EXCEPT ![p] = NextBatch(p)] /\ UNCHANGED <<todo, key, off, file>>
    <3>1. file[p] \in Inodes
      BY <1>7 DEF Read, At, TInv, Aimed
    <3>2. NextBatch(p) \in Seq(Lines)
      BY <1>0, <3>1, BatchIs
    <3> QED  BY <1>0, <2>2, <3>2 DEF TaskTyped
  <2> QED  BY <1>7, <2>1, <2>2 DEF Read
<1>8. ASSUME NEW p \in Procs, Posts(p) \/ Ends(p) PROVE TaskTyped'
  <2>1. CASE Answered(p)
    <3>1. /\ off' = [off EXCEPT ![p] = @ + Len(batch[p])] /\ batch' = [batch EXCEPT ![p] = <<>>]
          /\ UNCHANGED <<todo, key, file>>
      BY <2>1 DEF Answered, Consumed
    <3> QED  BY <1>0, <3>1 DEF TaskTyped
  <2>2. CASE Unanswered(p) \/ Garbled(p)
    BY <1>3, <2>2 DEF Unanswered, Garbled
  <2>3. CASE CloseTimesOut(p) \/ Ends(p)
    <3>1. LetGo(p) /\ \E S \in SUBSET todo[p] : todo' = [todo EXCEPT ![p] = S]
      BY <2>3 DEF CloseTimesOut, Ends, Exit, Die, Gone
    <3> QED  BY <1>2, <3>1
  <2> QED  BY <1>8, <2>1, <2>2, <2>3 DEF Posts
<1>9. ASSUME NEW p \in Procs, Sinks(p) \/ Prune(p) \/ Close(p) \/ Restart(p) PROVE UNCHANGED task
  BY <1>9 DEF Sinks, Write, Rotate, Retire, Prune, Close, Restart
<1>10. CASE UNCHANGED vars
  BY <1>1, <1>10 DEF vars
<1> QED
  BY <1>1, <1>4, <1>5, <1>6, <1>7, <1>8, <1>9, <1>10, Actions DEF Walks

LEMMA SavedTyped ==
  ASSUME BookTyped, NEW p \in Procs, NEW files \in [Procs -> [Inodes -> Nat]],
         NEW now \in [Inodes -> Nat], NEW moved, SaveState(p, files, now, moved)
  PROVE  saved' \in [Procs -> [Inodes -> Nat]] /\ dirty' \in [Procs -> BOOLEAN]
<1>1. saved' = files \/ saved' = [files EXCEPT ![p] = now]
  BY DEF SaveState
<1>2. \E b \in BOOLEAN : dirty' = [dirty EXCEPT ![p] = b]
  BY DEF SaveState
<1>3. saved' \in [Procs -> [Inodes -> Nat]]
  BY <1>1
<1>4. dirty' \in [Procs -> BOOLEAN]
  BY <1>2 DEF BookTyped
<1> QED  BY <1>3, <1>4

LEMMA BookTypedNext == TInv /\ [Next]_vars => BookTyped'
<1> SUFFICES ASSUME TInv, [Next]_vars PROVE BookTyped'
  OBVIOUS
<1>0. TaskTyped /\ BookTyped /\ DiskTyped
  BY TypeParts DEF TInv
<1>1. CASE UNCHANGED book
  BY <1>0, <1>1 DEF BookTyped, book
<1>2. ASSUME NEW p \in Procs, Tick(p) PROVE BookTyped'
  <2> DEFINE mine == {n \in Names : Exists(n) /\ Claims(p, n)}
             fresh == {n \in mine : n[1] # p /\ \A h \in locks[p] : h[1] # n}
             new == [i \in Inodes |->
                      IF \E n \in fresh : InodeAt(n) = i
                      THEN Adopted(p, i, (CHOOSE n \in fresh : InodeAt(n) = i)[1])
                      ELSE offs[p][i]]
             more == {<<n, InodeAt(n)>> : n \in fresh}
  <2>1. /\ locks' = [locks EXCEPT ![p] = locks[p] \cup more]
        /\ offs' = [offs EXCEPT ![p] = new]
        /\ dirty' = [dirty EXCEPT ![p] = dirty[p] \/ offs'[p] # offs[p]]
        /\ UNCHANGED saved
    BY <1>2 DEF Tick, ClaimFiles
  <2>2. more \subseteq Names \X Inodes
    BY <1>0, ExistingName
  <2>3. new \in [Inodes -> Nat]
    <3> SUFFICES ASSUME NEW i \in Inodes PROVE new[i] \in Nat
      OBVIOUS
    <3>1. CASE \E n \in fresh : InodeAt(n) = i
      <4>1. (CHOOSE n \in fresh : InodeAt(n) = i) \in fresh
        BY <3>1
      <4>2. (CHOOSE n \in fresh : InodeAt(n) = i)[1] \in Procs
        BY <4>1 DEF Names
      <4> HIDE DEF fresh
      <4> QED  BY <1>0, <3>1, <4>2 DEF Adopted, BookTyped
    <3>2. CASE ~ \E n \in fresh : InodeAt(n) = i
      BY <1>0, <3>2 DEF BookTyped
    <3> QED  BY <3>1, <3>2
  <2> HIDE DEF new, more
  <2>4. offs' \in [Procs -> [Inodes -> Nat]] /\ locks' \in [Procs -> SUBSET (Names \X Inodes)]
    BY <1>0, <2>1, <2>2, <2>3 DEF BookTyped
  <2>5. dirty' \in [Procs -> BOOLEAN]
    <3>1. (dirty[p] \/ offs'[p] # offs[p]) \in BOOLEAN
      BY Zenon
    <3> QED  BY <1>0, <2>1, <3>1 DEF BookTyped
  <2> QED  BY <1>0, <2>1, <2>4, <2>5 DEF BookTyped
<1>3. ASSUME NEW p \in Procs, Answered(p) PROVE BookTyped'
  <2>1. /\ offs' = [offs EXCEPT ![p][key[p]] = off'[p]] /\ UNCHANGED locks
        /\ off'[p] = off[p] + Len(batch[p])
        /\ SaveState(p, saved, offs'[p], TRUE)
    BY <1>0, <1>3 DEF Answered, Consumed, TaskTyped
  <2>2. off'[p] \in Nat
    BY <1>0, <2>1 DEF TaskTyped
  <2>3. offs' \in [Procs -> [Inodes -> Nat]]
    BY <1>0, <2>1, <2>2 DEF BookTyped
  <2>4. saved' \in [Procs -> [Inodes -> Nat]] /\ dirty' \in [Procs -> BOOLEAN]
    BY <1>0, <2>1, <2>3, SavedTyped DEF BookTyped
  <2> QED  BY <1>0, <2>1, <2>3, <2>4 DEF BookTyped
<1>4. ASSUME NEW p \in Procs, Prune(p) PROVE BookTyped'
  <2> DEFINE left == [q \in Procs |-> IF Reapable(p, q) THEN [i \in Inodes |-> 0] ELSE saved[q]]
  <2>1. /\ offs' = [offs EXCEPT ![p] = Kept(p)]
        /\ locks' = [locks EXCEPT ![p] = {h \in locks[p] : Exists(h[1])}]
        /\ SaveState(p, left, Kept(p), dirty[p] \/ Kept(p) # offs[p])
    BY <1>4 DEF Prune
  <2>2. Kept(p) \in [Inodes -> Nat]
    BY <1>0 DEF Kept, BookTyped
  <2>3. left \in [Procs -> [Inodes -> Nat]]
    BY <1>0 DEF BookTyped
  <2> HIDE DEF left
  <2>4. saved' \in [Procs -> [Inodes -> Nat]] /\ dirty' \in [Procs -> BOOLEAN]
    BY <1>0, <2>1, <2>2, <2>3, SavedTyped
  <2>5. offs' \in [Procs -> [Inodes -> Nat]] /\ locks' \in [Procs -> SUBSET (Names \X Inodes)]
    BY <1>0, <2>1, <2>2 DEF BookTyped
  <2> QED  BY <2>4, <2>5 DEF BookTyped
<1>5. ASSUME NEW p \in Procs, Ends(p) PROVE BookTyped'
  <2>1. /\ offs' = [offs EXCEPT ![p] = [i \in Inodes |-> 0]]
        /\ dirty' = [dirty EXCEPT ![p] = FALSE] /\ locks' = [locks EXCEPT ![p] = {}]
        /\ UNCHANGED saved
    BY <1>5 DEF Ends, Exit, Die, Gone
  <2>2. [i \in Inodes |-> 0] \in [Inodes -> Nat]
    OBVIOUS
  <2> HIDE <1>5
  <2>3. dirty' \in [Procs -> BOOLEAN]
    BY <1>0, <2>1 DEF BookTyped
  <2> QED  BY <1>0, <2>1, <2>2, <2>3 DEF BookTyped
<1>6. ASSUME NEW p \in Procs, Restart(p) PROVE BookTyped'
  BY <1>0, <1>6 DEF Restart, BookTyped
<1>7. ASSUME NEW p \in Procs,
             \/ Sinks(p) \/ Walks(p) \/ Close(p)
             \/ Unanswered(p) \/ Garbled(p) \/ CloseTimesOut(p)
      PROVE  UNCHANGED book
  BY <1>7 DEF Sinks, Write, Rotate, Retire, Walks, Look, Open, Read, Close, Unanswered, Garbled,
              CloseTimesOut
<1>8. CASE UNCHANGED vars
  BY <1>1, <1>8 DEF vars
<1> QED
  BY <1>1, <1>2, <1>3, <1>4, <1>5, <1>6, <1>7, <1>8, Actions DEF Posts

LEMMA StoredTyped ==
  ASSUME IndexTyped, NEW ls
  PROVE  Stored(ls) \in [Lines -> 0..2]
<1> SUFFICES ASSUME NEW l \in Lines
             PROVE  (IF l \in ls /\ Status(l) = 201 THEN Min({copies[l] + 1, 2}) ELSE copies[l])
                      \in 0..2
  BY DEF Stored
<1>1. copies[l] \in 0..2 /\ copies[l] + 1 \in Nat
  BY DEF IndexTyped
<1>2. Min({copies[l] + 1, 2}) \in Nat /\ Min({copies[l] + 1, 2}) <= 2
  BY <1>1, MinOfTwo
<1> QED  BY <1>1, <1>2

LEMMA MaybeStoredTyped ==
  ASSUME IndexTyped, NEW p \in Procs, NEW also \in BOOLEAN, MaybeStored(p, also)
  PROVE  copies' \in [Lines -> 0..2] /\ disturbed' \in BOOLEAN
<1>1. copies' = Stored(Posted(p)) \/ copies' = copies
  BY DEF MaybeStored
<1>2. copies' \in [Lines -> 0..2]
  BY <1>1, StoredTyped DEF IndexTyped
<1>3. disturbed' \in BOOLEAN
  BY Zenon DEF MaybeStored
<1> QED  BY <1>2, <1>3

LEMMA IndexTypedNext == TInv /\ [Next]_vars => IndexTyped'
<1> SUFFICES ASSUME TInv, [Next]_vars PROVE IndexTyped'
  OBVIOUS
<1>0. IndexTyped /\ TaskTyped
  BY TypeParts DEF TInv
<1>1. CASE UNCHANGED index /\ disturbed' \in BOOLEAN
  BY <1>0, <1>1 DEF IndexTyped, index
<1>2. ASSUME NEW p \in Procs, Answered(p) PROVE IndexTyped'
  <2>1. /\ copies' = Stored(Posted(p))
        /\ refused' = refused \cup {l \in Posted(p) : CountsAsLost(l)}
        /\ disturbed' = disturbed \/ disturbed' = TRUE
    BY <1>2 DEF Answered, SaveState
  <2>2. Posted(p) \subseteq Lines
    BY <1>0 DEF Posted, TaskTyped, Range
  <2>3. copies' \in [Lines -> 0..2]
    BY <1>0, <2>1, StoredTyped
  <2>4. refused' \subseteq Lines
    BY <1>0, <2>1, <2>2 DEF IndexTyped
  <2>5. disturbed' \in BOOLEAN
    BY <1>0, <2>1 DEF IndexTyped
  <2> QED  BY <2>3, <2>4, <2>5 DEF IndexTyped
<1>3. ASSUME NEW p \in Procs, Unanswered(p) \/ Garbled(p) \/ CloseTimesOut(p) PROVE IndexTyped'
  <2>1. MaybeStored(p, FALSE) /\ UNCHANGED refused
    BY <1>3 DEF Unanswered, Garbled, CloseTimesOut
  <2>2. copies' \in [Lines -> 0..2] /\ disturbed' \in BOOLEAN
    BY <1>0, <2>1, MaybeStoredTyped
  <2> QED  BY <1>0, <2>1, <2>2 DEF IndexTyped
<1>4. ASSUME NEW p \in Procs, Ends(p) PROVE IndexTyped'
  <2>1. MaybeStored(p, UnsharedProgress(p)) /\ UNCHANGED refused
    BY <1>4 DEF Ends, Exit, Die, Gone
  <2>2. UnsharedProgress(p) \in BOOLEAN
    BY DEF UnsharedProgress
  <2>3. copies' \in [Lines -> 0..2] /\ disturbed' \in BOOLEAN
    BY <1>0, <2>1, <2>2, MaybeStoredTyped
  <2> QED  BY <1>0, <2>1, <2>3 DEF IndexTyped
<1>5. ASSUME NEW p \in Procs,
             Sinks(p) \/ Tick(p) \/ Walks(p) \/ Prune(p) \/ Close(p) \/ Restart(p)
      PROVE  UNCHANGED index /\ disturbed' \in BOOLEAN
  <2>1. CASE Sinks(p) \/ Tick(p) \/ Walks(p) \/ Close(p)
    BY <1>0, <2>1 DEF Sinks, Write, Rotate, Retire, Tick, Walks, Look, Open, Read, Close,
                      IndexTyped
  <2>2. CASE Prune(p)
    <3>1. UNCHANGED index /\ (disturbed' = disturbed \/ disturbed' = TRUE)
      BY <2>2 DEF Prune, SaveState
    <3> QED  BY <1>0, <3>1 DEF IndexTyped
  <2>3. CASE Restart(p)
    <3>1. UNCHANGED index
      BY <2>3 DEF Restart
    <3>2. disturbed' \in BOOLEAN
      BY <2>3, Zenon DEF Restart
    <3> QED  BY <3>1, <3>2
  <2> QED  BY <1>5, <2>1, <2>2, <2>3
<1>6. CASE UNCHANGED vars
  BY <1>0, <1>1, <1>6 DEF vars, IndexTyped
<1> QED
  BY <1>1, <1>2, <1>3, <1>4, <1>5, <1>6, Actions DEF Posts

LEMMA LifeTypedNext == TInv /\ [Next]_vars => LifeTyped'
<1> SUFFICES ASSUME TInv, [Next]_vars PROVE LifeTyped'
  OBVIOUS
<1>0. LifeTyped /\ DiskTyped /\ Stops \in Nat
  BY TypeParts, ShipperAssumption DEF TInv
<1> USE DEF At, Go, EndsTick
<1>1. ASSUME NEW p \in Procs,
             \/ UNCHANGED pc
             \/ \E l \in {"sleep", "file", "open", "read", "post", "stopped", "dead"} :
                  pc' = [pc EXCEPT ![p] = l],
             \/ UNCHANGED closing
             \/ \E c \in {"no", "asked", "final", "cancelled"} :
                  closing' = [closing EXCEPT ![p] = c],
             \/ UNCHANGED owed
             \/ \E S \in SUBSET Lines : owed' = [owed EXCEPT ![p] = S],
             stops' \in 0..Stops
      PROVE  LifeTyped'
  <2>1. pc' \in [Procs -> {"sleep", "file", "open", "read", "post", "stopped", "dead"}]
    BY <1>0, <1>1 DEF LifeTyped
  <2>2. closing' \in [Procs -> {"no", "asked", "final", "cancelled"}]
    BY <1>0, <1>1 DEF LifeTyped
  <2>3. owed' \in [Procs -> SUBSET Lines]
    BY <1>0, <1>1 DEF LifeTyped
  <2> QED  BY <1>1, <2>1, <2>2, <2>3 DEF LifeTyped
<1>2. ASSUME NEW p \in Procs, Sinks(p) PROVE LifeTyped'
  BY <1>0, <1>1, <1>2 DEF Sinks, Write, Rotate, Retire, life, LifeTyped
<1>3. ASSUME NEW p \in Procs, Tick(p) PROVE LifeTyped'
  <2>1. closing[p] \in {"no", "asked", "final", "cancelled"} /\ stops \in 0..Stops
    BY <1>0 DEF LifeTyped
  <2>2. /\ pc' = [pc EXCEPT ![p] = "file"] /\ UNCHANGED <<owed, stops>>
        /\ closing' = [closing EXCEPT ![p] = IF closing[p] = "asked" THEN "final" ELSE closing[p]]
    BY <1>3 DEF Tick
  <2> QED  BY <1>1, <2>1, <2>2
<1>4. ASSUME NEW p \in Procs, Walks(p) \/ Prune(p) PROVE LifeTyped'
  <2>1. UNCHANGED <<closing, owed, stops>>
    BY <1>4 DEF Walks, Look, Open, Read, Prune, life
  <2>2. \/ UNCHANGED pc
        \/ \E l \in {"sleep", "file", "open", "read", "post", "stopped"} : pc' = [pc EXCEPT ![p] = l]
    BY <1>4 DEF Walks, Look, Open, Read, LeaveFile, Prune
  <2> QED  BY <1>0, <1>1, <2>1, <2>2 DEF LifeTyped
<1>5. ASSUME NEW p \in Procs, Posts(p) \/ Ends(p) \/ Restart(p) PROVE LifeTyped'
  <2>1. /\ UNCHANGED closing \/ \E c \in {"no", "cancelled"} : closing' = [closing EXCEPT ![p] = c]
        /\ UNCHANGED owed \/ owed' = [owed EXCEPT ![p] = {}]
        /\ stops' = stops \/ (stops < Stops /\ stops' = stops + 1)
    BY <1>5 DEF Posts, Answered, Unanswered, Garbled, CloseTimesOut, Ends, Exit, Die, Gone, Restart,
                Excused, life
  <2>2. \E l \in {"sleep", "file", "read", "stopped", "dead"} : pc' = [pc EXCEPT ![p] = l]
    BY <1>5 DEF Posts, Answered, Unanswered, Garbled, CloseTimesOut, Ends, Exit, Die, Gone, Restart,
                LeaveFile, AbortTick
  <2>3. stops' \in 0..Stops
    BY <1>0, <2>1 DEF LifeTyped
  <2> QED  BY <1>1, <2>1, <2>2, <2>3
<1>6. ASSUME NEW p \in Procs, Close(p) PROVE LifeTyped'
  <2>1. /\ UNCHANGED pc /\ closing' = [closing EXCEPT ![p] = "asked"]
        /\ owed' = [owed EXCEPT ![p] = OwnLines(p) \ Settled]
        /\ stops < Stops /\ stops' = stops + 1
    BY <1>6 DEF Close
  <2>2. OwnLines(p) \ Settled \in SUBSET Lines /\ stops' \in 0..Stops
    BY <1>0, <2>1, LinesOnDisk DEF LifeTyped
  <2> QED  BY <1>1, <2>1, <2>2
<1>7. CASE UNCHANGED vars
  BY <1>0, <1>7 DEF vars, life, LifeTyped
<1> QED
  BY <1>2, <1>3, <1>4, <1>5, <1>6, <1>7, Actions

LEMMA AimedNext == TInv /\ [Next]_vars => \A p \in Procs : Aimed(p)'
<1> SUFFICES ASSUME TInv, [Next]_vars PROVE \A p \in Procs : Aimed(p)'
  OBVIOUS
<1>0. LifeTyped /\ DiskTyped /\ TaskTyped
  BY TypeParts DEF TInv
<1> USE DEF At, Go
<1>1. ASSUME NEW p \in Procs, NEW q \in Procs,
             pc'[q] = pc[q], todo'[q] = todo[q], key'[q] = key[q], file'[q] = file[q]
      PROVE  Aimed(q)'
  BY <1>1 DEF TInv, Aimed
<1>2. ASSUME NEW p \in Procs, NEW l \in {"sleep", "file", "stopped", "dead"},
             pc' = [pc EXCEPT ![p] = l]
      PROVE  Aimed(p)'
  BY <1>0, <1>2 DEF LifeTyped, Aimed
<1>3. ASSUME NEW p \in Procs,
             Tick(p) \/ Prune(p) \/ Unanswered(p) \/ Garbled(p) \/ CloseTimesOut(p) \/ Ends(p)
               \/ Restart(p)
      PROVE  Aimed(p)'
  BY <1>2, <1>3 DEF Tick, Prune, EndsTick, Unanswered, Garbled, CloseTimesOut, Ends, Exit, Die, Gone,
                    Restart, LeaveFile, AbortTick
<1>4. ASSUME NEW p \in Procs, Look(p) PROVE Aimed(p)'
  <2>1. CASE UNCHANGED pc
    BY <1>4, <2>1 DEF Look, Aimed
  <2>2. CASE ~UNCHANGED pc
    <3> DEFINE n == First(todo[p])
    <3>1. /\ pc' = [pc EXCEPT ![p] = "open"] /\ todo[p] # {} /\ UNCHANGED todo
          /\ Exists(n) /\ key' = [key EXCEPT ![p] = InodeAt(n)]
      BY <1>4, <2>2 DEF Look
    <3>2. InodeAt(n) \in Inodes
      BY <1>0, <3>1, FirstIsOne, ExistingName DEF TaskTyped
    <3> HIDE DEF n
    <3> QED  BY <1>0, <3>1, <3>2 DEF TaskTyped, LifeTyped, Aimed
  <2> QED  BY <2>1, <2>2
<1>5. ASSUME NEW p \in Procs, Open(p) PROVE Aimed(p)'
  <2> DEFINE n == First(todo[p])
  <2>1. todo[p] # {} /\ key[p] \in Inodes /\ pc[p] = "open"
    BY <1>5 DEF Open, TInv, Aimed
  <2>2. CASE EndsTick(p)
    BY <1>2, <2>2 DEF EndsTick
  <2>3. CASE Exists(n) /\ file' = [file EXCEPT ![p] = InodeAt(n)] /\ pc' = [pc EXCEPT ![p] = "read"]
    <3>1. InodeAt(n) \in Inodes
      BY <1>0, <2>1, <2>3, FirstIsOne, ExistingName DEF TaskTyped
    <3>2. UNCHANGED key
      BY <1>5 DEF Open
    <3> HIDE DEF n
    <3> QED  BY <1>0, <2>1, <2>3, <3>1, <3>2 DEF TaskTyped, LifeTyped, Aimed
  <2> QED  BY <1>5, <2>2, <2>3 DEF Open
<1>6. ASSUME NEW p \in Procs, Read(p) PROVE Aimed(p)'
  <2>1. CASE LeaveFile(p)
    BY <1>2, <2>1 DEF LeaveFile
  <2>2. CASE pc' = [pc EXCEPT ![p] = "post"] /\ UNCHANGED <<todo, key, off, file>>
    BY <1>0, <1>6, <2>2 DEF Read, TInv, LifeTyped, Aimed
  <2> QED  BY <1>6, <2>1, <2>2 DEF Read
<1>7. ASSUME NEW p \in Procs, Answered(p) PROVE Aimed(p)'
  BY <1>0, <1>7 DEF Answered, TInv, LifeTyped, Aimed
<1>8. ASSUME NEW p \in Procs, Sinks(p) \/ Close(p) PROVE UNCHANGED <<pc, todo, key, file>>
  BY <1>8 DEF Sinks, Write, Rotate, Retire, Close, task
<1>9. ASSUME NEW p \in Procs, NEW q \in Procs \ {p},
             \/ Tick(p) \/ Walks(p) \/ Prune(p) \/ Posts(p) \/ Ends(p) \/ Restart(p)
      PROVE  pc'[q] = pc[q] /\ todo'[q] = todo[q] /\ key'[q] = key[q] /\ file'[q] = file[q]
  <2>1. \E l : pc' = [pc EXCEPT ![p] = l] \/ pc' = pc
    BY <1>9 DEF Tick, Walks, Look, Open, Read, Prune, Posts, Answered, Unanswered, Garbled,
                CloseTimesOut, Ends, Exit, Die, Gone, Restart, EndsTick, LeaveFile, AbortTick
  <2>2. \E S : todo' = [todo EXCEPT ![p] = S] \/ todo' = todo
    BY <1>9 DEF Tick, ClaimFiles, Walks, Look, SkipFile, Open, Read, Prune, Posts, Answered,
                Unanswered, Garbled, CloseTimesOut, Ends, Exit, Die, Gone, Restart, LeaveFile,
                AbortTick, task
  <2>3. /\ \E i : key' = [key EXCEPT ![p] = i] \/ key' = key
        /\ \E i : file' = [file EXCEPT ![p] = i] \/ file' = file
    BY <1>9 DEF Tick, Walks, Look, SkipFile, Open, Read, Prune, Posts, Answered, Unanswered,
                Garbled, CloseTimesOut, Ends, Exit, Die, Gone, Restart, LeaveFile, AbortTick,
                LetGo, task
  <2> QED  BY <1>0, <2>1, <2>2, <2>3 DEF LifeTyped, TaskTyped
<1>10. CASE UNCHANGED vars
  BY <1>1, <1>10 DEF vars, task
<1>11. ASSUME NEW p \in Procs, Tick(p) \/ Walks(p) \/ Prune(p) \/ Posts(p) \/ Ends(p) \/ Restart(p)
       PROVE  \A q \in Procs : Aimed(q)'
  <2>1. Aimed(p)'
    BY <1>3, <1>4, <1>5, <1>6, <1>7, <1>11 DEF Walks, Posts
  <2>2. ASSUME NEW q \in Procs \ {p} PROVE Aimed(q)'
    BY <1>1, <1>9, <1>11
  <2> QED  BY <2>1, <2>2
<1> QED
  BY <1>1, <1>8, <1>10, <1>11, Actions

LEMMA TInvInit == Init => TInv
  BY TypeInit DEF Init, TInv, Aimed, At

LEMMA TInvNext == TInv /\ [Next]_vars => TInv'
<1> SUFFICES ASSUME TInv, [Next]_vars PROVE TInv'
  OBVIOUS
<1>1. DiskTyped' /\ TaskTyped' /\ BookTyped' /\ IndexTyped' /\ LifeTyped'
  BY DiskTypedNext, TaskTypedNext, BookTypedNext, IndexTypedNext, LifeTypedNext
<1>2. TypeOK'
  BY <1>1 DEF TypeOK, DiskTyped, TaskTyped, BookTyped, IndexTyped, LifeTyped
<1> QED  BY <1>2, AimedNext DEF TInv

\* Every variable keeps its type, whatever the processes, sinks and Elasticsearch
\* do (the dataclass fields and the locals of shipper.py).
THEOREM TypesHold == Spec => []TypeOK
<1>1. TInv => TypeOK
  BY DEF TInv
<1> QED  BY <1>1, TInvInit, TInvNext, PTL DEF Spec

-----------------------------------------------------------------------------
(* What an offset stands for.                                              *)

\* The first k lines of inode i are settled.
Good(i, k) == k <= Len(content[i]) /\ \A j \in 1..k : content[i][j] \in Settled

Sound == \A p \in Procs : \A i \in Inodes : Good(i, offs[p][i]) /\ Good(i, saved[p][i])

\* A number that was not given out yet has no file and no name.
Unspent == NamedInodes \subseteq spent /\ \A i \in Inodes \ spent : content[i] = <<>>

\* The file a shipper is at is the one it found by stat(), and its batch are the
\* lines behind the offset it has there.
Found(p) == Exists(First(todo[p])) => key[p] = InodeAt(First(todo[p]))
Taken(p) ==
  /\ off[p] + Len(batch[p]) <= Len(content[key[p]])
  /\ \A j \in 1..Len(batch[p]) : batch[p][j] = content[key[p]][off[p] + j]
InHand(p) ==
  /\ At(p, "open") => Good(key[p], off[p]) /\ Found(p)
  /\ pc[p] \in {"read", "post"} => file[p] = key[p] /\ Good(key[p], off[p])
  /\ At(p, "post") => Taken(p)

\* Without these an offset may end up on another file than it was read from.
Steady == ~ReuseInodes /\ ~OpenRaces

DInv == TInv /\ Sound /\ Unspent /\ \A p \in Procs : InHand(p)

-----------------------------------------------------------------------------
(* Files and deliveries only grow.                                         *)

Longer ==
  \A i \in Inodes :
    /\ Len(content[i]) <= Len(content'[i])
    /\ \A j \in 1..Len(content[i]) : content'[i][j] = content[i][j]

LEMMA StoredKeeps ==
  ASSUME IndexTyped, NEW ls, NEW l \in Lines, copies[l] > 0
  PROVE  Stored(ls)[l] > 0
<1>1. copies[l] \in 0..2 /\ copies[l] + 1 \in Nat /\ copies[l] + 1 > 0
  BY DEF IndexTyped
<1>2. Min({copies[l] + 1, 2}) \in {copies[l] + 1, 2}
  BY <1>1, MinOfTwo
<1>3. Min({copies[l] + 1, 2}) > 0
  BY <1>1, <1>2
<1>4. Stored(ls)[l] = IF l \in ls /\ Status(l) = 201 THEN Min({copies[l] + 1, 2}) ELSE copies[l]
  BY DEF Stored
<1> QED  BY <1>3, <1>4

\* Every posted line is delivered or refused by an answer to its batch.
LEMMA AnswerSettles ==
  ASSUME IndexTyped, NEW p \in Procs, Answered(p), NEW l \in Lines, l \in Posted(p)
  PROVE  l \in Settled'
<1>1. copies' = Stored(Posted(p)) /\ refused' = refused \cup {k \in Posted(p) : CountsAsLost(k)}
  BY DEF Answered
<1>2. CASE Status(l) = 400
  <2>1. CountsAsLost(l)
    BY <1>2 DEF CountsAsLost
  <2> QED  BY <1>1, <2>1 DEF Settled
<1>3. CASE Status(l) = 409
  <2>1. copies[l] > 0
    BY <1>3 DEF Status
  <2>2. copies'[l] > 0
    BY <1>1, <2>1, StoredKeeps
  <2> QED  BY <2>2 DEF Settled
<1>4. CASE Status(l) = 201
  <2>1. copies[l] \in 0..2 /\ copies[l] + 1 \in Nat /\ copies[l] + 1 > 0
    BY DEF IndexTyped
  <2>2. Min({copies[l] + 1, 2}) \in {copies[l] + 1, 2}
    BY <2>1, MinOfTwo
  <2>3. Min({copies[l] + 1, 2}) > 0
    BY <2>1, <2>2
  <2>4. copies'[l] = Min({copies[l] + 1, 2})
    BY <1>1, <1>4 DEF Stored
  <2> QED  BY <2>3, <2>4 DEF Settled
<1> QED  BY <1>2, <1>3, <1>4 DEF Status

LEMMA SettledStays == TInv /\ [Next]_vars => Settled \subseteq Settled'
<1> SUFFICES ASSUME TInv, [Next]_vars PROVE Settled \subseteq Settled'
  OBVIOUS
<1>0. IndexTyped
  BY TypeParts DEF TInv
<1>1. CASE copies' = copies /\ refused' = refused
  BY <1>1 DEF Settled
<1>2. ASSUME NEW p \in Procs, copies' = Stored(Posted(p)), refused \subseteq refused'
      PROVE  Settled \subseteq Settled'
  BY <1>0, <1>2, StoredKeeps DEF Settled
<1>3. ASSUME NEW p \in Procs, NEW also, MaybeStored(p, also), UNCHANGED refused
      PROVE  Settled \subseteq Settled'
  BY <1>1, <1>2, <1>3 DEF MaybeStored
<1>4. ASSUME NEW p \in Procs, Posts(p) \/ Ends(p) PROVE Settled \subseteq Settled'
  <2>1. CASE Answered(p)
    BY <1>2, <2>1 DEF Answered
  <2>2. CASE Unanswered(p) \/ Garbled(p) \/ CloseTimesOut(p)
    BY <1>3, <2>2 DEF Unanswered, Garbled, CloseTimesOut
  <2>3. CASE Ends(p)
    BY <1>3, <2>3 DEF Ends, Exit, Die, Gone
  <2> QED  BY <1>4, <2>1, <2>2, <2>3 DEF Posts
<1>5. ASSUME NEW p \in Procs,
             Sinks(p) \/ Tick(p) \/ Walks(p) \/ Prune(p) \/ Close(p) \/ Restart(p)
      PROVE  UNCHANGED index
  BY <1>5 DEF Sinks, Write, Rotate, Retire, Tick, Walks, Look, Open, Read, Prune, Close, Restart
<1>6. CASE UNCHANGED vars
  BY <1>1, <1>6 DEF vars, index
<1> QED  BY <1>1, <1>4, <1>5, <1>6, Actions DEF index

\* A rotation takes a number that was never used.
LEMMA FreshFile ==
  ASSUME DInv, Steady, NEW p \in Procs, Rotate(p)
  PROVE  \E i \in Inodes :
           /\ i \notin spent /\ content[i] = <<>>
           /\ content' = [content EXCEPT ![i] = <<>>] /\ spent' = spent \cup {i}
           /\ names' = [names EXCEPT
                ![p] = <<i>> \o SubSeq(names[p], 1, Min({Len(names[p]), Backups}))]
<1> DEFINE kept == SubSeq(names[p], 1, Min({Len(names[p]), Backups}))
           gone == Range(names[p]) \ Range(kept)
           free == {i \in Inodes : Free(i, NamedInodes \ gone)}
<1>1. /\ free # {} /\ names' = [names EXCEPT ![p] = <<Min(free)>> \o kept]
      /\ content' = [content EXCEPT ![Min(free)] = <<>>] /\ spent' = spent \cup {Min(free)}
  BY DEF Rotate
<1>2. Min(free) \in free
  BY <1>1, MinIsLeast, ShipperAssumption
<1>3. Min(free) \in Inodes /\ Min(free) \notin spent
  BY <1>2 DEF Free, Steady
<1> HIDE DEF free
<1>4. content[Min(free)] = <<>>
  BY <1>3 DEF DInv, Unspent
<1> QED  BY <1>1, <1>3, <1>4

LEMMA NoLineRotates ==
  ASSUME DInv, Steady, NEW p \in Procs, Rotate(p)
  PROVE  UNCHANGED content
<1>1. PICK i \in Inodes : content[i] = <<>> /\ content' = [content EXCEPT ![i] = <<>>]
  BY FreshFile
<1>2. DOMAIN content = Inodes /\ content = [k \in Inodes |-> content[k]]
  BY TypeParts DEF DInv, TInv, DiskTyped
<1>3. content' = [k \in Inodes |-> content[k]]
  BY <1>1, <1>2
<1> QED  BY <1>2, <1>3

LEMMA FilesStay == Steady /\ DInv /\ [Next]_vars => Longer
<1> SUFFICES ASSUME Steady, DInv, [Next]_vars PROVE Longer
  OBVIOUS
<1>0. DiskTyped
  BY TypeParts DEF DInv, TInv
<1>1. CASE UNCHANGED content
  BY <1>0, <1>1 DEF Longer, DiskTyped
<1>2. ASSUME NEW p \in Procs, Write(p) PROVE Longer
  <2> DEFINE i == names[p][1]
  <2>1. /\ names[p] # <<>> /\ content' = [content EXCEPT ![i] = Append(content[i], written + 1)]
        /\ written \in Nat
    BY <1>0, <1>2 DEF Write, Full, DiskTyped
  <2>2. i \in Inodes
    BY <1>0, <2>1 DEF DiskTyped
  <2> HIDE DEF i
  <2>3. /\ Len(Append(content[i], written + 1)) = Len(content[i]) + 1
        /\ \A j \in 1..Len(content[i]) : Append(content[i], written + 1)[j] = content[i][j]
    BY <1>0, <2>2 DEF DiskTyped
  <2>4. /\ content'[i] = Append(content[i], written + 1)
        /\ \A k \in Inodes \ {i} : content'[k] = content[k]
    BY <1>0, <2>1, <2>2 DEF DiskTyped
  <2>5. \A k \in Inodes : Len(content[k]) \in Nat
    BY <1>0 DEF DiskTyped
  <2> QED  BY <2>3, <2>4, <2>5 DEF Longer
<1>3. ASSUME NEW p \in Procs, Rotate(p) PROVE UNCHANGED content
  BY <1>3, NoLineRotates
<1>4. ASSUME NEW p \in Procs, Retire(p) PROVE UNCHANGED content
  BY <1>4 DEF Retire
<1>5. ASSUME NEW p \in Procs,
             \/ Tick(p) \/ Walks(p) \/ Prune(p) \/ Posts(p) \/ Close(p) \/ Ends(p) \/ Restart(p)
      PROVE  UNCHANGED content
  BY <1>5 DEF Tick, Walks, Look, Open, Read, Prune, Posts, Answered, Unanswered, Garbled,
              CloseTimesOut, Close, Ends, Exit, Die, Gone, Restart, disk
<1>6. CASE UNCHANGED vars
  BY <1>1, <1>6 DEF vars, disk
<1> QED  BY <1>1, <1>2, <1>3, <1>4, <1>5, <1>6, Actions DEF Sinks

LEMMA GoodStays ==
  ASSUME DiskTyped, DiskTyped', Longer, Settled \subseteq Settled',
         NEW i \in Inodes, NEW k \in Nat, Good(i, k)
  PROVE  k <= Len(content'[i]) /\ \A j \in 1..k : content'[i][j] \in Settled'
<1>1. /\ k <= Len(content[i]) /\ Len(content[i]) \in Nat /\ Len(content'[i]) \in Nat
      /\ \A j \in 1..k : content[i][j] \in Settled
  BY DEF DiskTyped, Good
<1>2. /\ Len(content[i]) <= Len(content'[i])
      /\ \A j \in 1..Len(content[i]) : content'[i][j] = content[i][j]
  BY DEF Longer
<1>3. \A j \in 1..k : j \in 1..Len(content[i])
  BY <1>1
<1> QED  BY <1>1, <1>2, <1>3

-----------------------------------------------------------------------------
(* Numbers that were not given out.                                        *)

LEMMA UnspentNext == Steady /\ DInv /\ [Next]_vars => Unspent'
<1> SUFFICES ASSUME Steady, DInv, [Next]_vars PROVE Unspent'
  OBVIOUS
<1>0. DiskTyped /\ Unspent
  BY TypeParts DEF DInv, TInv
<1>1. CASE UNCHANGED <<names, content, spent>>
  BY <1>0, <1>1 DEF Unspent, NamedInodes
<1>2. ASSUME NEW p \in Procs, Write(p) PROVE Unspent'
  <2> DEFINE i == names[p][1]
  <2>1. /\ names[p] # <<>> /\ content' = [content EXCEPT ![i] = Append(content[i], written + 1)]
        /\ UNCHANGED <<names, spent>>
    BY <1>2 DEF Write, Full
  <2>2. i \in NamedInodes
    BY <1>0, <2>1 DEF DiskTyped, NamedInodes, Range
  <2> HIDE DEF i
  <2>3. i \in spent /\ NamedInodes' \subseteq spent'
    BY <1>0, <2>1, <2>2 DEF Unspent, NamedInodes
  <2>4. \A k \in Inodes \ spent' : content'[k] = content[k]
    BY <1>0, <2>1, <2>3 DEF DiskTyped
  <2> QED  BY <1>0, <2>1, <2>3, <2>4 DEF Unspent
<1>3. ASSUME NEW p \in Procs, Rotate(p) PROVE Unspent'
  <2> DEFINE kept == SubSeq(names[p], 1, Min({Len(names[p]), Backups}))
  <2>1. PICK i \in Inodes :
          /\ content' = [content EXCEPT ![i] = <<>>] /\ spent' = spent \cup {i}
          /\ names' = [names EXCEPT ![p] = <<i>> \o kept]
    BY <1>3, FreshFile
  <2>2. Range(<<i>> \o kept) = {i} \cup Range(kept) /\ Range(kept) \subseteq Range(names[p])
    BY <1>0, Rotated
  <2> HIDE DEF kept
  <2>3. /\ names'[p] = <<i>> \o kept
        /\ \A q \in Procs \ {p} : names'[q] = names[q]
    BY <1>0, <2>1 DEF DiskTyped
  <2>4. \A q \in Procs : Range(names'[q]) \subseteq spent'
    BY <1>0, <2>1, <2>2, <2>3 DEF Unspent, NamedInodes
  <2>5. NamedInodes' \subseteq spent'
    BY <2>4 DEF NamedInodes
  <2>6. \A k \in Inodes \ spent' : content'[k] = <<>>
    BY <1>0, <2>1 DEF Unspent, DiskTyped
  <2> QED  BY <2>5, <2>6 DEF Unspent
<1>4. ASSUME NEW p \in Procs, Retire(p) PROVE Unspent'
  <2>1. /\ names[p] # <<>> /\ names' = [names EXCEPT ![p] = Front(names[p])]
        /\ UNCHANGED <<content, spent>>
    BY <1>4 DEF Retire
  <2>2. Range(Front(names[p])) \subseteq Range(names[p])
    BY <1>0, <2>1 DEF DiskTyped, Front, Range
  <2>3. \A q \in Procs : Range(names'[q]) \subseteq Range(names[q])
    BY <1>0, <2>1, <2>2 DEF DiskTyped
  <2>4. NamedInodes' \subseteq NamedInodes
    BY <2>3 DEF NamedInodes
  <2> QED  BY <1>0, <2>1, <2>4 DEF Unspent
<1>5. ASSUME NEW p \in Procs,
             \/ Tick(p) \/ Walks(p) \/ Prune(p) \/ Posts(p) \/ Close(p) \/ Ends(p) \/ Restart(p)
      PROVE  UNCHANGED <<names, content, spent>>
  BY <1>5 DEF Tick, Walks, Look, Open, Read, Prune, Posts, Answered, Unanswered, Garbled,
              CloseTimesOut, Close, Ends, Exit, Die, Gone, Restart, disk
<1>6. CASE UNCHANGED vars
  BY <1>1, <1>6 DEF vars, disk
<1> QED  BY <1>1, <1>2, <1>3, <1>4, <1>5, <1>6, Actions DEF Sinks

-----------------------------------------------------------------------------
(* Offsets in memory and in the state files.                               *)

\* An offset no step made up: none, or one some process had or wrote down.
Known(i, k) == k = 0 \/ \E q \in Procs : k = offs[q][i] \/ k = saved[q][i]

LEMMA KnownIsGood ==
  ASSUME DInv, DiskTyped', Longer, Settled \subseteq Settled',
         NEW i \in Inodes, NEW k, Known(i, k)
  PROVE  k <= Len(content'[i]) /\ \A j \in 1..k : content'[i][j] \in Settled'
<1>0. DiskTyped /\ BookTyped /\ Sound
  BY TypeParts DEF DInv, TInv
<1>1. CASE k = 0
  <2>1. Len(content'[i]) \in Nat
    BY DEF DiskTyped
  <2>2. 0 <= Len(content'[i]) /\ 1..0 = {}
    BY <2>1
  <2> QED  BY <1>1, <2>2
<1>2. ASSUME NEW q \in Procs, k = offs[q][i] \/ k = saved[q][i] PROVE k \in Nat /\ Good(i, k)
  BY <1>0, <1>2 DEF BookTyped, Sound
<1>3. CASE k # 0
  <2>1. k \in Nat /\ Good(i, k)
    BY <1>2, <1>3 DEF Known
  <2> QED  BY <1>0, <2>1, GoodStays
<1> QED  BY <1>1, <1>3

LEMMA SoundNext == Steady /\ DInv /\ [Next]_vars => Sound'
<1> SUFFICES ASSUME Steady, DInv, [Next]_vars PROVE Sound'
  OBVIOUS
<1>0. DiskTyped /\ BookTyped /\ TaskTyped /\ IndexTyped /\ Sound
  BY TypeParts DEF DInv, TInv
<1>1. DiskTyped' /\ Longer /\ Settled \subseteq Settled'
  BY DiskTypedNext, FilesStay, SettledStays DEF DInv
<1> DEFINE Fine(i, k) == k <= Len(content'[i]) /\ \A j \in 1..k : content'[i][j] \in Settled'
<1>2. ASSUME NEW i \in Inodes, NEW k, Known(i, k) PROVE Fine(i, k)
  BY <1>1, <1>2, KnownIsGood
<1>3. ASSUME \A q \in Procs : \A i \in Inodes : Fine(i, offs'[q][i]) /\ Fine(i, saved'[q][i])
      PROVE  Sound'
  BY <1>3 DEF Sound, Good
<1> HIDE DEF Fine
<1>4. \A q \in Procs : \A i \in Inodes : Fine(i, offs[q][i]) /\ Fine(i, saved[q][i]) /\ Fine(i, 0)
  BY <1>2 DEF Known
<1>5. CASE UNCHANGED <<offs, saved>>
  BY <1>3, <1>4, <1>5
<1>6. ASSUME NEW p \in Procs, NEW new, \A i \in Inodes : Fine(i, new[i]),
             offs' = [offs EXCEPT ![p] = new], UNCHANGED saved
      PROVE  Sound'
  <2>1. \A q \in Procs : \A i \in Inodes : Fine(i, offs'[q][i])
    BY <1>0, <1>4, <1>6 DEF BookTyped
  <2> QED  BY <1>3, <1>4, <1>6, <2>1
<1>7. ASSUME NEW p \in Procs, Tick(p) PROVE Sound'
  <2> DEFINE mine == {n \in Names : Exists(n) /\ Claims(p, n)}
             fresh == {n \in mine : n[1] # p /\ \A h \in locks[p] : h[1] # n}
             new == [i \in Inodes |->
                      IF \E n \in fresh : InodeAt(n) = i
                      THEN Adopted(p, i, (CHOOSE n \in fresh : InodeAt(n) = i)[1])
                      ELSE offs[p][i]]
  <2>1. offs' = [offs EXCEPT ![p] = new] /\ UNCHANGED saved
    BY <1>7 DEF Tick, ClaimFiles
  <2>2. ASSUME NEW i \in Inodes PROVE Fine(i, new[i])
    <3>1. CASE \E n \in fresh : InodeAt(n) = i
      <4>1. (CHOOSE n \in fresh : InodeAt(n) = i) \in fresh
        BY <3>1
      <4>2. (CHOOSE n \in fresh : InodeAt(n) = i)[1] \in Procs
        BY <4>1 DEF Names
      <4> HIDE DEF fresh
      <4>3. \E q \in Procs : new[i] = offs[p][i] \/ new[i] = saved[q][i]
        BY <3>1, <4>2 DEF Adopted
      <4> QED  BY <1>4, <4>3
    <3>2. CASE ~ \E n \in fresh : InodeAt(n) = i
      BY <1>4, <3>2
    <3> QED  BY <3>1, <3>2
  <2> HIDE DEF new
  <2> QED  BY <1>6, <2>1, <2>2
<1>8. ASSUME NEW p \in Procs, Answered(p) PROVE Sound'
  <2> DEFINE i == key[p]
             k == off[p] + Len(batch[p])
  <2>1. /\ At(p, "post") /\ SaveState(p, saved, offs'[p], TRUE)
        /\ off'[p] = k /\ offs' = [offs EXCEPT ![p][i] = off'[p]]
    BY <1>0, <1>8 DEF Answered, Consumed, TaskTyped
  <2>2. i \in Inodes /\ Good(i, off[p]) /\ Taken(p)
    BY <2>1 DEF DInv, TInv, Aimed, InHand, At
  <2>3. k \in Nat /\ off[p] \in Nat /\ Len(batch[p]) \in Nat /\ k = off[p] + Len(batch[p])
    BY <1>0 DEF TaskTyped
  <2>4. k <= Len(content'[i])
    <3>1. k <= Len(content[i]) /\ Len(content[i]) <= Len(content'[i])
      BY <1>1, <2>2 DEF Taken, Longer
    <3>2. Len(content[i]) \in Nat /\ Len(content'[i]) \in Nat
      BY <1>0, <1>1, <2>2 DEF DiskTyped
    <3> HIDE DEF k, i
    <3> QED  BY <2>3, <3>1, <3>2
  <2>5. \A j \in 1..off[p] : content'[i][j] \in Settled'
    BY <1>0, <1>1, <2>2, <2>3, GoodStays
  <2>6. ASSUME NEW j \in 1..Len(batch[p]) PROVE content'[i][off[p] + j] \in Settled'
    <3>1. batch[p][j] = content[i][off[p] + j]
      BY <2>2 DEF Taken
    <3>2. off[p] + j \in 1..Len(content[i])
      <4>1. Len(content[i]) \in Nat /\ k <= Len(content[i])
        BY <1>0, <2>2 DEF DiskTyped, Taken
      <4> HIDE DEF k, i
      <4> QED  BY <2>3, <4>1
    <3>3. content'[i][off[p] + j] = content[i][off[p] + j]
      BY <1>1, <2>2, <3>2 DEF Longer
    <3>4. batch[p][j] \in Lines /\ batch[p][j] \in Posted(p)
      BY <1>0 DEF TaskTyped, Posted, Range
    <3>5. batch[p][j] \in Settled'
      BY <1>0, <1>8, <3>4, AnswerSettles
    <3> QED  BY <3>1, <3>3, <3>5
  <2> HIDE DEF i
  <2>7. ASSUME NEW j \in 1..k PROVE content'[i][j] \in Settled'
    <3>1. j \in 1..off[p] \/ \E m \in 1..Len(batch[p]) : j = off[p] + m
      <4>1. CASE j <= off[p]
        BY <2>3, <4>1
      <4>2. CASE ~(j <= off[p])
        <5>1. j - off[p] \in 1..Len(batch[p]) /\ j = off[p] + (j - off[p])
          BY <2>3, <4>2
        <5> QED  BY <5>1
      <4> QED  BY <4>1, <4>2
    <3> QED  BY <2>5, <2>6, <3>1
  <2> HIDE DEF k
  <2>8. Fine(i, k)
    BY <2>4, <2>7 DEF Fine
  <2>9. \A q \in Procs : \A m \in Inodes :
          offs'[q][m] = IF q = p /\ m = i THEN k ELSE offs[q][m]
    BY <1>0, <2>1, <2>2 DEF BookTyped
  <2>10. \A q \in Procs : \A m \in Inodes : Fine(m, offs'[q][m])
    BY <1>4, <2>8, <2>9
  <2>11. saved' = saved \/ saved' = [saved EXCEPT ![p] = offs'[p]]
    BY <2>1 DEF SaveState
  <2>12. \A q \in Procs : saved'[q] = saved[q] \/ saved'[q] = offs'[p]
    BY <1>0, <2>11 DEF BookTyped
  <2>13. \A q \in Procs : \A m \in Inodes : Fine(m, saved'[q][m])
    BY <1>4, <2>10, <2>12
  <2> QED  BY <1>3, <2>10, <2>13
<1>9. ASSUME NEW p \in Procs, Prune(p) PROVE Sound'
  <2> DEFINE left == [q \in Procs |-> IF Reapable(p, q) THEN [i \in Inodes |-> 0] ELSE saved[q]]
  <2>1. /\ offs' = [offs EXCEPT ![p] = Kept(p)]
        /\ SaveState(p, left, Kept(p), dirty[p] \/ Kept(p) # offs[p])
    BY <1>9 DEF Prune
  <2>2. \A i \in Inodes : Fine(i, Kept(p)[i])
    BY <1>4 DEF Kept
  <2>3. \A q \in Procs : \A i \in Inodes : Fine(i, left[q][i])
    BY <1>4
  <2>4. DOMAIN left = Procs
    OBVIOUS
  <2> HIDE DEF left
  <2>5. saved' = left \/ saved' = [left EXCEPT ![p] = Kept(p)]
    BY <2>1 DEF SaveState
  <2>6. \A q \in Procs : saved'[q] = left[q] \/ saved'[q] = Kept(p)
    BY <2>4, <2>5
  <2>7. \A q \in Procs : offs'[q] = offs[q] \/ offs'[q] = Kept(p)
    BY <1>0, <2>1 DEF BookTyped
  <2> QED  BY <1>3, <1>4, <2>2, <2>3, <2>6, <2>7
<1>10. ASSUME NEW p \in Procs, Ends(p) PROVE Sound'
  <2>1. offs' = [offs EXCEPT ![p] = [i \in Inodes |-> 0]] /\ UNCHANGED saved
    BY <1>10 DEF Ends, Exit, Die, Gone
  <2>2. \A i \in Inodes : Fine(i, [m \in Inodes |-> 0][i])
    BY <1>4
  <2> QED  BY <1>6, <2>1, <2>2
<1>11. ASSUME NEW p \in Procs, Restart(p) PROVE Sound'
  <2>1. offs' = [offs EXCEPT ![p] = saved[p]] /\ UNCHANGED saved
    BY <1>11 DEF Restart
  <2>2. \A i \in Inodes : Fine(i, saved[p][i])
    BY <1>4
  <2> QED  BY <1>6, <2>1, <2>2
<1>12. ASSUME NEW p \in Procs,
              \/ Sinks(p) \/ Walks(p) \/ Close(p)
              \/ Unanswered(p) \/ Garbled(p) \/ CloseTimesOut(p)
       PROVE  UNCHANGED <<offs, saved>>
  BY <1>12 DEF Sinks, Write, Rotate, Retire, Walks, Look, Open, Read, Close, Unanswered, Garbled,
               CloseTimesOut, book
<1>13. CASE UNCHANGED vars
  BY <1>5, <1>13 DEF vars, book
<1> QED
  BY <1>5, <1>7, <1>8, <1>9, <1>10, <1>11, <1>12, <1>13, Actions DEF Posts

-----------------------------------------------------------------------------
(* The file in hand.                                                       *)

\* Nothing that is this shipper's changes.
Idle(q) ==
  /\ pc'[q] = pc[q] /\ todo'[q] = todo[q] /\ key'[q] = key[q]
  /\ off'[q] = off[q] /\ file'[q] = file[q] /\ batch'[q] = batch[q]

\* A sink's step and close() move no shipper, a shipper's step moves no other.
LEMMA NobodyMoves ==
  ASSUME NEW p \in Procs, Sinks(p) \/ Close(p), NEW q \in Procs
  PROVE  Idle(q)
  BY DEF Sinks, Write, Rotate, Retire, Close, task, Idle

LEMMA OthersIdle ==
  ASSUME LifeTyped, TaskTyped, NEW p \in Procs, NEW q \in Procs \ {p},
         Tick(p) \/ Walks(p) \/ Prune(p) \/ Posts(p) \/ Ends(p) \/ Restart(p)
  PROVE  Idle(q)
<1>1. \E l : pc' = [pc EXCEPT ![p] = l] \/ pc' = pc
  BY DEF Tick, Walks, Look, Open, Read, Prune, Posts, Answered, Unanswered, Garbled,
         CloseTimesOut, Ends, Exit, Die, Gone, Restart, EndsTick, LeaveFile, AbortTick, Go
<1>2. \E S : todo' = [todo EXCEPT ![p] = S] \/ todo' = todo
  BY DEF Tick, ClaimFiles, Walks, Look, SkipFile, Open, Read, Prune, Posts, Answered,
         Unanswered, Garbled, CloseTimesOut, Ends, Exit, Die, Gone, Restart, LeaveFile,
         AbortTick, task
<1>3. /\ \E i : key' = [key EXCEPT ![p] = i] \/ key' = key
      /\ \E i : file' = [file EXCEPT ![p] = i] \/ file' = file
  BY DEF Tick, Walks, Look, SkipFile, Open, Read, Prune, Posts, Answered, Unanswered,
         Garbled, CloseTimesOut, Ends, Exit, Die, Gone, Restart, LeaveFile, AbortTick,
         LetGo, task
<1>4. /\ \E k : off' = [off EXCEPT ![p] = k] \/ off' = off
      /\ \E b : batch' = [batch EXCEPT ![p] = b] \/ batch' = batch
  BY DEF Tick, Walks, Look, SkipFile, Open, Read, Prune, Posts, Answered, Unanswered,
         Garbled, CloseTimesOut, Ends, Exit, Die, Gone, Restart, LeaveFile, AbortTick,
         LetGo, task
<1>5. pc'[q] = pc[q] /\ todo'[q] = todo[q]
  BY <1>1, <1>2 DEF LifeTyped, TaskTyped
<1>6. key'[q] = key[q] /\ file'[q] = file[q]
  BY <1>3 DEF TaskTyped
<1>7. off'[q] = off[q] /\ batch'[q] = batch[q]
  BY <1>4 DEF TaskTyped
<1> QED  BY <1>5, <1>6, <1>7 DEF Idle

\* A name that leads to a file leads to the same one after the step.
NamesStay == \A n \in Names : Exists(n)' => Exists(n) /\ InodeAt(n)' = InodeAt(n)

LEMMA RetiredNames ==
  ASSUME DiskTyped, NEW p \in Procs, Retire(p)
  PROVE  NamesStay
<1>1. names[p] \in Seq(Inodes) /\ names[p] # <<>> /\ names' = [names EXCEPT ![p] = Front(names[p])]
  BY DEF DiskTyped, Retire
<1>2. /\ Len(Front(names[p])) = Len(names[p]) - 1
      /\ \A j \in 1..(Len(names[p]) - 1) : Front(names[p])[j] = names[p][j]
  BY <1>1 DEF Front
<1>3. names'[p] = Front(names[p]) /\ \A q \in Procs \ {p} : names'[q] = names[q]
  BY <1>1 DEF DiskTyped
<1> SUFFICES ASSUME NEW n \in Names, Exists(n)' PROVE Exists(n) /\ InodeAt(n)' = InodeAt(n)
  BY DEF NamesStay
<1>4. n[1] \in Procs /\ n[2] \in Nat
  BY ShipperAssumption DEF Names
<1>5. CASE n[1] # p
  BY <1>3, <1>4, <1>5 DEF Exists, InodeAt
<1>6. CASE n[1] = p
  <2>1. n[2] < Len(names[p]) - 1 /\ Len(names[p]) \in Nat
    BY <1>1, <1>2, <1>3, <1>6 DEF Exists
  <2>2. n[2] + 1 \in 1..(Len(names[p]) - 1) /\ n[2] < Len(names[p])
    BY <1>4, <2>1
  <2> QED  BY <1>2, <1>3, <1>6, <2>2 DEF Exists, InodeAt
<1> QED  BY <1>5, <1>6

LEMMA InHandNext == Steady /\ DInv /\ [Next]_vars => \A p \in Procs : InHand(p)'
<1> SUFFICES ASSUME Steady, DInv, [Next]_vars PROVE \A p \in Procs : InHand(p)'
  OBVIOUS
<1>0. DiskTyped /\ BookTyped /\ TaskTyped /\ LifeTyped
  BY TypeParts DEF DInv, TInv
<1>1. DiskTyped' /\ Longer /\ Settled \subseteq Settled'
  BY DiskTypedNext, FilesStay, SettledStays DEF DInv
<1>2. ASSUME NEW i \in Inodes, NEW k \in Nat, Good(i, k)
      PROVE  k <= Len(content'[i]) /\ \A j \in 1..k : content'[i][j] \in Settled'
  BY <1>0, <1>1, <1>2, GoodStays
<1>3. ASSUME NEW p \in Procs, NEW l \in {"sleep", "file", "stopped", "dead"},
             pc' = [pc EXCEPT ![p] = l]
      PROVE  InHand(p)'
  BY <1>0, <1>3 DEF LifeTyped, InHand, At
<1>4. ASSUME NEW q \in Procs, Idle(q), NamesStay \/ ~At(q, "open") PROVE InHand(q)'
  <2>1. /\ pc'[q] = pc[q] /\ todo'[q] = todo[q] /\ key'[q] = key[q] /\ off'[q] = off[q]
        /\ file'[q] = file[q] /\ batch'[q] = batch[q]
    BY <1>4 DEF Idle
  <2>2. off[q] \in Nat /\ Len(batch[q]) \in Nat /\ InHand(q) /\ Aimed(q)
    BY <1>0 DEF TaskTyped, DInv, TInv
  <2>3. ASSUME At(q, "open") PROVE Good(key[q], off[q])' /\ Found(q)'
    <3>1. key[q] \in Inodes /\ Good(key[q], off[q]) /\ Found(q) /\ todo[q] # {}
      BY <2>2, <2>3 DEF InHand, Aimed
    <3>2. Good(key[q], off[q])'
      BY <1>2, <2>1, <2>2, <3>1 DEF Good
    <3>3. First(todo[q]) \in Names
      BY <1>0, <3>1, FirstIsOne DEF TaskTyped
    <3>4. First(todo[q])' = First(todo[q])
      BY <2>1 DEF First
    <3>5. Found(q)'
      BY <1>4, <2>1, <2>3, <3>1, <3>3, <3>4 DEF Found, NamesStay, Exists, InodeAt
    <3> QED  BY <3>2, <3>5
  <2>4. ASSUME pc[q] \in {"read", "post"} PROVE file'[q] = key'[q] /\ Good(key[q], off[q])'
    <3>1. key[q] \in Inodes /\ Good(key[q], off[q]) /\ file[q] = key[q]
      BY <2>2, <2>4 DEF InHand, Aimed
    <3> QED  BY <1>2, <2>1, <2>2, <3>1 DEF Good
  <2>5. ASSUME At(q, "post") PROVE Taken(q)'
    <3>1. key[q] \in Inodes /\ Taken(q)
      BY <2>2, <2>5 DEF InHand, Aimed, At
    <3> DEFINE i == key[q]
               o == off[q]
               b == Len(batch[q])
    <3>2. /\ Len(content[i]) \in Nat /\ Len(content'[i]) \in Nat
          /\ Len(content[i]) <= Len(content'[i]) /\ o + b <= Len(content[i])
          /\ o \in Nat /\ b \in Nat
      BY <1>0, <1>1, <2>2, <3>1 DEF DiskTyped, Longer, Taken
    <3>3. \A j \in 1..Len(content[i]) : content'[i][j] = content[i][j]
      BY <1>1, <3>1 DEF Longer
    <3>4. \A j \in 1..b : batch[q][j] = content[i][o + j]
      BY <3>1 DEF Taken
    <3>5. Taken(q)' <=> (o + b <= Len(content'[i]) /\ \A j \in 1..b : batch[q][j] = content'[i][o + j])
      BY <2>1 DEF Taken
    <3> HIDE DEF i, o, b
    <3>6. o + b <= Len(content'[i]) /\ \A j \in 1..b : o + j \in 1..Len(content[i])
      BY <3>2
    <3> QED  BY <3>3, <3>4, <3>5, <3>6
  <2> QED  BY <2>1, <2>3, <2>4, <2>5 DEF InHand, At
<1>5. ASSUME NEW p \in Procs,
             Tick(p) \/ Prune(p) \/ Unanswered(p) \/ Garbled(p) \/ CloseTimesOut(p) \/ Ends(p)
               \/ Restart(p)
      PROVE  InHand(p)'
  BY <1>3, <1>5 DEF Tick, Prune, EndsTick, Unanswered, Garbled, CloseTimesOut, Ends, Exit, Die, Gone,
                    Restart, LeaveFile, AbortTick, Go
<1>6. ASSUME NEW p \in Procs, Look(p) PROVE InHand(p)'
  <2>1. CASE UNCHANGED pc
    <3>1. pc[p] = "file"
      BY <1>6 DEF Look, At
    <3> QED  BY <2>1, <3>1 DEF InHand, At
  <2>2. CASE ~UNCHANGED pc
    <3> DEFINE n == First(todo[p])
    <3>1. /\ pc' = [pc EXCEPT ![p] = "open"] /\ todo[p] # {} /\ UNCHANGED <<todo, names>>
          /\ Exists(n) /\ key' = [key EXCEPT ![p] = InodeAt(n)]
          /\ off' = [off EXCEPT ![p] = offs[p][InodeAt(n)]]
      BY <1>6, <2>2 DEF Look, Go, disk
    <3>2. InodeAt(n) \in Inodes
      BY <1>0, <3>1, FirstIsOne, ExistingName DEF TaskTyped
    <3>3. offs[p][InodeAt(n)] \in Nat /\ Good(InodeAt(n), offs[p][InodeAt(n)])
      BY <1>0, <3>2 DEF BookTyped, DInv, Sound
    <3>4. key'[p] = InodeAt(n) /\ off'[p] = offs[p][InodeAt(n)]
      BY <1>0, <3>1 DEF TaskTyped
    <3>5. Good(key[p], off[p])'
      BY <1>2, <3>2, <3>3, <3>4 DEF Good
    <3>6. InodeAt(First(todo[p]))' = InodeAt(n)
      BY <3>1 DEF InodeAt, First
    <3>7. Found(p)'
      BY <3>4, <3>6 DEF Found
    <3>8. pc'[p] = "open"
      BY <1>0, <3>1 DEF LifeTyped
    <3> QED  BY <3>5, <3>7, <3>8 DEF InHand, At
  <2> QED  BY <2>1, <2>2
<1>7. ASSUME NEW p \in Procs, Open(p) PROVE InHand(p)'
  <2> DEFINE n == First(todo[p])
  <2>1. CASE EndsTick(p)
    BY <1>3, <2>1 DEF EndsTick, Go
  <2>2. CASE Exists(n) /\ file' = [file EXCEPT ![p] = InodeAt(n)] /\ Go(p, "read")
    <3>1. At(p, "open") /\ UNCHANGED <<key, off>>
      BY <1>7 DEF Open
    <3>2. /\ key[p] \in Inodes /\ off[p] \in Nat
          /\ Good(key[p], off[p]) /\ Found(p)
      BY <1>0, <3>1 DEF TaskTyped, DInv, TInv, InHand, Aimed
    <3>3. file'[p] = key'[p]
      BY <1>0, <2>2, <3>1, <3>2 DEF TaskTyped, Found
    <3>4. Good(key[p], off[p])'
      BY <1>2, <3>1, <3>2 DEF Good
    <3>5. pc'[p] = "read"
      BY <1>0, <2>2 DEF LifeTyped, Go
    <3> QED  BY <3>3, <3>4, <3>5 DEF InHand, At
  <2> QED  BY <1>7, <2>1, <2>2 DEF Open
<1>8. ASSUME NEW p \in Procs, Read(p) PROVE InHand(p)'
  <2>1. CASE LeaveFile(p)
    BY <1>3, <2>1 DEF LeaveFile, Go
  <2>2. CASE /\ batch' = [batch EXCEPT ![p] = NextBatch(p)]
             /\ Go(p, "post") /\ UNCHANGED <<todo, key, off, file>>
    <3>1. UNCHANGED content /\ pc[p] = "read"
      BY <1>8 DEF Read, disk, At
    <3>2. /\ key[p] \in Inodes /\ file[p] = key[p] /\ off[p] \in Nat
          /\ Good(key[p], off[p])
      BY <1>0, <3>1 DEF TaskTyped, DInv, TInv, InHand, Aimed
    <3>3. /\ off[p] + Len(NextBatch(p)) <= Len(content[key[p]])
          /\ \A j \in 1..Len(NextBatch(p)) : NextBatch(p)[j] = content[key[p]][off[p] + j]
      BY <1>0, <3>2, BatchIs DEF Good
    <3>4. batch'[p] = NextBatch(p) /\ pc'[p] = "post"
      BY <1>0, <2>2 DEF TaskTyped, LifeTyped, Go
    <3>5. Taken(p)'
      BY <2>2, <3>1, <3>3, <3>4 DEF Taken
    <3>6. Good(key[p], off[p])'
      BY <1>2, <2>2, <3>2 DEF Good
    <3> QED  BY <2>2, <3>2, <3>4, <3>5, <3>6 DEF InHand, At
  <2> QED  BY <1>8, <2>1, <2>2 DEF Read
<1>9. ASSUME NEW p \in Procs, Answered(p) PROVE InHand(p)'
  <2>1. /\ pc[p] = "post" /\ pc' = [pc EXCEPT ![p] = "read"] /\ UNCHANGED <<key, file>>
        /\ offs' = [offs EXCEPT ![p][key[p]] = off'[p]]
    BY <1>9 DEF Answered, At, Go
  <2>2. key[p] \in Inodes /\ file[p] = key[p]
    BY <2>1 DEF DInv, TInv, InHand, Aimed
  <2>3. offs'[p][key[p]] = off'[p]
    BY <1>0, <2>1, <2>2 DEF BookTyped
  <2>4. Sound'
    BY SoundNext
  <2>5. Good(key[p], off[p])'
    BY <2>1, <2>2, <2>3, <2>4 DEF Sound
  <2>6. pc'[p] = "read"
    BY <1>0, <2>1 DEF LifeTyped
  <2> QED  BY <2>1, <2>2, <2>5, <2>6 DEF InHand, At
<1>10. ASSUME NEW p \in Procs, Sinks(p) \/ Close(p), NEW q \in Procs
       PROVE  Idle(q) /\ (NamesStay \/ ~At(q, "open"))
  <2>1. Idle(q)
    BY <1>10, NobodyMoves
  <2>2. CASE Rotate(p)
    BY <2>1, <2>2 DEF Rotate, Steady
  <2>3. CASE Retire(p)
    BY <1>0, <2>1, <2>3, RetiredNames
  <2>4. CASE Write(p) \/ Close(p)
    BY <2>1, <2>4 DEF Write, Close, disk, NamesStay, Exists, InodeAt
  <2> QED  BY <1>10, <2>1, <2>2, <2>3, <2>4 DEF Sinks
<1>11. ASSUME NEW p \in Procs, NEW q \in Procs \ {p},
              Tick(p) \/ Walks(p) \/ Prune(p) \/ Posts(p) \/ Ends(p) \/ Restart(p)
       PROVE  Idle(q) /\ NamesStay
  <2>1. UNCHANGED names
    BY <1>11 DEF Tick, Walks, Look, Open, Read, Prune, Posts, Answered, Unanswered, Garbled,
                CloseTimesOut, Ends, Exit, Die, Gone, Restart, disk
  <2>2. NamesStay
    BY <2>1 DEF NamesStay, Exists, InodeAt
  <2> QED  BY <1>0, <1>11, <2>2, OthersIdle
<1>12. CASE UNCHANGED vars
  <2>1. UNCHANGED <<names, pc, todo, key, off, file, batch>>
    BY <1>12 DEF vars, disk, task
  <2>2. NamesStay /\ \A q \in Procs : Idle(q)
    BY <2>1 DEF NamesStay, Exists, InodeAt, Idle
  <2> QED  BY <1>4, <2>2
<1>13. ASSUME NEW p \in Procs, Tick(p) \/ Walks(p) \/ Prune(p) \/ Posts(p) \/ Ends(p) \/ Restart(p)
       PROVE  \A q \in Procs : InHand(q)'
  <2>1. InHand(p)'
    BY <1>5, <1>6, <1>7, <1>8, <1>9, <1>13 DEF Walks, Posts
  <2>2. ASSUME NEW q \in Procs \ {p} PROVE InHand(q)'
    BY <1>4, <1>11, <1>13
  <2> QED  BY <2>1, <2>2
<1>14. ASSUME NEW p \in Procs, Sinks(p) \/ Close(p) PROVE \A q \in Procs : InHand(q)'
  BY <1>4, <1>10, <1>14
<1> QED
  BY <1>12, <1>13, <1>14, Actions

-----------------------------------------------------------------------------
(* Theorems.                                                               *)

LEMMA DInvInit == Init => DInv
<1> SUFFICES ASSUME Init PROVE DInv
  OBVIOUS
<1>1. /\ names = [p \in Procs |-> <<>>] /\ content = [i \in Inodes |-> <<>>]
      /\ offs = [p \in Procs |-> [i \in Inodes |-> 0]] /\ saved = offs
      /\ pc = [p \in Procs |-> "sleep"]
  BY DEF Init
<1>2. \A i \in Inodes : Good(i, 0)
  <2>1. \A i \in Inodes : Len(content[i]) = 0
    BY <1>1
  <2>2. 1..0 = {} /\ 0 <= 0
    OBVIOUS
  <2> QED  BY <2>1, <2>2 DEF Good
<1>3. Sound
  BY <1>1, <1>2 DEF Sound
<1>4. Unspent
  <2>1. \A p \in Procs : Range(names[p]) = {}
    BY <1>1 DEF Range
  <2> QED  BY <1>1, <2>1 DEF Unspent, NamedInodes
<1>5. \A p \in Procs : InHand(p)
  BY <1>1 DEF InHand, At
<1> QED  BY <1>3, <1>4, <1>5, TInvInit DEF DInv

LEMMA DInvNext == Steady /\ DInv /\ [Next]_vars => DInv'
  BY TInvNext, SoundNext, UnspentNext, InHandNext DEF DInv

\* Where inode numbers are not reused and a rotation does not fall between the stat
\* and the open of a file, an offset, in memory or in a state file, never passes over
\* a line that is neither in the index nor counted as refused (shipper.py:443-480).
THEOREM NothingIsSkipped == ~ReuseInodes /\ ~OpenRaces => (Spec => []NothingSkipped)
<1>1. DInv => NothingSkipped
  <2> SUFFICES ASSUME DInv, NEW p \in Procs, NEW i \in NamedInodes,
                      NEW k \in 1..Max({offs[p][i], saved[p][i]})
               PROVE  k <= Len(content[i]) /\ content[i][k] \in Settled
    BY DEF NothingSkipped
  <2>1. DiskTyped /\ BookTyped /\ Sound
    BY TypeParts DEF DInv, TInv
  <2>2. i \in Inodes
    BY <2>1, LinesOnDisk
  <2>3. offs[p][i] \in Nat /\ saved[p][i] \in Nat /\ Len(content[i]) \in Nat
    BY <2>1, <2>2 DEF BookTyped, DiskTyped
  <2>4. Max({offs[p][i], saved[p][i]}) \in {offs[p][i], saved[p][i]}
    BY <2>3, MaxOfTwo
  <2>5. Good(i, Max({offs[p][i], saved[p][i]}))
    BY <2>1, <2>2, <2>4 DEF Sound
  <2> DEFINE m == Max({offs[p][i], saved[p][i]})
  <2>6. m \in Nat /\ m <= Len(content[i]) /\ \A j \in 1..m : content[i][j] \in Settled
    BY <2>3, <2>4, <2>5 DEF Good
  <2>7. k \in 1..m
    OBVIOUS
  <2> HIDE DEF m
  <2> QED  BY <2>3, <2>6, <2>7
<1>2. SUFFICES ASSUME ~ReuseInodes, ~OpenRaces PROVE Spec => []NothingSkipped
  OBVIOUS
<1>3. DInv /\ [Next]_vars => DInv'
  BY <1>2, DInvNext DEF Steady
<1> QED  BY <1>1, <1>3, DInvInit, PTL DEF Spec

-----------------------------------------------------------------------------
\* What Elasticsearch refused is poison, and it has no poison.
Undelivered == refused \subseteq Poison /\ \A l \in Poison \cap Lines : copies[l] = 0

LEMMA UndeliveredNext == TInv /\ Undelivered /\ [Next]_vars => Undelivered'
<1> SUFFICES ASSUME TInv, Undelivered, [Next]_vars PROVE Undelivered'
  OBVIOUS
<1>1. \A ls : \A l \in Poison \cap Lines : Stored(ls)[l] = copies[l]
  BY DEF Stored, Status
<1>2. ASSUME NEW p \in Procs, copies' = Stored(Posted(p)) \/ UNCHANGED copies,
             refused' \subseteq refused \cup {l \in Posted(p) : CountsAsLost(l)}
      PROVE  Undelivered'
  <2>1. {l \in Posted(p) : CountsAsLost(l)} \subseteq Poison
    BY DEF CountsAsLost, Status
  <2> QED  BY <1>1, <1>2, <2>1 DEF Undelivered
<1>3. ASSUME NEW p \in Procs, Posts(p) \/ Ends(p) PROVE Undelivered'
  <2>1. copies' = Stored(Posted(p)) \/ UNCHANGED copies
    BY <1>3 DEF Posts, Answered, Unanswered, Garbled, CloseTimesOut, Ends, Exit, Die, Gone, MaybeStored
  <2>2. refused' \subseteq refused \cup {l \in Posted(p) : CountsAsLost(l)}
    BY <1>3 DEF Posts, Answered, Unanswered, Garbled, CloseTimesOut, Ends, Exit, Die, Gone
  <2> QED  BY <1>2, <2>1, <2>2
<1>4. ASSUME NEW p \in Procs,
             Sinks(p) \/ Tick(p) \/ Walks(p) \/ Prune(p) \/ Close(p) \/ Restart(p)
      PROVE  UNCHANGED index
  BY <1>4 DEF Sinks, Write, Rotate, Retire, Tick, Walks, Look, Open, Read, Prune, Close, Restart
<1>5. CASE UNCHANGED index
  BY <1>5 DEF Undelivered, index
<1> QED  BY <1>3, <1>4, <1>5, Actions DEF vars

\* A line counted among the lost is not in the index, however often it is sent and
\* whatever replies are lost (shipper.py:533).
THEOREM LostIsNeverStored == Spec => []LostIsNotStored
<1>1. Init => Undelivered
  BY DEF Init, Undelivered
<1>2. TInv /\ Undelivered => LostIsNotStored
  BY DEF TInv, TypeOK, Undelivered, LostIsNotStored
<1> QED  BY <1>1, <1>2, TInvInit, TInvNext, UndeliveredNext, PTL DEF Spec

-----------------------------------------------------------------------------
(* Who has a file, and how much of it is in the index.                     *)

Own(p, i) == i \in Range(names[p])
Named(i) == \E p \in Procs : Own(p, i)
Holds(p, i) == \E h \in locks[p] : h[2] = i
InFile(p) == pc[p] \in {"open", "read", "post"}

\* Where the delivered lines of a file are, and an offset that passes them all.
Delivered(i) == {j \in 1..Len(content[i]) : copies[content[i][j]] > 0}
Covers(i, x) == \A j \in Delivered(i) : j <= x

\* A line is in one place, and one that is somewhere was written.
Distinct ==
  /\ \A i, j \in Inodes : \A k \in 1..Len(content[i]), m \in 1..Len(content[j]) :
       content[i][k] = content[j][m] => i = j /\ k = m
  /\ \A i \in Inodes : \A k \in 1..Len(content[i]) : content[i][k] <= written

\* A file has one name.
Apart ==
  \A p, q \in Procs : \A j \in 1..Len(names[p]), k \in 1..Len(names[q]) :
    names[p][j] = names[q][k] => p = q /\ j = k

\* A file has one holder, none of them dead, and neither a lock nor a shipper is on
\* a file that is yet to come.
OneHolder ==
  \A p, q \in Procs : \A h \in locks[p], g \in locks[q] : h[2] = g[2] => p = q
Past(p) ==
  /\ \A h \in locks[p] : h[2] \in spent
  /\ InFile(p) => key[p] \in spent
  /\ Dead(p) => locks[p] = {}

UInv == Distinct /\ Apart /\ OneHolder /\ \A p \in Procs : Past(p)

-----------------------------------------------------------------------------
LEMMA OwnIsNamed ==
  ASSUME DiskTyped
  PROVE  \A i : Named(i) <=> i \in NamedInodes
  BY DEF Named, Own, NamedInodes

LEMMA OneOwner ==
  ASSUME DiskTyped, Apart, NEW p \in Procs, NEW q \in Procs, NEW i, Own(p, i), Own(q, i)
  PROVE  p = q
<1>1. names[p] \in Seq(Inodes) /\ names[q] \in Seq(Inodes)
  BY DEF DiskTyped
<1>2. PICK j \in 1..Len(names[p]) : names[p][j] = i
  BY <1>1 DEF Own, Range
<1>3. PICK k \in 1..Len(names[q]) : names[q][k] = i
  BY <1>1 DEF Own, Range
<1> QED  BY <1>2, <1>3 DEF Apart

LEMMA NameParts ==
  ASSUME NEW n \in Names
  PROVE  n[1] \in Procs /\ n[2] \in Nat /\ n = <<n[1], n[2]>>
  BY ShipperAssumption DEF Names

LEMMA PlaceOf ==
  ASSUME DiskTyped, NEW n \in Names, Exists(n)
  PROVE  /\ n[1] \in Procs /\ n[2] \in Nat /\ n[2] + 1 \in 1..Len(names[n[1]])
         /\ names[n[1]][n[2] + 1] = InodeAt(n)
  BY NameParts DEF Exists, DiskTyped, InodeAt

LEMMA NameIsOwn ==
  ASSUME DiskTyped, NEW n \in Names, Exists(n)
  PROVE  Own(n[1], InodeAt(n)) /\ InodeAt(n) \in Inodes
<1>1. n[1] \in Procs /\ n[2] \in Nat /\ n[2] + 1 \in 1..Len(names[n[1]])
  BY NameParts DEF Exists, DiskTyped
<1>2. names[n[1]] \in Seq(Inodes)
  BY <1>1 DEF DiskTyped
<1> QED  BY <1>1, <1>2 DEF Own, InodeAt, Range

LEMMA OneName ==
  ASSUME DiskTyped, Apart, NEW m \in Names, NEW n \in Names, Exists(m), Exists(n),
         InodeAt(m) = InodeAt(n)
  PROVE  m = n
<1>1. m[1] \in Procs /\ m[2] \in Nat /\ m[2] + 1 \in 1..Len(names[m[1]])
  BY NameParts DEF Exists, DiskTyped
<1>2. n[1] \in Procs /\ n[2] \in Nat /\ n[2] + 1 \in 1..Len(names[n[1]])
  BY NameParts DEF Exists, DiskTyped
<1>3. m[1] = n[1] /\ m[2] + 1 = n[2] + 1
  <2> DEFINE p == m[1]
             q == n[1]
             j == m[2] + 1
             k == n[2] + 1
  <2>1. names[p][j] = names[q][k]
    BY DEF InodeAt
  <2>2. p \in Procs /\ q \in Procs /\ j \in 1..Len(names[p]) /\ k \in 1..Len(names[q])
    BY <1>1, <1>2
  <2> HIDE DEF p, q, j, k
  <2>3. p = q /\ j = k
    BY <2>1, <2>2 DEF Apart
  <2> QED  BY <2>3 DEF p, q, j, k
<1>4. m[2] = n[2]
  BY <1>1, <1>2, <1>3
<1> QED  BY <1>3, <1>4, NameParts

-----------------------------------------------------------------------------
LEMMA DistinctNext == Steady /\ DInv /\ Distinct /\ [Next]_vars => Distinct'
<1> SUFFICES ASSUME Steady, DInv, Distinct, [Next]_vars PROVE Distinct'
  OBVIOUS
<1>0. DiskTyped
  BY TypeParts DEF DInv, TInv
<1>1. CASE UNCHANGED <<content, written>>
  BY <1>1 DEF Distinct
<1>2. ASSUME NEW p \in Procs, Write(p) PROVE Distinct'
  <2> DEFINE i == names[p][1]
             n == Len(content[i])
  <2>1. /\ names[p] # <<>> /\ content' = [content EXCEPT ![i] = Append(content[i], written + 1)]
        /\ written' = written + 1 /\ written \in Nat
    BY <1>0, <1>2 DEF Write, Full, DiskTyped
  <2>2. i \in Inodes
    BY <1>0, <2>1 DEF DiskTyped
  <2> HIDE DEF i
  <2>3. /\ n \in Nat /\ Len(content'[i]) = n + 1 /\ content'[i][n + 1] = written + 1
        /\ \A j \in 1..n : content'[i][j] = content[i][j]
    <3>1. content[i] \in Seq(Lines) /\ content'[i] = Append(content[i], written + 1)
      BY <1>0, <2>1, <2>2 DEF DiskTyped
    <3> QED  BY <3>1
  <2>4. \A k \in Inodes \ {i} : content'[k] = content[k]
    BY <1>0, <2>1, <2>2 DEF DiskTyped
  <2> HIDE DEF n
  <2>5. ASSUME NEW k \in Inodes, NEW j \in 1..Len(content'[k])
        PROVE  \/ k = i /\ j = n + 1 /\ content'[k][j] = written + 1
               \/ j \in 1..Len(content[k]) /\ content'[k][j] = content[k][j]
    <3>1. CASE k = i
      <4>1. j \in 1..n \/ j = n + 1
        BY <2>3, <3>1
      <4> QED  BY <2>3, <3>1, <4>1 DEF n
    <3>2. CASE k # i
      BY <2>4, <3>2
    <3> QED  BY <3>1, <3>2
  <2>6. \A k \in Inodes : \A j \in 1..Len(content[k]) :
          content[k][j] <= written /\ content[k][j] \in Nat
    <3>1. \A k \in Inodes : \A j \in 1..Len(content[k]) : content[k][j] \in Lines
      BY <1>0 DEF DiskTyped
    <3> QED  BY <3>1, ShipperAssumption DEF Distinct, Lines
  <2>7. written + 1 > written /\ written + 1 \in Nat
    BY <2>1
  <2>8. \A k \in Inodes : \A j \in 1..Len(content[k]) : content[k][j] # written + 1
    BY <2>1, <2>6
  <2>9. ASSUME NEW a \in Inodes, NEW b \in Inodes,
               NEW k \in 1..Len(content'[a]), NEW m \in 1..Len(content'[b]),
               content'[a][k] = content'[b][m]
        PROVE  a = b /\ k = m
    <3>1. \/ a = i /\ k = n + 1 /\ content'[a][k] = written + 1
          \/ k \in 1..Len(content[a]) /\ content'[a][k] = content[a][k]
      BY <2>5
    <3>2. \/ b = i /\ m = n + 1 /\ content'[b][m] = written + 1
          \/ m \in 1..Len(content[b]) /\ content'[b][m] = content[b][m]
      BY <2>5
    <3>3. CASE k \in 1..Len(content[a]) /\ m \in 1..Len(content[b]) /\ content[a][k] = content[b][m]
      BY <3>3 DEF Distinct
    <3> QED  BY <2>8, <2>9, <3>1, <3>2, <3>3
  <2>10. ASSUME NEW k \in Inodes, NEW j \in 1..Len(content'[k])
         PROVE  content'[k][j] <= written'
    <3>1. CASE content'[k][j] = written + 1
      BY <2>1, <3>1
    <3>2. CASE j \in 1..Len(content[k]) /\ content'[k][j] = content[k][j]
      <4>1. content'[k][j] <= written /\ content'[k][j] \in Nat
        BY <2>6, <3>2
      <4> QED  BY <2>1, <4>1
    <3> QED  BY <2>5, <3>1, <3>2
  <2> QED  BY <2>9, <2>10 DEF Distinct
<1>3. ASSUME NEW p \in Procs, Rotate(p) PROVE UNCHANGED <<content, written>>
  BY <1>3, NoLineRotates DEF Rotate
<1>4. ASSUME NEW p \in Procs, Retire(p) PROVE UNCHANGED <<content, written>>
  BY <1>4 DEF Retire
<1>5. ASSUME NEW p \in Procs,
             \/ Tick(p) \/ Walks(p) \/ Prune(p) \/ Posts(p) \/ Close(p) \/ Ends(p) \/ Restart(p)
      PROVE  UNCHANGED <<content, written>>
  BY <1>5 DEF Tick, Walks, Look, Open, Read, Prune, Posts, Answered, Unanswered, Garbled,
              CloseTimesOut, Close, Ends, Exit, Die, Gone, Restart, disk
<1>6. CASE UNCHANGED vars
  BY <1>1, <1>6 DEF vars, disk
<1> QED  BY <1>1, <1>2, <1>3, <1>4, <1>5, <1>6, Actions DEF Sinks

-----------------------------------------------------------------------------
(* Names and locks.                                                        *)

\* What a rotation makes of the names, place by place.
LEMMA RotatedPlaces ==
  ASSUME DInv, Steady, NEW p \in Procs, Rotate(p)
  PROVE  \E i \in Inodes : \E k \in 0..Len(names[p]) :
           /\ i \notin spent /\ spent' = spent \cup {i}
           /\ Len(names'[p]) = k + 1 /\ names'[p][1] = i
           /\ \A j \in 1..k : names'[p][j + 1] = names[p][j]
           /\ \A q \in Procs \ {p} : names'[q] = names[q]
<1> DEFINE k == Min({Len(names[p]), Backups})
           kept == SubSeq(names[p], 1, k)
<1>0. DiskTyped
  BY TypeParts DEF DInv, TInv
<1>1. PICK i \in Inodes : /\ i \notin spent /\ spent' = spent \cup {i}
                          /\ names' = [names EXCEPT ![p] = <<i>> \o kept]
  BY FreshFile
<1>2. names[p] \in Seq(Inodes) /\ Len(names[p]) \in Nat
  BY <1>0 DEF DiskTyped
<1>3. k \in Nat /\ k <= Len(names[p])
  BY <1>2, MinOfTwo, ShipperAssumption
<1>4. names'[p] = <<i>> \o kept /\ \A q \in Procs \ {p} : names'[q] = names[q]
  BY <1>0, <1>1 DEF DiskTyped
<1> HIDE DEF k
<1>5. kept \in Seq(Inodes) /\ Len(kept) = k /\ \A j \in 1..k : kept[j] = names[p][j]
  BY <1>2, <1>3
<1> HIDE DEF kept
<1>6. /\ Len(<<i>> \o kept) = k + 1 /\ (<<i>> \o kept)[1] = i
      /\ \A j \in 1..k : (<<i>> \o kept)[j + 1] = kept[j]
  BY <1>3, <1>5
<1>7. k \in 0..Len(names[p])
  BY <1>2, <1>3
<1> QED  BY <1>1, <1>4, <1>5, <1>6, <1>7

LEMMA ApartNext == Steady /\ DInv /\ Apart /\ [Next]_vars => Apart'
<1> SUFFICES ASSUME Steady, DInv, Apart, [Next]_vars PROVE Apart'
  OBVIOUS
<1>0. DiskTyped /\ DiskTyped'
  BY TypeParts, DiskTypedNext DEF DInv, TInv
<1>1. CASE UNCHANGED names
  BY <1>1 DEF Apart
<1>2. ASSUME NEW p \in Procs, Rotate(p) PROVE Apart'
  <2>1. PICK i \in Inodes : \E k \in 0..Len(names[p]) :
           /\ i \notin spent /\ spent' = spent \cup {i}
           /\ Len(names'[p]) = k + 1 /\ names'[p][1] = i
           /\ \A j \in 1..k : names'[p][j + 1] = names[p][j]
           /\ \A q \in Procs \ {p} : names'[q] = names[q]
    BY <1>2, RotatedPlaces
  <2>2. PICK k \in 0..Len(names[p]) :
           /\ Len(names'[p]) = k + 1 /\ names'[p][1] = i
           /\ \A j \in 1..k : names'[p][j + 1] = names[p][j]
           /\ \A q \in Procs \ {p} : names'[q] = names[q]
    BY <2>1
  <2>3. Len(names[p]) \in Nat
    BY <1>0 DEF DiskTyped
  <2>4. ASSUME NEW q \in Procs, NEW j \in 1..Len(names[q]) PROVE names[q][j] # i
    <3>1. names[q] \in Seq(Inodes)
      BY <1>0 DEF DiskTyped
    <3>2. names[q][j] \in NamedInodes
      BY <3>1 DEF NamedInodes, Range
    <3> QED  BY <2>1, <3>2 DEF DInv, Unspent
  <2>5. ASSUME NEW q \in Procs, NEW j \in 1..Len(names'[q])
        PROVE  \/ q = p /\ j = 1 /\ names'[q][j] = i
               \/ q = p /\ j - 1 \in 1..Len(names[q]) /\ names'[q][j] = names[q][j - 1]
               \/ q # p /\ j \in 1..Len(names[q]) /\ names'[q][j] = names[q][j]
    <3>1. CASE q # p
      BY <2>2, <3>1
    <3>2. CASE q = p /\ j = 1
      BY <2>2, <3>2
    <3>3. CASE q = p /\ j # 1
      <4>1. j - 1 \in 1..k /\ j - 1 \in 1..Len(names[p]) /\ (j - 1) + 1 = j
        BY <2>2, <2>3, <3>3
      <4>2. names'[p][(j - 1) + 1] = names[p][j - 1]
        BY <2>2, <4>1
      <4> QED  BY <3>3, <4>1, <4>2
    <3> QED  BY <3>1, <3>2, <3>3
  <2> SUFFICES ASSUME NEW q \in Procs, NEW r \in Procs,
                      NEW j \in 1..Len(names'[q]), NEW m \in 1..Len(names'[r]),
                      names'[q][j] = names'[r][m]
               PROVE  q = r /\ j = m
    BY DEF Apart
  <2>6. CASE names'[q][j] = i
    <3>1. q = p /\ j = 1
      BY <2>4, <2>5, <2>6
    <3>2. names'[r][m] = i
      BY <2>6
    <3>3. r = p /\ m = 1
      BY <2>4, <2>5, <3>2
    <3> QED  BY <3>1, <3>3
  <2>7. CASE names'[q][j] # i
    <3>1. \/ q = p /\ j - 1 \in 1..Len(names[q]) /\ names'[q][j] = names[q][j - 1]
          \/ q # p /\ j \in 1..Len(names[q]) /\ names'[q][j] = names[q][j]
      BY <2>5, <2>7
    <3>2. \/ r = p /\ m - 1 \in 1..Len(names[r]) /\ names'[r][m] = names[r][m - 1]
          \/ r # p /\ m \in 1..Len(names[r]) /\ names'[r][m] = names[r][m]
      BY <2>5, <2>7
    <3>3. ASSUME NEW a \in 1..Len(names[q]), NEW b \in 1..Len(names[r]), names[q][a] = names[r][b]
          PROVE  q = r /\ a = b
      BY <3>3 DEF Apart
    <3>4. CASE q = p
      <4>1. r = p
        BY <3>1, <3>2, <3>3, <3>4
      <4>2. j - 1 = m - 1
        BY <3>1, <3>2, <3>3, <3>4, <4>1
      <4>3. j \in Int /\ m \in Int
        OBVIOUS
      <4> QED  BY <3>4, <4>1, <4>2, <4>3
    <3>5. CASE q # p
      <4>1. r # p
        BY <3>1, <3>2, <3>3, <3>5
      <4> QED  BY <3>1, <3>2, <3>3, <3>5, <4>1
    <3> QED  BY <3>4, <3>5
  <2> QED  BY <2>6, <2>7
<1>3. ASSUME NEW p \in Procs, Retire(p) PROVE Apart'
  <2>1. names[p] \in Seq(Inodes) /\ names[p] # <<>> /\ names' = [names EXCEPT ![p] = Front(names[p])]
    BY <1>0, <1>3 DEF DiskTyped, Retire
  <2>2. /\ Len(Front(names[p])) = Len(names[p]) - 1 /\ Len(names[p]) \in Nat
        /\ \A j \in 1..(Len(names[p]) - 1) : Front(names[p])[j] = names[p][j]
    BY <2>1 DEF Front
  <2>3. names'[p] = Front(names[p]) /\ \A q \in Procs \ {p} : names'[q] = names[q]
    BY <1>0, <2>1 DEF DiskTyped
  <2>4. ASSUME NEW q \in Procs, NEW j \in 1..Len(names'[q])
        PROVE  j \in 1..Len(names[q]) /\ names'[q][j] = names[q][j]
    <3>1. CASE q = p
      BY <2>2, <2>3, <3>1
    <3>2. CASE q # p
      BY <2>3, <3>2
    <3> QED  BY <3>1, <3>2
  <2> QED  BY <2>4 DEF Apart
<1>4. ASSUME NEW p \in Procs,
             \/ Write(p) \/ Tick(p) \/ Walks(p) \/ Prune(p) \/ Posts(p) \/ Close(p) \/ Ends(p)
             \/ Restart(p)
      PROVE  UNCHANGED names
  BY <1>4 DEF Write, Tick, Walks, Look, Open, Read, Prune, Posts, Answered, Unanswered, Garbled,
              CloseTimesOut, Close, Ends, Exit, Die, Gone, Restart, disk
<1>5. CASE UNCHANGED vars
  BY <1>1, <1>5 DEF vars, disk
<1> QED  BY <1>1, <1>2, <1>3, <1>4, <1>5, Actions DEF Sinks

-----------------------------------------------------------------------------
(* Who moves, and what a tick claims.                                      *)

\* Where a shipper is after a step of its own; only Ends and Restart are about life.
LEMMA Stages ==
  ASSUME LifeTyped, NEW p \in Procs, Tick(p) \/ Walks(p) \/ Prune(p) \/ Posts(p)
  PROVE  pc[p] # "dead" /\ pc'[p] # "dead"
  BY DEF LifeTyped, Tick, Walks, Look, Open, Read, Prune, Posts, Answered, Unanswered, Garbled,
         CloseTimesOut, EndsTick, LeaveFile, AbortTick, Go, At

LEMMA LifeStays ==
  ASSUME LifeTyped, TaskTyped, NEW p \in Procs,
         Sinks(p) \/ Tick(p) \/ Walks(p) \/ Prune(p) \/ Posts(p) \/ Close(p)
  PROVE  \A q \in Procs : Dead(q)' <=> Dead(q)
<1>1. CASE Sinks(p) \/ Close(p)
  BY <1>1, NobodyMoves DEF Idle, Dead
<1>2. CASE Tick(p) \/ Walks(p) \/ Prune(p) \/ Posts(p)
  <2>1. ASSUME NEW q \in Procs \ {p} PROVE Dead(q)' <=> Dead(q)
    BY <1>2, OthersIdle DEF Idle, Dead
  <2>2. Dead(p)' <=> Dead(p)
    BY <1>2, Stages DEF Dead
  <2> QED  BY <2>1, <2>2
<1> QED  BY <1>1, <1>2

\* The names of a tick, and those of them it takes a flock for.
Mine(p) == {n \in Names : Exists(n) /\ Claims(p, n)}
Fresh(p) == {n \in Mine(p) : n[1] # p /\ \A h \in locks[p] : h[1] # n}

LEMMA Claimed ==
  ASSUME BookTyped, TaskTyped, NEW p \in Procs, Tick(p)
  PROVE  /\ todo'[p] = Mine(p)
         /\ locks'[p] = locks[p] \cup {<<n, InodeAt(n)>> : n \in Fresh(p)}
         /\ \A i \in Inodes : offs'[p][i] =
              IF \E n \in Fresh(p) : InodeAt(n) = i
              THEN Adopted(p, i, (CHOOSE n \in Fresh(p) : InodeAt(n) = i)[1]) ELSE offs[p][i]
         /\ \A q \in Procs \ {p} : locks'[q] = locks[q] /\ offs'[q] = offs[q]
<1>1. /\ todo' = [todo EXCEPT ![p] = Mine(p)]
      /\ locks' = [locks EXCEPT ![p] = locks[p] \cup {<<n, InodeAt(n)>> : n \in Fresh(p)}]
      /\ offs' = [offs EXCEPT ![p] = [i \in Inodes |->
           IF \E n \in Fresh(p) : InodeAt(n) = i
           THEN Adopted(p, i, (CHOOSE n \in Fresh(p) : InodeAt(n) = i)[1]) ELSE offs[p][i]]]
  BY DEF Tick, ClaimFiles, Mine, Fresh
<1> HIDE DEF Mine, Fresh
<1> QED  BY <1>1 DEF BookTyped, TaskTyped

LEMMA FreshIs ==
  ASSUME NEW p \in Procs, NEW n \in Fresh(p)
  PROVE  /\ n \in Names /\ Exists(n) /\ n[1] # p /\ Dead(n[1])
         /\ \A h \in locks[p] : h[1] # n
         /\ \A q \in Procs \ {p} : \A h \in locks[q] : h[2] # InodeAt(n)
  BY DEF Fresh, Mine, Claims, Unlocked

\* The other steps take no lock.
LEMMA LocksShrink ==
  ASSUME BookTyped, NEW p \in Procs,
         \/ Sinks(p) \/ Walks(p) \/ Prune(p) \/ Posts(p) \/ Close(p) \/ Ends(p) \/ Restart(p)
  PROVE  \A q \in Procs : locks'[q] \subseteq locks[q]
<1>1. CASE Prune(p)
  <2>1. locks' = [locks EXCEPT ![p] = {h \in locks[p] : Exists(h[1])}]
    BY <1>1 DEF Prune
  <2> QED  BY <2>1 DEF BookTyped
<1>2. CASE Ends(p)
  <2>1. locks' = [locks EXCEPT ![p] = {}]
    BY <1>2 DEF Ends, Exit, Die, Gone
  <2> QED  BY <2>1 DEF BookTyped
<1>3. CASE Sinks(p) \/ Walks(p) \/ Posts(p) \/ Close(p) \/ Restart(p)
  <2>1. UNCHANGED locks
    BY <1>3 DEF Sinks, Write, Rotate, Retire, Walks, Look, Open, Read, Posts, Answered, Unanswered,
                Garbled, CloseTimesOut, Close, Restart, book
  <2> QED  BY <2>1
<1> QED  BY <1>1, <1>2, <1>3

LEMMA HolderNext == TInv /\ OneHolder /\ [Next]_vars => OneHolder'
<1> SUFFICES ASSUME TInv, OneHolder, [Next]_vars PROVE OneHolder'
  OBVIOUS
<1>0. BookTyped /\ TaskTyped
  BY TypeParts DEF TInv
<1>1. CASE \A q \in Procs : locks'[q] \subseteq locks[q]
  BY <1>1 DEF OneHolder
<1>2. ASSUME NEW p \in Procs, Tick(p) PROVE OneHolder'
  <2>1. /\ locks'[p] = locks[p] \cup {<<n, InodeAt(n)>> : n \in Fresh(p)}
        /\ \A q \in Procs \ {p} : locks'[q] = locks[q]
    BY <1>0, <1>2, Claimed
  <2>2. ASSUME NEW h \in locks'[p], NEW q \in Procs \ {p}, NEW g \in locks[q] PROVE h[2] # g[2]
    <3>1. CASE h \in locks[p]
      BY <3>1 DEF OneHolder
    <3>2. ASSUME NEW n \in Fresh(p), h = <<n, InodeAt(n)>> PROVE h[2] # g[2]
      BY <3>2, FreshIs
    <3> QED  BY <2>1, <3>1, <3>2
  <2> SUFFICES ASSUME NEW a \in Procs, NEW b \in Procs, NEW h \in locks'[a], NEW g \in locks'[b],
                      h[2] = g[2], a # b
               PROVE  FALSE
    BY DEF OneHolder
  <2>3. CASE a = p
    BY <2>1, <2>2, <2>3
  <2>4. CASE b = p
    BY <2>1, <2>2, <2>4
  <2>5. CASE a # p /\ b # p
    BY <2>1, <2>5 DEF OneHolder
  <2> QED  BY <2>3, <2>4, <2>5
<1>3. CASE UNCHANGED vars
  BY <1>1, <1>3 DEF vars, book
<1> QED  BY <1>0, <1>1, <1>2, <1>3, LocksShrink, Actions

LEMMA PastNext ==
  Steady /\ DInv /\ (\A p \in Procs : Past(p)) /\ [Next]_vars => \A p \in Procs : Past(p)'
<1> SUFFICES ASSUME Steady, DInv, \A p \in Procs : Past(p), [Next]_vars, NEW q \in Procs
             PROVE  Past(q)'
  OBVIOUS
<1>0. DiskTyped /\ BookTyped /\ TaskTyped /\ LifeTyped
  BY TypeParts DEF DInv, TInv
<1>1. spent \subseteq spent'
  BY DEF Next, Write, Rotate, Retire, Tick, Look, Open, Read, Prune, Answered, Unanswered, Garbled,
         CloseTimesOut, Close, Exit, Die, Gone, Restart, disk, vars
<1>2. ASSUME NEW n \in Names, Exists(n) PROVE InodeAt(n) \in spent
  BY <1>0, <1>2, ExistingName DEF DInv, Unspent
<1>3. \A h \in locks'[q] : h[2] \in spent'
  <2>1. CASE locks'[q] \subseteq locks[q]
    BY <1>1, <2>1 DEF Past
  <2>2. ASSUME NEW p \in Procs, Tick(p) PROVE \A h \in locks'[q] : h[2] \in spent'
    <3>1. CASE q # p
      BY <1>0, <2>1, <2>2, <3>1, Claimed
    <3>2. CASE q = p
      <4> SUFFICES ASSUME NEW n \in Fresh(p) PROVE InodeAt(n) \in spent'
        BY <1>0, <1>1, <2>2, <3>2, Claimed DEF Past
      <4> QED  BY <1>1, <1>2, FreshIs
    <3> QED  BY <3>1, <3>2
  <2>3. CASE UNCHANGED vars
    BY <2>1, <2>3 DEF vars, book
  <2> QED  BY <1>0, <2>1, <2>2, <2>3, LocksShrink, Actions
<1>4. CASE Idle(q) /\ (Dead(q) => locks'[q] \subseteq locks[q])
  BY <1>1, <1>3, <1>4 DEF Idle, Past, InFile, Dead
<1>5. ASSUME NEW p \in Procs, p # q \/ Sinks(p) \/ Close(p),
             \/ Sinks(p) \/ Tick(p) \/ Walks(p) \/ Prune(p) \/ Posts(p) \/ Close(p) \/ Ends(p)
             \/ Restart(p)
      PROVE  Past(q)'
  <2>1. Idle(q)
    BY <1>0, <1>5, NobodyMoves, OthersIdle
  <2>2. locks'[q] \subseteq locks[q]
    BY <1>0, <1>5, Claimed, LocksShrink
  <2> QED  BY <1>4, <2>1, <2>2
<1>6. ASSUME Tick(q) \/ Walks(q) \/ Prune(q) \/ Posts(q) PROVE Past(q)'
  <2>1. ~Dead(q)'
    BY <1>0, <1>6, Stages DEF Dead
  <2>2. CASE ~InFile(q)'
    BY <1>3, <2>1, <2>2 DEF Past
  <2>3. CASE InFile(q) /\ key'[q] = key[q]
    BY <1>1, <1>3, <2>1, <2>3 DEF Past
  <2>4. CASE Look(q) /\ InFile(q)'
    <3>1. pc[q] = "file" /\ ~UNCHANGED pc
      BY <2>4 DEF Look, InFile, At
    <3>2. /\ Exists(First(todo[q])) /\ key' = [key EXCEPT ![q] = InodeAt(First(todo[q]))]
          /\ todo[q] # {}
      BY <2>4, <3>1 DEF Look
    <3>3. First(todo[q]) \in Names
      BY <1>0, <3>2, FirstIsOne DEF TaskTyped
    <3>4. key'[q] \in spent
      BY <1>0, <1>2, <3>2, <3>3 DEF TaskTyped
    <3> QED  BY <1>1, <1>3, <2>1, <3>4 DEF Past
  <2>5. CASE Tick(q) \/ Prune(q) \/ Unanswered(q) \/ Garbled(q) \/ CloseTimesOut(q)
    <3>1. ~InFile(q)'
      BY <1>0, <2>5 DEF LifeTyped, Tick, Prune, Unanswered, Garbled, CloseTimesOut, EndsTick,
                        LeaveFile, AbortTick, Go, InFile
    <3> QED  BY <2>2, <3>1
  <2>6. CASE Open(q) \/ Answered(q)
    <3>1. UNCHANGED key /\ InFile(q)
      BY <2>6 DEF Open, Answered, InFile, At
    <3> QED  BY <2>3, <3>1
  <2>7. CASE Read(q)
    <3>1. InFile(q) /\ (UNCHANGED key \/ pc' = [pc EXCEPT ![q] = "file"])
      BY <2>7 DEF Read, LeaveFile, Go, InFile, At
    <3>2. UNCHANGED key \/ ~InFile(q)'
      BY <1>0, <3>1 DEF LifeTyped, InFile
    <3> QED  BY <2>2, <2>3, <3>1, <3>2
  <2> QED  BY <1>6, <2>2, <2>4, <2>5, <2>6, <2>7 DEF Walks, Posts
<1>7. ASSUME Ends(q) PROVE Past(q)'
  <2>1. pc'[q] = "dead" /\ locks'[q] = {}
    BY <1>0, <1>7 DEF Ends, Exit, Die, Gone, Go, LifeTyped, BookTyped
  <2> QED  BY <2>1 DEF Past, InFile
<1>8. ASSUME Restart(q) PROVE Past(q)'
  <2>1. pc'[q] = "sleep"
    BY <1>0, <1>8 DEF Restart, Go, LifeTyped
  <2> QED  BY <1>3, <2>1 DEF Past, InFile, Dead
<1>9. CASE UNCHANGED vars
  <2>1. Idle(q) /\ locks'[q] = locks[q]
    BY <1>9 DEF vars, task, book, Idle
  <2> QED  BY <1>4, <2>1
<1> QED  BY <1>5, <1>6, <1>7, <1>8, <1>9, Actions

LEMMA UInvNext == Steady /\ DInv /\ UInv /\ [Next]_vars => UInv'
  BY DistinctNext, ApartNext, HolderNext, PastNext DEF UInv, DInv

-----------------------------------------------------------------------------
(* What holds while nothing was disturbed.                                 *)

Sent == \A l \in Lines : copies[l] <= 1 /\ (copies[l] > 0 => l <= written)

\* A lock is on a dead process's file, under its name as long as it has one.
Orphan(h) ==
  /\ Dead(h[1][1])
  /\ IF Exists(h[1]) THEN InodeAt(h[1]) = h[2] ELSE ~Named(h[2])

\* A tick goes through the process's own files and those it holds.
Chosen(p) ==
  \A n \in todo[p] : At(p, "sleep") \/ n[1] = p \/ \E h \in locks[p] : h[1] = n

\* The file in hand is one of these, or gone, and is read from behind what is stored.
AtHand(p, i) == InFile(p) /\ key[p] = i =>
  /\ Own(p, i) \/ Holds(p, i) \/ ~Named(i)
  /\ off[p] = offs[p][i] /\ Covers(i, off[p])
OneReader ==
  \A p, q \in Procs : InFile(p) /\ InFile(q) /\ key[p] = key[q] => p = q

\* A file of a living process is known to nobody else.
Private(p, i) ==
  /\ Covers(i, offs[p][i]) /\ Covers(i, saved[p][i])
  /\ \A q \in Procs \ {p} : offs[q][i] = 0 /\ saved[q][i] = 0

\* Of a dead process's file, its state file knows what is stored unless a holder
\* knows better; a holder knows, and whoever knows something knows no less.
NotBehind(x, y) == x = 0 \/ x >= y
Left(p, i) ==
  /\ Covers(i, saved[p][i]) \/ \E q \in Procs : (Holds(q, i) /\ offs[q][i] # saved[p][i])
  /\ \A q \in Procs : Holds(q, i) => Covers(i, offs[q][i]) /\ offs[q][i] >= saved[p][i]
  /\ \A q \in Procs \ {p} :
       NotBehind(offs[q][i], saved[p][i]) /\ NotBehind(saved[q][i], saved[p][i])

FileOf(p, i) == IF Dead(p) THEN Left(p, i) ELSE Private(p, i)

Quiet ==
  /\ Sent
  /\ \A p \in Procs : \A h \in locks[p] : Orphan(h)
  /\ \A p \in Procs : Chosen(p)
  /\ \A p \in Procs : \A i \in Inodes : AtHand(p, i)
  /\ OneReader
  /\ \A p \in Procs : \A i \in Inodes : Own(p, i) => FileOf(p, i)

OInv == DInv /\ UInv /\ (~disturbed => Quiet)

LEMMA LockParts ==
  ASSUME BookTyped, NEW p \in Procs, NEW h \in locks[p]
  PROVE  h[1] \in Names /\ h[2] \in Inodes /\ h[1][1] \in Procs
<1>1. h \in Names \X Inodes
  BY DEF BookTyped
<1>2. h[1] \in Names /\ h[2] \in Inodes
  BY <1>1
<1> QED  BY <1>2, NameParts

LEMMA FileKept ==
  ASSUME NEW p \in Procs, NEW i \in Inodes, FileOf(p, i),
         Delivered(i)' \subseteq Delivered(i), Dead(p)' <=> Dead(p),
         \A q \in Procs : /\ Holds(q, i)' <=> Holds(q, i)
                          /\ offs'[q][i] = offs[q][i] /\ saved'[q][i] = saved[q][i]
  PROVE  FileOf(p, i)'
<1>1. CASE Dead(p)
  <2>1. Left(p, i)
    BY <1>1 DEF FileOf
  <2>2. Left(p, i)'
    BY <2>1 DEF Left, Covers, NotBehind
  <2> QED  BY <1>1, <2>2 DEF FileOf
<1>2. CASE ~Dead(p)
  <2>1. Private(p, i)
    BY <1>2 DEF FileOf
  <2>2. Private(p, i)'
    BY <2>1 DEF Private, Covers
  <2> QED  BY <1>2, <2>2 DEF FileOf
<1> QED  BY <1>1, <1>2

LEMMA HandKept ==
  ASSUME NEW p \in Procs, NEW i \in Inodes, AtHand(p, i),
         ~InFile(p)' \/ (InFile(p) /\ key'[p] = key[p] /\ off'[p] = off[p]),
         Own(p, i) => Own(p, i)' \/ ~Named(i)', Holds(p, i) => Holds(p, i)' \/ ~Named(i)',
         ~Named(i) => ~Named(i)',
         offs'[p][i] = offs[p][i], Delivered(i)' \subseteq Delivered(i)
  PROVE  AtHand(p, i)'
<1> SUFFICES ASSUME InFile(p)', key'[p] = i
             PROVE  /\ Own(p, i)' \/ Holds(p, i)' \/ ~Named(i)'
                    /\ off'[p] = offs'[p][i] /\ Covers(i, off[p])'
  BY DEF AtHand
<1>1. /\ Own(p, i) \/ Holds(p, i) \/ ~Named(i)
      /\ off[p] = offs[p][i] /\ Covers(i, off[p]) /\ off'[p] = off[p]
  BY DEF AtHand
<1>2. Covers(i, off[p])'
  BY <1>1 DEF Covers
<1> QED  BY <1>1, <1>2

\* Steps that leave names, locks and offsets alone.
LEMMA QuietStays ==
  ASSUME BookTyped, Quiet, Sent', UNCHANGED <<names, offs, saved, locks>>,
         \A i \in Inodes : Delivered(i)' \subseteq Delivered(i),
         \A p \in Procs :
           /\ Dead(p)' <=> Dead(p)
           /\ todo'[p] = {} \/ (todo'[p] \subseteq todo[p] /\ (At(p, "sleep") => At(p, "sleep")'))
           /\ ~InFile(p)' \/ (InFile(p) /\ key'[p] = key[p] /\ off'[p] = off[p])
  PROVE  Quiet'
<1>1. /\ \A p, i : (Own(p, i)' <=> Own(p, i)) /\ (Holds(p, i)' <=> Holds(p, i))
      /\ \A i : Named(i)' <=> Named(i)
  BY DEF Own, Holds, Named
<1>2. \A p \in Procs : \A h \in locks'[p] : Orphan(h)'
  <2> SUFFICES ASSUME NEW p \in Procs, NEW h \in locks[p] PROVE Orphan(h)'
    OBVIOUS
  <2>1. Orphan(h)
    BY DEF Quiet
  <2>2. Dead(h[1][1])' <=> Dead(h[1][1])
    BY LockParts
  <2>3. (Exists(h[1])' <=> Exists(h[1])) /\ InodeAt(h[1])' = InodeAt(h[1])
    BY DEF Exists, InodeAt
  <2> QED  BY <1>1, <2>1, <2>2, <2>3 DEF Orphan
<1>3. \A p \in Procs : Chosen(p)'
  BY DEF Quiet, Chosen
<1>4. \A p \in Procs : \A i \in Inodes : AtHand(p, i)'
  BY <1>1, HandKept DEF Quiet
<1>5. OneReader'
  BY DEF Quiet, OneReader
<1>6. \A p \in Procs : \A i \in Inodes : Own(p, i)' => FileOf(p, i)'
  BY <1>1, FileKept DEF Quiet
<1> QED  BY <1>2, <1>3, <1>4, <1>5, <1>6 DEF Quiet

\* A written line was not sent before.
LEMMA QuietWrite ==
  ASSUME DInv, Quiet, NEW p \in Procs, Write(p)
  PROVE  Quiet'
<1>0. DiskTyped /\ BookTyped /\ IndexTyped
  BY TypeParts DEF DInv, TInv
<1>1. /\ written' = written + 1 /\ written < MaxLines /\ names[p] # <<>>
      /\ content' = [content EXCEPT ![names[p][1]] = Append(content[names[p][1]], written + 1)]
      /\ UNCHANGED <<names, pc, offs, saved, locks, todo, key, off, copies>>
  BY DEF Write, Full, book, task, index
<1>2. written \in Nat /\ written + 1 \in Lines
  BY <1>0, <1>1, ShipperAssumption DEF DiskTyped, Lines
<1>3. copies[written + 1] = 0
  <2>1. copies[written + 1] \in 0..2
    BY <1>0, <1>2 DEF IndexTyped
  <2>2. ~(written + 1 <= written)
    BY <1>2
  <2>3. ~(copies[written + 1] > 0)
    BY <1>2, <2>2 DEF Quiet, Sent
  <2> QED  BY <2>1, <2>3
<1>4. Sent'
  <2> SUFFICES ASSUME NEW l \in Lines PROVE copies[l] <= 1 /\ (copies[l] > 0 => l <= written + 1)
    BY <1>1 DEF Sent
  <2>1. copies[l] <= 1 /\ (copies[l] > 0 => l <= written) /\ l \in Nat
    BY DEF Quiet, Sent, Lines
  <2> QED  BY <1>2, <2>1
<1>5. ASSUME NEW i \in Inodes PROVE Delivered(i)' \subseteq Delivered(i)
  <2>1. content[i] \in Seq(Lines) /\ Len(content[i]) \in Nat
    BY <1>0 DEF DiskTyped
  <2>2. \/ content'[i] = content[i]
        \/ content'[i] = Append(content[i], written + 1)
    BY <1>0, <1>1 DEF DiskTyped
  <2>3. CASE content'[i] = Append(content[i], written + 1)
    <3>1. /\ Len(content'[i]) = Len(content[i]) + 1
          /\ content'[i][Len(content[i]) + 1] = written + 1
          /\ \A j \in 1..Len(content[i]) : content'[i][j] = content[i][j]
      BY <2>1, <2>3
    <3> SUFFICES ASSUME NEW j \in 1..Len(content'[i]), copies[content'[i][j]] > 0
                 PROVE  j \in Delivered(i)
      BY <1>1 DEF Delivered
    <3>2. j # Len(content[i]) + 1
      BY <1>3, <3>1
    <3>3. j \in 1..Len(content[i])
      BY <2>1, <3>1, <3>2
    <3> QED  BY <3>1, <3>3 DEF Delivered
  <2>4. CASE content'[i] = content[i]
    BY <1>1, <2>4 DEF Delivered
  <2> QED  BY <2>2, <2>3, <2>4
<1>6. \A q \in Procs : (Dead(q)' <=> Dead(q)) /\ (InFile(q)' <=> InFile(q)) /\ (At(q, "sleep")' <=> At(q, "sleep"))
  BY <1>1 DEF Dead, InFile, At
<1> QED  BY <1>0, <1>1, <1>4, <1>5, <1>6, QuietStays

\* Where nothing is sent or known for certain, nothing changes but who is where.
LEMMA QuietAside ==
  ASSUME DInv, Quiet, ~disturbed', NEW p \in Procs,
         \/ Look(p) /\ UNCHANGED pc
         \/ Open(p) \/ Read(p) \/ Unanswered(p) \/ Garbled(p) \/ CloseTimesOut(p) \/ Close(p)
  PROVE  Quiet'
<1>0. TaskTyped /\ BookTyped /\ LifeTyped
  BY TypeParts DEF DInv, TInv
<1>1. UNCHANGED <<names, content, written, offs, saved, locks>>
  BY DEF Look, Open, Read, Unanswered, Garbled, CloseTimesOut, Close, disk, book
<1>2. UNCHANGED copies
  BY DEF Look, Open, Read, Unanswered, Garbled, CloseTimesOut, Close, index, MaybeStored
<1>3. Sent' /\ \A i \in Inodes : Delivered(i)' \subseteq Delivered(i)
  BY <1>1, <1>2 DEF Quiet, Sent, Delivered
<1>4. \A q \in Procs : Dead(q)' <=> Dead(q)
  BY <1>0, LifeStays DEF Walks, Posts
<1>5. ASSUME NEW q \in Procs, q # p \/ Close(p)
      PROVE  /\ todo'[q] \subseteq todo[q] /\ (At(q, "sleep") => At(q, "sleep")')
             /\ ~InFile(q)' \/ (InFile(q) /\ key'[q] = key[q] /\ off'[q] = off[q])
  <2>1. Idle(q)
    BY <1>0, <1>5, NobodyMoves, OthersIdle DEF Walks, Posts
  <2> QED  BY <2>1 DEF Idle, At, InFile
<1> DEFINE Onward == /\ todo'[p] = {} \/ (todo'[p] \subseteq todo[p] /\ ~At(p, "sleep"))
                     /\ ~InFile(p)' \/ (InFile(p) /\ key'[p] = key[p] /\ off'[p] = off[p])
<1>6. ASSUME Look(p) /\ UNCHANGED pc PROVE Onward
  <2>1. todo'[p] \subseteq todo[p]
    BY <1>0, <1>6 DEF Look, SkipFile, TaskTyped
  <2>2. pc[p] = "file" /\ pc'[p] = "file"
    BY <1>6 DEF Look, At
  <2> QED  BY <2>1, <2>2 DEF At, InFile
<1>7. ASSUME Open(p) PROVE Onward
  <2>1. pc[p] = "open" /\ UNCHANGED <<todo, key, off>>
    BY <1>7 DEF Open, At
  <2> QED  BY <2>1 DEF At, InFile
<1>8. ASSUME Read(p) PROVE Onward
  <2>1. pc[p] = "read"
    BY <1>8 DEF Read, At
  <2>2. CASE UNCHANGED <<todo, key, off>>
    BY <2>1, <2>2 DEF At, InFile
  <2>3. CASE LeaveFile(p)
    <3>1. todo'[p] \subseteq todo[p]
      BY <1>0, <2>3 DEF LeaveFile, TaskTyped
    <3>2. pc'[p] = "file"
      BY <1>0, <2>3 DEF LeaveFile, Go, LifeTyped
    <3> QED  BY <2>1, <3>1, <3>2 DEF At, InFile
  <2> QED  BY <1>8, <2>2, <2>3 DEF Read
<1>9. ASSUME Unanswered(p) PROVE Onward
  <2>1. todo'[p] \subseteq todo[p]
    BY <1>0, <1>9 DEF Unanswered, LeaveFile, TaskTyped
  <2>2. pc[p] = "post" /\ pc'[p] = "file"
    BY <1>0, <1>9 DEF Unanswered, LeaveFile, Go, LifeTyped, At
  <2> QED  BY <2>1, <2>2 DEF At, InFile
<1>10. ASSUME Garbled(p) \/ CloseTimesOut(p) PROVE Onward
  <2>1. todo'[p] = {}
    BY <1>0, <1>10 DEF Garbled, CloseTimesOut, AbortTick, TaskTyped
  <2>2. pc'[p] \in {"sleep", "stopped"}
    BY <1>0, <1>10 DEF Garbled, CloseTimesOut, AbortTick, EndsTick, Go, LifeTyped
  <2> QED  BY <2>1, <2>2 DEF InFile
<1>11. CASE Onward
  BY <1>0, <1>1, <1>3, <1>4, <1>5, <1>11, QuietStays
<1>12. CASE Close(p)
  BY <1>0, <1>1, <1>3, <1>4, <1>5, <1>12, QuietStays
<1> QED  BY <1>6, <1>7, <1>8, <1>9, <1>10, <1>11, <1>12

\* The file a rotation makes is empty, and it gives a living process's names away.
LEMMA QuietRotate ==
  ASSUME DInv, UInv, Quiet, Steady, NEW p \in Procs, Rotate(p)
  PROVE  Quiet'
<1>0. DiskTyped /\ BookTyped /\ TaskTyped /\ DiskTyped' /\ Apart
  BY TypeParts, DiskTypedNext DEF DInv, TInv, Next, UInv
<1>1. /\ UNCHANGED <<written, pc, offs, saved, locks, todo, key, off, copies>> /\ ~Dead(p)
      /\ UNCHANGED content
  BY NoLineRotates DEF Rotate, book, task, index
<1>2. PICK new \in Inodes : \E k \in 0..Len(names[p]) :
        /\ new \notin spent
        /\ Len(names'[p]) = k + 1 /\ names'[p][1] = new
        /\ \A j \in 1..k : names'[p][j + 1] = names[p][j]
        /\ \A q \in Procs \ {p} : names'[q] = names[q]
  BY RotatedPlaces
<1>3. ASSUME NEW q \in Procs, NEW i, Own(q, i)' PROVE Own(q, i) \/ (q = p /\ i = new)
  <2>1. CASE q # p
    BY <1>2, <1>3, <2>1 DEF Own
  <2>2. CASE q = p
    <3>1. PICK k \in 0..Len(names[p]) :
            /\ Len(names'[p]) = k + 1 /\ names'[p][1] = new
            /\ \A j \in 1..k : names'[p][j + 1] = names[p][j]
      BY <1>2
    <3>2. names[p] \in Seq(Inodes) /\ names'[p] \in Seq(Inodes) /\ Len(names[p]) \in Nat
      BY <1>0 DEF DiskTyped
    <3>3. PICK j \in 1..Len(names'[p]) : names'[p][j] = i
      BY <1>3, <2>2, <3>2 DEF Own, Range
    <3>4. CASE j = 1
      BY <2>2, <3>1, <3>3, <3>4
    <3>5. CASE j # 1
      <4>1. j - 1 \in 1..k /\ j - 1 \in 1..Len(names[p]) /\ (j - 1) + 1 = j
        BY <3>1, <3>2, <3>5
      <4>2. names[p][j - 1] = i
        BY <3>1, <3>3, <4>1
      <4> QED  BY <2>2, <3>2, <4>1, <4>2 DEF Own, Range
    <3> QED  BY <3>4, <3>5
  <2> QED  BY <2>1, <2>2
<1>4. \A i : Named(i) => i \in spent /\ i # new
  BY <1>0, <1>2, OwnIsNamed DEF DInv, Unspent
<1>5. \A i : Named(i)' => Named(i) \/ i = new
  BY <1>3 DEF Named
<1>6. \A i \in Inodes : Delivered(i)' = Delivered(i)
  BY <1>1 DEF Delivered
<1>7. \A q, i : Holds(q, i)' <=> Holds(q, i)
  BY <1>1 DEF Holds
<1>8. \A q : (Dead(q)' <=> Dead(q)) /\ (InFile(q)' <=> InFile(q)) /\ (At(q, "sleep")' <=> At(q, "sleep"))
  BY <1>1 DEF Dead, InFile, At
<1>9. Sent'
  BY <1>1 DEF Quiet, Sent
<1>10. ASSUME NEW q \in Procs, NEW h \in locks[q] PROVE Orphan(h)'
  <2>1. Orphan(h) /\ h[1] \in Names /\ h[1][1] \in Procs /\ h[2] \in spent
    BY <1>0, LockParts DEF Quiet, UInv, Past
  <2>2. h[1][1] # p /\ Dead(h[1][1])'
    BY <1>1, <1>8, <2>1 DEF Orphan
  <2>3. (Exists(h[1])' <=> Exists(h[1])) /\ InodeAt(h[1])' = InodeAt(h[1])
    BY <1>2, <2>1, <2>2 DEF Exists, InodeAt
  <2>4. ~Named(h[2]) => ~Named(h[2])'
    BY <1>2, <1>5, <2>1
  <2> QED  BY <2>1, <2>2, <2>3, <2>4 DEF Orphan
<1>11. \A q \in Procs : Chosen(q)'
  BY <1>1, <1>8 DEF Quiet, Chosen
<1>12. ASSUME NEW q \in Procs, NEW i \in Inodes PROVE AtHand(q, i)'
  <2>1. CASE i = new
    BY <1>1, <1>2, <1>8, <2>1 DEF AtHand, UInv, Past
  <2>2. CASE i # new
    <3>1. ASSUME Own(q, i) PROVE Own(q, i)' \/ ~Named(i)'
      <4>1. ASSUME NEW r \in Procs, Own(r, i)' PROVE r = q
        BY <1>0, <1>3, <2>2, <3>1, <4>1, OneOwner
      <4> QED  BY <4>1 DEF Named
    <3>2. ~Named(i) => ~Named(i)'
      BY <1>5, <2>2
    <3>3. AtHand(q, i)
      BY DEF Quiet
    <3> QED  BY <1>1, <1>6, <1>7, <1>8, <3>1, <3>2, <3>3, HandKept
  <2> QED  BY <2>1, <2>2
<1>13. OneReader'
  BY <1>1, <1>8 DEF Quiet, OneReader
<1>14. ASSUME NEW q \in Procs, NEW i \in Inodes, Own(q, i)' PROVE FileOf(q, i)'
  <2>1. CASE Own(q, i)
    <3>1. FileOf(q, i)
      BY <2>1 DEF Quiet
    <3> QED  BY <1>1, <1>6, <1>7, <1>8, <3>1, FileKept
  <2>2. CASE q = p /\ i = new
    <3>1. content[i] = <<>>
      BY <1>2, <2>2 DEF DInv, Unspent
    <3>2. Delivered(i) = {}
      BY <3>1 DEF Delivered
    <3>3. ASSUME NEW r \in Procs PROVE offs[r][i] = 0 /\ saved[r][i] = 0
      <4>1. offs[r][i] \in Nat /\ saved[r][i] \in Nat
        BY <1>0 DEF BookTyped
      <4>2. offs[r][i] <= 0 /\ saved[r][i] <= 0
        BY <3>1 DEF DInv, Sound, Good
      <4> QED  BY <4>1, <4>2
    <3>4. Private(q, i)'
      BY <1>1, <1>6, <3>2, <3>3 DEF Private, Covers
    <3> QED  BY <1>1, <1>8, <2>2, <3>4 DEF FileOf
  <2> QED  BY <1>3, <1>14, <2>1, <2>2
<1> QED  BY <1>1, <1>9, <1>10, <1>11, <1>12, <1>13, <1>14 DEF Quiet

\* A file that retention removes had one name, and no living process owned it.
LEMMA QuietRetire ==
  ASSUME DInv, UInv, Quiet, NEW p \in Procs, Retire(p)
  PROVE  Quiet'
<1>0. DiskTyped /\ DiskTyped' /\ BookTyped /\ Apart /\ NamesStay
  BY TypeParts, DiskTypedNext, RetiredNames DEF DInv, TInv, Next, UInv
<1>1. /\ UNCHANGED <<content, written, pc, offs, saved, locks, todo, key, off, copies>> /\ Dead(p)
      /\ names[p] # <<>> /\ names' = [names EXCEPT ![p] = Front(names[p])]
  BY DEF Retire, book, task, index
<1>2. ASSUME NEW q \in Procs PROVE \A i : Own(q, i)' => Own(q, i)
  <2>1. names[p] \in Seq(Inodes) /\ names[p] # <<>>
    BY <1>0, <1>1 DEF DiskTyped
  <2>2. Range(Front(names[p])) \subseteq Range(names[p])
    BY <2>1 DEF Front, Range
  <2>3. names'[q] = names[q] \/ (q = p /\ names'[q] = Front(names[p]))
    BY <1>0, <1>1 DEF DiskTyped
  <2> QED  BY <2>2, <2>3 DEF Own
<1>3. \A q \in Procs \ {p} : \A i : Own(q, i)' <=> Own(q, i)
  BY <1>0, <1>1 DEF Own, DiskTyped
<1>4. \A i : Named(i)' => Named(i)
  BY <1>2 DEF Named
<1>5. \A i \in Inodes : Delivered(i)' = Delivered(i)
  BY <1>1 DEF Delivered
<1>6. \A q, i : Holds(q, i)' <=> Holds(q, i)
  BY <1>1 DEF Holds
<1>7. \A q : (Dead(q)' <=> Dead(q)) /\ (InFile(q)' <=> InFile(q)) /\ (At(q, "sleep")' <=> At(q, "sleep"))
  BY <1>1 DEF Dead, InFile, At
<1>8. Sent'
  BY <1>1 DEF Quiet, Sent
<1>9. ASSUME NEW q \in Procs, NEW h \in locks[q] PROVE Orphan(h)'
  <2>1. Orphan(h) /\ h[1] \in Names
    BY <1>0, LockParts DEF Quiet
  <2>2. CASE Exists(h[1])'
    <3>1. Exists(h[1]) /\ InodeAt(h[1])' = InodeAt(h[1])
      BY <1>0, <2>1, <2>2 DEF NamesStay
    <3> QED  BY <1>7, <2>1, <2>2, <3>1 DEF Orphan
  <2>3. CASE ~Exists(h[1])
    <3>1. ~Exists(h[1])'
      BY <1>0, <2>1, <2>3 DEF NamesStay
    <3> QED  BY <1>4, <1>7, <2>1, <2>3, <3>1 DEF Orphan
  <2>4. CASE Exists(h[1]) /\ ~Exists(h[1])'
    <3>1. InodeAt(h[1]) = h[2]
      BY <2>1, <2>4 DEF Orphan
    <3>2. ASSUME Named(h[2])' PROVE FALSE
      <4>1. PICK q2 \in Procs : Own(q2, h[2])'
        BY <3>2 DEF Named
      <4>2. names'[q2] \in Seq(Inodes) /\ names[q2] \in Seq(Inodes)
        BY <1>0 DEF DiskTyped
      <4>3. PICK j \in 1..Len(names'[q2]) : names'[q2][j] = h[2]
        BY <4>1, <4>2 DEF Own, Range
      <4>4. names'[q2] = names[q2] \/ (q2 = p /\ names'[q2] = Front(names[p]))
        BY <1>0, <1>1 DEF DiskTyped
      <4>5. j \in 1..Len(names[q2]) /\ names[q2][j] = h[2]
        BY <1>1, <4>2, <4>3, <4>4 DEF Front
      <4>6. /\ h[1][1] \in Procs /\ h[1][2] \in Nat /\ h[1][2] + 1 \in 1..Len(names[h[1][1]])
            /\ names[h[1][1]][h[1][2] + 1] = h[2]
        BY <1>0, <2>1, <2>4, <3>1, PlaceOf
      <4> DEFINE r == h[1][1]
                 k == h[1][2] + 1
      <4>7. r \in Procs /\ k \in 1..Len(names[r]) /\ names[r][k] = h[2]
        BY <4>6
      <4> HIDE DEF r, k
      <4>8. r = q2 /\ k = j
        BY <1>0, <4>5, <4>7 DEF Apart
      <4>9. h[1][2] < Len(names'[h[1][1]])
        <5>1. h[1][1] = q2 /\ h[1][2] + 1 = j /\ h[1][2] \in Nat
          BY <4>6, <4>8 DEF r, k
        <5>2. Len(names'[q2]) \in Nat
          BY <4>2
        <5> QED  BY <4>3, <5>1, <5>2
      <4> QED  BY <2>4, <4>9 DEF Exists
    <3> QED  BY <1>7, <2>1, <2>4, <3>2 DEF Orphan
  <2> QED  BY <2>2, <2>3, <2>4
<1>10. \A q \in Procs : Chosen(q)'
  BY <1>1, <1>7 DEF Quiet, Chosen
<1>11. ASSUME NEW q \in Procs, NEW i \in Inodes PROVE AtHand(q, i)'
  <2>1. CASE ~InFile(q)
    BY <1>7, <2>1 DEF AtHand
  <2>2. CASE InFile(q)
    <3>1. q # p
      BY <1>1, <2>2 DEF InFile, Dead
    <3>2. AtHand(q, i)
      BY DEF Quiet
    <3> QED  BY <1>1, <1>3, <1>4, <1>5, <1>6, <1>7, <2>2, <3>1, <3>2, HandKept
  <2> QED  BY <2>1, <2>2
<1>12. OneReader'
  BY <1>1, <1>7 DEF Quiet, OneReader
<1>13. ASSUME NEW q \in Procs, NEW i \in Inodes, Own(q, i)' PROVE FileOf(q, i)'
  <2>1. FileOf(q, i)
    BY <1>2, <1>13 DEF Quiet
  <2> QED  BY <1>1, <1>5, <1>6, <1>7, <2>1, FileKept
<1> QED  BY <1>1, <1>8, <1>9, <1>10, <1>11, <1>12, <1>13 DEF Quiet

-----------------------------------------------------------------------------
(* Claims.                                                                 *)

\* Whoever holds a file that has a name holds it under that name.
LEMMA HolderOf ==
  ASSUME DInv, UInv, Quiet, NEW p \in Procs, NEW q \in Procs, NEW h \in locks[q], Own(p, h[2])
  PROVE  /\ h[1] \in Names /\ Exists(h[1]) /\ InodeAt(h[1]) = h[2]
         /\ h[1][1] = p /\ Dead(p) /\ q # p
<1>0. DiskTyped /\ BookTyped /\ Apart /\ Past(q)
  BY TypeParts DEF DInv, TInv, UInv
<1>1. Orphan(h) /\ h[1] \in Names /\ h[1][1] \in Procs
  BY <1>0, LockParts DEF Quiet
<1>2. Named(h[2])
  BY DEF Named
<1>3. Exists(h[1]) /\ InodeAt(h[1]) = h[2] /\ Dead(h[1][1])
  BY <1>1, <1>2 DEF Orphan
<1>4. h[1][1] = p
  <2>1. Own(h[1][1], h[2])
    BY <1>0, <1>1, <1>3, NameIsOwn
  <2> QED  BY <1>0, <1>1, <2>1, OneOwner
<1> QED  BY <1>0, <1>1, <1>3, <1>4 DEF Past

LEMMA HeldIsLeft ==
  ASSUME DInv, UInv, Quiet, NEW p \in Procs, NEW q \in Procs, NEW i, Own(p, i), Holds(q, i)
  PROVE  Dead(p) /\ q # p
  BY HolderOf DEF Holds

\* A shipper only has a dead process's file in hand that it holds, and its own.
LEMMA HandOf ==
  ASSUME DInv, UInv, Quiet, NEW p \in Procs, NEW q \in Procs, NEW i \in Inodes,
         Own(p, i), InFile(q), key[q] = i
  PROVE  IF Dead(p) THEN Holds(q, i) ELSE q = p
<1>1. ~Dead(q) /\ Named(i) /\ (Own(q, i) \/ Holds(q, i))
  BY DEF Quiet, AtHand, InFile, Dead, Named
<1>2. Own(q, i) => q = p
  BY OneOwner, TypeParts DEF DInv, TInv, UInv
<1> QED  BY <1>1, <1>2, HeldIsLeft

\* A claim starts where the dead process stopped.
LEMMA QuietTick ==
  ASSUME DInv, UInv, Quiet, NEW p \in Procs, Tick(p)
  PROVE  Quiet'
<1>0. DiskTyped /\ BookTyped /\ TaskTyped /\ LifeTyped /\ Apart
  BY TypeParts DEF DInv, TInv, UInv
<1>1. /\ UNCHANGED <<names, content, written, copies, saved, key, off>>
      /\ pc[p] = "sleep" /\ pc'[p] = "file"
  BY <1>0 DEF Tick, Go, At, disk, index, LifeTyped
<1>2. /\ todo'[p] = Mine(p)
      /\ locks'[p] = locks[p] \cup {<<n, InodeAt(n)>> : n \in Fresh(p)}
      /\ \A i \in Inodes : offs'[p][i] =
           IF \E n \in Fresh(p) : InodeAt(n) = i
           THEN Adopted(p, i, (CHOOSE n \in Fresh(p) : InodeAt(n) = i)[1]) ELSE offs[p][i]
      /\ \A q \in Procs \ {p} : locks'[q] = locks[q] /\ offs'[q] = offs[q]
  BY <1>0, Claimed
<1>3. \A i : (Named(i)' <=> Named(i)) /\ \A q : (Own(q, i)' <=> Own(q, i))
  BY <1>1 DEF Own, Named
<1>4. \A i \in Inodes : Delivered(i)' = Delivered(i)
  BY <1>1 DEF Delivered
<1>5. \A q \in Procs : (Dead(q)' <=> Dead(q)) /\ (q # p => Idle(q))
  BY <1>0, LifeStays, OthersIdle
<1>6. ~Dead(p) /\ ~InFile(p)' /\ ~At(p, "sleep")'
  BY <1>1 DEF Dead, InFile, At
<1>7. \A n \in Fresh(p) : /\ n \in Names /\ Exists(n) /\ n[1] # p /\ Dead(n[1])
                          /\ \A h \in locks[p] : h[1] # n
                          /\ \A q \in Procs \ {p} : \A h \in locks[q] : h[2] # InodeAt(n)
  BY FreshIs
<1>8. Sent'
  BY <1>1 DEF Quiet, Sent
<1>9. ASSUME NEW q \in Procs, NEW h \in locks'[q] PROVE Orphan(h)'
  <2>1. (Exists(h[1])' <=> Exists(h[1])) /\ InodeAt(h[1])' = InodeAt(h[1])
    BY <1>1 DEF Exists, InodeAt
  <2>2. CASE h \in locks[q]
    <3>1. Orphan(h) /\ h[1][1] \in Procs
      BY <1>0, <2>2, LockParts DEF Quiet
    <3> QED  BY <1>3, <1>5, <2>1, <3>1 DEF Orphan
  <2>3. ASSUME NEW n \in Fresh(p), h = <<n, InodeAt(n)>> PROVE Orphan(h)'
    <3>1. h[1] = n /\ h[2] = InodeAt(n) /\ n[1] \in Procs
      BY <1>7, <2>3, NameParts
    <3> QED  BY <1>5, <1>7, <2>1, <3>1 DEF Orphan
  <2> QED  BY <1>2, <2>2, <2>3
<1>10. ASSUME NEW q \in Procs PROVE Chosen(q)'
  <2>1. CASE q # p
    BY <1>2, <1>5, <2>1 DEF Quiet, Chosen, Idle, At
  <2>2. CASE q = p
    <3> SUFFICES ASSUME NEW n \in Mine(p), n[1] # p PROVE \E h \in locks'[p] : h[1] = n
      BY <1>2, <2>2 DEF Chosen
    <3>1. CASE \E h \in locks[p] : h[1] = n
      BY <1>2, <3>1
    <3>2. CASE n \in Fresh(p)
      <4>1. <<n, InodeAt(n)>> \in locks'[p] /\ <<n, InodeAt(n)>>[1] = n
        BY <1>2, <3>2
      <4> QED  BY <4>1
    <3> QED  BY <3>1, <3>2 DEF Fresh
  <2> QED  BY <2>1, <2>2
<1>11. ASSUME NEW q \in Procs, NEW i \in Inodes PROVE AtHand(q, i)'
  <2>1. CASE q = p
    BY <1>6, <2>1 DEF AtHand
  <2>2. CASE q # p
    <3>1. AtHand(q, i) /\ Idle(q) /\ offs'[q] = offs[q]
      BY <1>2, <1>5, <2>2 DEF Quiet
    <3>2. Holds(q, i)' <=> Holds(q, i)
      BY <1>2, <2>2 DEF Holds
    <3>3. InFile(q)' <=> InFile(q)
      BY <3>1 DEF Idle, InFile
    <3> QED  BY <1>3, <1>4, <3>1, <3>2, <3>3, HandKept DEF Idle
  <2> QED  BY <2>1, <2>2
<1>12. OneReader'
  <2>1. \A q \in Procs : InFile(q)' => InFile(q) /\ key'[q] = key[q]
    BY <1>5, <1>6 DEF Idle, InFile
  <2> QED  BY <2>1 DEF Quiet, OneReader
<1>13. ASSUME NEW q \in Procs, NEW i \in Inodes, Own(q, i) PROVE FileOf(q, i)'
  <2>0. FileOf(q, i)
    BY <1>13 DEF Quiet
  <2>1. CASE ~ \E n \in Fresh(p) : InodeAt(n) = i
    <3>1. \A r \in Procs : offs'[r][i] = offs[r][i] /\ saved'[r][i] = saved[r][i]
      BY <1>1, <1>2, <2>1
    <3>2. ASSUME NEW r \in Procs PROVE Holds(r, i)' <=> Holds(r, i)
      <4>1. CASE r # p
        BY <1>2, <4>1 DEF Holds
      <4>2. CASE r = p
        <5>1. \A n \in Fresh(p) : <<n, InodeAt(n)>>[2] # i
          BY <2>1
        <5> QED  BY <1>2, <4>2, <5>1 DEF Holds
      <4> QED  BY <4>1, <4>2
    <3> QED  BY <1>4, <1>5, <2>0, <3>1, <3>2, FileKept
  <2>2. CASE \E n \in Fresh(p) : InodeAt(n) = i
    <3>1. PICK n \in Fresh(p) : InodeAt(n) = i
      BY <2>2
    <3>2. \A m \in Fresh(p) : InodeAt(m) = i => m = n
      BY <1>0, <1>7, <3>1, OneName
    <3>3. n[1] = q
      BY <1>0, <1>7, <1>13, <3>1, NameIsOwn, NameParts, OneOwner
    <3>4. Dead(q) /\ q # p /\ Left(q, i)
      BY <1>7, <2>0, <3>1, <3>3 DEF FileOf
    <3>5. \A r \in Procs : ~Holds(r, i)
      <4> SUFFICES ASSUME NEW r \in Procs, NEW h \in locks[r], h[2] = i PROVE FALSE
        BY DEF Holds
      <4>1. h[1] \in Names /\ Exists(h[1]) /\ InodeAt(h[1]) = i
        BY <1>13, HolderOf
      <4>2. h[1] = n
        BY <1>0, <1>7, <3>1, <4>1, OneName
      <4> QED  BY <1>7, <3>1, <4>2
    <3>6. Covers(i, saved[q][i]) /\ NotBehind(offs[p][i], saved[q][i])
      BY <3>4, <3>5 DEF Left
    <3>7. offs'[p][i] = IF offs[p][i] = 0 THEN saved[q][i] ELSE offs[p][i]
      <4>1. (CHOOSE m \in Fresh(p) : InodeAt(m) = i) = n
        BY <3>1, <3>2
      <4> HIDE DEF Fresh
      <4> QED  BY <1>2, <3>1, <3>3, <4>1 DEF Adopted
    <3>8. offs[p][i] \in Nat /\ saved[q][i] \in Nat
      BY <1>0 DEF BookTyped
    <3>9. offs'[p][i] >= saved[q][i] /\ offs'[p][i] \in Nat
      BY <3>6, <3>7, <3>8 DEF NotBehind
    <3>10. Covers(i, offs'[p][i])
      <4>1. \A j \in Delivered(i) : j \in Nat
        BY <1>0 DEF Delivered, DiskTyped
      <4> QED  BY <3>6, <3>8, <3>9, <4>1 DEF Covers
    <3>11. \A r \in Procs : Holds(r, i)' => r = p
      <4>1. ASSUME NEW r \in Procs \ {p}, Holds(r, i)' PROVE FALSE
        BY <1>2, <3>5, <4>1 DEF Holds
      <4> QED  BY <4>1
    <3>12. Covers(i, saved[q][i])' /\ Covers(i, offs[p][i])'
      BY <1>1, <1>4, <3>6, <3>10 DEF Covers
    <3>13. ASSUME NEW r \in Procs \ {q}
           PROVE  NotBehind(offs'[r][i], saved'[q][i]) /\ NotBehind(saved'[r][i], saved'[q][i])
      <4>1. NotBehind(offs[r][i], saved[q][i]) /\ NotBehind(saved[r][i], saved[q][i])
        BY <3>4 DEF Left
      <4> QED  BY <1>1, <1>2, <3>9, <4>1 DEF NotBehind
    <3>14. Left(q, i)'
      BY <1>1, <3>9, <3>11, <3>12, <3>13 DEF Left, NotBehind
    <3> QED  BY <1>5, <3>4, <3>14 DEF FileOf
  <2> QED  BY <2>1, <2>2
<1> QED  BY <1>3, <1>8, <1>9, <1>10, <1>11, <1>12, <1>13 DEF Quiet

\* A tick opens its own files, and those it holds, where their lines are not stored yet.
LEMMA QuietLook ==
  ASSUME DInv, UInv, Quiet, NEW p \in Procs, Look(p), ~UNCHANGED pc
  PROVE  Quiet'
<1> DEFINE n == First(todo[p])
<1>0. DiskTyped /\ BookTyped /\ TaskTyped /\ LifeTyped /\ Apart /\ OneHolder
  BY TypeParts DEF DInv, TInv, UInv
<1>1. /\ pc[p] = "file" /\ pc' = [pc EXCEPT ![p] = "open"] /\ todo[p] # {} /\ Exists(n)
      /\ key' = [key EXCEPT ![p] = InodeAt(n)] /\ off' = [off EXCEPT ![p] = offs[p][InodeAt(n)]]
  BY DEF Look, At, Go
<1>2. UNCHANGED <<names, content, written, offs, saved, locks, copies, todo>>
  BY DEF Look, disk, book, index
<1>3. n \in todo[p] /\ n \in Names
  BY <1>0, <1>1, FirstIsOne DEF TaskTyped
<1>4. InodeAt(n) \in Inodes /\ n[1] \in Procs /\ Own(n[1], InodeAt(n))
  BY <1>0, <1>1, <1>3, NameIsOwn, NameParts
<1>5. n[1] = p \/ Holds(p, InodeAt(n))
  <2>1. n[1] = p \/ \E h \in locks[p] : h[1] = n
    BY <1>1, <1>3 DEF Quiet, Chosen, At
  <2>2. ASSUME NEW h \in locks[p], h[1] = n PROVE Holds(p, InodeAt(n))
    <3>1. h[2] = InodeAt(n)
      BY <1>1, <2>2 DEF Quiet, Orphan
    <3> QED  BY <3>1 DEF Holds
  <2> QED  BY <2>1, <2>2
<1>6. \A q \in Procs : Dead(q)' <=> Dead(q)
  BY <1>0, LifeStays DEF Walks
<1>7. \A q \in Procs \ {p} : Idle(q)
  BY <1>0, OthersIdle DEF Walks
<1>8. PICK o \in Procs, i \in Inodes :
        /\ i = InodeAt(n) /\ Own(o, i) /\ (o = p \/ Holds(p, i)) /\ FileOf(o, i) /\ ~Dead(p)
  BY <1>1, <1>4, <1>5 DEF Quiet, Dead
<1>9. key'[p] = i /\ off'[p] = offs[p][i] /\ pc'[p] = "open"
  BY <1>0, <1>1, <1>8 DEF TaskTyped, LifeTyped
<1> HIDE DEF n
<1>10. Covers(i, offs[p][i])
  <2>1. CASE o = p
    BY <1>8, <2>1 DEF FileOf, Private
  <2>2. CASE Holds(p, i)
    <3>1. Dead(o)
      BY <1>8, <2>2, HeldIsLeft
    <3> QED  BY <1>8, <2>2, <3>1 DEF FileOf, Left
  <2> QED  BY <1>8, <2>1, <2>2
<1>11. \A k : (Named(k)' <=> Named(k)) /\ \A q : (Own(q, k)' <=> Own(q, k)) /\ (Holds(q, k)' <=> Holds(q, k))
  BY <1>2 DEF Own, Named, Holds
<1>12. \A k \in Inodes : Delivered(k)' = Delivered(k)
  BY <1>2 DEF Delivered
<1>13. Sent'
  BY <1>2 DEF Quiet, Sent
<1>14. ASSUME NEW q \in Procs, NEW h \in locks'[q] PROVE Orphan(h)'
  <2>1. (Exists(h[1])' <=> Exists(h[1])) /\ InodeAt(h[1])' = InodeAt(h[1])
    BY <1>2 DEF Exists, InodeAt
  <2>2. h \in locks[q]
    BY <1>2
  <2>3. Orphan(h) /\ h[1][1] \in Procs
    BY <1>0, <2>2, LockParts DEF Quiet
  <2> QED  BY <1>6, <1>11, <2>1, <2>3 DEF Orphan
<1>15. ASSUME NEW q \in Procs PROVE Chosen(q)'
  <2>1. At(q, "sleep") => At(q, "sleep")'
    BY <1>1, <1>7 DEF Idle, At
  <2> QED  BY <1>2, <2>1 DEF Quiet, Chosen
<1>16. ASSUME NEW q \in Procs, NEW k \in Inodes PROVE AtHand(q, k)'
  <2>1. CASE q # p
    <3>1. AtHand(q, k) /\ Idle(q)
      BY <1>7, <2>1 DEF Quiet
    <3>2. InFile(q)' <=> InFile(q)
      BY <3>1 DEF Idle, InFile
    <3> QED  BY <1>2, <1>11, <1>12, <3>1, <3>2, HandKept DEF Idle
  <2>2. CASE q = p
    <3>1. Covers(i, off[p])'
      BY <1>9, <1>10, <1>12 DEF Covers
    <3>2. Own(p, i)' \/ Holds(p, i)'
      BY <1>8, <1>11
    <3> QED  BY <1>2, <1>9, <2>2, <3>1, <3>2 DEF AtHand
  <2> QED  BY <2>1, <2>2
<1>17. ASSUME NEW q \in Procs \ {p}, InFile(q)', key'[q] = i PROVE FALSE
  <2>1. InFile(q) /\ key[q] = i
    BY <1>7, <1>17 DEF Idle, InFile
  <2>3. IF Dead(o) THEN Holds(q, i) ELSE q = o
    BY <1>8, <2>1, HandOf
  <2>4. CASE Holds(p, i)
    <3>1. Holds(q, i)
      BY <1>8, <2>3, <2>4, HeldIsLeft
    <3> QED  BY <1>0, <2>4, <3>1 DEF OneHolder, Holds
  <2>5. CASE o = p
    BY <1>8, <2>3, <2>5
  <2> QED  BY <1>8, <2>4, <2>5
<1>18. OneReader'
  <2>1. ASSUME NEW q \in Procs \ {p}, InFile(q)' PROVE InFile(q) /\ key'[q] = key[q]
    BY <1>7, <2>1 DEF Idle, InFile
  <2>2. \A a, b \in Procs \ {p} : InFile(a)' /\ InFile(b)' /\ key'[a] = key'[b] => a = b
    BY <2>1 DEF Quiet, OneReader
  <2> QED  BY <1>9, <1>17, <2>2 DEF OneReader
<1>19. ASSUME NEW q \in Procs, NEW k \in Inodes, Own(q, k)' PROVE FileOf(q, k)'
  <2>1. FileOf(q, k)
    BY <1>11, <1>19 DEF Quiet
  <2> QED  BY <1>2, <1>6, <1>11, <1>12, <2>1, FileKept
<1> QED  BY <1>13, <1>14, <1>15, <1>16, <1>18, <1>19 DEF Quiet

\* An answered POST stores lines that were not stored, and only lines behind the offset.
LEMMA StoresBehind ==
  ASSUME DInv, UInv, Quiet, NEW p \in Procs, Answered(p)
  PROVE  /\ Sent'
         /\ \A a \in Inodes : \A j \in Delivered(a)' :
              j \in Delivered(a) \/ (a = key[p] /\ j <= off[p] + Len(batch[p]))
<1>0. DiskTyped /\ TaskTyped /\ IndexTyped /\ Distinct
  BY TypeParts DEF DInv, TInv, UInv
<1>1. At(p, "post") /\ copies' = Stored(Posted(p)) /\ UNCHANGED <<content, written>>
  BY DEF Answered, disk
<1>2. key[p] \in Inodes /\ Taken(p) /\ Covers(key[p], off[p])
  BY <1>1 DEF DInv, TInv, Aimed, InHand, At, Quiet, AtHand, InFile
<1> DEFINE i == key[p]
           o == off[p]
           n == Len(batch[p])
<1>3. o \in Nat /\ n \in Nat /\ Len(content[i]) \in Nat /\ o + n <= Len(content[i])
  BY <1>0, <1>2 DEF TaskTyped, DiskTyped, Taken
<1>4. \A j \in 1..n : batch[p][j] = content[i][o + j]
  BY <1>2 DEF Taken
<1> HIDE DEF i, o, n
<1>5. ASSUME NEW l \in Posted(p)
      PROVE  l \in Lines /\ \E j \in 1..n : o + j \in 1..Len(content[i]) /\ l = content[i][o + j]
  <2>1. PICK j \in 1..n : l = batch[p][j]
    BY <1>0 DEF TaskTyped, Posted, Range, n
  <2>2. o + j \in 1..Len(content[i])
    BY <1>3
  <2>3. l \in Lines
    BY <1>0, <2>1 DEF TaskTyped, n
  <2> QED  BY <1>4, <2>1, <2>2, <2>3
<1>6. ASSUME NEW l \in Posted(p) PROVE copies[l] = 0 /\ l <= written
  <2>1. PICK j \in 1..n : o + j \in 1..Len(content[i]) /\ l = content[i][o + j]
    BY <1>5
  <2>2. ~(o + j <= o)
    BY <1>3
  <2>3. o + j \notin Delivered(i)
    BY <1>2, <2>2 DEF Covers, i, o
  <2>4. copies[l] \in 0..2
    BY <1>0, <1>5 DEF IndexTyped
  <2>5. ~(copies[l] > 0)
    BY <2>1, <2>3 DEF Delivered
  <2>6. l <= written
    BY <1>0, <1>2, <2>1 DEF Distinct, i
  <2> QED  BY <2>4, <2>5, <2>6
<1>7. ASSUME NEW l \in Lines
      PROVE  copies'[l] = copies[l] \/ (l \in Posted(p) /\ copies'[l] = 1)
  <2>1. copies'[l] = IF l \in Posted(p) /\ Status(l) = 201 THEN Min({copies[l] + 1, 2}) ELSE copies[l]
    BY <1>1 DEF Stored
  <2>2. CASE l \in Posted(p)
    <3>1. copies[l] + 1 = 1 /\ 1 \in Nat /\ 2 \in Nat
      BY <1>6, <2>2
    <3>2. Min({1, 2}) \in {1, 2} /\ Min({1, 2}) <= 1
      BY MinOfTwo
    <3> QED  BY <2>1, <2>2, <3>1, <3>2
  <2> QED  BY <2>1, <2>2
<1>8. Sent'
  <2> SUFFICES ASSUME NEW l \in Lines PROVE copies'[l] <= 1 /\ (copies'[l] > 0 => l <= written)
    BY <1>1 DEF Sent
  <2>1. copies[l] <= 1 /\ (copies[l] > 0 => l <= written)
    BY DEF Quiet, Sent
  <2> QED  BY <1>6, <1>7, <2>1
<1>9. ASSUME NEW a \in Inodes, NEW j \in Delivered(a)'
      PROVE  j \in Delivered(a) \/ (a = i /\ j <= o + n)
  <2>1. j \in 1..Len(content[a]) /\ copies'[content[a][j]] > 0
    BY <1>1 DEF Delivered
  <2>2. content[a][j] \in Lines
    BY <1>0, <2>1 DEF DiskTyped
  <2>3. CASE copies'[content[a][j]] = copies[content[a][j]]
    BY <2>1, <2>3 DEF Delivered
  <2>4. CASE content[a][j] \in Posted(p)
    <3>1. PICK k \in 1..n : o + k \in 1..Len(content[i]) /\ content[a][j] = content[i][o + k]
      BY <1>5, <2>4
    <3>2. i \in Inodes
      BY <1>2 DEF i
    <3>3. a = i /\ j = o + k
      BY <1>0, <2>1, <3>1, <3>2 DEF Distinct
    <3> QED  BY <1>3, <3>3
  <2> QED  BY <1>7, <2>2, <2>3, <2>4
<1> QED  BY <1>8, <1>9 DEF i, o, n

LEMMA QuietAnswered ==
  ASSUME DInv, UInv, Quiet, ~disturbed', NEW p \in Procs, Answered(p)
  PROVE  Quiet'
<1>0. DiskTyped /\ BookTyped /\ TaskTyped /\ LifeTyped /\ Apart /\ OneHolder
  BY TypeParts DEF DInv, TInv, UInv
<1>1. PICK i \in Inodes : i = key[p] /\ pc[p] = "post"
  BY DEF DInv, TInv, Aimed, Answered, At
<1>2. PICK k : k = off[p] + Len(batch[p])
  OBVIOUS
<1>3. /\ UNCHANGED <<names, content, written, locks, todo, key>>
      /\ pc' = [pc EXCEPT ![p] = "read"] /\ off' = [off EXCEPT ![p] = k]
      /\ offs' = [offs EXCEPT ![p][i] = off'[p]] /\ SaveState(p, saved, offs'[p], TRUE)
  BY <1>1, <1>2 DEF Answered, Consumed, disk, Go
<1>4. saved' = [saved EXCEPT ![p] = offs'[p]]
  BY <1>3 DEF SaveState
<1>5. off'[p] = k /\ pc'[p] = "read" /\ \A q \in Procs \ {p} : Idle(q)
  BY <1>0, <1>3, OthersIdle DEF TaskTyped, LifeTyped, Posts
<1>6. \A q \in Procs : \A a \in Inodes :
        /\ offs'[q][a] = IF q = p /\ a = i THEN k ELSE offs[q][a]
        /\ saved'[q][a] = IF q = p THEN offs'[p][a] ELSE saved[q][a]
  BY <1>0, <1>3, <1>4, <1>5 DEF BookTyped
<1>7. AtHand(p, i) /\ InFile(p) /\ ~Dead(p)
  BY <1>1 DEF Quiet, InFile, Dead
<1>8. off[p] = offs[p][i] /\ Covers(i, off[p]) /\ (Own(p, i) \/ Holds(p, i) \/ ~Named(i))
  BY <1>1, <1>7 DEF AtHand
<1>9. off[p] \in Nat /\ k \in Nat /\ k >= off[p]
  <2>1. off[p] \in Nat /\ Len(batch[p]) \in Nat
    BY <1>0 DEF TaskTyped
  <2> QED  BY <1>2, <2>1
<1>10. Sent' /\ \A a \in Inodes : \A j \in Delivered(a)' : j \in Delivered(a) \/ (a = i /\ j <= k)
  BY <1>1, <1>2, StoresBehind
<1>11. \A a \in Inodes \ {i} : Delivered(a)' \subseteq Delivered(a)
  BY <1>10
<1>12. Covers(i, k)'
  <2> SUFFICES ASSUME NEW j \in Delivered(i)' PROVE j <= k
    BY DEF Covers
  <2>1. CASE j \in Delivered(i)
    <3>1. j <= off[p] /\ j \in Nat
      BY <1>0, <1>8, <2>1 DEF Covers, Delivered, DiskTyped
    <3> QED  BY <1>9, <3>1
  <2> QED  BY <1>10, <2>1
<1>13. \A a : (Named(a)' <=> Named(a)) /\ \A q : (Own(q, a)' <=> Own(q, a)) /\ (Holds(q, a)' <=> Holds(q, a))
  BY <1>3 DEF Own, Named, Holds
<1>14. \A q \in Procs : Dead(q)' <=> Dead(q)
  BY <1>0, LifeStays DEF Posts
<1>15. ASSUME NEW q \in Procs PROVE (InFile(q)' <=> InFile(q)) /\ (At(q, "sleep")' <=> At(q, "sleep"))
  <2>1. CASE q = p
    BY <1>1, <1>5, <2>1 DEF InFile, At
  <2>2. CASE q # p
    BY <1>5, <2>2 DEF InFile, At, Idle
  <2> QED  BY <2>1, <2>2
<1>16. ASSUME NEW q \in Procs, NEW h \in locks'[q] PROVE Orphan(h)'
  <2>1. (Exists(h[1])' <=> Exists(h[1])) /\ InodeAt(h[1])' = InodeAt(h[1])
    BY <1>3 DEF Exists, InodeAt
  <2>2. h \in locks[q]
    BY <1>3
  <2>3. Orphan(h) /\ h[1][1] \in Procs
    BY <1>0, <2>2, LockParts DEF Quiet
  <2> QED  BY <1>13, <1>14, <2>1, <2>3 DEF Orphan
<1>17. \A q \in Procs : Chosen(q)'
  BY <1>3, <1>15 DEF Quiet, Chosen
<1>18. OneReader'
  BY <1>3, <1>15 DEF Quiet, OneReader
<1>19. ASSUME NEW q \in Procs, NEW a \in Inodes PROVE AtHand(q, a)'
  <2>1. CASE q = p /\ a = i
    <3>1. Own(p, i)' \/ Holds(p, i)' \/ ~Named(i)'
      BY <1>8, <1>13
    <3>2. off'[p] = offs'[p][i] /\ Covers(i, off[p])'
      BY <1>5, <1>6, <1>12 DEF Covers
    <3> QED  BY <2>1, <3>1, <3>2 DEF AtHand
  <2>2. CASE q = p /\ a # i
    BY <1>1, <1>3, <2>2 DEF AtHand
  <2>3. CASE q # p /\ InFile(q) /\ key[q] = a
    <3>1. a # i
      BY <1>1, <1>7, <2>3 DEF Quiet, OneReader
    <3>2. off'[q] = off[q] /\ offs'[q][a] = offs[q][a] /\ AtHand(q, a)
      BY <1>5, <1>6, <2>3 DEF Idle, Quiet
    <3> QED  BY <1>3, <1>11, <1>13, <1>15, <2>3, <3>1, <3>2, HandKept
  <2>4. CASE ~(InFile(q) /\ key[q] = a)
    BY <1>3, <1>15, <2>4 DEF AtHand
  <2> QED  BY <2>1, <2>2, <2>3, <2>4
<1>20. ASSUME NEW q \in Procs, NEW a \in Inodes, Own(q, a)' PROVE FileOf(q, a)'
  <2>0. FileOf(q, a) /\ Own(q, a)
    BY <1>13, <1>20 DEF Quiet
  <2>1. CASE ~Dead(q) /\ a # i
    <3>1. Private(q, a)
      BY <2>0, <2>1 DEF FileOf
    <3>2. \A r \in Procs : offs'[r][a] = offs[r][a]
      BY <1>6, <2>1
    <3>3. Covers(a, offs[q][a])' /\ Covers(a, saved[q][a])'
      BY <1>6, <1>11, <2>1, <3>1, <3>2 DEF Covers, Private
    <3>4. \A r \in Procs \ {q} : offs'[r][a] = 0 /\ saved'[r][a] = 0
      BY <1>6, <3>1, <3>2 DEF Private
    <3>5. Private(q, a)'
      BY <3>3, <3>4 DEF Private
    <3> QED  BY <1>14, <2>1, <3>5 DEF FileOf
  <2>2. CASE ~Dead(q) /\ a = i
    <3>1. q = p
      BY <1>1, <1>7, <2>0, <2>2, HandOf
    <3>2. Private(p, i)
      BY <2>0, <2>2, <3>1 DEF FileOf
    <3>3. offs'[p][i] = k /\ saved'[p][i] = k
      BY <1>6
    <3>4. Covers(i, offs[p][i])' /\ Covers(i, saved[p][i])'
      BY <1>12, <3>3 DEF Covers
    <3>5. \A r \in Procs \ {p} : offs'[r][i] = 0 /\ saved'[r][i] = 0
      BY <1>6, <3>2 DEF Private
    <3>6. Private(p, i)'
      BY <3>4, <3>5 DEF Private
    <3> QED  BY <1>14, <2>2, <3>1, <3>6 DEF FileOf
  <2>3. CASE Dead(q)
    <3>0. Left(q, a) /\ q # p
      BY <1>7, <2>0, <2>3 DEF FileOf
    <3>1. saved'[q][a] = saved[q][a] /\ \A r \in Procs \ {p} : offs'[r][a] = offs[r][a] /\ saved'[r][a] = saved[r][a]
      BY <1>6, <3>0
    <3>2. CASE a # i
      <4>1. offs'[p][a] = offs[p][a] /\ saved'[p][a] = offs[p][a]
        BY <1>6, <3>2
      <4>2. \A x : Covers(a, x) => Covers(a, x)'
        BY <1>11, <3>2 DEF Covers
      <4>3. \A r \in Procs : offs'[r][a] = offs[r][a]
        BY <3>1, <4>1
      <4>4. Covers(a, saved[q][a])' \/ \E r \in Procs : Holds(r, a)' /\ offs'[r][a] # saved'[q][a]
        BY <1>13, <3>0, <3>1, <4>2, <4>3 DEF Left, Covers
      <4>5. \A r \in Procs : Holds(r, a)' => Covers(a, offs[r][a])' /\ offs'[r][a] >= saved'[q][a]
        BY <1>13, <3>0, <3>1, <4>2, <4>3 DEF Left, Covers
      <4>6. \A r \in Procs \ {q} :
              NotBehind(offs'[r][a], saved'[q][a]) /\ NotBehind(saved'[r][a], saved'[q][a])
        BY <3>0, <3>1, <4>1 DEF Left
      <4>7. Left(q, a)'
        BY <4>4, <4>5, <4>6 DEF Left, NotBehind
      <4> QED  BY <1>14, <2>3, <4>7 DEF FileOf
    <3>3. CASE a = i
      <4>1. Holds(p, i)
        BY <1>1, <1>7, <2>0, <2>3, <3>3, HandOf
      <4>2. \A r \in Procs : Holds(r, i)' => r = p
        BY <1>0, <1>13, <4>1 DEF OneHolder, Holds
      <4>3. offs'[p][i] = k /\ saved'[p][i] = k /\ Covers(i, offs[p][i])'
        BY <1>6, <1>12 DEF Covers
      <4>4. saved[q][i] \in Nat /\ k >= saved[q][i]
        <5>1. offs[p][i] >= saved[q][i]
          BY <3>0, <3>3, <4>1 DEF Left
        <5>2. offs[p][i] \in Nat /\ saved[q][i] \in Nat
          BY <1>0 DEF BookTyped
        <5> QED  BY <1>8, <1>9, <5>1, <5>2
      <4>5. Covers(i, saved[q][i])' \/ \E r \in Procs : Holds(r, i)' /\ offs'[r][i] # saved'[q][i]
        <5>1. CASE k = saved[q][i]
          BY <1>12, <3>1, <3>3, <5>1 DEF Covers
        <5>2. CASE k # saved[q][i]
          BY <1>13, <3>1, <3>3, <4>1, <4>3, <5>2
        <5> QED  BY <5>1, <5>2
      <4>6. \A r \in Procs : Holds(r, i)' => Covers(i, offs[r][i])' /\ offs'[r][i] >= saved'[q][i]
        BY <3>1, <3>3, <4>2, <4>3, <4>4
      <4>7. \A r \in Procs \ {q} :
              NotBehind(offs'[r][i], saved'[q][i]) /\ NotBehind(saved'[r][i], saved'[q][i])
        BY <3>0, <3>1, <3>3, <4>3, <4>4 DEF Left, NotBehind
      <4>8. Left(q, i)'
        BY <4>5, <4>6, <4>7 DEF Left, NotBehind
      <4> QED  BY <1>14, <2>3, <3>3, <4>8 DEF FileOf
    <3> QED  BY <3>2, <3>3
  <2> QED  BY <2>1, <2>2, <2>3
<1> QED  BY <1>10, <1>16, <1>17, <1>18, <1>19, <1>20 DEF Quiet

\* What a state file says of a file that has a name stays, or becomes what its process knows.
LEMMA PrunedBooks ==
  ASSUME DInv, UInv, Quiet, ~disturbed', NEW p \in Procs, Prune(p), NEW i \in Inodes, Named(i)
  PROVE  \A q \in Procs :
           /\ Holds(q, i)' <=> Holds(q, i)
           /\ offs'[q][i] = offs[q][i]
           /\ \/ saved'[q][i] = saved[q][i]
              \/ q # p /\ names[q] = <<>> /\ saved'[q][i] = 0
              \/ q = p /\ saved'[q][i] = offs[p][i]
<1> DEFINE left == [q \in Procs |-> IF Reapable(p, q) THEN [j \in Inodes |-> 0] ELSE saved[q]]
<1>0. BookTyped /\ DiskTyped
  BY TypeParts DEF DInv, TInv
<1>1. /\ offs' = [offs EXCEPT ![p] = Kept(p)] /\ UNCHANGED names
      /\ locks' = [locks EXCEPT ![p] = {h \in locks[p] : Exists(h[1])}]
      /\ SaveState(p, left, Kept(p), dirty[p] \/ Kept(p) # offs[p])
  BY DEF Prune, disk
<1>2. Kept(p)[i] = offs[p][i]
  BY <1>0, OwnIsNamed DEF Kept
<1>3. \A q \in Procs : left[q][i] = saved[q][i] \/ (q # p /\ names[q] = <<>> /\ left[q][i] = 0)
  BY DEF Reapable
<1>4. DOMAIN left = Procs
  OBVIOUS
<1> HIDE DEF left
<1>5. \A q \in Procs : offs'[q][i] = offs[q][i]
  <2>1. \A q \in Procs : offs'[q] = IF q = p THEN Kept(p) ELSE offs[q]
    BY <1>0, <1>1 DEF BookTyped
  <2> QED  BY <1>2, <2>1
<1>6. saved' = left \/ saved' = [left EXCEPT ![p] = Kept(p)]
  BY <1>1 DEF SaveState
<1>7. ASSUME NEW q \in Procs
      PROVE  \/ saved'[q][i] = saved[q][i]
             \/ q # p /\ names[q] = <<>> /\ saved'[q][i] = 0
             \/ q = p /\ saved'[q][i] = offs[p][i]
  <2>1. saved'[q] = left[q] \/ (q = p /\ saved'[q] = Kept(p))
    BY <1>4, <1>6
  <2> QED  BY <1>2, <1>3, <2>1
<1>8. ASSUME NEW q \in Procs PROVE Holds(q, i)' <=> Holds(q, i)
  <2>1. locks'[q] = IF q = p THEN {h \in locks[p] : Exists(h[1])} ELSE locks[q]
    BY <1>0, <1>1 DEF BookTyped
  <2>2. ASSUME NEW h \in locks[q], h[2] = i PROVE Exists(h[1])
    <3>1. PICK o \in Procs : Own(o, i)
      BY DEF Named
    <3> QED  BY <2>2, <3>1, HolderOf
  <2>3. Holds(q, i) => Holds(q, i)'
    <3> SUFFICES ASSUME NEW h \in locks[q], h[2] = i PROVE h \in locks'[q]
      BY DEF Holds
    <3>1. Exists(h[1])
      BY <2>2
    <3> QED  BY <2>1, <3>1
  <2>4. Holds(q, i)' => Holds(q, i)
    BY <2>1 DEF Holds
  <2> QED  BY <2>3, <2>4
<1> QED  BY <1>5, <1>7, <1>8

LEMMA QuietPrune ==
  ASSUME DInv, UInv, Quiet, ~disturbed', NEW p \in Procs, Prune(p)
  PROVE  Quiet'
<1>0. DiskTyped /\ BookTyped /\ TaskTyped /\ LifeTyped
  BY TypeParts DEF DInv, TInv
<1>1. /\ UNCHANGED <<names, content, written, copies, todo, key, off>>
      /\ pc[p] = "file" /\ todo[p] = {} /\ pc'[p] \in {"sleep", "stopped"}
  BY <1>0 DEF Prune, EndsTick, Go, At, disk, task, index, LifeTyped
<1>2. \A q \in Procs \ {p} : Idle(q) /\ locks'[q] = locks[q] /\ offs'[q] = offs[q]
  <2>1. locks' = [locks EXCEPT ![p] = {h \in locks[p] : Exists(h[1])}] /\ offs' = [offs EXCEPT ![p] = Kept(p)]
    BY DEF Prune
  <2> QED  BY <1>0, <2>1, OthersIdle DEF BookTyped
<1>3. \A i : (Named(i)' <=> Named(i)) /\ \A q : (Own(q, i)' <=> Own(q, i))
  BY <1>1 DEF Own, Named
<1>4. \A i \in Inodes : Delivered(i)' = Delivered(i)
  BY <1>1 DEF Delivered
<1>5. \A q \in Procs : Dead(q)' <=> Dead(q)
  BY <1>0, LifeStays
<1>6. Sent'
  BY <1>1 DEF Quiet, Sent
<1>7. ASSUME NEW q \in Procs, NEW h \in locks'[q] PROVE Orphan(h)'
  <2>1. h \in locks[q]
    BY <1>0, <1>7, LocksShrink
  <2>2. Orphan(h) /\ h[1][1] \in Procs
    BY <1>0, <2>1, LockParts DEF Quiet
  <2>3. (Exists(h[1])' <=> Exists(h[1])) /\ InodeAt(h[1])' = InodeAt(h[1])
    BY <1>1 DEF Exists, InodeAt
  <2> QED  BY <1>3, <1>5, <2>2, <2>3 DEF Orphan
<1>8. ASSUME NEW q \in Procs PROVE Chosen(q)'
  <2>1. CASE q = p
    BY <1>1, <2>1 DEF Chosen
  <2>2. CASE q # p
    BY <1>2, <2>2 DEF Quiet, Chosen, Idle, At
  <2> QED  BY <2>1, <2>2
<1>9. ~InFile(p)' /\ \A q \in Procs \ {p} : InFile(q)' <=> InFile(q)
  BY <1>1, <1>2 DEF InFile, Idle
<1>10. ASSUME NEW q \in Procs, NEW i \in Inodes PROVE AtHand(q, i)'
  <2>1. CASE q = p
    BY <1>9, <2>1 DEF AtHand
  <2>2. CASE q # p
    <3>1. AtHand(q, i) /\ (Holds(q, i)' <=> Holds(q, i)) /\ offs'[q][i] = offs[q][i]
      BY <1>2, <2>2 DEF Quiet, Holds
    <3> QED  BY <1>1, <1>3, <1>4, <1>9, <2>2, <3>1, HandKept
  <2> QED  BY <2>1, <2>2
<1>11. OneReader'
  BY <1>1, <1>9 DEF Quiet, OneReader
<1>12. ASSUME NEW q \in Procs, NEW i \in Inodes, Own(q, i)' PROVE FileOf(q, i)'
  <2>0. FileOf(q, i) /\ Own(q, i) /\ Named(i)
    BY <1>3, <1>12 DEF Quiet, Named
  <2>1. names[q] # <<>>
    BY <2>0 DEF Own, Range
  <2>2. \A r \in Procs :
          /\ Holds(r, i)' <=> Holds(r, i)
          /\ offs'[r][i] = offs[r][i]
          /\ \/ saved'[r][i] = saved[r][i]
             \/ r # q /\ saved'[r][i] = 0
             \/ r = p /\ saved'[r][i] = offs[r][i]
    BY <2>0, <2>1, PrunedBooks
  <2>3. CASE ~Dead(q)
    <3>1. Private(q, i)
      BY <2>0, <2>3 DEF FileOf
    <3>2. Covers(i, offs[q][i])' /\ Covers(i, saved[q][i])'
      BY <1>4, <2>2, <3>1 DEF Private, Covers
    <3>3. \A r \in Procs \ {q} : offs'[r][i] = 0 /\ saved'[r][i] = 0
      BY <2>2, <3>1 DEF Private
    <3>4. Private(q, i)'
      BY <3>2, <3>3 DEF Private
    <3> QED  BY <1>5, <2>3, <3>4 DEF FileOf
  <2>4. CASE Dead(q)
    <3>1. Left(q, i) /\ q # p
      BY <1>1, <2>0, <2>4 DEF FileOf, Dead
    <3>2. saved'[q][i] = saved[q][i]
      BY <2>2, <3>1
    <3>3. \A r \in Procs \ {q} :
            NotBehind(offs'[r][i], saved'[q][i]) /\ NotBehind(saved'[r][i], saved'[q][i])
      BY <2>2, <3>1, <3>2 DEF Left, NotBehind
    <3>4. Left(q, i)'
      BY <1>4, <2>2, <3>1, <3>2, <3>3 DEF Left, Covers, NotBehind
    <3> QED  BY <1>5, <2>4, <3>4 DEF FileOf
  <2> QED  BY <2>3, <2>4
<1> QED  BY <1>6, <1>7, <1>8, <1>10, <1>11, <1>12 DEF Quiet

\* A process that dies leaves files nobody else has, and what it knew of a file it
\* held is in the state file its next holder reads.
LEMMA QuietEnds ==
  ASSUME DInv, UInv, Quiet, ~disturbed', NEW p \in Procs, Ends(p)
  PROVE  Quiet'
<1>0. DiskTyped /\ BookTyped /\ TaskTyped /\ LifeTyped
  BY TypeParts DEF DInv, TInv
<1>1. /\ UNCHANGED <<names, content, written, copies, saved>> /\ ~UnsharedProgress(p)
      /\ offs' = [offs EXCEPT ![p] = [i \in Inodes |-> 0]] /\ locks' = [locks EXCEPT ![p] = {}]
      /\ todo' = [todo EXCEPT ![p] = {}] /\ pc' = [pc EXCEPT ![p] = "dead"] /\ ~Dead(p)
  BY DEF Ends, Exit, Die, Gone, MaybeStored, Go, At, Dead, disk
<1>2. locks'[p] = {} /\ todo'[p] = {} /\ pc'[p] = "dead" /\ \A i \in Inodes : offs'[p][i] = 0
  BY <1>0, <1>1 DEF BookTyped, TaskTyped, LifeTyped
<1>3. \A q \in Procs \ {p} : Idle(q) /\ locks'[q] = locks[q] /\ offs'[q] = offs[q]
  BY <1>0, <1>1, OthersIdle DEF BookTyped
<1>4. \A i : (Named(i)' <=> Named(i)) /\ \A q : (Own(q, i)' <=> Own(q, i))
  BY <1>1 DEF Own, Named
<1>5. \A i \in Inodes : Delivered(i)' = Delivered(i)
  BY <1>1 DEF Delivered
<1>6. Dead(p)' /\ \A q \in Procs \ {p} : Dead(q)' <=> Dead(q)
  BY <1>2, <1>3 DEF Dead, Idle
<1>7. Sent'
  BY <1>1 DEF Quiet, Sent
<1>8. ASSUME NEW q \in Procs, NEW h \in locks'[q] PROVE Orphan(h)'
  <2>1. h \in locks[q]
    BY <1>2, <1>3
  <2>2. Orphan(h) /\ h[1][1] \in Procs
    BY <1>0, <2>1, LockParts DEF Quiet
  <2>3. (Exists(h[1])' <=> Exists(h[1])) /\ InodeAt(h[1])' = InodeAt(h[1])
    BY <1>1 DEF Exists, InodeAt
  <2> QED  BY <1>4, <1>6, <2>2, <2>3 DEF Orphan
<1>9. ASSUME NEW q \in Procs PROVE Chosen(q)'
  <2>1. CASE q = p
    BY <1>2, <2>1 DEF Chosen
  <2>2. CASE q # p
    BY <1>3, <2>2 DEF Quiet, Chosen, Idle, At
  <2> QED  BY <2>1, <2>2
<1>10. ~InFile(p)' /\ \A q \in Procs \ {p} : (InFile(q)' <=> InFile(q)) /\ key'[q] = key[q]
  BY <1>2, <1>3 DEF InFile, Idle
<1>11. ASSUME NEW q \in Procs, NEW i \in Inodes PROVE AtHand(q, i)'
  <2>1. CASE q = p
    BY <1>10, <2>1 DEF AtHand
  <2>2. CASE q # p
    <3>1. AtHand(q, i) /\ (Holds(q, i)' <=> Holds(q, i)) /\ offs'[q][i] = offs[q][i] /\ off'[q] = off[q]
      BY <1>3, <2>2 DEF Quiet, Holds, Idle
    <3> QED  BY <1>4, <1>5, <1>10, <2>2, <3>1, HandKept
  <2> QED  BY <2>1, <2>2
<1>12. OneReader'
  BY <1>10 DEF Quiet, OneReader
<1>13. \A i \in Inodes : ~Holds(p, i)' /\ \A r \in Procs \ {p} : Holds(r, i)' <=> Holds(r, i)
  BY <1>2, <1>3 DEF Holds
<1>14. ASSUME NEW q \in Procs, NEW i \in Inodes, Own(q, i)' PROVE FileOf(q, i)'
  <2>0. FileOf(q, i) /\ Own(q, i)
    BY <1>4, <1>14 DEF Quiet
  <2>1. \A r \in Procs : saved'[r][i] = saved[r][i] /\ offs'[r][i] = IF r = p THEN 0 ELSE offs[r][i]
    BY <1>1, <1>2, <1>3
  <2>2. CASE q = p
    <3>1. Private(p, i)
      BY <1>1, <2>0, <2>2 DEF FileOf
    <3>2. \A r \in Procs : ~Holds(r, i)'
      BY <1>1, <1>13, <2>0, <2>2, HeldIsLeft
    <3>3. Covers(i, saved[p][i])'
      BY <1>5, <2>1, <3>1 DEF Private, Covers
    <3>4. \A r \in Procs \ {p} :
            NotBehind(offs'[r][i], saved'[p][i]) /\ NotBehind(saved'[r][i], saved'[p][i])
      BY <2>1, <3>1 DEF Private, NotBehind
    <3>5. Left(p, i)'
      BY <3>2, <3>3, <3>4 DEF Left, NotBehind
    <3> QED  BY <1>6, <2>2, <3>5 DEF FileOf
  <2>3. CASE q # p /\ ~Dead(q)
    <3>1. Private(q, i)
      BY <2>0, <2>3 DEF FileOf
    <3>2. Private(q, i)'
      BY <1>5, <2>1, <2>3, <3>1 DEF Private, Covers
    <3> QED  BY <1>6, <2>3, <3>2 DEF FileOf
  <2>4. CASE q # p /\ Dead(q)
    <3>1. Left(q, i)
      BY <2>0, <2>4 DEF FileOf
    <3>2. ASSUME Holds(p, i) PROVE offs[p][i] = saved[q][i]
      <4>1. PICK h \in locks[p] : h[2] = i
        BY <3>2 DEF Holds
      <4>2. h[1][1] = q
        BY <2>0, <4>1, HolderOf
      <4> QED  BY <1>1, <4>1, <4>2 DEF UnsharedProgress
    <3>3. Covers(i, saved[q][i])' \/ \E r \in Procs : Holds(r, i)' /\ offs'[r][i] # saved'[q][i]
      <4>1. CASE Covers(i, saved[q][i])
        BY <1>5, <2>1, <4>1 DEF Covers
      <4>2. ASSUME NEW r \in Procs, Holds(r, i), offs[r][i] # saved[q][i]
            PROVE  Holds(r, i)' /\ offs'[r][i] # saved'[q][i]
        BY <1>13, <2>1, <3>2, <4>2
      <4> QED  BY <3>1, <4>1, <4>2 DEF Left
    <3>4. ASSUME NEW r \in Procs, Holds(r, i)' PROVE Covers(i, offs[r][i])' /\ offs'[r][i] >= saved'[q][i]
      <4>1. r # p /\ Holds(r, i)
        BY <1>13, <3>4
      <4> QED  BY <1>5, <2>1, <3>1, <4>1 DEF Left, Covers
    <3>5. \A r \in Procs \ {q} :
            NotBehind(offs'[r][i], saved'[q][i]) /\ NotBehind(saved'[r][i], saved'[q][i])
      BY <2>1, <3>1 DEF Left, NotBehind
    <3>6. Left(q, i)'
      BY <3>3, <3>4, <3>5 DEF Left, NotBehind
    <3> QED  BY <1>6, <2>4, <3>6 DEF FileOf
  <2> QED  BY <2>2, <2>3, <2>4
<1> QED  BY <1>7, <1>8, <1>9, <1>11, <1>12, <1>14 DEF Quiet

\* A pid that comes back before another process had its files goes on where it was.
LEMMA QuietRestart ==
  ASSUME DInv, UInv, Quiet, ~disturbed', NEW p \in Procs, Restart(p)
  PROVE  Quiet'
<1>0. DiskTyped /\ BookTyped /\ TaskTyped /\ LifeTyped
  BY TypeParts DEF DInv, TInv
<1>1. /\ UNCHANGED <<names, content, written, copies, saved, locks, todo, key, off>>
      /\ ~HasHeirs(p) /\ Dead(p) /\ locks[p] = {}
      /\ offs' = [offs EXCEPT ![p] = saved[p]] /\ pc' = [pc EXCEPT ![p] = "sleep"]
  BY DEF Restart, Go, UInv, Past, disk, task, index
<1>2. pc'[p] = "sleep" /\ offs'[p] = saved[p]
  BY <1>0, <1>1 DEF BookTyped, LifeTyped
<1>3. \A q \in Procs \ {p} : Idle(q) /\ offs'[q] = offs[q]
  BY <1>0, <1>1, OthersIdle DEF BookTyped
<1>4. \A i : (Named(i)' <=> Named(i)) /\ \A q : (Own(q, i)' <=> Own(q, i)) /\ (Holds(q, i)' <=> Holds(q, i))
  BY <1>1 DEF Own, Named, Holds
<1>5. \A i \in Inodes : Delivered(i)' = Delivered(i)
  BY <1>1 DEF Delivered
<1>6. ~Dead(p)' /\ \A q \in Procs \ {p} : Dead(q)' <=> Dead(q)
  BY <1>2, <1>3 DEF Dead, Idle
<1>7. Sent'
  BY <1>1 DEF Quiet, Sent
<1>8. \A q \in Procs \ {p} : /\ \A h \in locks[q] : h[1][1] # p
                             /\ \A i : Own(p, i) => offs[q][i] = 0 /\ saved[q][i] = 0
  BY <1>1 DEF HasHeirs, Own
<1>9. ASSUME NEW q \in Procs, NEW h \in locks'[q] PROVE Orphan(h)'
  <2>1. h \in locks[q] /\ q # p
    BY <1>1
  <2>2. Orphan(h) /\ h[1][1] \in Procs /\ h[1][1] # p
    BY <1>0, <1>8, <2>1, LockParts DEF Quiet
  <2>3. (Exists(h[1])' <=> Exists(h[1])) /\ InodeAt(h[1])' = InodeAt(h[1])
    BY <1>1 DEF Exists, InodeAt
  <2> QED  BY <1>4, <1>6, <2>2, <2>3 DEF Orphan
<1>10. ASSUME NEW q \in Procs PROVE Chosen(q)'
  <2>1. CASE q = p
    BY <1>2, <2>1 DEF Chosen, At
  <2>2. CASE q # p
    BY <1>1, <1>3, <2>2 DEF Quiet, Chosen, Idle, At
  <2> QED  BY <2>1, <2>2
<1>11. ~InFile(p)' /\ \A q \in Procs \ {p} : InFile(q)' <=> InFile(q)
  BY <1>2, <1>3 DEF InFile, Idle
<1>12. ASSUME NEW q \in Procs, NEW i \in Inodes PROVE AtHand(q, i)'
  <2>1. CASE q = p
    BY <1>11, <2>1 DEF AtHand
  <2>2. CASE q # p
    <3>1. AtHand(q, i) /\ offs'[q][i] = offs[q][i]
      BY <1>3, <2>2 DEF Quiet
    <3> QED  BY <1>1, <1>4, <1>5, <1>11, <2>2, <3>1, HandKept
  <2> QED  BY <2>1, <2>2
<1>13. OneReader'
  BY <1>1, <1>11 DEF Quiet, OneReader
<1>14. ASSUME NEW q \in Procs, NEW i \in Inodes, Own(q, i)' PROVE FileOf(q, i)'
  <2>0. FileOf(q, i) /\ Own(q, i)
    BY <1>4, <1>14 DEF Quiet
  <2>1. \A r \in Procs : saved'[r][i] = saved[r][i] /\ offs'[r][i] = IF r = p THEN saved[p][i] ELSE offs[r][i]
    BY <1>1, <1>2, <1>3
  <2>2. CASE q = p
    <3>1. Left(p, i)
      BY <1>1, <2>0, <2>2 DEF FileOf
    <3>2. \A r \in Procs : ~Holds(r, i)
      <4> SUFFICES ASSUME NEW r \in Procs, NEW h \in locks[r], h[2] = i PROVE FALSE
        BY DEF Holds
      <4>1. h[1][1] = p /\ r # p
        BY <2>0, <2>2, HolderOf
      <4> QED  BY <1>8, <4>1
    <3>3. Covers(i, saved[p][i])
      BY <3>1, <3>2 DEF Left
    <3>4. Covers(i, offs[p][i])' /\ Covers(i, saved[p][i])'
      BY <1>5, <2>1, <3>3 DEF Covers
    <3>5. Private(p, i)'
      BY <1>8, <2>0, <2>1, <2>2, <3>4 DEF Private
    <3> QED  BY <1>6, <2>2, <3>5 DEF FileOf
  <2>3. CASE q # p /\ ~Dead(q)
    <3>1. Private(q, i)
      BY <2>0, <2>3 DEF FileOf
    <3>2. Private(q, i)'
      BY <1>5, <2>1, <2>3, <3>1 DEF Private, Covers
    <3> QED  BY <1>6, <2>3, <3>2 DEF FileOf
  <2>4. CASE q # p /\ Dead(q)
    <3>1. Left(q, i) /\ ~Holds(p, i)
      BY <1>1, <2>0, <2>4 DEF FileOf, Holds
    <3>2. Covers(i, saved[q][i])' \/ \E r \in Procs : Holds(r, i)' /\ offs'[r][i] # saved'[q][i]
      <4>1. CASE Covers(i, saved[q][i])
        BY <1>5, <2>1, <4>1 DEF Covers
      <4>2. ASSUME NEW r \in Procs, Holds(r, i), offs[r][i] # saved[q][i]
            PROVE  Holds(r, i)' /\ offs'[r][i] # saved'[q][i]
        BY <1>4, <2>1, <3>1, <4>2
      <4> QED  BY <3>1, <4>1, <4>2 DEF Left
    <3>3. ASSUME NEW r \in Procs, Holds(r, i)' PROVE Covers(i, offs[r][i])' /\ offs'[r][i] >= saved'[q][i]
      <4>1. r # p /\ Holds(r, i)
        BY <1>4, <3>1, <3>3
      <4> QED  BY <1>5, <2>1, <3>1, <4>1 DEF Left, Covers
    <3>4. \A r \in Procs \ {q} :
            NotBehind(offs'[r][i], saved'[q][i]) /\ NotBehind(saved'[r][i], saved'[q][i])
      BY <2>1, <2>4, <3>1 DEF Left, NotBehind
    <3>5. Left(q, i)'
      BY <3>2, <3>3, <3>4 DEF Left, NotBehind
    <3> QED  BY <1>6, <2>4, <3>5 DEF FileOf
  <2> QED  BY <2>2, <2>3, <2>4
<1> QED  BY <1>7, <1>9, <1>10, <1>12, <1>13, <1>14 DEF Quiet

-----------------------------------------------------------------------------
(* All steps.                                                              *)

LEMMA Undisturbed == TInv /\ [Next]_vars /\ disturbed => disturbed'
<1> SUFFICES ASSUME TInv, [Next]_vars, disturbed PROVE disturbed'
  OBVIOUS
<1>1. CASE UNCHANGED disturbed
  BY <1>1
<1>2. ASSUME NEW p \in Procs, Answered(p) \/ Prune(p) PROVE disturbed'
  BY <1>1, <1>2 DEF Answered, Prune, SaveState
<1>3. ASSUME NEW p \in Procs, Unanswered(p) \/ Garbled(p) \/ CloseTimesOut(p) \/ Ends(p)
      PROVE  disturbed'
  BY <1>3 DEF Unanswered, Garbled, CloseTimesOut, Ends, Exit, Die, Gone, MaybeStored
<1>4. ASSUME NEW p \in Procs, Restart(p) PROVE disturbed'
  BY <1>4 DEF Restart
<1>5. ASSUME NEW p \in Procs, Sinks(p) \/ Tick(p) \/ Walks(p) \/ Close(p) PROVE UNCHANGED disturbed
  BY <1>5 DEF Sinks, Write, Rotate, Retire, Tick, Walks, Look, Open, Read, Close
<1>6. CASE UNCHANGED vars
  BY <1>6 DEF vars
<1> QED  BY <1>1, <1>2, <1>3, <1>4, <1>5, <1>6, Actions DEF Posts

LEMMA QuietNext == Steady /\ OInv /\ [Next]_vars /\ ~disturbed' => Quiet'
<1> SUFFICES ASSUME Steady, OInv, [Next]_vars, ~disturbed' PROVE Quiet'
  OBVIOUS
<1>0. DInv /\ UInv /\ Quiet /\ BookTyped
  BY Undisturbed, TypeParts DEF OInv, DInv, TInv
<1>1. CASE UNCHANGED vars
  <2>1. UNCHANGED <<names, content, written, copies, pc, offs, saved, locks, todo, key, off>>
    BY <1>1 DEF vars, disk, book, task, index
  <2>2. Sent' /\ \A i \in Inodes : Delivered(i)' = Delivered(i)
    BY <1>0, <2>1 DEF Quiet, Sent, Delivered
  <2>3. \A p : (Dead(p)' <=> Dead(p)) /\ (InFile(p)' <=> InFile(p)) /\ (At(p, "sleep")' <=> At(p, "sleep"))
    BY <2>1 DEF Dead, InFile, At
  <2> QED  BY <1>0, <2>1, <2>2, <2>3, QuietStays
<1>2. ASSUME NEW p \in Procs, Sinks(p) PROVE Quiet'
  BY <1>0, <1>2, QuietWrite, QuietRotate, QuietRetire DEF Sinks
<1>3. ASSUME NEW p \in Procs, Walks(p) PROVE Quiet'
  BY <1>0, <1>3, QuietLook, QuietAside DEF Walks
<1>4. ASSUME NEW p \in Procs, Posts(p) PROVE Quiet'
  BY <1>0, <1>4, QuietAnswered, QuietAside DEF Posts
<1>5. ASSUME NEW p \in Procs, Tick(p) \/ Prune(p) \/ Close(p) PROVE Quiet'
  BY <1>0, <1>5, QuietTick, QuietPrune, QuietAside
<1>6. ASSUME NEW p \in Procs, Ends(p) \/ Restart(p) PROVE Quiet'
  BY <1>0, <1>6, QuietEnds, QuietRestart
<1> QED  BY <1>1, <1>2, <1>3, <1>4, <1>5, <1>6, Actions

LEMMA OInvInit == Init => OInv
<1> SUFFICES ASSUME Init PROVE OInv
  OBVIOUS
<1>1. /\ \A p \in Procs : names[p] = <<>> /\ pc[p] = "sleep" /\ locks[p] = {} /\ todo[p] = {}
      /\ \A i \in Inodes : content[i] = <<>>
      /\ \A l \in Lines : copies[l] = 0
  BY DEF Init
<1>2. UInv
  <2>1. Distinct /\ Apart
    BY <1>1 DEF Distinct, Apart
  <2>2. OneHolder /\ \A p \in Procs : Past(p)
    BY <1>1 DEF OneHolder, Past, InFile
  <2> QED  BY <2>1, <2>2 DEF UInv
<1>3. Quiet
  <2>1. Sent
    <3> SUFFICES ASSUME NEW l \in Lines PROVE copies[l] <= 1 /\ ~(copies[l] > 0)
      BY DEF Sent
    <3> QED  BY <1>1
  <2>2. \A p \in Procs, i \in Inodes : ~Own(p, i)
    BY <1>1 DEF Own, Range
  <2>3. \A p \in Procs : Chosen(p) /\ \A h \in locks[p] : Orphan(h)
    BY <1>1 DEF Chosen
  <2>4. OneReader /\ \A p \in Procs : \A i \in Inodes : AtHand(p, i)
    <3>1. \A p \in Procs : ~InFile(p)
      BY <1>1 DEF InFile
    <3> QED  BY <3>1 DEF OneReader, AtHand
  <2> QED  BY <2>1, <2>2, <2>3, <2>4 DEF Quiet
<1> QED  BY <1>2, <1>3, DInvInit DEF OInv

LEMMA OInvNext == Steady /\ OInv /\ [Next]_vars => OInv'
  BY DInvNext, UInvNext, QuietNext DEF OInv

\* Where inode numbers are not reused and a rotation does not fall between the stat
\* and the open of a file, no line is in the index twice, with or without an event.id,
\* until a reply or a state file is lost or a pid comes back after another process had
\* its files: a file has one heir, and it starts where the dead worker stopped
\* (shipper.py:341-390).
THEOREM LinesAreSentOnce == ~ReuseInodes /\ ~OpenRaces => (Spec => []SentOnce)
<1>1. OInv => SentOnce
  BY DEF OInv, Quiet, Sent, SentOnce
<1>2. SUFFICES ASSUME ~ReuseInodes, ~OpenRaces PROVE Spec => []SentOnce
  OBVIOUS
<1>3. OInv /\ [Next]_vars => OInv'
  BY <1>2, OInvNext DEF Steady
<1> QED  BY <1>1, <1>3, OInvInit, PTL DEF Spec
=============================================================================
