------------------------------ MODULE SinkFile ------------------------------
(***************************************************************************)
(* The file side of FileSink: which file is active, which descriptor       *)
(* reaches it, and who may close that descriptor.                          *)
(*                                                                         *)
(* The event loop opens the file in start() and tears the sink down in     *)
(* close(); executor threads open, write and rotate.  A thread outlives    *)
(* the coroutine that awaited it, so writes go on during and after         *)
(* close(), which waits for no lock that is held across a system call.     *)
(* A descriptor is a small number the kernel hands out again as soon as it *)
(* is closed, to this sink or to anybody else in the process.              *)
(*                                                                         *)
(* Each action is one access to the state the threads share.  Lines are    *)
(* their sizes.  Which lines a batch holds, and what becomes of those that *)
(* do not land, is FileSink.                                               *)
(*                                                                         *)
(* Another sink of the process, the rival, wants the same path: it keeps   *)
(* to the registry of names, and to flock where the file system has it,    *)
(* and what it does to a file it shares is not modelled.                   *)
(***************************************************************************)
EXTENDS Integers, Sequences, FiniteSets, Functions

CONSTANTS
  Workers,      \* executor threads that write at one time
  FDs,          \* descriptor numbers of the process
  Inodes,       \* files: bounds the generations alive at one time
  Limit,        \* file_max_bytes
  Backups,      \* file_backup_count
  BatchShapes,  \* the batches a worker is given: sequences of line sizes
  Calls,        \* bounds the calls of _write_batch
  HasRival,     \* whether another sink of the process wants the same path
  FlockHolds    \* whether the file system honours flock

ASSUME FileAssumption ==
  /\ IsFiniteSet(Workers)
  /\ "loop" \notin Workers /\ "free" \notin Workers
  /\ "none" \notin FDs \cup Inodes
  /\ "closed" \notin Inodes /\ "foreign" \notin Inodes
  /\ Limit \in Nat \ {0} /\ Backups \in Nat
  /\ BatchShapes \subseteq Seq(Nat \ {0})
  /\ HasRival \in BOOLEAN /\ FlockHolds \in BOOLEAN /\ Calls \in Nat

VARIABLES
  fd,          \* _fd
  writers,     \* _writers
  orphans,     \* _orphan_fds
  fileBytes,   \* _file_bytes
  openLock,    \* the thread that has _open_lock
  terminated,  \* _terminated
  claimed,     \* _claimed
  path,        \* self.path: FR-26's name, or one with a token
  registry,    \* _CLAIMED_PATHS, the names of this process
  rival,       \* the other sink has claimed FR-26's name
  shared,      \* history: a sink found no free name and shares the one it wanted
  table,       \* what each descriptor of the process is open on
  files,       \* generation i of the log, 0 the active one
  size,        \* bytes in each file
  pc,          \* where each thread is
  back,        \* where it goes on once _open_lock is released
  got,         \* the descriptor a thread has opened or borrowed
  aimed,       \* history: the file it was open on at that moment
  closing,     \* descriptors a thread is about to os.close
  broken,      \* the thread is unwinding an exception
  lines,       \* lines of its batch a worker has not written
  rest,        \* bytes of its segment still to be written
  calls        \* _write_batch calls so far

borrow   == <<fd, writers, orphans>>
claim    == <<claimed, path, registry, rival, shared>>
disk     == <<table, files, size>>
task     == <<back, broken, lines, rest>>
local    == <<got, aimed, closing, task>>
vars     == <<borrow, fileBytes, openLock, terminated, claim, disk, pc, local, calls>>

Threads == Workers \cup {"loop"}
None == "none"
Names == {"plain", "token"}
Generations == 0..Backups

Labels == {"off", "idle", "up", "down", "ensure", "lock", "open", "claim", "probe", "abandon",
           "another", "create", "install", "recheck", "undo", "undoClose", "undoCheck",
           "undoUnclaim", "undoDiscard",
           "unlock", "check", "wantRotate", "rotate", "shut", "rename", "segment",
           "borrow", "write", "return", "letgo", "ended", "end", "endClose", "endCheck",
           "endUnclaim", "endDiscard"}

TypeOK ==
  /\ fd \in FDs \cup {None} /\ writers \in Nat /\ orphans \subseteq FDs
  /\ fileBytes \in Nat
  /\ openLock \in Threads \cup {"free"}
  /\ terminated \in BOOLEAN /\ claimed \in BOOLEAN
  /\ rival \in BOOLEAN /\ shared \in BOOLEAN
  /\ path \in Names /\ registry \subseteq Names
  /\ table \in [FDs -> Inodes \cup {"closed", "foreign"}]
  /\ files \in [Generations -> Inodes \cup {None}]
  /\ size \in [Inodes -> Nat]
  /\ pc \in [Threads -> Labels] /\ back \in [Threads -> Labels]
  /\ got \in [Threads -> FDs \cup {None}]
  /\ aimed \in [Threads -> Inodes \cup {None}]
  /\ closing \in [Threads -> SUBSET FDs]
  /\ broken \in [Threads -> BOOLEAN]
  /\ lines \in [Threads -> Seq(Nat)]
  /\ rest \in [Threads -> Nat] /\ calls \in 0..Calls

Init ==
  /\ fd = None /\ writers = 0 /\ orphans = {}
  /\ fileBytes = 0 /\ openLock = "free" /\ terminated = FALSE
  /\ claimed = FALSE /\ path = "plain" /\ registry = {}
  /\ rival = FALSE /\ shared = FALSE
  /\ table = [f \in FDs |-> "closed"]
  /\ files = [g \in Generations |-> None]
  /\ size = [i \in Inodes |-> 0]
  /\ pc = [t \in Threads |-> IF t = "loop" THEN "off" ELSE "idle"]
  /\ back = [t \in Threads |-> IF t = "loop" THEN "up" ELSE "check"]
  /\ got = [t \in Threads |-> None] /\ aimed = [t \in Threads |-> None]
  /\ closing = [t \in Threads |-> {}]
  /\ broken = [t \in Threads |-> FALSE]
  /\ lines = [t \in Threads |-> <<>>] /\ rest = [t \in Threads |-> 0]
  /\ calls = 0

At(t, label) == pc[t] = label
Go(t, label) == pc' = [pc EXCEPT ![t] = label]

\* A file lives as long as a name or a descriptor keeps it.
Kept(names, open) == Range(names) \cup Range(open)
Sizes(names, open) == [i \in Inodes |-> IF i \in Kept(names, open) THEN size[i] ELSE 0]

-----------------------------------------------------------------------------
(* Opening the active file.                                                *)

\* _ensure_open: the unlocked fast path.
EnsureOpen(t) ==
  /\ At(t, "ensure")
  /\ Go(t, IF fd # None THEN back[t] ELSE "lock")
  /\ UNCHANGED <<borrow, fileBytes, openLock, terminated, claim, disk, local, calls>>

\* A rotation that does not exclude openers.
Locks_OpenersOnly(t) ==
  IF At(t, "wantRotate") THEN UNCHANGED openLock
  ELSE openLock = "free" /\ openLock' = t
\* Openers and rotations take turns.
Locks(t) == openLock = "free" /\ openLock' = t

TakeOpenLock(t) ==
  /\ pc[t] \in {"lock", "wantRotate"}
  /\ Locks(t)
  /\ Go(t, IF At(t, "lock") THEN "open" ELSE "rotate")
  /\ back' = [back EXCEPT ![t] = IF At(t, "lock") THEN @ ELSE "segment"]
  /\ UNCHANGED <<borrow, fileBytes, terminated, claim, disk, got, aimed, closing,
                 broken, lines, rest, calls>>

\* The guards of _open_locked.
OpenGuards(t) ==
  /\ At(t, "open")
  /\ Go(t, IF fd # None \/ terminated THEN "unlock" ELSE "claim")
  /\ UNCHANGED <<borrow, fileBytes, openLock, terminated, claim, disk, local, calls>>

\* A sink that takes its name for granted.
NameTaken_Never == FALSE
NameTaken == path \in registry

\* _claim_path, with the name it wants: in the registry, under _CLAIM_LOCK ...
TryName(t) ==
  /\ At(t, "claim")
  /\ Go(t, IF claimed THEN "create" ELSE IF NameTaken THEN "another" ELSE "probe")
  /\ registry' = IF claimed \/ NameTaken THEN registry ELSE registry \cup {path}
  /\ UNCHANGED <<borrow, fileBytes, openLock, terminated, claimed, path, rival, shared, disk,
                 local, calls>>

\* A probe that believes whatever it is told.
Unlocked_Anyway == TRUE
\* flock keeps no second descriptor off the file this sink still has open, late
\* in its life; and where there is no flock it keeps nobody off.
Unlocked == FlockHolds /\ path = "plain" => files[0] \notin Range(table)

\* ... then on the file, where another process may hold it.
ProbeName(t) ==
  /\ At(t, "probe")
  /\ \/ /\ Unlocked
        /\ claimed' = TRUE /\ Go(t, "create")
     \/ /\ FlockHolds
        /\ UNCHANGED claimed /\ Go(t, "abandon")
  /\ UNCHANGED <<borrow, fileBytes, openLock, terminated, path, registry, rival, shared, disk,
                 local, calls>>

AbandonName(t) ==
  /\ At(t, "abandon")
  /\ registry' = registry \ {path}
  /\ Go(t, "another")
  /\ UNCHANGED <<borrow, fileBytes, openLock, terminated, claimed, path, rival, shared, disk,
                 local, calls>>

\* A name with a token, of which only the last tried stays in the registry; when
\* all the attempts fail, the name it wanted, whoever has it.
TakeAnother(t) ==
  /\ At(t, "another")
  /\ claimed' = TRUE
  /\ \/ /\ path' = "token" /\ registry' = registry \cup {"token"}
        /\ files' = [g \in Generations |-> None]
        /\ size' = Sizes(files', table)
        /\ UNCHANGED shared
     \/ /\ registry' = registry \cup {path} /\ shared' = TRUE
        /\ UNCHANGED <<path, files, size>>
  /\ Go(t, "create")
  /\ UNCHANGED <<borrow, fileBytes, openLock, terminated, rival, table, local, calls>>

ClaimPath(t) == TryName(t) \/ ProbeName(t) \/ AbandonName(t) \/ TakeAnother(t)

\* Which new file it is makes no difference.
NewFile == CHOOSE i \in Inodes : i \notin Kept(files, table)

\* A size that is not read back from the file.
SizeFound_Zero(i) == 0
\* os.fstat(fd).st_size
SizeFound(i) == size[i]

\* os.open with O_APPEND | O_CREAT, and fstat; or the open fails.
CreateFile(t) ==
  /\ At(t, "create")
  /\ \/ /\ broken' = [broken EXCEPT ![t] = TRUE]
        /\ Go(t, "unlock")
        /\ UNCHANGED <<disk, got, aimed, fileBytes>>
     \/ /\ files[0] # None \/ Inodes \ Kept(files, table) # {}
        /\ LET i == IF files[0] # None THEN files[0] ELSE NewFile
           IN  \E f \in FDs :
                 /\ table[f] = "closed"
                 /\ table' = [table EXCEPT ![f] = i]
                 /\ files' = [files EXCEPT ![0] = i]
                 /\ got' = [got EXCEPT ![t] = f]
                 /\ aimed' = [aimed EXCEPT ![t] = i]
                 /\ fileBytes' = SizeFound(i)
        /\ Go(t, "install")
        /\ UNCHANGED <<size, broken>>
  /\ UNCHANGED <<borrow, openLock, terminated, claim, closing, back, lines, rest, calls>>

InstallFd(t) ==
  /\ At(t, "install")
  /\ fd' = got[t]
  /\ got' = [got EXCEPT ![t] = None]
  /\ aimed' = [aimed EXCEPT ![t] = None]
  /\ Go(t, "recheck")
  /\ UNCHANGED <<writers, orphans, fileBytes, openLock, terminated, claim, disk,
                 closing, task, calls>>

\* An open that does not look at _terminated again.
AfterInstall_Trusts == "unlock"
\* close() may have run since the guard: then this open is undone.
AfterInstall == IF terminated THEN "undo" ELSE "unlock"

Recheck(t) ==
  /\ At(t, "recheck")
  /\ Go(t, AfterInstall)
  /\ UNCHANGED <<borrow, fileBytes, openLock, terminated, claim, disk, local, calls>>

Unlock(t) ==
  /\ At(t, "unlock")
  /\ openLock' = "free"
  /\ Go(t, IF t # "loop" /\ broken[t] THEN "ended" ELSE back[t])
  /\ UNCHANGED <<borrow, fileBytes, terminated, claim, disk, local, calls>>

-----------------------------------------------------------------------------
(* Giving the descriptor and the path back.                                *)

\* A close that does not care about a write in flight.
Retired_Anyway(t) ==
  /\ fd' = None
  /\ closing' = [closing EXCEPT ![t] = {fd}]
  /\ UNCHANGED orphans

\* What _close_fd does with an open descriptor under _fd_lock: a borrowed one
\* is left to its last writer.
Retired(t) ==
  /\ fd' = None
  /\ IF writers > 0
     THEN orphans' = orphans \cup {fd} /\ UNCHANGED closing
     ELSE closing' = [closing EXCEPT ![t] = {fd}] /\ UNCHANGED orphans

RetireFd(t, from, close, to) ==
  /\ At(t, from)
  /\ IF fd = None THEN UNCHANGED <<fd, orphans, closing>> ELSE Retired(t)
  /\ Go(t, IF closing'[t] = {} THEN to ELSE close)
  /\ UNCHANGED <<writers, fileBytes, openLock, terminated, claim, disk, got, aimed,
                 task, calls>>

\* os.close, outside the lock: the kernel may hand the numbers out again.
OsClose(t, from, to) ==
  /\ At(t, from)
  /\ table' = [f \in FDs |-> IF f \in closing[t] THEN "closed" ELSE table[f]]
  /\ size' = Sizes(files, table')
  /\ closing' = [closing EXCEPT ![t] = {}]
  /\ Go(t, to)
  /\ UNCHANGED <<borrow, fileBytes, openLock, terminated, claim, files, got, aimed,
                 task, calls>>

\* _release_path: the test ...
ReleaseCheck(t, from, held, free) ==
  /\ At(t, from)
  /\ Go(t, IF claimed THEN held ELSE free)
  /\ UNCHANGED <<borrow, fileBytes, openLock, terminated, claim, disk, local, calls>>

\* ... and what follows it, two accesses.  Nothing but the test keeps a second
\* thread out, and the name that is discarded is the one self.path has by then.
Unclaim(t, from, to) ==
  /\ At(t, from)
  /\ claimed' = FALSE
  /\ Go(t, to)
  /\ UNCHANGED <<borrow, fileBytes, openLock, terminated, path, registry, rival, shared, disk,
                 local, calls>>
Discard(t, from, to) ==
  /\ At(t, from)
  /\ registry' = registry \ {path}
  /\ Go(t, to)
  /\ UNCHANGED <<borrow, fileBytes, openLock, terminated, claimed, path, rival, shared, disk,
                 local, calls>>

UndoOpen(t) ==
  \/ RetireFd(t, "undo", "undoClose", "undoCheck")
  \/ OsClose(t, "undoClose", "undoCheck")
  \/ ReleaseCheck(t, "undoCheck", "undoUnclaim", "unlock")
  \/ Unclaim(t, "undoUnclaim", "undoDiscard")
  \/ Discard(t, "undoDiscard", "unlock")

-----------------------------------------------------------------------------
(* Rotation, all of it under _open_lock.                                   *)

\* Every generation moves up one and the oldest is dropped ...
Shifted == [g \in Generations |-> IF g = 0 THEN None ELSE files[g - 1]]
\* ... or moving generation p fails, after those above it have moved.
Interrupted(p) ==
  [g \in Generations |-> IF g <= p THEN files[g] ELSE IF g = p + 1 THEN None ELSE files[g - 1]]

\* The renames of _rotate_locked; whether or not one of them fails, the active
\* file is opened again before the lock is released.
Rename(w) ==
  /\ At(w, "rename")
  /\ \/ files' = Shifted /\ UNCHANGED broken
     \/ /\ \E p \in Generations : files[p] # None /\ files' = Interrupted(p)
        /\ broken' = [broken EXCEPT ![w] = TRUE]
  /\ size' = Sizes(files', table)
  /\ fileBytes' = 0
  /\ Go(w, "open")
  /\ UNCHANGED <<borrow, openLock, terminated, claim, table, got, aimed, closing, back,
                 lines, rest, calls>>

Rotate(w) ==
  \/ RetireFd(w, "rotate", "shut", "rename")
  \/ OsClose(w, "shut", "rename")
  \/ Rename(w)

-----------------------------------------------------------------------------
(* _write_batch.                                                           *)

BeginBatch(w) ==
  /\ At(w, "idle") /\ calls < Calls
  /\ calls' = calls + 1
  /\ \E b \in BatchShapes : lines' = [lines EXCEPT ![w] = b]
  /\ Go(w, "ensure")
  /\ UNCHANGED <<borrow, fileBytes, openLock, terminated, claim, disk, got, aimed,
                 closing, back, broken, rest>>

\* The call returns, or raises: what is left of the batch is FileSink's.
EndBatch(w) ==
  /\ At(w, "ended")
  /\ lines' = [lines EXCEPT ![w] = <<>>] /\ rest' = [rest EXCEPT ![w] = 0]
  /\ broken' = [broken EXCEPT ![w] = FALSE] /\ back' = [back EXCEPT ![w] = "check"]
  /\ Go(w, "idle")
  /\ UNCHANGED <<borrow, fileBytes, openLock, terminated, claim, disk, got, aimed,
                 closing, calls>>

\* How many of the lines s go into a file that holds n bytes: a line starts a
\* file of any size, but is not added past the limit.
Fitting_FreshFile(s, n) ==
  CHOOSE k \in 0..Len(s) :
    /\ \A j \in 1..k : n = 0 \/ n + SumFunction(SubSeq(s, 1, j)) <= Limit
    /\ k = Len(s) \/ (n # 0 /\ n + SumFunction(SubSeq(s, 1, k + 1)) > Limit)

Fits(s, n, j) ==
  LET used == n + SumFunction(SubSeq(s, 1, j - 1)) IN used = 0 \/ used + s[j] <= Limit
Fitting(s, n) ==
  CHOOSE k \in 0..Len(s) :
    /\ \A j \in 1..k : Fits(s, n, j)
    /\ k = Len(s) \/ ~Fits(s, n, k + 1)

\* Rule 1: a file that cannot take the whole batch is closed out first.
CheckBatch(w) ==
  /\ At(w, "check")
  /\ Go(w, IF terminated THEN "ended"
           ELSE IF fileBytes > 0 /\ fileBytes + SumFunction(lines[w]) > Limit
                THEN "wantRotate"
           ELSE "segment")
  /\ UNCHANGED <<borrow, fileBytes, openLock, terminated, claim, disk, local, calls>>

\* Rule 2: as many lines as fit, a rotation when not one does.
NextSegment(w) ==
  /\ At(w, "segment")
  /\ LET k == Fitting(lines[w], fileBytes)
     IN  /\ Go(w, IF lines[w] = <<>> THEN "ended"
                  ELSE IF k = 0 THEN "wantRotate" ELSE "borrow")
         /\ rest' = [rest EXCEPT ![w] = SumFunction(SubSeq(lines[w], 1, k))]
         /\ lines' = [lines EXCEPT ![w] = SubSeq(@, k + 1, Len(@))]
  /\ UNCHANGED <<borrow, fileBytes, openLock, terminated, claim, disk, got, aimed,
                 closing, back, broken, calls>>

\* A borrower enters the bookkeeping.
CountBorrower == writers' = writers + 1

\* _acquire_fd, atomic under _fd_lock; without a descriptor the batch fails.
AcquireFd(w) ==
  /\ At(w, "borrow")
  /\ IF fd = None
     THEN Go(w, "ended") /\ UNCHANGED <<writers, got, aimed>>
     ELSE /\ CountBorrower
          /\ got' = [got EXCEPT ![w] = fd]
          /\ aimed' = [aimed EXCEPT ![w] = IF table[fd] \in Inodes THEN table[fd] ELSE None]
          /\ Go(w, "write")
  /\ UNCHANGED <<fd, orphans, fileBytes, openLock, terminated, claim, disk, closing,
                 task, calls>>

\* os.write takes n bytes, through whatever the number stands for by now.
WriteSome(w) ==
  /\ At(w, "write")
  /\ \E n \in 1..rest[w] :
       /\ rest' = [rest EXCEPT ![w] = @ - n]
       /\ fileBytes' = fileBytes + n
       /\ size' = [i \in Inodes |-> size[i] + (IF table[got[w]] = i THEN n ELSE 0)]
  /\ UNCHANGED <<borrow, openLock, terminated, claim, table, files, pc, got, aimed,
                 closing, back, broken, lines, calls>>

\* The segment is written, or os.write or fsync raises.
WriteEnds(w) ==
  /\ At(w, "write")
  /\ \/ rest[w] = 0 /\ UNCHANGED broken
     \/ broken' = [broken EXCEPT ![w] = TRUE]
  /\ Go(w, "return")
  /\ UNCHANGED <<borrow, fileBytes, openLock, terminated, claim, disk, got, aimed,
                 closing, back, lines, rest, calls>>

\* _release_fd: the last writer takes the orphans over.
ReleaseFd(w) ==
  /\ At(w, "return")
  /\ writers' = writers - 1
  /\ IF writers' = 0
     THEN orphans' = {} /\ closing' = [closing EXCEPT ![w] = orphans]
     ELSE UNCHANGED <<orphans, closing>>
  /\ got' = [got EXCEPT ![w] = None]
  /\ aimed' = [aimed EXCEPT ![w] = None]
  /\ Go(w, "letgo")
  /\ UNCHANGED <<fd, fileBytes, openLock, terminated, claim, disk, task, calls>>

WriteStep(w) ==
  \/ CheckBatch(w) \/ NextSegment(w) \/ AcquireFd(w)
  \/ WriteSome(w) \/ WriteEnds(w) \/ ReleaseFd(w)
  \/ OsClose(w, "letgo", IF broken[w] THEN "ended" ELSE "segment")
  \/ EndBatch(w)

-----------------------------------------------------------------------------
(* The event loop, and the rest of the process.                            *)

StartOpens ==
  /\ At("loop", "off") /\ Go("loop", "ensure")
  /\ UNCHANGED <<borrow, fileBytes, openLock, terminated, claim, disk, local, calls>>

\* The finally block of close(), which waits for nobody.
Terminate ==
  /\ pc["loop"] \in {"off", "up"}
  /\ terminated' = TRUE
  /\ Go("loop", "end")
  /\ UNCHANGED <<borrow, fileBytes, openLock, claim, disk, local, calls>>

Teardown ==
  \/ RetireFd("loop", "end", "endClose", "endCheck")
  \/ OsClose("loop", "endClose", "endCheck")
  \/ ReleaseCheck("loop", "endCheck", "endUnclaim", "down")
  \/ Unclaim("loop", "endUnclaim", "endDiscard")
  \/ Discard("loop", "endDiscard", "down")

\* Another file or socket of the process.
ForeignOpen(f) ==
  /\ table[f] = "closed" /\ table' = [table EXCEPT ![f] = "foreign"]
  /\ UNCHANGED <<borrow, fileBytes, openLock, terminated, claim, files, size, pc, local,
                 calls>>
ForeignClose(f) ==
  /\ table[f] = "foreign" /\ table' = [table EXCEPT ![f] = "closed"]
  /\ UNCHANGED <<borrow, fileBytes, openLock, terminated, claim, files, size, pc, local,
                 calls>>

\* Another sink with the same service name, which runs the same code: it takes
\* FR-26's name when it is free, or shares it when it finds no other.
RivalClaims ==
  /\ HasRival /\ ~rival /\ "plain" \notin registry /\ Unlocked
  /\ rival' = TRUE /\ registry' = registry \cup {"plain"}
  /\ UNCHANGED <<borrow, fileBytes, openLock, terminated, claimed, path, shared, disk, pc,
                 local, calls>>
RivalShares ==
  /\ HasRival /\ ~rival
  /\ rival' = TRUE /\ registry' = registry \cup {"plain"} /\ shared' = TRUE
  /\ UNCHANGED <<borrow, fileBytes, openLock, terminated, claimed, path, disk, pc, local,
                 calls>>
RivalReleases ==
  /\ rival /\ rival' = FALSE /\ registry' = registry \ {"plain"}
  /\ UNCHANGED <<borrow, fileBytes, openLock, terminated, claimed, path, shared, disk, pc,
                 local, calls>>

OpenStep(t) ==
  \/ EnsureOpen(t) \/ TakeOpenLock(t) \/ OpenGuards(t) \/ ClaimPath(t)
  \/ CreateFile(t) \/ InstallFd(t) \/ Recheck(t) \/ UndoOpen(t) \/ Unlock(t)

Next ==
  \/ \E t \in Threads : OpenStep(t)
  \/ \E w \in Workers : BeginBatch(w) \/ WriteStep(w) \/ Rotate(w)
  \/ StartOpens \/ Terminate \/ Teardown
  \/ \E f \in FDs : ForeignOpen(f) \/ ForeignClose(f)
  \/ RivalClaims \/ RivalShares \/ RivalReleases

Spec == Init /\ [][Next]_vars

\* Threads run and the disk answers; the rest of the process owes nothing.
ThreadFairness ==
  /\ \A t \in Threads : WF_vars(OpenStep(t))
  /\ \A w \in Workers : WF_vars(Rotate(w)) /\ WF_vars(WriteStep(w))
  /\ WF_vars(Teardown)
FairSpec == Spec /\ ThreadFairness

-----------------------------------------------------------------------------
(* What the code promises.                                                 *)

\* Audit bytes never go anywhere but to the file they were meant for: while a
\* thread writes, its descriptor is open on the file it borrowed it for, though
\* close(), rotations and other owners of the number come and go.
NoMisdirectedWrite ==
  \A w \in Workers :
    At(w, "write") => /\ got[w] \in FDs /\ aimed[w] \in Inodes
                      /\ table[got[w]] = aimed[w]

\* After close() a sink that has come to rest owns no descriptor.
NothingLeftOpen ==
  At("loop", "down") /\ (\A w \in Workers : At(w, "idle"))
    => /\ fd = None /\ orphans = {}
       /\ \A f \in FDs : table[f] \notin Inodes

\* On a path that is not shared, the descriptor always leads to the file that has
\* the active name, never to a generation that was rotated away.
AppendsToActive == ~shared /\ openLock = "free" /\ fd # None => table[fd] = files[0]

\* On a path that is not shared, _file_bytes is the size of the active file.
CountsItsBytes == ~shared /\ openLock = "free" /\ fd # None => fileBytes = size[table[fd]]

\* FR-22: a file outgrows file_max_bytes only by a single line that is larger,
\* counting what this sink writes.
FilesBounded ==
  \A i \in Inodes :
    \/ size[i] <= Limit
    \/ \E b \in BatchShapes : \E j \in DOMAIN b : b[j] > Limit /\ size[i] <= b[j]

\* _claim_path: until close() begins, a sink that has its file open or a write in
\* flight has its path in the registry, and it is not FR-26's name if the other
\* sink has that; the one exception is the fallback, by which either shares it.
PathsDisjoint ==
  ~terminated /\ ~shared /\ (fd # None \/ \E w \in Workers : At(w, "write"))
    => claimed /\ path \in registry /\ (path = "plain" => ~rival)

\* "A file no other live sink is writing", also while writes outlive close():
\* once another sink has FR-26's name, no write of this one is under way to the
\* file of that name.  It takes flock, and one write at a time.
NoLateWriter ==
  rival /\ ~shared /\ path = "plain"
    => \A w \in Workers : At(w, "write") => table[got[w]] # files[0]

\* A closed sink lets go of every descriptor once its threads have run on.
DescriptorsReleased == terminated ~> [](fd = None /\ \A f \in FDs : table[f] \notin Inodes)

\* What the comment in _open_locked says: the claim is released exactly once, so
\* the release never takes the claim of the sink that owns the path by then.
ClaimReleasedOnce == rival /\ ~shared => "plain" \in registry
=============================================================================
