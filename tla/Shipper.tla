------------------------------ MODULE Shipper ------------------------------
(***************************************************************************)
(* ElasticsearchShipper: one task per worker process that tails the JSONL  *)
(* files in the log directory and posts their lines to Elasticsearch.      *)
(*                                                                         *)
(* A process ships its own files and those of processes that are gone.     *)
(* Progress is an offset per inode, in memory (_state) and in a state file *)
(* per process that the process which adopts its files reads.  Between two *)
(* steps of a shipper the sink of any process may write or rotate, other   *)
(* processes ship, die and restart, and a POST may be answered, refused,   *)
(* or carried out without an answer.                                       *)
(*                                                                         *)
(* A file is the sequence of its complete lines: readline() leaves a line  *)
(* the sink is in the middle of for the next tick, so a line exists for    *)
(* the shipper from the moment its newline does.  A line is its number in  *)
(* the order of writing.  Bootstrapping the cluster only delays a tick.    *)
(***************************************************************************)
EXTENDS Integers, Sequences, SequencesExt, FiniteSets

CONSTANTS
  Procs,        \* the worker processes, by pid
  Writers,      \* those whose sink has something to write
  Inodes,       \* inode numbers of the log directory
  MaxLines,     \* bounds the lines written
  PerFile,      \* lines that fill a file
  Backups,      \* file_backup_count
  BatchSize,    \* ship_batch_size
  Anonymous,    \* lines without an event.id
  Poison,       \* lines Elasticsearch refuses
  Stops,        \* bounds the deaths and the calls of close()
  ReuseInodes,  \* the filesystem gives the inode of a removed file to a new one
  OpenRaces     \* a rotation may fall between the stat and the open of a file

ASSUME ShipperAssumption ==
  /\ Procs \subseteq Nat /\ IsFiniteSet(Procs) /\ Writers \subseteq Procs
  /\ Inodes \subseteq Nat \ {0} /\ IsFiniteSet(Inodes)
  /\ MaxLines \in Nat /\ PerFile \in Nat \ {0} /\ Backups \in Nat
  /\ BatchSize \in Nat \ {0} /\ Stops \in Nat
  /\ Anonymous \subseteq Nat /\ Poison \subseteq Nat
  /\ ReuseInodes \in BOOLEAN /\ OpenRaces \in BOOLEAN

VARIABLES
  names,      \* files of each process: the active one first, then .1, .2, ...
  content,    \* lines of each inode
  spent,      \* inode numbers used so far
  written,    \* lines written so far
  pc,         \* where each shipper is
  offs,       \* _state: lines of each inode this process knows shipped, 0 if absent
  saved,      \* the state file of each process
  dirty,      \* _state_dirty
  locks,      \* _orphans: names a process holds the flock for, with the inode held
  todo,       \* the rest of _claimable_files()
  key, off,   \* of _ship_file: the inode stat() found, the offset to read from
  file,       \* the inode its handle is open on
  batch,      \* the lines of the POST under way
  closing,    \* close(): not called, asked for, in the final tick, timed out
  copies,     \* history: documents in the index for each line
  refused,    \* lines counted lost because Elasticsearch refused them
  dropped,    \* history: lines removed from disk while unshipped
  disturbed,  \* history: something happened after which lines may be sent again
  owed,       \* history: lines unshipped when close() was called, none failed since
  stops       \* deaths and closes so far

disk   == <<names, content, spent, written, dropped>>
book   == <<offs, saved, dirty, locks>>
task   == <<todo, key, off, file, batch>>
index  == <<copies, refused>>
life   == <<closing, stops, owed>>
vars   == <<disk, pc, book, task, index, life, disturbed>>

None == 0
Lines == 1..MaxLines
Names == Procs \X (0..Backups)

\* The order of sorted(log_dir.glob(...)): a file before its rotations.
Before(a, b) == a[1] < b[1] \/ (a[1] = b[1] /\ a[2] < b[2])
First(S) == CHOOSE n \in S : \A m \in S \ {n} : Before(n, m)

TypeOK ==
  /\ names \in [Procs -> Seq(Inodes)] /\ content \in [Inodes -> Seq(Lines)]
  /\ spent \subseteq Inodes /\ written \in 0..MaxLines
  /\ pc \in [Procs -> {"sleep", "file", "open", "read", "post", "stopped", "dead"}]
  /\ offs \in [Procs -> [Inodes -> Nat]] /\ saved \in [Procs -> [Inodes -> Nat]]
  /\ dirty \in [Procs -> BOOLEAN] /\ locks \in [Procs -> SUBSET (Names \X Inodes)]
  /\ todo \in [Procs -> SUBSET Names]
  /\ key \in [Procs -> Inodes \cup {None}] /\ off \in [Procs -> Nat]
  /\ file \in [Procs -> Inodes \cup {None}] /\ batch \in [Procs -> Seq(Lines)]
  /\ closing \in [Procs -> {"no", "asked", "final", "cancelled"}]
  /\ copies \in [Lines -> 0..2] /\ refused \subseteq Lines
  /\ dropped \subseteq Lines /\ disturbed \in BOOLEAN
  /\ owed \in [Procs -> SUBSET Lines] /\ stops \in 0..Stops

Init ==
  /\ names = [p \in Procs |-> <<>>] /\ content = [i \in Inodes |-> <<>>]
  /\ spent = {} /\ written = 0
  /\ pc = [p \in Procs |-> "sleep"]
  /\ offs = [p \in Procs |-> [i \in Inodes |-> 0]] /\ saved = offs
  /\ dirty = [p \in Procs |-> FALSE] /\ locks = [p \in Procs |-> {}]
  /\ todo = [p \in Procs |-> {}]
  /\ key = [p \in Procs |-> None] /\ off = [p \in Procs |-> 0]
  /\ file = [p \in Procs |-> None] /\ batch = [p \in Procs |-> <<>>]
  /\ closing = [p \in Procs |-> "no"]
  /\ copies = [l \in Lines |-> 0] /\ refused = {} /\ dropped = {}
  /\ disturbed = FALSE /\ owed = [p \in Procs |-> {}] /\ stops = 0

Dead(p) == pc[p] = "dead"
At(p, label) == pc[p] = label
Go(p, label) == pc' = [pc EXCEPT ![p] = label]

Settled == {l \in Lines : copies[l] > 0} \cup refused
LinesOf(i) == Range(content[i])
OwnLines(p) == UNION {LinesOf(i) : i \in Range(names[p])}
NamedInodes == UNION {Range(names[p]) : p \in Procs}
Exists(n) == n[2] < Len(names[n[1]])
InodeAt(n) == names[n[1]][n[2] + 1]

-----------------------------------------------------------------------------
(***************************************************************************)
(* The sinks, which share nothing with the shippers but the directory.     *)
(***************************************************************************)
\* Names and open handles keep an inode; its number may come back after that.
Free(i, named) ==
  /\ i \notin named /\ (ReuseInodes \/ i \notin spent)
  /\ \A p \in Procs : file[p] # i /\ \A h \in locks[p] : h[2] # i

\* Also before the first line, when there is no file yet.
Full(p) == names[p] # <<>> => Len(content[names[p][1]]) >= PerFile

Write(p) ==
  /\ p \in Writers /\ ~Dead(p) /\ written < MaxLines /\ ~Full(p)
  /\ written' = written + 1
  /\ content' = [content EXCEPT ![names[p][1]] = Append(@, written + 1)]
  /\ UNCHANGED <<names, spent, dropped, pc, book, task, index, life, disturbed>>

\* os.rename takes the generations up by one and the oldest out of the directory.
\* The lowest free number stands for any: numbers are only compared for equality.
Rotate(p) ==
  LET kept == SubSeq(names[p], 1, Min({Len(names[p]), Backups}))
      gone == Range(names[p]) \ Range(kept)
      free == {i \in Inodes : Free(i, NamedInodes \ gone)}
  IN  /\ p \in Writers /\ ~Dead(p) /\ written < MaxLines /\ Full(p)
      /\ OpenRaces \/ \A q \in Procs : ~At(q, "open")
      /\ free # {}
      /\ names' = [names EXCEPT ![p] = <<Min(free)>> \o kept]
      /\ content' = [content EXCEPT ![Min(free)] = <<>>]
      /\ spent' = spent \cup {Min(free)}
      /\ dropped' = dropped \cup (UNION {LinesOf(i) : i \in gone} \ Settled)
      /\ UNCHANGED <<written, pc, book, task, index, life, disturbed>>

-----------------------------------------------------------------------------
(***************************************************************************)
(* One tick.                                                               *)
(***************************************************************************)
Unlocked_Ignored(p, i) == TRUE
\* Nobody else has the flock: locks are on files, not on names.
Unlocked(p, i) == \A q \in Procs \ {p} : \A h \in locks[q] : h[2] # i

\* A shipper that leaves the files of the dead alone.
Claims_OwnOnly(p, n) == n[1] = p
Claims(p, n) ==
  \/ n[1] = p
  \/ Dead(n[1]) /\ (\/ \E h \in locks[p] : h[1] = n
                    \/ Unlocked(p, InodeAt(n)))

\* The dead worker's offset, unless this process has one of its own.
Adopted(p, i, q) == IF offs[p][i] = 0 THEN saved[q][i] ELSE offs[p][i]

ClaimFiles(p) ==
  LET mine  == {n \in Names : Exists(n) /\ Claims(p, n)}
      fresh == {n \in mine : n[1] # p /\ \A h \in locks[p] : h[1] # n}
  IN  /\ todo' = [todo EXCEPT ![p] = mine]
      /\ locks' = [locks EXCEPT ![p] = @ \cup {<<n, InodeAt(n)>> : n \in fresh}]
      /\ offs' = [offs EXCEPT ![p] = [i \in Inodes |->
           IF \E n \in fresh : InodeAt(n) = i
           THEN Adopted(p, i, (CHOOSE n \in fresh : InodeAt(n) = i)[1]) ELSE @[i]]]
      /\ dirty' = [dirty EXCEPT ![p] = @ \/ offs'[p] # offs[p]]

\* The loop of _run: a tick while not stopping, and one more after that.
Tick(p) ==
  /\ At(p, "sleep")
  /\ closing' = [closing EXCEPT ![p] = IF @ = "asked" THEN "final" ELSE @]
  /\ ClaimFiles(p)
  /\ Go(p, "file")
  /\ UNCHANGED <<disk, saved, key, off, file, batch, index, stops, owed, disturbed>>

Stopping(p) == closing[p] # "no"

\* A tick ends: the task sleeps, or it was the final one and the task is over.
EndsTick(p) == Go(p, IF closing[p] = "final" THEN "stopped" ELSE "sleep")

SkipFile(p) ==
  /\ todo' = [todo EXCEPT ![p] = @ \ {First(@)}]
  /\ UNCHANGED <<key, off>>

\* stat(): a file that is gone, or has nothing past the offset, is passed over.
Look(p) ==
  /\ At(p, "file") /\ todo[p] # {}
  /\ LET n == First(todo[p]) IN
       \/ /\ ~Exists(n)
          /\ SkipFile(p) /\ UNCHANGED pc
       \/ /\ Exists(n) /\ Len(content[InodeAt(n)]) <= offs[p][InodeAt(n)]
          /\ SkipFile(p) /\ UNCHANGED pc
       \/ /\ Exists(n) /\ Len(content[InodeAt(n)]) > offs[p][InodeAt(n)]
          /\ key' = [key EXCEPT ![p] = InodeAt(n)]
          /\ off' = [off EXCEPT ![p] = offs[p][InodeAt(n)]]
          /\ Go(p, "open") /\ UNCHANGED todo
  /\ UNCHANGED <<disk, book, file, batch, index, life, disturbed>>

\* open() by name; FileNotFoundError ends the tick in the handler of _run.
Open(p) ==
  /\ At(p, "open")
  /\ LET n == First(todo[p]) IN
       \/ /\ Exists(n)
          /\ file' = [file EXCEPT ![p] = InodeAt(n)] /\ Go(p, "read")
       \/ /\ ~Exists(n)
          /\ EndsTick(p) /\ UNCHANGED file
  /\ UNCHANGED <<disk, book, todo, key, off, batch, index, life, disturbed>>

\* The lines of the handle past the offset, at most ship_batch_size of them.
NextBatch(p) ==
  LET upTo == Min({Len(content[file[p]]), off[p] + BatchSize})
  IN  SubSeq(content[file[p]], off[p] + 1, upTo)

LetGo(p) ==
  /\ file' = [file EXCEPT ![p] = None] /\ key' = [key EXCEPT ![p] = None]
  /\ off' = [off EXCEPT ![p] = 0] /\ batch' = [batch EXCEPT ![p] = <<>>]

LeaveFile(p) ==
  /\ todo' = [todo EXCEPT ![p] = @ \ {First(@)}]
  /\ LetGo(p) /\ Go(p, "file")

AbortTick(p) ==
  /\ todo' = [todo EXCEPT ![p] = {}]
  /\ LetGo(p) /\ EndsTick(p)

\* while not self._stopping.is_set()
GoesOn(p) == ~Stopping(p)

Read(p) ==
  /\ At(p, "read")
  /\ \/ /\ GoesOn(p) /\ NextBatch(p) # <<>>
        /\ batch' = [batch EXCEPT ![p] = NextBatch(p)]
        /\ Go(p, "post") /\ UNCHANGED <<todo, key, off, file>>
     \/ /\ ~GoesOn(p) \/ NextBatch(p) = <<>>
        /\ LeaveFile(p)
  /\ UNCHANGED <<disk, book, index, life, disturbed>>

-----------------------------------------------------------------------------
(***************************************************************************)
(* The POST.  Elasticsearch, as the bulk API is used here: create with the *)
(* event.id as _id answers 409 for a line it has, a line without an id is  *)
(* stored as often as it is sent, and a document that does not fit the     *)
(* mapping is refused by itself.                                           *)
(***************************************************************************)
Status(l) ==
  CASE l \in Poison -> 400
    [] l \notin Poison /\ l \notin Anonymous /\ copies[l] > 0 -> 409
    [] OTHER -> 201

\* copies counts up to 2, which stands for any number above one.
Stored(ls) == [l \in Lines |->
  IF l \in ls /\ Status(l) = 201 THEN Min({copies[l] + 1, 2}) ELSE copies[l]]

CountsAsLost_Any(l) == Status(l) >= 300
CountsAsLost(l) == Status(l) >= 300 /\ Status(l) # 409

Posted(p) == Range(batch[p])

\* _save_state: os.replace puts the whole file in place, or an error leaves the old one.
SaveState(p, files, now, moved) ==
  \/ /\ ~moved
     /\ saved' = files /\ dirty' = [dirty EXCEPT ![p] = FALSE]
     /\ UNCHANGED disturbed
  \/ /\ moved
     /\ saved' = [files EXCEPT ![p] = now] /\ dirty' = [dirty EXCEPT ![p] = FALSE]
     /\ UNCHANGED disturbed
  \/ /\ moved
     /\ saved' = files /\ dirty' = [dirty EXCEPT ![p] = TRUE]
     /\ disturbed' = TRUE

\* Refused documents count as consumed, or they would block the lines behind them.
Consumed(p) == Len(batch[p])

Answered(p) ==
  /\ At(p, "post")
  /\ copies' = Stored(Posted(p))
  /\ refused' = refused \cup {l \in Posted(p) : CountsAsLost(l)}
  /\ off' = [off EXCEPT ![p] = @ + Consumed(p)]
  /\ offs' = [offs EXCEPT ![p][key[p]] = off'[p]]
  /\ SaveState(p, saved, offs'[p], TRUE)
  /\ batch' = [batch EXCEPT ![p] = <<>>] /\ Go(p, "read")
  /\ UNCHANGED <<disk, locks, todo, key, file, life>>

\* The request was carried out or it was not, and this process will not know.
MaybeStored(p, also) ==
  \/ /\ copies' = Stored(Posted(p)) /\ disturbed' = TRUE
  \/ /\ UNCHANGED copies /\ disturbed' = (disturbed \/ also)

Excused(p) == owed' = [owed EXCEPT ![p] = {}]

Unanswered_MovesOn(p) ==
  /\ At(p, "post")
  /\ MaybeStored(p, FALSE) /\ Excused(p)
  /\ offs' = [offs EXCEPT ![p][key[p]] = off[p] + Consumed(p)]
  /\ LeaveFile(p)
  /\ UNCHANGED <<disk, saved, dirty, locks, refused, closing, stops>>

\* No connection, no answer, or a status of 300 and above: the same lines next tick.
Unanswered(p) ==
  /\ At(p, "post")
  /\ MaybeStored(p, FALSE) /\ Excused(p)
  /\ LeaveFile(p)
  /\ UNCHANGED <<disk, book, refused, closing, stops>>

\* An answer that is not JSON raises out of _bulk and ends the tick.
Garbled(p) ==
  /\ At(p, "post")
  /\ MaybeStored(p, FALSE) /\ Excused(p)
  /\ AbortTick(p)
  /\ UNCHANGED <<disk, book, refused, closing, stops>>

-----------------------------------------------------------------------------
\* A dead worker's state file stays as long as one of its files does.
Reapable(p, q) == q # p /\ names[q] = <<>> /\ Dead(q)

Kept(p) == [i \in Inodes |-> IF i \in NamedInodes THEN offs[p][i] ELSE 0]

\* The end of _tick: _prune, _reap_state_files, _save_state.
Prune(p) ==
  /\ At(p, "file") /\ todo[p] = {}
  /\ offs' = [offs EXCEPT ![p] = Kept(p)]
  /\ locks' = [locks EXCEPT ![p] = {h \in @ : Exists(h[1])}]
  /\ LET left == [q \in Procs |-> IF Reapable(p, q) THEN [i \in Inodes |-> 0] ELSE saved[q]]
     IN  SaveState(p, left, Kept(p), dirty[p] \/ Kept(p) # offs[p])
  /\ EndsTick(p)
  /\ UNCHANGED <<disk, task, index, life>>

-----------------------------------------------------------------------------
(***************************************************************************)
(* Lives of the processes.                                                 *)
(***************************************************************************)
Close(p) ==
  /\ ~Dead(p) /\ closing[p] = "no" /\ stops < Stops
  /\ closing' = [closing EXCEPT ![p] = "asked"]
  /\ owed' = [owed EXCEPT ![p] = OwnLines(p) \ Settled]
  /\ stops' = stops + 1
  /\ UNCHANGED <<disk, pc, book, task, index, disturbed>>

\* shutdown_flush_timeout: the task is cancelled where it waits.
CloseTimesOut(p) ==
  /\ closing[p] \in {"asked", "final"} /\ pc[p] \in {"sleep", "post"}
  /\ closing' = [closing EXCEPT ![p] = "cancelled"]
  /\ MaybeStored(p, FALSE) /\ Excused(p)
  /\ todo' = [todo EXCEPT ![p] = {}] /\ LetGo(p) /\ Go(p, "stopped")
  /\ UNCHANGED <<disk, book, refused, stops>>

\* What the process shipped of another's files is in no file an heir of them reads.
UnsharedProgress(p) ==
  \E h \in locks[p] : offs[p][h[2]] # saved[h[1][1]][h[2]]

\* Memory is gone, the kernel closes the handles and releases the flocks.
Gone(p) ==
  /\ MaybeStored(p, UnsharedProgress(p)) /\ Excused(p)
  /\ offs' = [offs EXCEPT ![p] = [i \in Inodes |-> 0]]
  /\ dirty' = [dirty EXCEPT ![p] = FALSE] /\ locks' = [locks EXCEPT ![p] = {}]
  /\ todo' = [todo EXCEPT ![p] = {}] /\ LetGo(p) /\ Go(p, "dead")
  /\ closing' = [closing EXCEPT ![p] = "no"]
  /\ UNCHANGED <<disk, saved, refused>>

Exit(p) == At(p, "stopped") /\ Gone(p) /\ UNCHANGED stops

Die(p) ==
  /\ pc[p] \notin {"stopped", "dead"} /\ stops < Stops
  /\ Gone(p) /\ stops' = stops + 1

\* Another process has, or had, files of p: it holds one, or knows how far one is.
HasHeirs(p) == \E q \in Procs \ {p} :
  \/ \E h \in locks[q] : h[1][1] = p
  \/ \E i \in Range(names[p]) : offs[q][i] # 0 \/ saved[q][i] # 0

\* A process with the pid of a dead one, as the next container has: _load_state.
Restart(p) ==
  /\ Dead(p) /\ Go(p, "sleep")
  /\ offs' = [offs EXCEPT ![p] = saved[p]]
  /\ disturbed' = (disturbed \/ HasHeirs(p))
  /\ UNCHANGED <<disk, saved, dirty, locks, task, index, life>>

\* Retention removes the oldest file of a process that is gone.
Retire(p) ==
  /\ Dead(p) /\ names[p] # <<>>
  /\ names' = [names EXCEPT ![p] = Front(@)]
  /\ dropped' = dropped \cup (LinesOf(Last(names[p])) \ Settled)
  /\ UNCHANGED <<content, spent, written, pc, book, task, index, life, disturbed>>

Next == \E p \in Procs :
  \/ Write(p) \/ Rotate(p)
  \/ Tick(p) \/ Look(p) \/ Open(p) \/ Read(p) \/ Prune(p)
  \/ Answered(p) \/ Unanswered(p) \/ Garbled(p)
  \/ Close(p) \/ CloseTimesOut(p) \/ Exit(p) \/ Die(p) \/ Restart(p) \/ Retire(p)

Spec == Init /\ [][Next]_vars

\* The event loop runs the task; a process that stopped exits; a shipper that keeps
\* posting is answered now and then.  Nobody owes a dead process a successor.
Fairness == \A p \in Procs :
  /\ WF_vars(Tick(p)) /\ WF_vars(Look(p)) /\ WF_vars(Open(p)) /\ WF_vars(Read(p))
  /\ WF_vars(Prune(p)) /\ WF_vars(Exit(p))
  /\ SF_vars(Answered(p))

FairSpec == Spec /\ Fairness

-----------------------------------------------------------------------------
(***************************************************************************)
(* Properties.                                                             *)
(***************************************************************************)
\* Progress never covers a line that was not delivered: what an offset in memory
\* or in a state file passes over is in the index or counted as refused, whatever
\* was rotated, adopted, lost or restarted in between (shipper.py:443-480).
NothingSkipped ==
  \A p \in Procs, i \in NamedInodes :
    \A k \in 1..Max({offs[p][i], saved[p][i]}) :
      k <= Len(content[i]) /\ content[i][k] \in Settled

\* A line Elasticsearch cannot recognise is stored once, unless a reply or a state
\* file was lost, or a pid came back after another process had its files: one heir
\* per file, which starts where the dead worker stopped (shipper.py:341-390).
SentOnce == ~disturbed => \A l \in Lines : copies[l] <= 1

\* shipper.py:342, "Continue the dead worker's progress through the file it left":
\* whoever claims a file starts no earlier than the dead worker's state file says.
ClaimContinues == [][\A p \in Procs : \A h \in locks'[p] \ locks[p] :
  offs'[p][h[2]] >= saved[h[1][1]][h[2]]]_vars

\* A replayed line that Elasticsearch has is not counted among the lost
\* (shipper.py:533).
LostIsNotStored == \A l \in refused : copies[l] = 0

\* Every line on disk is delivered or counted as refused, or rotation or retention
\* removes it first: no lost reply and no refused neighbour keeps it back for good,
\* and the lines of a worker that died and never comes back are shipped by those
\* that are left (shipper.py:228-258, 323-390).
EveryLineShips ==
  \A l \in Lines : (written >= l) ~> (l \in Settled \cup dropped)

\* shipper.py:240, "Final drain, so a graceful shutdown does not strand the last
\* records": after a close() in which no POST failed, the lines that were there
\* when it was called are delivered.
DrainedOnClose ==
  \A p \in Procs :
    At(p, "stopped") /\ closing[p] = "final" => owed[p] \subseteq Settled \cup dropped

\* shipper.py:453, "nothing new; also the case for a fully shipped rotation": a
\* file no longer than its offset has been delivered.
NothingNewBelowOffset ==
  \A p \in Procs, i \in NamedInodes :
    Len(content[i]) <= offs[p][i] => LinesOf(i) \subseteq Settled
=============================================================================
