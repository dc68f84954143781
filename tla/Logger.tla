------------------------------- MODULE Logger -------------------------------
(***************************************************************************)
(* The request log of stats/logger.go.  Handlers hand entries to a bounded *)
(* channel and never wait; one writer goroutine appends them to the file,  *)
(* rotating it by day and by size, and then shows them in a ring that the  *)
(* admin pages read.  Close stops the writer; main calls it when           *)
(* ListenAndServe returns, while handlers may still be running.            *)
(*                                                                         *)
(* A log line is its number of bytes, a day is a number, and the file      *)
(* system may fail any rename, open or write.  Truncating an existing file *)
(* and removing a backup are assumed to work.                              *)
(***************************************************************************)
EXTENDS Integers, Sequences

CONSTANTS
  Entries,       \* log calls, one handler each
  Bytes,         \* length of each entry's line
  QueueCap,      \* 4096 in the code
  RingSize,      \* at least 16 in the code
  MaxSize,       \* log_max_bytes; 0 or less disables size rotation
  Retentions,    \* values of log_retention_days considered; 0 keeps everything
  Unused,        \* an unused slot
  LastDay, MaxFaults, MaxRestarts \* bounds

ASSUME LoggerAssumption ==
  /\ Bytes \in [Entries -> Nat \ {0}] /\ Unused \notin Entries
  /\ QueueCap \in Nat \ {0} /\ RingSize \in Nat \ {0} /\ MaxSize \in Nat
  /\ Retentions \subseteq Nat /\ Retentions # {}
  /\ LastDay \in Nat /\ MaxFaults \in Nat /\ MaxRestarts \in Nat

VARIABLES
  call,           \* per entry, where its Log call stands
  closed, sealed, \* the flag Close swaps; the channel is closed
  queue,
  writer, item,   \* the writer goroutine and the entry it holds
  closer,         \* the goroutine in Close
  data, ringHead, count, \* the ring
  seen,           \* history: the entries shown, in order
  file,           \* [handle, there, size, written], see FileOK
  curDay, today, backups, \* backups: the days with a file path.YYYY-MM-DD
  retention, faults, restarts

chanVars == <<closed, sealed, queue>>
ringVars == <<data, ringHead, count, seen>>
diskVars == <<file, curDay, backups, faults>>
dayVars == <<today, retention, restarts>>
loggerVars == <<call, chanVars, writer, item, closer, ringVars, diskVars, dayVars>>

\* The file at path: whether it is there and its size; what l.file refers to
\* ("null" is os.DevNull, "nil" no file); and the size the logger believes in.
Handles == {"file", "null", "nil", "closed"}
Opened(size) == [handle |-> "file", there |-> TRUE, size |-> size, written |-> size]

-----------------------------------------------------------------------------
LoggerInit ==
  /\ call = [e \in Entries |-> "idle"]
  /\ closed = FALSE /\ sealed = FALSE /\ queue = <<>>
  /\ writer = "receive" /\ item = Unused /\ closer = "running"
  /\ data = [j \in 0 .. RingSize - 1 |-> Unused] /\ ringHead = 0 /\ count = 0
  /\ seen = <<>>
  /\ file = Opened(0)
  /\ curDay = 0 /\ today = 0 /\ backups = {}
  /\ retention \in Retentions /\ faults = 0 /\ restarts = 0

\* Log, its load of the flag and its non-blocking send.
Check(e) ==
  /\ call[e] = "idle"
  /\ call' = [call EXCEPT ![e] = IF closed THEN "ignored" ELSE "open"]
  /\ UNCHANGED <<chanVars, writer, item, closer, ringVars, diskVars, dayVars>>

HasRoom == Len(queue) < QueueCap

Send(e) ==
  /\ call[e] = "open"
  /\ IF sealed \* sending on a closed channel panics, with or without a default
       THEN call' = [call EXCEPT ![e] = "panicked"] /\ UNCHANGED queue
     ELSE IF HasRoom
       THEN call' = [call EXCEPT ![e] = "queued"] /\ queue' = Append(queue, e)
       ELSE call' = [call EXCEPT ![e] = "dropped"] /\ UNCHANGED queue
  /\ UNCHANGED <<closed, sealed, writer, item, closer, ringVars, diskVars, dayVars>>

\* Mutant: the writer leaves as soon as Close has begun.
DrainedFlag == closed

Drained == sealed /\ queue = <<>>

\* run: the next entry, or the end once the closed channel is empty.
Receive ==
  /\ writer = "receive"
  /\ \/ /\ queue # <<>>
        /\ writer' = "write" /\ item' = Head(queue) /\ queue' = Tail(queue)
     \/ /\ Drained
        /\ writer' = "gone" /\ UNCHANGED <<item, queue>>
  /\ UNCHANGED <<call, closed, sealed, closer, ringVars, diskVars, dayVars>>

\* Mutant: a backup of the last retained day is removed too.
KeptStrictly(d) == d > today - retention

Kept(d) == d >= today - retention

\* purgeOldLocked over a set of backups.
Purged(days) == IF retention = 0 THEN days ELSE {d \in days : Kept(d)}

BackupDay == curDay

\* Mutant: the line about to be written is not counted.
OverSizeLate == MaxSize > 0 /\ file.written > MaxSize

OverSize == MaxSize > 0 /\ file.written + Bytes[item] > MaxSize /\ file.written > 0

\* rotateLocked and rotateDailyLocked: the file is renamed away or truncated,
\* then reopened, or replaced by the null device.
Rotated(opens) ==
  [handle |-> IF opens THEN "file" ELSE "null",
   there |-> opens, size |-> 0, written |-> 0]

\* The write under a handle; a failed one leaves n bytes and reopens the file.
Written(f, b) ==
  [f EXCEPT !.size = @ + IF f.handle = "file" THEN b ELSE 0, !.written = @ + b]
Broken(f, n, opens) ==
  [f EXCEPT !.size = @ + n, !.written = @ + n,
            !.handle = IF opens THEN "file" ELSE "nil", !.there = @ \/ opens]

\* writeEntry under l.mu.  At most one file system call fails, except that the
\* reopening after a failed write may fail as well.
Write ==
  /\ writer = "write" /\ writer' = "show"
  /\ \E bad \in {"none", "rename", "open", "write", "reopen"} :
       LET rolls == today # curDay
           turns == rolls \/ OverSize
           moved == turns /\ file.there /\ bad # "rename"
           f == IF ~turns THEN file
                ELSE [Rotated(bad # "open")
                        EXCEPT !.there = @ \/ (file.there /\ ~moved)]
       IN
       /\ bad \in {"rename", "open"} => turns
       /\ bad # "none" => faults < MaxFaults
       /\ faults' = IF bad = "none" THEN faults ELSE faults + 1
       /\ curDay' = today
       /\ backups' = IF rolls
            THEN Purged((backups \ {BackupDay}) \cup IF moved THEN {BackupDay} ELSE {})
            ELSE backups
       /\ IF f.handle = "nil" \/ (f.handle = "file" /\ bad \in {"write", "reopen"})
            THEN \E n \in 0 .. IF f.handle = "file" THEN Bytes[item] - 1 ELSE 0 :
                   file' = Broken(f, n, bad # "reopen")
            ELSE file' = Written(f, Bytes[item])
  /\ UNCHANGED <<call, chanVars, item, closer, ringVars, dayVars>>

\* ring.Add, after l.mu is released.
Show ==
  /\ writer = "show" /\ writer' = "receive" /\ item' = Unused
  /\ data' = [data EXCEPT ![ringHead] = item]
  /\ ringHead' = (ringHead + 1) % RingSize
  /\ count' = IF count < RingSize THEN count + 1 ELSE count
  /\ seen' = Append(seen, item)
  /\ UNCHANGED <<call, chanVars, closer, diskVars, dayVars>>

\* The hourly purge.
Purge ==
  /\ writer = "receive"
  /\ backups' = Purged(backups)
  /\ UNCHANGED <<call, chanVars, writer, item, closer, ringVars, file, curDay,
                 faults, dayVars>>

SetRetentionDays(d) ==
  /\ retention' = d
  /\ UNCHANGED <<call, chanVars, writer, item, closer, ringVars, diskVars, today, restarts>>

\* Close, step by step.
Swap ==
  /\ closer = "running" /\ closer' = "swapped"
  /\ closed' = TRUE
  /\ UNCHANGED <<call, sealed, queue, writer, item, ringVars, diskVars, dayVars>>

Seal ==
  /\ closer = "swapped" /\ closer' = "waiting"
  /\ sealed' = TRUE
  /\ UNCHANGED <<call, closed, queue, writer, item, ringVars, diskVars, dayVars>>

Join ==
  /\ closer = "waiting" /\ writer = "gone"
  /\ closer' = "closed"
  /\ file' = [file EXCEPT !.handle = "closed"]
  /\ UNCHANGED <<call, chanVars, writer, item, ringVars, curDay, backups, faults, dayVars>>

\* The environment: midnight, and the process ending (after Close or in a crash)
\* and starting again on the file it finds.
Midnight ==
  /\ today < LastDay /\ today' = today + 1
  /\ UNCHANGED <<call, chanVars, writer, item, closer, ringVars, diskVars, retention, restarts>>

Restart ==
  /\ restarts < MaxRestarts /\ restarts' = restarts + 1
  /\ call' = [e \in Entries |-> IF call[e] = "idle" THEN "idle" ELSE "over"]
  /\ closed' = FALSE /\ sealed' = FALSE /\ queue' = <<>>
  /\ writer' = "receive" /\ item' = Unused /\ closer' = "running"
  /\ data' = [j \in 0 .. RingSize - 1 |-> Unused] /\ ringHead' = 0 /\ count' = 0
  /\ seen' = <<>>
  /\ file' = Opened(file.size) /\ curDay' = today
  /\ UNCHANGED <<backups, faults, today, retention>>

LoggerNext ==
  \/ \E e \in Entries : Check(e) \/ Send(e)
  \/ Receive \/ Write \/ Show \/ Purge
  \/ Swap \/ Seal \/ Join
  \/ \E d \in Retentions : SetRetentionDays(d)
  \/ Midnight \/ Restart

LoggerSpec == LoggerInit /\ [][LoggerNext]_loggerVars

\* The writer goroutine runs; nothing else is owed.
LoggerFairSpec == LoggerSpec /\ WF_loggerVars(Receive \/ Write \/ Show)

-----------------------------------------------------------------------------
FileOK ==
  file \in [handle : Handles, there : BOOLEAN, size : Nat, written : Nat]

LoggerTypeOK ==
  /\ call \in [Entries -> {"idle", "open", "ignored", "queued", "dropped",
                           "panicked", "over"}]
  /\ closed \in BOOLEAN /\ sealed \in BOOLEAN
  /\ queue \in Seq(Entries) /\ Len(queue) <= QueueCap
  /\ writer \in {"receive", "write", "show", "gone"}
  /\ item \in Entries \cup {Unused}
  /\ closer \in {"running", "swapped", "waiting", "closed"}
  /\ data \in [0 .. RingSize - 1 -> Entries \cup {Unused}]
  /\ ringHead \in 0 .. RingSize - 1 /\ count \in 0 .. RingSize
  /\ seen \in Seq(Entries)
  /\ FileOK
  /\ curDay \in 0 .. LastDay /\ today \in 0 .. LastDay
  /\ backups \subseteq 0 .. LastDay
  /\ retention \in Retentions
  /\ faults \in 0 .. MaxFaults /\ restarts \in 0 .. MaxRestarts

\* Mutant: reading starts at the head instead of one before it.
StartAtHead == ringHead % RingSize

Start == (ringHead - 1 + RingSize) % RingSize

\* Ring.Recent(n): the newest n entries, newest first.
Recent(n) ==
  [j \in 1 .. IF n > count THEN count ELSE n |->
     data[(Start - (j - 1) + RingSize * j) % RingSize]]

\* Whatever was overwritten, the ring shows exactly the last entries written, newest
\* first: the modular arithmetic of Add and Recent never shows a stale slot.
RingShowsLatest ==
  \A n \in 0 .. RingSize + 1 :
    LET shown == IF n > RingSize THEN RingSize ELSE n
        m == IF shown > Len(seen) THEN Len(seen) ELSE shown
    IN Recent(n) = [j \in 1 .. m |-> seen[Len(seen) - j + 1]]

\* "Close flushes the queue then closes the file": when Close has returned, every
\* entry a handler managed to queue was written and shown.
CloseFlushes ==
  closer = "closed" =>
    \A e \in Entries : call[e] = "queued" => \E j \in 1 .. Len(seen) : seen[j] = e

\* The active file never outgrows log_max_bytes by more than one oversized line,
\* whichever renames, opens and writes fail, and across restarts.
SizeBound ==
  MaxSize > 0 =>
    \/ file.size <= MaxSize
    \/ \E e \in Entries : file.size <= Bytes[e]

\* A daily backup bears a day before the active file's: the rotation, which removes
\* the backup of its day first, never removes one.
BackupsBeforeToday == \A d \in backups : d < curDay

\* What Recent shows and what Close leaves behind: both readers of the queue see every
\* entry that went through it, in its order.
NothingMissing == RingShowsLatest /\ CloseFlushes

\* The files on disk are as the rotations promise, whatever failed on the way.
FilesSane == LoggerTypeOK /\ SizeBound /\ BackupsBeforeToday

\* A daily backup disappears only when it is older than the retention.
BackupsOnlyExpire ==
  [][\A d \in backups \ backups' : retention > 0 /\ d < today - retention]_loggerVars

\* An entry that was queued is shown, unless the process ends first.
Delivered ==
  \A e \in Entries :
    call[e] = "queued" ~> call[e] # "queued" \/ \E j \in 1 .. Len(seen) : seen[j] = e
=============================================================================
