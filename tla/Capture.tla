------------------------------- MODULE Capture -------------------------------
(***************************************************************************)
(* The capture of one serial port: the reader task, the writer task and    *)
(* the bounded channel between them (src/reader.rs), with the insert and   *)
(* the trim they make in the port's log (src/storage.rs).                  *)
(*                                                                         *)
(* A byte is either the line delimiter or something else.  A line is the   *)
(* range of the bytes it was made of: positions in the stream of all bytes *)
(* ever read from the device.  So the model says where every byte ended    *)
(* up, and two lines with the same text are still two lines.               *)
(*                                                                         *)
(* A definition whose name begins with Fault is a wrong variant of the one *)
(* that follows it: a bug this code could have.  No behaviour of Spec uses *)
(* it; put in place of the right one it must break a property below.       *)
(***************************************************************************)
EXTENDS Integers, Sequences

CONSTANTS
  BatchSize,        \* flush_batch_size: lines that force an immediate write
  ChannelCapacity,  \* capacity of the channel of batches; 100 in the code
  BatchesPerTrim,   \* batches between two trims; 100 in the code
  MaxBufferLines,   \* max_buffer_lines of the port; 0 keeps every line
  ReadSize,         \* bytes one read may return; 4096 in the code
  MaxAttempts,      \* where the attempt counter saturates; u32::MAX in the code
  MaxBytes,         \* bound: bytes the device ever sends
  MaxUnplugs,       \* bound: times the device goes away
  MaxCrashes,       \* bound: times the daemon dies
  MaxDbErrors       \* bound: inserts and trims that fail

ASSUME CaptureAssumption ==
  /\ BatchSize \in Nat \ {0}        \* FlushSettings::from takes max(1)
  /\ ChannelCapacity \in Nat \ {0}
  /\ BatchesPerTrim \in Nat \ {0}
  /\ MaxBufferLines \in Nat
  /\ ReadSize \in Nat \ {0}
  /\ MaxAttempts \in Nat \ {0}
  /\ MaxBytes \in Nat
  /\ MaxUnplugs \in Nat
  /\ MaxCrashes \in Nat
  /\ MaxDbErrors \in Nat

Byte == {"delimiter", "other"}
Chunk == UNION {[1 .. n -> Byte] : n \in 1 .. ReadSize}

\* A line: the bytes from .. to, its delimiter included when it had one.
Line == [from : Nat, to : Nat, ended : BOOLEAN]

ConnectionState == {"Connected", "Disconnected", "Reconnecting"}

\* Where the reader task is: in the select of reader_loop, in process_bytes,
\* waiting for room in the channel, past the flush of a disconnect, in the
\* backoff of the reconnect loop, in try_connect, ended, or dead with the daemon.
ReaderPc == {"select", "process", "send", "lost", "backoff", "connect", "done", "down"}

VARIABLES
  pc,          \* where the reader task is
  resume,      \* where it goes once the batch it is sending is in the channel
  conn,        \* the connection state the port shows
  attempts,    \* reconnect attempts since the link was lost
  auto,        \* auto_reconnect of the port
  buf,         \* bytes of the last read that process_bytes has not taken yet
  lineFrom,    \* first byte of the partial line
  batch,       \* complete lines not sent yet
  outbox,      \* the batch handed to line_tx.send
  chan,        \* the channel of batches
  writing,     \* the batch the writer task is storing
  sinceTrim,   \* batches since the last trim, modulo BatchesPerTrim
  stored,      \* the rows of the port's log
  shut,        \* the handle was shut down or dropped
  plugged,     \* the device is there
  live,        \* the open file still belongs to a device that is there
  read,        \* bytes read from the device so far
  settled,     \* every byte up to this one was stored, or was lost for good
  breaks,      \* positions after which the link or the task ended
  unplugs, crashes, dbErrors

readerVars == <<pc, resume, conn, attempts, buf, lineFrom, batch, outbox>>
writerVars == <<writing, sinceTrim, stored, settled, dbErrors>>
deviceVars == <<plugged, live, unplugs>>
vars == <<readerVars, writerVars, deviceVars, auto, chan, shut, read, breaks, crashes>>

LastOf(s) == s[Len(s)]
Newest(s, n) == IF Len(s) <= n THEN s ELSE SubSeq(s, Len(s) - n + 1, Len(s))

-----------------------------------------------------------------------------
Init ==
  /\ pc = "select" /\ resume = "select"
  /\ conn = "Connected" /\ attempts = 0
  /\ auto \in BOOLEAN
  /\ buf = <<>> /\ lineFrom = 1
  /\ batch = <<>> /\ outbox = <<>> /\ chan = <<>> /\ writing = <<>>
  /\ sinceTrim = 0 /\ stored = <<>>
  /\ shut = FALSE /\ plugged = TRUE /\ live = TRUE
  /\ read = 0 /\ settled = 0 /\ breaks = {}
  /\ unplugs = 0 /\ crashes = 0 /\ dbErrors = 0

-----------------------------------------------------------------------------
(* The reader task. *)

\* The read arm of the select; the select is biased, so a shutdown comes first.
ReadBytes ==
  /\ pc = "select" /\ ~shut /\ live
  /\ \E data \in Chunk :
       /\ read + Len(data) <= MaxBytes
       /\ buf' = data
       /\ read' = read + Len(data)
  /\ pc' = "process"
  /\ UNCHANGED <<resume, conn, attempts, lineFrom, batch, outbox, writerVars,
                 deviceVars, auto, chan, shut, breaks, crashes>>

\* One turn of the loop of process_bytes.
ProcessByte ==
  /\ pc = "process" /\ buf # <<>>
  /\ LET pos == read - Len(buf) + 1
     IN  IF Head(buf) = "delimiter"
         THEN /\ batch' = Append(batch, [from |-> lineFrom, to |-> pos, ended |-> TRUE])
              /\ lineFrom' = pos + 1
         ELSE UNCHANGED <<batch, lineFrom>>
  /\ buf' = Tail(buf)
  /\ UNCHANGED <<pc, resume, conn, attempts, outbox, writerVars, deviceVars,
                 auto, chan, shut, read, breaks, crashes>>

\* The batch moves out to line_tx.send; the reader goes on at next afterwards.
FaultSendCopy(lines, next) ==
  outbox' = lines /\ resume' = next /\ pc' = "send" /\ UNCHANGED batch
SendBatch(lines, next) ==
  /\ outbox' = lines
  /\ batch' = <<>>
  /\ resume' = next
  /\ pc' = "send"

\* After a read: a full batch is sent at once, a smaller one waits.
ChunkDone ==
  /\ pc = "process" /\ buf = <<>>
  /\ IF Len(batch) >= BatchSize
     THEN SendBatch(batch, "select")
     ELSE pc' = "select" /\ UNCHANGED <<resume, batch, outbox>>
  /\ UNCHANGED <<conn, attempts, buf, lineFrom, writerVars, deviceVars, auto,
                 chan, shut, read, breaks, crashes>>

\* The partial line as a line of its own, if there is one.
FaultPartialLost == <<>>
PartialLine ==
  IF lineFrom <= read
  THEN <<[from |-> lineFrom, to |-> read, ended |-> FALSE]>>
  ELSE <<>>

\* The sleep arm: what waits is sent, the partial line stays.
FaultWaitingFull == Len(batch) >= BatchSize
Waiting == batch # <<>>

FlushTimer ==
  /\ pc = "select" /\ ~shut /\ Waiting
  /\ SendBatch(batch, "select")
  /\ UNCHANGED <<conn, attempts, buf, lineFrom, writerVars, deviceVars, auto,
                 chan, shut, read, breaks, crashes>>

\* flush_batch: the partial line goes last into the batch, then all is sent.
FaultPartialFirst == PartialLine \o batch
FlushedLines == batch \o PartialLine

FlushBatch(next) ==
  /\ lineFrom' = read + 1
  /\ breaks' = breaks \cup {read}
  /\ IF FlushedLines = <<>>
     THEN pc' = next /\ UNCHANGED <<resume, batch, outbox>>
     ELSE SendBatch(FlushedLines, next)

\* The read arm with Ok(0) or an error.
ReadFails ==
  /\ pc = "select" /\ ~shut /\ ~live
  /\ FlushBatch("lost")
  /\ UNCHANGED <<conn, attempts, buf, writerVars, deviceVars, auto, chan, shut,
                 read, crashes>>

\* reader_loop returns true: the state says so, and the task either ends or
\* enters the reconnect loop with its first attempt.
FaultLinkLostQuietly ==
  /\ pc = "lost"
  /\ pc' = IF auto THEN "backoff" ELSE "done"
  /\ UNCHANGED <<resume, conn, attempts, buf, lineFrom, batch, outbox, writerVars,
                 deviceVars, auto, chan, shut, read, breaks, crashes>>
LinkLost ==
  /\ pc = "lost"
  /\ conn' = "Disconnected"
  /\ IF auto
     THEN pc' = "backoff" /\ attempts' = 1
     ELSE pc' = "done" /\ attempts' = 0
  /\ UNCHANGED <<resume, buf, lineFrom, batch, outbox, writerVars, deviceVars,
                 auto, chan, shut, read, breaks, crashes>>

\* The shutdown arm of reader_loop.
StopReading ==
  /\ pc = "select" /\ shut
  /\ FlushBatch("done")
  /\ UNCHANGED <<conn, attempts, buf, writerVars, deviceVars, auto, chan, shut,
                 read, crashes>>

\* line_tx.send completes once the channel has room.
HasRoom == Len(chan) < ChannelCapacity

Send ==
  /\ pc = "send" /\ HasRoom
  /\ chan' = Append(chan, outbox)
  /\ outbox' = <<>>
  /\ pc' = resume
  /\ UNCHANGED <<resume, conn, attempts, buf, lineFrom, batch, writerVars,
                 deviceVars, auto, shut, read, breaks, crashes>>

\* The backoff select, biased as well.
FaultBackoffDeaf ==
  /\ pc = "backoff" /\ shut
  /\ pc' = "connect"
  /\ UNCHANGED <<resume, conn, attempts, buf, lineFrom, batch, outbox, writerVars,
                 deviceVars, auto, chan, shut, read, breaks, crashes>>
StopBackoff ==
  /\ pc = "backoff" /\ shut
  /\ pc' = "done"
  /\ UNCHANGED <<resume, conn, attempts, buf, lineFrom, batch, outbox, writerVars,
                 deviceVars, auto, chan, shut, read, breaks, crashes>>

BackoffElapsed ==
  /\ pc = "backoff" /\ ~shut
  /\ pc' = "connect"
  /\ conn' = "Reconnecting"
  /\ UNCHANGED <<resume, attempts, buf, lineFrom, batch, outbox, writerVars,
                 deviceVars, auto, chan, shut, read, breaks, crashes>>

\* A failed attempt is followed by the next one, however many there were.
FaultGiveUp == IF attempts >= MaxAttempts THEN "done" ELSE "backoff"
AfterFailedConnect == "backoff"

\* try_connect answers; the shutdown is not looked at before it has.
TryConnect ==
  /\ pc = "connect"
  /\ IF plugged
     THEN /\ pc' = "select" /\ conn' = "Connected"
          /\ live' = TRUE /\ UNCHANGED attempts
     ELSE /\ pc' = AfterFailedConnect /\ conn' = "Disconnected"
          /\ attempts' = IF attempts < MaxAttempts THEN attempts + 1 ELSE attempts
          /\ UNCHANGED live
  /\ UNCHANGED <<resume, buf, lineFrom, batch, outbox, writerVars, plugged,
                 unplugs, auto, chan, shut, read, breaks, crashes>>

-----------------------------------------------------------------------------
(* The writer task. *)

WriterRecv ==
  /\ pc # "down" /\ writing = <<>> /\ chan # <<>>
  /\ writing' = Head(chan)
  /\ chan' = Tail(chan)
  /\ sinceTrim' = IF MaxBufferLines > 0
                  THEN (sinceTrim + 1) % BatchesPerTrim
                  ELSE sinceTrim
  /\ UNCHANGED <<readerVars, stored, settled, dbErrors, deviceVars, auto, shut,
                 read, breaks, crashes>>

FaultNeverTrim == FALSE
TrimDue == MaxBufferLines > 0 /\ sinceTrim = 0

\* The blocking closure, under the storage lock: one transaction with the
\* whole batch, then the trim when it is due.  Either may fail; a failed
\* insert is logged and its batch dropped, a failed trim is ignored.
WriterStore ==
  /\ writing # <<>>
  /\ \E inserted, trimmed \in BOOLEAN :
       /\ (inserted /\ trimmed) \/ dbErrors < MaxDbErrors
       /\ trimmed \/ TrimDue
       /\ dbErrors' = IF inserted /\ trimmed THEN dbErrors ELSE dbErrors + 1
       /\ LET rows == IF inserted THEN stored \o writing ELSE stored
          IN  stored' = IF TrimDue /\ trimmed
                        THEN Newest(rows, MaxBufferLines)
                        ELSE rows
  /\ settled' = LastOf(writing).to
  /\ writing' = <<>>
  /\ UNCHANGED <<readerVars, sinceTrim, deviceVars, auto, chan, shut, read,
                 breaks, crashes>>

-----------------------------------------------------------------------------
(* The rest of the world. *)

\* PortReaderHandle::shutdown, or the handle dropped.
Shutdown ==
  /\ ~shut /\ pc # "down"
  /\ shut' = TRUE
  /\ UNCHANGED <<readerVars, writerVars, deviceVars, auto, chan, read, breaks, crashes>>

Unplug ==
  /\ plugged /\ unplugs < MaxUnplugs
  /\ plugged' = FALSE /\ live' = FALSE
  /\ unplugs' = unplugs + 1
  /\ UNCHANGED <<readerVars, writerVars, auto, chan, shut, read, breaks, crashes>>

\* A device that comes back is a new one: the old file stays dead.
Plug ==
  /\ ~plugged
  /\ plugged' = TRUE
  /\ UNCHANGED <<readerVars, writerVars, live, unplugs, auto, chan, shut, read,
                 breaks, crashes>>

\* The daemon dies: what was not committed is gone.
Crash ==
  /\ pc # "down" /\ crashes < MaxCrashes
  /\ pc' = "down"
  /\ buf' = <<>> /\ lineFrom' = read + 1
  /\ batch' = <<>> /\ outbox' = <<>> /\ chan' = <<>> /\ writing' = <<>>
  /\ settled' = read
  /\ breaks' = breaks \cup {read}
  /\ crashes' = crashes + 1
  /\ UNCHANGED <<resume, conn, attempts, sinceTrim, stored, dbErrors, deviceVars,
                 auto, shut, read>>

\* The next daemon spawns a reader and a writer on the same log.
Restart ==
  /\ pc = "down" /\ plugged
  /\ pc' = "select" /\ conn' = "Connected" /\ attempts' = 0
  /\ sinceTrim' = 0 /\ shut' = FALSE /\ live' = TRUE
  /\ UNCHANGED <<resume, buf, lineFrom, batch, outbox, writing, stored, settled,
                 dbErrors, plugged, unplugs, auto, chan, read, breaks, crashes>>

\* Both tasks have ended: the reader returned, which drops line_tx, and the
\* writer saw the channel closed and empty.
Ended == pc = "done" /\ chan = <<>> /\ writing = <<>>

Reader == \/ ReadBytes \/ ProcessByte \/ ChunkDone \/ FlushTimer
          \/ ReadFails \/ LinkLost \/ StopReading \/ Send
          \/ StopBackoff \/ BackoffElapsed \/ TryConnect
Writer == WriterRecv \/ WriterStore
Environment == Shutdown \/ Unplug \/ Plug \/ Crash \/ Restart

Next == Reader \/ Writer \/ Environment

Spec == Init /\ [][Next]_vars

\* The runtime polls a task that can go on, and timers run out.  Nothing is
\* assumed of the device, of shutdowns or of crashes: a read that could
\* return bytes may never do so.
Fairness ==
  /\ WF_vars(ProcessByte \/ ChunkDone)
  /\ WF_vars(FlushTimer)
  /\ WF_vars(ReadFails)
  /\ WF_vars(LinkLost)
  /\ WF_vars(StopReading \/ StopBackoff)
  /\ WF_vars(Send)
  /\ WF_vars(BackoffElapsed)
  /\ WF_vars(TryConnect)
  /\ WF_vars(Writer)

FairSpec == Spec /\ Fairness

-----------------------------------------------------------------------------
(* Properties. *)

SeqOfLines == Seq(Line)

\* Every variable has its type.
TypeOK ==
  /\ pc \in ReaderPc /\ resume \in ReaderPc
  /\ conn \in ConnectionState /\ attempts \in 0 .. MaxAttempts
  /\ auto \in BOOLEAN /\ shut \in BOOLEAN /\ plugged \in BOOLEAN /\ live \in BOOLEAN
  /\ buf \in Seq(Byte) /\ Len(buf) <= read
  /\ lineFrom \in Nat \ {0}
  /\ batch \in SeqOfLines /\ outbox \in SeqOfLines
  /\ chan \in Seq(SeqOfLines) /\ Len(chan) <= ChannelCapacity
  /\ writing \in SeqOfLines /\ stored \in SeqOfLines
  /\ sinceTrim \in 0 .. BatchesPerTrim - 1
  /\ read \in Nat /\ settled \in Nat /\ breaks \in SUBSET Nat
  /\ unplugs \in Nat /\ crashes \in Nat /\ dbErrors \in Nat

\* The rows of the log are in the order of the bytes they were read from and
\* no byte is in two of them, whatever disconnects, insert errors, trims and
\* crashes happened between them: batches reach insert_lines in the order the
\* reader formed them, each at most once.
StoredInOrder ==
  \A i \in 1 .. Len(stored) :
    /\ stored[i].from <= stored[i].to
    /\ stored[i].to <= settled
    /\ i < Len(stored) => stored[i].to < stored[i + 1].from

\* As long as no insert failed and no daemon died, neighbouring rows touch and
\* the newest one ends where the writer is: nothing in between was dropped by
\* a disconnect, a shutdown, the backpressure of the channel or a trim.
NoGap ==
  (dbErrors = 0 /\ crashes = 0 /\ stored # <<>>) =>
    /\ \A i \in 1 .. Len(stored) - 1 : stored[i].to + 1 = stored[i + 1].from
    /\ LastOf(stored).to = settled

\* A reader that ended and a writer that drained the channel left no byte
\* behind: flush_batch hands on what was read, the unfinished line included.
NothingLeftBehind == Ended => settled = read

\* A line without its delimiter was cut by a disconnect, a shutdown or a
\* crash.  The flush timer never cuts one, however long it takes to arrive.
CutOnlyAtBreaks ==
  \A i \in 1 .. Len(stored) : ~stored[i].ended => stored[i].to \in breaks

\* The log of a port is a faithful record of what its device sent.
LogFaithful == StoredInOrder /\ NoGap /\ CutOnlyAtBreaks

\* A reader that ended although nobody stopped it left the port showing that
\* it is disconnected; reader.rs: "without it the task ends silently and the
\* port goes on reporting itself as connected".
NeverSilentlyDead == pc = "done" /\ ~shut => conn = "Disconnected"

\* How a capture ends (the ends of reader_loop and writer_loop): with every byte it read
\* settled, and not without the port saying so when nobody asked for it.
EndsCleanly == NothingLeftBehind /\ NeverSilentlyDead

\* The capture implements the log of CaptureLog: its rows are the stored
\* lines, and its front is the last byte the writer is done with.
Log == INSTANCE CaptureLog WITH rows <- stored, front <- settled
ImplementsLog == Log!Spec

\* Every byte of a complete line is settled in the end, whatever the link
\* does, although the writer may hold the reader up.
EveryLineSettled == \A n \in 1 .. MaxBytes : lineFrom > n ~> settled >= n

\* A shutdown ends the reader and then the writer.
ShutdownEnds == shut ~> (Ended \/ pc = "down" \/ ~shut)

\* A port that reconnects by itself is read again once the device is back.
Reconnects ==
  (auto /\ ~live /\ plugged) ~> (live \/ ~plugged \/ shut \/ pc = "down")
=============================================================================
