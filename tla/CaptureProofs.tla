---------------------------- MODULE CaptureProofs ----------------------------
(***************************************************************************)
(* Proofs about Capture, for every value of its constants.                 *)
(***************************************************************************)
EXTENDS Capture, SequenceTheorems, TLAPS

\* A chunk of bytes is a non-empty sequence of bytes.
LEMMA ChunkSeq ==
  ASSUME NEW data \in Chunk
  PROVE  data \in Seq(Byte) /\ Len(data) \in Nat \ {0}
<1>1. PICK n \in 1 .. ReadSize : data \in [1 .. n -> Byte]
  BY DEF Chunk
<1>2. n \in Nat \ {0}
  BY <1>1, CaptureAssumption DEF CaptureAssumption
<1>3. QED
  BY <1>1, <1>2, SMT

\* Values the provers do not type by themselves.
LEMMA Constants ==
  /\ TRUE \in BOOLEAN /\ FALSE \in BOOLEAN
  /\ <<>> \in Seq(Line) /\ <<>> \in Seq(Seq(Line)) /\ <<>> \in Seq(Byte)
  /\ Len(<<>>) = 0
BY EmptySeq

\* The partial line is a sequence of at most one line.
LEMMA PartialLineType ==
  ASSUME TypeOK
  PROVE  PartialLine \in Seq(Line)
<1>1. CASE lineFrom <= read
  <2>1. [from |-> lineFrom, to |-> read, ended |-> FALSE] \in Line
    BY DEF TypeOK, Line
  <2>2. QED
    BY <1>1, <2>1 DEF PartialLine
<1>2. CASE ~(lineFrom <= read)
  BY <1>2, Constants DEF PartialLine
<1>3. QED
  BY <1>1, <1>2

\* What a trim keeps of a log is a log.
LEMMA NewestType ==
  ASSUME NEW s \in Seq(Line), NEW n \in Nat
  PROVE  Newest(s, n) \in Seq(Line)
<1>1. CASE Len(s) <= n
  BY <1>1 DEF Newest
<1>2. CASE ~(Len(s) <= n)
  <2>1. Len(s) \in Nat
    OBVIOUS
  <2>2. Len(s) - n + 1 \in 1 .. Len(s) + 1
    BY <1>2, <2>1, SMT
  <2>3. \A i \in Len(s) - n + 1 .. Len(s) : s[i] \in Line
    BY <2>1, <2>2, ElementOfSeq, SMT
  <2>4. SubSeq(s, Len(s) - n + 1, Len(s)) \in Seq(Line)
    BY <2>1, <2>2, <2>3, SubSeqProperties
  <2>5. QED
    BY <1>2, <2>4 DEF Newest
<1>3. QED
  BY <1>1, <1>2

-----------------------------------------------------------------------------
\* Type correctness.
THEOREM TypeCorrect == Spec => []TypeOK
<1>1. Init => TypeOK
  <2>1. Init => auto \in BOOLEAN /\ shut \in BOOLEAN /\ plugged \in BOOLEAN /\ live \in BOOLEAN
    BY Zenon DEF Init
  <2>2. Init => sinceTrim \in 0 .. BatchesPerTrim - 1 /\ attempts \in 0 .. MaxAttempts
    BY CaptureAssumption DEF CaptureAssumption, Init
  <2>3. QED
    BY <2>1, <2>2, Constants, CaptureAssumption DEF CaptureAssumption, Init, TypeOK,
       ReaderPc, ConnectionState, SeqOfLines
<1>2. TypeOK /\ [Next]_vars => TypeOK'
  <2> SUFFICES ASSUME TypeOK, [Next]_vars PROVE TypeOK'
    OBVIOUS
  <2> USE CaptureAssumption, Constants DEF CaptureAssumption, TypeOK, SeqOfLines, ReaderPc, ConnectionState
  <2>1. CASE ReadBytes
    <3>1. PICK data \in Chunk : buf' = data /\ read' = read + Len(data)
      BY <2>1 DEF ReadBytes
    <3>2. buf' \in Seq(Byte) /\ read' \in Nat /\ Len(buf') <= read'
      BY <3>1, ChunkSeq
    <3>3. QED
      BY <2>1, <3>2 DEF ReadBytes, writerVars, deviceVars
  <2>2. CASE ProcessByte
    <3>1. /\ Tail(buf) \in Seq(Byte) /\ Len(Tail(buf)) <= read
          /\ read - Len(buf) + 1 \in Nat \ {0}
      BY <2>2 DEF ProcessByte
    <3> DEFINE line == [from |-> lineFrom, to |-> read - Len(buf) + 1, ended |-> TRUE]
    <3>2. line \in Line
      BY <3>1 DEF Line
    <3>3. /\ batch' = batch \/ batch' = Append(batch, line)
          /\ lineFrom' = lineFrom \/ lineFrom' = read - Len(buf) + 2
      BY <2>2 DEF ProcessByte
    <3> HIDE DEF line
    <3>4. batch' \in Seq(Line)
      <4>1. batch \in Seq(Line)
        OBVIOUS
      <4>2. Append(batch, line) \in Seq(Line)
        BY ONLY <3>2, <4>1, AppendProperties
      <4>3. QED
        BY ONLY <3>3, <4>1, <4>2
    <3>5. lineFrom' \in Nat \ {0}
      BY <3>1, <3>3
    <3>6. QED
      BY <2>2, <3>1, <3>4, <3>5 DEF ProcessByte, writerVars, deviceVars
  <2>3. CASE ChunkDone
    BY <2>3 DEF ChunkDone, SendBatch, writerVars, deviceVars
  <2>4. CASE FlushTimer
    BY <2>4 DEF FlushTimer, SendBatch, writerVars, deviceVars
  <2>5. ASSUME NEW next \in {"lost", "done"}, FlushBatch(next)
        PROVE  /\ pc' \in ReaderPc /\ resume' \in ReaderPc
               /\ batch' \in Seq(Line) /\ outbox' \in Seq(Line)
               /\ lineFrom' \in Nat \ {0} /\ breaks' \in SUBSET Nat
    <3>1. FlushedLines \in Seq(Line)
      BY PartialLineType, ConcatProperties DEF FlushedLines
    <3>2. QED
      <4>1. lineFrom' \in Nat \ {0} /\ breaks' \in SUBSET Nat
        BY <2>5 DEF FlushBatch
      <4>2. CASE FlushedLines = <<>>
        BY <2>5, <4>1, <4>2 DEF FlushBatch
      <4>3. CASE FlushedLines # <<>>
        <5>1. SendBatch(FlushedLines, next)
          BY <2>5, <4>3, Zenon DEF FlushBatch
        <5>2. QED
          BY <3>1, <4>1, <5>1 DEF SendBatch
      <4>4. QED
        BY <4>2, <4>3
  <2>6. CASE ReadFails
    BY <2>6, <2>5 DEF ReadFails, writerVars, deviceVars
  <2>7. CASE LinkLost
    BY <2>7 DEF LinkLost, writerVars, deviceVars
  <2>8. CASE StopReading
    BY <2>8, <2>5 DEF StopReading, writerVars, deviceVars
  <2>9. CASE Send
    BY <2>9 DEF Send, HasRoom, writerVars, deviceVars
  <2>10. CASE StopBackoff
    BY <2>10 DEF StopBackoff, writerVars, deviceVars
  <2>11. CASE BackoffElapsed
    BY <2>11 DEF BackoffElapsed, writerVars, deviceVars
  <2>12. CASE TryConnect
    <3>1. live' \in BOOLEAN
      BY <2>12, Zenon DEF TryConnect
    <3>2. attempts' \in 0 .. MaxAttempts /\ pc' \in ReaderPc /\ conn' \in ConnectionState
      BY <2>12 DEF TryConnect, AfterFailedConnect
    <3>3. QED
      BY <2>12, <3>1, <3>2 DEF TryConnect, writerVars
  <2>13. CASE WriterRecv
    <3>1. Head(chan) \in Seq(Line) /\ Tail(chan) \in Seq(Seq(Line)) /\ Len(Tail(chan)) <= ChannelCapacity
      BY <2>13 DEF WriterRecv
    <3>2. sinceTrim' \in 0 .. BatchesPerTrim - 1
      BY <2>13 DEF WriterRecv
    <3>3. QED
      BY <2>13, <3>1, <3>2 DEF WriterRecv, readerVars, deviceVars
  <2>14. CASE WriterStore
    <3>1. LastOf(writing) \in Line
      BY <2>14 DEF WriterStore, LastOf
    <3>2. settled' \in Nat
      BY <2>14, <3>1 DEF WriterStore, Line
    <3>3. stored \o writing \in Seq(Line)
      BY ConcatProperties
    <3>4. stored' \in Seq(Line) /\ dbErrors' \in Nat
      <4>1. PICK inserted \in BOOLEAN, trimmed \in BOOLEAN :
              /\ dbErrors' = IF inserted /\ trimmed THEN dbErrors ELSE dbErrors + 1
              /\ LET rows == IF inserted THEN stored \o writing ELSE stored
                 IN  stored' = IF TrimDue /\ trimmed
                               THEN Newest(rows, MaxBufferLines)
                               ELSE rows
        BY <2>14, Zenon DEF WriterStore
      <4>2. dbErrors' \in Nat
        BY <4>1
      <4> DEFINE rows == IF inserted THEN stored \o writing ELSE stored
      <4>3. rows \in Seq(Line)
        BY <3>3
      <4>4. stored' = Newest(rows, MaxBufferLines) \/ stored' = rows
        BY <4>1, Zenon
      <4>5. QED
        BY <4>2, <4>3, <4>4, NewestType
    <3>5. QED
      BY <2>14, <3>2, <3>4 DEF WriterStore, readerVars, deviceVars
  <2>15. CASE Shutdown
    BY <2>15 DEF Shutdown, readerVars, writerVars, deviceVars
  <2>16. CASE Unplug
    <3>1. live' \in BOOLEAN /\ plugged' \in BOOLEAN
      BY <2>16, Zenon DEF Unplug
    <3>2. QED
      BY <2>16, <3>1 DEF Unplug, readerVars, writerVars
  <2>17. CASE Plug
    BY <2>17 DEF Plug, readerVars, writerVars
  <2>18. CASE Crash
    BY <2>18 DEF Crash, deviceVars
  <2>19. CASE Restart
    <3>1. live' \in BOOLEAN /\ shut' \in BOOLEAN
      BY <2>19, Zenon DEF Restart
    <3>2. sinceTrim' \in 0 .. BatchesPerTrim - 1
      BY <2>19 DEF Restart
    <3>3. QED
      BY <2>19, <3>1, <3>2 DEF Restart
  <2>20. CASE UNCHANGED vars
    BY <2>20 DEF vars, readerVars, writerVars, deviceVars
  <2>21. QED
    BY <2>1, <2>2, <2>3, <2>4, <2>6, <2>7, <2>8, <2>9, <2>10, <2>11, <2>12,
       <2>13, <2>14, <2>15, <2>16, <2>17, <2>18, <2>19, <2>20
       DEF Next, Reader, Writer, Environment
<1>3. QED
  BY <1>1, <1>2, PTL DEF Spec

-----------------------------------------------------------------------------
(* The pipeline from the port to the log, as a chain of touching lines. *)

\* Lines that touch, each behind all those before it.
Tight(s) ==
  /\ \A i \in 1 .. Len(s) : s[i].from <= s[i].to
  /\ \A i \in 1 .. Len(s) - 1 : s[i].to + 1 = s[i + 1].from
  /\ \A i, j \in 1 .. Len(s) : i < j => s[i].to < s[j].from

EndsBefore(s, n) == s # <<>> => LastOf(s).to + 1 = n
StartOf(s, n) == IF s = <<>> THEN n ELSE s[1].from

\* Where the batch, the reader's part and the channel begin.
BatchFrom == StartOf(batch, lineFrom)
OutFrom == StartOf(outbox, BatchFrom)
ChanFrom == IF chan = <<>> THEN OutFrom ELSE chan[1][1].from

\* The reader's part: what it holds ends at the partial line.
ReaderInv ==
  /\ Tight(batch) /\ EndsBefore(batch, lineFrom)
  /\ Tight(outbox) /\ EndsBefore(outbox, BatchFrom)
  /\ lineFrom + Len(buf) <= read + 1
  /\ pc # "process" => buf = <<>>
  /\ pc = "send" <=> outbox # <<>>
  /\ pc \in {"lost", "backoff", "connect", "done", "down"} => lineFrom = read + 1
  /\ pc \notin {"select", "process"} => batch = <<>>
  /\ resume \in {"select", "lost", "done"}
  /\ pc = "send" /\ resume # "select" => lineFrom = read + 1

\* The channel and the writer: non-empty batches that touch one another, the
\* reader's part behind them and the front of the log before them.
ChannelInv ==
  /\ \A i \in 1 .. Len(chan) : chan[i] # <<>> /\ Tight(chan[i])
  /\ \A i \in 1 .. Len(chan) - 1 : LastOf(chan[i]).to + 1 = chan[i + 1][1].from
  /\ chan # <<>> => LastOf(LastOf(chan)).to + 1 = OutFrom
  /\ \A i \in 1 .. Len(chan) : LastOf(chan[i]).to < lineFrom
  /\ Tight(writing) /\ EndsBefore(writing, ChanFrom)
  /\ writing # <<>> => LastOf(writing).to < lineFrom
  /\ settled + 1 = StartOf(writing, ChanFrom)
  /\ settled < lineFrom
  /\ pc = "down" => chan = <<>> /\ writing = <<>>

LogInv == StoredInOrder /\ NoGap

\* The inductive invariant.
PipelineInv == ReaderInv /\ ChannelInv /\ LogInv

\* A log that is not empty has a first and a last line.
LEMMA LastOfType ==
  ASSUME NEW s \in Seq(Line), s # <<>>
  PROVE  /\ Len(s) \in Nat \ {0} /\ LastOf(s) \in Line /\ s[1] \in Line
         /\ LastOf(s).to \in Nat /\ LastOf(s).from \in Nat
         /\ s[1].to \in Nat /\ s[1].from \in Nat
<1>1. Len(s) \in Nat \ {0}
  BY EmptySeq
<1>2. LastOf(s) \in Line /\ s[1] \in Line
  BY <1>1, ElementOfSeq DEF LastOf
<1>3. QED
  BY <1>1, <1>2 DEF Line

\* The ends of a line are byte positions.
LEMMA FieldType ==
  ASSUME NEW s \in Seq(Line), NEW i \in 1 .. Len(s)
  PROVE  s[i].from \in Nat /\ s[i].to \in Nat
<1>1. s[i] \in Line
  BY ElementOfSeq
<1>2. QED
  BY <1>1 DEF Line

\* In a chain every line ends at the last one's end or before it.
LEMMA TightLast ==
  ASSUME NEW s \in Seq(Line), s # <<>>, Tight(s)
  PROVE  /\ \A i \in 1 .. Len(s) : s[i].to <= LastOf(s).to
         /\ s[1].from <= LastOf(s).to
<1>1. Len(s) \in Nat \ {0}
  BY LastOfType
<1>2. ASSUME NEW i \in 1 .. Len(s) PROVE s[i].to <= LastOf(s).to
  <2>1. CASE i = Len(s)
    BY <1>1, <2>1, FieldType DEF LastOf
  <2>2. CASE i < Len(s)
    <3>1. s[i].to < s[Len(s)].from /\ s[Len(s)].from <= s[Len(s)].to
      BY <1>1, <2>2 DEF Tight
    <3>2. Len(s) \in 1 .. Len(s)
      BY <1>1
    <3>3. QED
      BY <1>1, <3>1, <3>2, FieldType DEF LastOf
  <2>3. QED
    BY <1>1, <2>1, <2>2
<1>3. 1 \in 1 .. Len(s) /\ s[1].from <= s[1].to
  BY <1>1 DEF Tight
<1>4. QED
  BY <1>2, <1>3, FieldType, LastOfType

\* A chain followed by a chain is a chain.
LEMMA TightConcat ==
  ASSUME NEW s \in Seq(Line), NEW t \in Seq(Line), Tight(s), Tight(t),
         t # <<>>, EndsBefore(s, t[1].from)
  PROVE  /\ Tight(s \o t) /\ LastOf(s \o t) = LastOf(t) /\ s \o t # <<>>
         /\ StartOf(s \o t, 0) = StartOf(s, t[1].from)
<1> DEFINE u == s \o t
<1>1. /\ u \in Seq(Line) /\ Len(u) = Len(s) + Len(t)
      /\ Len(s) \in Nat /\ Len(t) \in Nat \ {0}
      /\ \A i \in 1 .. Len(u) : u[i] = IF i <= Len(s) THEN s[i] ELSE t[i - Len(s)]
  BY ConcatProperties, EmptySeq
<1> HIDE DEF u
<1>2. ASSUME NEW i \in 1 .. Len(u) PROVE u[i].from <= u[i].to
  <2>1. CASE i <= Len(s)
    BY <1>1, <2>1 DEF Tight
  <2>2. CASE i > Len(s)
    <3>1. i - Len(s) \in 1 .. Len(t) /\ u[i] = t[i - Len(s)]
      BY <1>1, <2>2
    <3>2. QED
      BY <3>1 DEF Tight
  <2>3. QED
    BY <1>1, <2>1, <2>2
<1>3. ASSUME NEW i \in 1 .. Len(u) - 1 PROVE u[i].to + 1 = u[i + 1].from
  <2>1. CASE i < Len(s)
    <3>1. i \in 1 .. Len(s) - 1 /\ u[i] = s[i] /\ u[i + 1] = s[i + 1]
      BY <1>1, <2>1
    <3>2. QED
      BY <3>1 DEF Tight
  <2>2. CASE i = Len(s)
    BY <1>1, <2>2 DEF EndsBefore, LastOf
  <2>3. CASE i > Len(s)
    <3>1. /\ i - Len(s) \in 1 .. Len(t) - 1
          /\ u[i] = t[i - Len(s)] /\ u[i + 1] = t[(i - Len(s)) + 1]
      BY <1>1, <2>3
    <3>2. QED
      BY <3>1 DEF Tight
  <2>4. QED
    BY <1>1, <2>1, <2>2, <2>3
<1>4. ASSUME NEW i \in 1 .. Len(u), NEW j \in 1 .. Len(u), i < j
      PROVE  u[i].to < u[j].from
  <2>1. CASE j <= Len(s)
    BY <1>1, <1>4, <2>1 DEF Tight
  <2>2. CASE i > Len(s)
    <3>1. /\ i - Len(s) \in 1 .. Len(t) /\ j - Len(s) \in 1 .. Len(t)
          /\ i - Len(s) < j - Len(s)
          /\ u[i] = t[i - Len(s)] /\ u[j] = t[j - Len(s)]
      BY <1>1, <1>4, <2>2
    <3>2. QED
      BY <3>1 DEF Tight
  <2>3. CASE i <= Len(s) /\ j > Len(s)
    <3>1. /\ s # <<>> /\ i \in 1 .. Len(s) /\ u[i] = s[i]
          /\ j - Len(s) \in 1 .. Len(t) /\ u[j] = t[j - Len(s)]
      BY <1>1, <2>3, EmptySeq
    <3>2. s[i].to <= LastOf(s).to
      BY <3>1, TightLast
    <3>3. LastOf(s).to + 1 = t[1].from
      BY <3>1 DEF EndsBefore
    <3>4. t[1].from <= t[j - Len(s)].from
      <4>1. CASE j - Len(s) = 1
        BY <1>1, <4>1, FieldType
      <4>2. CASE j - Len(s) > 1
        <5>1. t[1].from <= t[1].to /\ t[1].to < t[j - Len(s)].from
          BY <1>1, <3>1, <4>2 DEF Tight
        <5>2. /\ t[1].from \in Nat /\ t[1].to \in Nat
              /\ t[j - Len(s)].from \in Nat
          BY <3>1, FieldType, LastOfType
        <5>3. QED
          BY <5>1, <5>2
      <4>3. QED
        BY <3>1, <4>1, <4>2
    <3>5. /\ s[i].to \in Nat /\ LastOf(s).to \in Nat /\ t[1].from \in Nat
          /\ t[j - Len(s)].from \in Nat
      BY <3>1, FieldType, LastOfType
    <3>6. s[i].to < t[j - Len(s)].from
      BY <3>2, <3>3, <3>4, <3>5
    <3>7. QED
      BY <3>1, <3>6
  <2>4. QED
    BY <1>1, <2>1, <2>2, <2>3
<1>5. Tight(u)
  BY <1>2, <1>3, <1>4 DEF Tight
<1>6. LastOf(u) = LastOf(t) /\ u # <<>>
  BY <1>1, EmptySeq DEF LastOf
<1>7. StartOf(u, 0) = StartOf(s, t[1].from)
  <2>1. CASE s = <<>>
    BY <1>1, <1>6, <2>1 DEF StartOf
  <2>2. CASE s # <<>>
    <3>1. Len(s) # 0
      BY <2>2, EmptySeq
    <3>2. QED
      BY <1>1, <1>6, <2>2, <3>1 DEF StartOf
  <2>3. QED
    BY <2>1, <2>2
<1>8. QED
  BY <1>5, <1>6, <1>7 DEF u

\* A single line is a chain.
LEMMA TightOne ==
  ASSUME NEW l \in Line, l.from <= l.to
  PROVE  <<l>> \in Seq(Line) /\ Tight(<<l>>) /\ LastOf(<<l>>) = l /\ <<l>> # <<>>
BY DEF Tight, LastOf

\* So is no line at all.
LEMMA TightEmpty == Tight(<<>>) /\ \A n : EndsBefore(<<>>, n) /\ StartOf(<<>>, n) = n
BY DEF Tight, EndsBefore, StartOf

\* A line appended behind a chain.
LEMMA TightAppend ==
  ASSUME NEW s \in Seq(Line), NEW l \in Line, Tight(s), EndsBefore(s, l.from), l.from <= l.to
  PROVE  /\ Tight(s \o <<l>>) /\ LastOf(s \o <<l>>) = l /\ s \o <<l>> # <<>>
         /\ StartOf(s \o <<l>>, 0) = StartOf(s, l.from)
<1>1. <<l>>[1] = l
  OBVIOUS
<1>2. QED
  BY <1>1, TightOne, TightConcat

\* What flush_batch sends: a chain up to the last byte read.
LEMMA FlushedTight ==
  ASSUME TypeOK, ReaderInv
  PROVE  /\ FlushedLines \in Seq(Line) /\ Tight(FlushedLines)
         /\ EndsBefore(FlushedLines, IF lineFrom <= read THEN read + 1 ELSE lineFrom)
         /\ FlushedLines # <<>> => StartOf(FlushedLines, 0) = BatchFrom
         /\ FlushedLines = <<>> => batch = <<>> /\ lineFrom > read
<1>1. batch \in Seq(Line) /\ Tight(batch) /\ EndsBefore(batch, lineFrom)
  BY DEF TypeOK, SeqOfLines, ReaderInv
<1>2. CASE lineFrom <= read
  <2> DEFINE l == [from |-> lineFrom, to |-> read, ended |-> FALSE]
  <2>1. l \in Line /\ l.from = lineFrom /\ l.to = read
    BY DEF TypeOK, Line
  <2>2. FlushedLines = batch \o <<l>>
    BY <1>2 DEF FlushedLines, PartialLine
  <2> HIDE DEF l
  <2>3. /\ Tight(FlushedLines) /\ LastOf(FlushedLines) = l /\ FlushedLines # <<>>
        /\ StartOf(FlushedLines, 0) = StartOf(batch, lineFrom)
    BY <1>1, <1>2, <2>1, <2>2, TightAppend
  <2>4. FlushedLines \in Seq(Line)
    BY <1>1, <2>1, <2>2, TightOne, <1>2, ConcatProperties
  <2>5. QED
    BY <1>2, <2>1, <2>3, <2>4 DEF EndsBefore, BatchFrom
<1>3. CASE ~(lineFrom <= read)
  <2>1. FlushedLines = batch
    BY <1>1, <1>3, ConcatEmptySeq DEF FlushedLines, PartialLine
  <2>2. lineFrom > read
    BY <1>3 DEF TypeOK
  <2>3. FlushedLines # <<>> => StartOf(FlushedLines, 0) = BatchFrom
    BY <2>1 DEF StartOf, BatchFrom
  <2>4. QED
    BY <1>1, <1>3, <2>1, <2>2, <2>3
<1>4. QED
  BY <1>2, <1>3

-----------------------------------------------------------------------------
(* The steps of the reader keep its part and what lies before it. *)

\* A batch moves to the outbox: the chain keeps its start and loses nothing.
LEMMA SendBatchInv ==
  ASSUME TypeOK, ReaderInv, pc \in {"select", "process"}, buf' = <<>>, read' = read,
         NEW lines \in Seq(Line), lines # <<>>, Tight(lines), EndsBefore(lines, lineFrom'),
         StartOf(lines, 0) = BatchFrom,
         lineFrom' \in Nat, lineFrom' <= read + 1,
         NEW next \in {"select", "lost", "done"}, next # "select" => lineFrom' = read + 1,
         SendBatch(lines, next)
  PROVE  ReaderInv' /\ OutFrom' = OutFrom /\ pc' # "down"
<1>1. /\ outbox' = lines /\ batch' = <<>> /\ resume' = next /\ pc' = "send"
  BY DEF SendBatch
<1>2. BatchFrom' = lineFrom'
  BY <1>1, TightEmpty DEF BatchFrom, StartOf
<1>3. OutFrom' = lines[1].from /\ OutFrom = BatchFrom /\ BatchFrom = lines[1].from
  BY <1>1 DEF OutFrom, StartOf, ReaderInv
<1>4. Tight(batch') /\ EndsBefore(batch', lineFrom')
  BY <1>1, TightEmpty
<1>5. Tight(outbox') /\ EndsBefore(outbox', BatchFrom')
  BY <1>1, <1>2
<1>6. lineFrom' + Len(buf') <= read' + 1
  <2>1. Len(buf') = 0
    BY Constants
  <2>2. read' \in Nat /\ lineFrom' \in Nat /\ lineFrom' <= read' + 1
    BY Zenon DEF TypeOK
  <2>3. \A m, n \in Nat : m <= n + 1 => m + 0 <= n + 1
    OBVIOUS
  <2>4. QED
    BY ONLY <2>1, <2>2, <2>3, Zenon
<1>7. ReaderInv'
  BY <1>1, <1>4, <1>5, <1>6 DEF ReaderInv
<1>8. QED
  BY <1>1, <1>3, <1>7

\* flush_batch, at a disconnect or at the shutdown.
LEMMA FlushBatchInv ==
  ASSUME TypeOK, ReaderInv, pc = "select", NEW next \in {"lost", "done"}, FlushBatch(next),
         UNCHANGED <<buf, read>>
  PROVE  ReaderInv' /\ OutFrom' = OutFrom /\ lineFrom <= lineFrom' /\ pc' # "down"
<1>1. buf = <<>> /\ lineFrom <= read + 1 /\ outbox = <<>>
  BY DEF ReaderInv, TypeOK
<1>2. lineFrom' = read + 1 /\ lineFrom \in Nat /\ read \in Nat
  BY DEF FlushBatch, TypeOK
<1>3. EndsBefore(FlushedLines, lineFrom')
  <2>1. CASE lineFrom <= read
    BY <1>2, <2>1, FlushedTight
  <2>2. CASE lineFrom = read + 1
    BY <1>2, <2>2, FlushedTight
  <2>3. QED
    BY <1>1, <1>2, <2>1, <2>2
<1>4. CASE FlushedLines # <<>>
  <2>1. SendBatch(FlushedLines, next)
    BY <1>4, Zenon DEF FlushBatch
  <2>2. ReaderInv' /\ OutFrom' = OutFrom /\ pc' # "down"
    BY <1>1, <1>2, <1>3, <1>4, <2>1, FlushedTight, SendBatchInv
  <2>3. QED
    BY <1>1, <1>2, <2>2
<1>5. CASE FlushedLines = <<>>
  <2>1. batch = <<>> /\ lineFrom = read + 1
    BY <1>1, <1>2, <1>5, FlushedTight
  <2>2. pc' = next /\ UNCHANGED <<resume, batch, outbox, lineFrom>>
    BY <1>2, <1>5, <2>1 DEF FlushBatch
  <2>3. ReaderInv'
    BY <1>1, <1>2, <2>1, <2>2 DEF ReaderInv, BatchFrom
  <2>4. OutFrom' = OutFrom
    BY <2>2 DEF OutFrom, BatchFrom
  <2>5. QED
    BY <1>2, <2>1, <2>2, <2>3, <2>4
<1>6. QED
  BY <1>4, <1>5

\* A delimiter puts a line behind the batch; any other byte changes no line.
LEMMA ProcessByteInv ==
  ASSUME TypeOK, ReaderInv, ProcessByte
  PROVE  ReaderInv' /\ OutFrom' = OutFrom /\ lineFrom <= lineFrom' /\ pc' # "down"
<1> DEFINE pos == read - Len(buf) + 1
           l == [from |-> lineFrom, to |-> pos, ended |-> TRUE]
<1>1. /\ pc = "process" /\ buf # <<>> /\ outbox = <<>> /\ batch \in Seq(Line)
      /\ Tight(batch) /\ EndsBefore(batch, lineFrom)
      /\ lineFrom \in Nat \ {0} /\ lineFrom <= pos /\ pos \in Nat
  BY DEF ProcessByte, ReaderInv, TypeOK, SeqOfLines
<1>2. /\ UNCHANGED <<pc, resume, outbox, read>> /\ buf' = Tail(buf)
      /\ Len(buf') = Len(buf) - 1 /\ Len(buf) \in Nat /\ read \in Nat
  BY <1>1 DEF ProcessByte, TypeOK
<1>3. OutFrom = BatchFrom /\ OutFrom' = BatchFrom'
  BY <1>1, <1>2 DEF OutFrom, StartOf
<1>4. CASE Head(buf) = "delimiter"
  <2>1. batch' = Append(batch, l) /\ lineFrom' = pos + 1
    BY <1>4 DEF ProcessByte
  <2>2. l \in Line /\ l.from = lineFrom /\ l.to = pos
    BY <1>1 DEF Line
  <2> HIDE DEF l
  <2>3. batch' = batch \o <<l>>
    BY <1>1, <2>1, <2>2, AppendIsConcat
  <2>4. /\ Tight(batch') /\ LastOf(batch') = l /\ batch' # <<>>
        /\ StartOf(batch', 0) = StartOf(batch, lineFrom)
    BY <1>1, <2>2, <2>3, TightAppend
  <2>5. EndsBefore(batch', lineFrom')
    BY <2>1, <2>2, <2>4 DEF EndsBefore
  <2>6. BatchFrom' = BatchFrom
    BY <2>4 DEF BatchFrom, StartOf
  <2>7. lineFrom' + Len(buf') <= read' + 1 /\ lineFrom <= lineFrom'
    BY <1>1, <1>2, <2>1
  <2>8. ReaderInv'
    BY <1>1, <1>2, <2>4, <2>5, <2>7, TightEmpty DEF ReaderInv
  <2>9. QED
    BY <1>1, <1>2, <1>3, <2>6, <2>7, <2>8
<1>5. CASE Head(buf) # "delimiter"
  <2>1. batch' = batch /\ lineFrom' = lineFrom
    BY <1>5 DEF ProcessByte
  <2>2. lineFrom' + Len(buf') <= read' + 1 /\ lineFrom <= lineFrom'
    BY <1>1, <1>2, <2>1
  <2>3. ReaderInv'
    BY <1>1, <1>2, <2>1, <2>2, TightEmpty DEF ReaderInv
  <2>4. QED
    BY <1>1, <1>2, <1>3, <2>1, <2>2, <2>3 DEF BatchFrom
<1>6. QED
  BY <1>4, <1>5

\* The other steps of the reader, except that of the channel.
LEMMA ReaderStepInv ==
  ASSUME TypeOK, TypeOK', ReaderInv,
         \/ ReadBytes \/ ProcessByte \/ ChunkDone \/ FlushTimer \/ ReadFails
         \/ LinkLost \/ StopReading \/ StopBackoff \/ BackoffElapsed \/ TryConnect
  PROVE  ReaderInv' /\ OutFrom' = OutFrom /\ lineFrom <= lineFrom' /\ pc' # "down"
<1> USE TightEmpty
<1>0. lineFrom \in Nat \ {0} /\ read \in Nat /\ batch \in Seq(Line)
  BY DEF TypeOK, SeqOfLines
<1>1. CASE ReadBytes
  <2>1. PICK data \in Chunk : buf' = data /\ read' = read + Len(data)
    BY <1>1 DEF ReadBytes
  <2>2. lineFrom + Len(buf) <= read + 1 /\ buf = <<>> /\ Len(data) \in Nat
    BY <1>1, <2>1, ChunkSeq DEF ReaderInv, ReadBytes
  <2>3. lineFrom' + Len(buf') <= read' + 1
    BY <1>0, <1>1, <2>1, <2>2, Constants DEF ReadBytes
  <2>4. QED
    BY <1>0, <1>1, <2>3 DEF ReadBytes, ReaderInv, OutFrom, BatchFrom
<1>2. CASE ProcessByte
  BY <1>2, ProcessByteInv
<1>3. ASSUME NEW lines, lines = batch, SendBatch(lines, "select"), batch # <<>>,
             pc \in {"select", "process"}, buf' = <<>>, UNCHANGED <<read, lineFrom>>
      PROVE  ReaderInv' /\ OutFrom' = OutFrom /\ lineFrom <= lineFrom' /\ pc' # "down"
  <2>1. Tight(batch) /\ EndsBefore(batch, lineFrom') /\ lineFrom' \in Nat /\ lineFrom' <= read + 1
    BY <1>0, <1>3 DEF ReaderInv, TypeOK
  <2>2. StartOf(batch, 0) = BatchFrom
    BY <1>3 DEF StartOf, BatchFrom
  <2>3. ReaderInv' /\ OutFrom' = OutFrom /\ pc' # "down"
    BY <1>0, <1>3, <2>1, <2>2, SendBatchInv
  <2>4. QED
    BY <1>0, <1>3, <2>3
<1>4. CASE ChunkDone
  <2>1. CASE Len(batch) >= BatchSize
    <3>1. batch # <<>>
      BY <2>1, Constants, CaptureAssumption DEF CaptureAssumption
    <3>2. QED
      BY <1>3, <1>4, <2>1, <3>1 DEF ChunkDone
  <2>2. CASE ~(Len(batch) >= BatchSize)
    BY <1>0, <1>4, <2>2 DEF ChunkDone, ReaderInv, OutFrom, BatchFrom
  <2>3. QED
    BY <2>1, <2>2
<1>5. CASE FlushTimer
  BY <1>3, <1>5 DEF FlushTimer, Waiting, ReaderInv
<1>6. CASE ReadFails
  BY <1>6, FlushBatchInv DEF ReadFails
<1>7. CASE StopReading
  BY <1>7, FlushBatchInv DEF StopReading
<1>8. CASE LinkLost
  BY <1>0, <1>8 DEF LinkLost, ReaderInv, OutFrom, BatchFrom
<1>9. CASE StopBackoff
  BY <1>0, <1>9 DEF StopBackoff, ReaderInv, OutFrom, BatchFrom
<1>10. CASE BackoffElapsed
  BY <1>0, <1>10 DEF BackoffElapsed, ReaderInv, OutFrom, BatchFrom
<1>11. CASE TryConnect
  <2>1. pc = "connect" /\ pc' \in {"select", "backoff"}
    BY <1>11 DEF TryConnect, AfterFailedConnect
  <2>2. UNCHANGED <<resume, buf, lineFrom, batch, outbox, read>>
    BY <1>11 DEF TryConnect
  <2>3. QED
    BY <1>0, <2>1, <2>2 DEF ReaderInv, OutFrom, BatchFrom
<1>12. QED
  BY <1>1, <1>2, <1>4, <1>5, <1>6, <1>7, <1>8, <1>9, <1>10, <1>11

\* What lies before the reader does not see its steps.
LEMMA ChannelStable ==
  ASSUME TypeOK, TypeOK', ChannelInv, LogInv, OutFrom' = OutFrom, lineFrom <= lineFrom',
         UNCHANGED <<chan, writing, stored, settled, dbErrors, crashes>>,
         pc' = "down" => pc = "down"
  PROVE  ChannelInv' /\ LogInv'
<1>1. lineFrom \in Nat /\ lineFrom' \in Nat /\ settled \in Nat
  BY DEF TypeOK
<1>2. ASSUME NEW i \in 1 .. Len(chan) PROVE LastOf(chan[i]).to < lineFrom'
  <2>1. chan[i] \in Seq(Line) /\ chan[i] # <<>>
    BY ElementOfSeq DEF TypeOK, SeqOfLines, ChannelInv
  <2>2. LastOf(chan[i]).to < lineFrom /\ LastOf(chan[i]).to \in Nat
    BY <2>1, LastOfType DEF ChannelInv
  <2>3. QED
    BY <1>1, <2>2
<1>3. writing # <<>> => LastOf(writing).to < lineFrom'
  <2>1. writing \in Seq(Line)
    BY DEF TypeOK, SeqOfLines
  <2>2. QED
    BY <1>1, <2>1, LastOfType DEF ChannelInv
<1>4. settled < lineFrom'
  BY <1>1 DEF ChannelInv
<1>5. ChanFrom' = ChanFrom
  BY DEF ChanFrom
<1>6. ChannelInv'
  BY <1>2, <1>3, <1>4, <1>5 DEF ChannelInv
<1>7. LogInv'
  BY DEF LogInv, StoredInOrder, NoGap
<1>8. QED
  BY <1>6, <1>7

-----------------------------------------------------------------------------
(* The channel and the writer. *)

\* The outbox becomes the newest batch of the channel.
LEMMA SendInv ==
  ASSUME TypeOK, TypeOK', ReaderInv, ChannelInv, LogInv, Send
  PROVE  ReaderInv' /\ ChannelInv' /\ LogInv'
<1>1. /\ pc = "send" /\ outbox # <<>> /\ batch = <<>> /\ pc' = resume
      /\ chan' = Append(chan, outbox) /\ outbox' = <<>>
      /\ UNCHANGED <<resume, buf, lineFrom, batch, read, writing, stored, settled,
                     dbErrors, crashes>>
  BY DEF Send, ReaderInv, writerVars
<1>2. /\ outbox \in Seq(Line) /\ chan \in Seq(Seq(Line)) /\ writing \in Seq(Line)
      /\ lineFrom \in Nat /\ Len(chan) \in Nat
  BY DEF TypeOK, SeqOfLines
<1>3. /\ Len(chan') = Len(chan) + 1 /\ chan' # <<>>
      /\ \A i \in 1 .. Len(chan) : chan'[i] = chan[i]
      /\ chan'[Len(chan) + 1] = outbox
  BY <1>1, <1>2, AppendProperties
<1>4. BatchFrom = lineFrom /\ BatchFrom' = lineFrom /\ OutFrom' = lineFrom
  BY <1>1, TightEmpty DEF BatchFrom, OutFrom, StartOf
<1>5. /\ OutFrom = outbox[1].from /\ Tight(outbox) /\ LastOf(outbox).to + 1 = lineFrom
      /\ LastOf(outbox).to < lineFrom
  <2>1. OutFrom = outbox[1].from /\ Tight(outbox) /\ LastOf(outbox).to + 1 = lineFrom
    BY <1>1, <1>4 DEF OutFrom, StartOf, ReaderInv, EndsBefore
  <2>2. LastOf(outbox).to \in Nat
    BY <1>1, <1>2, LastOfType
  <2>3. QED
    BY <1>2, <2>1, <2>2
<1>6. ChanFrom' = ChanFrom
  <2>1. CASE chan = <<>>
    BY <1>2, <1>3, <1>5, <2>1, Constants DEF ChanFrom
  <2>2. CASE chan # <<>>
    <3>1. 1 \in 1 .. Len(chan)
      BY <1>2, <2>2, EmptySeq
    <3>2. QED
      BY <1>3, <2>2, <3>1 DEF ChanFrom
  <2>3. QED
    BY <2>1, <2>2
<1>7. \A i \in 1 .. Len(chan') : /\ chan'[i] # <<>> /\ Tight(chan'[i])
                                 /\ LastOf(chan'[i]).to < lineFrom
  BY <1>1, <1>2, <1>3, <1>5 DEF ChannelInv
<1>8. ASSUME NEW i \in 1 .. Len(chan') - 1
      PROVE  LastOf(chan'[i]).to + 1 = chan'[i + 1][1].from
  <2>1. CASE i < Len(chan)
    <3>1. i \in 1 .. Len(chan) - 1 /\ i \in 1 .. Len(chan) /\ i + 1 \in 1 .. Len(chan)
      BY <1>2, <1>3, <2>1
    <3>2. chan'[i] = chan[i] /\ chan'[i + 1] = chan[i + 1]
      BY <1>3, <3>1
    <3>3. QED
      BY <3>1, <3>2 DEF ChannelInv
  <2>2. CASE i = Len(chan)
    <3>1. chan # <<>> /\ LastOf(chan) = chan[i] /\ chan'[i] = chan[i] /\ chan'[i + 1] = outbox
      BY <1>2, <1>3, <2>2, Constants DEF LastOf
    <3>2. QED
      BY <1>5, <3>1 DEF ChannelInv
  <2>3. QED
    BY <1>2, <1>3, <2>1, <2>2
<1>9. LastOf(LastOf(chan')).to + 1 = OutFrom'
  BY <1>3, <1>4, <1>5 DEF LastOf
<1>10. ReaderInv'
  BY <1>1, <1>2, <1>4, TightEmpty DEF ReaderInv
<1>11. ChannelInv'
  BY <1>1, <1>6, <1>7, <1>8, <1>9 DEF ChannelInv, ReaderInv
<1>12. LogInv'
  BY <1>1 DEF LogInv, StoredInOrder, NoGap
<1>13. QED
  BY <1>10, <1>11, <1>12

\* The oldest batch of the channel becomes the one the writer stores.
LEMMA WriterRecvInv ==
  ASSUME TypeOK, TypeOK', ReaderInv, ChannelInv, LogInv, WriterRecv
  PROVE  ReaderInv' /\ ChannelInv' /\ LogInv'
<1>1. /\ pc # "down" /\ writing = <<>> /\ chan # <<>>
      /\ writing' = Head(chan) /\ chan' = Tail(chan)
      /\ UNCHANGED <<pc, resume, buf, lineFrom, batch, outbox, read, stored, settled,
                     dbErrors, crashes>>
  BY DEF WriterRecv, readerVars
<1>2. /\ chan \in Seq(Seq(Line)) /\ Len(chan) \in Nat \ {0} /\ lineFrom \in Nat
  BY <1>1, EmptySeq DEF TypeOK, SeqOfLines
<1>3. /\ writing' = chan[1] /\ Len(chan') = Len(chan) - 1
      /\ \A i \in 1 .. Len(chan') : chan'[i] = chan[i + 1]
  BY <1>1, <1>2, HeadTailProperties
<1>4. writing' # <<>> /\ Tight(writing') /\ LastOf(writing').to < lineFrom
  BY <1>2, <1>3 DEF ChannelInv
<1>5. OutFrom' = OutFrom
  BY <1>1 DEF OutFrom, BatchFrom
<1>6. EndsBefore(writing', ChanFrom')
  <2>1. CASE Len(chan) = 1
    <3>1. chan' = <<>> /\ LastOf(chan) = chan[1]
      BY <1>1, <1>2, <1>3, <2>1 DEF LastOf
    <3>2. QED
      BY <1>1, <1>3, <1>5, <3>1 DEF ChannelInv, ChanFrom, EndsBefore
  <2>2. CASE Len(chan) > 1
    <3>1. chan' # <<>> /\ chan'[1] = chan[1 + 1] /\ 1 \in 1 .. Len(chan) - 1
      BY <1>2, <1>3, <2>2, Constants
    <3>2. QED
      BY <1>3, <3>1 DEF ChannelInv, ChanFrom, EndsBefore
  <2>3. Len(chan) = 1 \/ Len(chan) > 1
    <3>1. \A n \in Nat \ {0} : n = 1 \/ n > 1
      OBVIOUS
    <3>2. QED
      BY ONLY <1>2, <3>1, Zenon
  <2>4. QED
    BY ONLY <2>1, <2>2, <2>3
<1>7. settled + 1 = StartOf(writing', ChanFrom')
  BY <1>1, <1>3, <1>4 DEF ChannelInv, StartOf, ChanFrom
<1>8. \A i \in 1 .. Len(chan') : /\ chan'[i] # <<>> /\ Tight(chan'[i])
                                 /\ LastOf(chan'[i]).to < lineFrom
  BY <1>2, <1>3 DEF ChannelInv
<1>9. \A i \in 1 .. Len(chan') - 1 : LastOf(chan'[i]).to + 1 = chan'[i + 1][1].from
  <2> TAKE i \in 1 .. Len(chan') - 1
  <2>1. /\ i + 1 \in 1 .. Len(chan) - 1
        /\ chan'[i] = chan[i + 1] /\ chan'[i + 1] = chan[(i + 1) + 1]
    <3>1. Len(chan') \in Nat /\ i \in 1 .. Len(chan') /\ i + 1 \in 1 .. Len(chan')
      BY ONLY <1>2, <1>3, i \in 1 .. Len(chan') - 1
    <3>2. QED
      BY ONLY <1>2, <1>3, <3>1
  <2>2. QED
    BY <2>1 DEF ChannelInv
<1>10. chan' # <<>> => LastOf(LastOf(chan')).to + 1 = OutFrom'
  <2> HAVE chan' # <<>>
  <2>1. Len(chan') \in Nat \ {0}
    BY <1>1, <1>2, HeadTailProperties, EmptySeq
  <2>2. LastOf(chan') = LastOf(chan)
    BY <1>2, <1>3, <2>1 DEF LastOf
  <2>3. QED
    BY <1>1, <1>5, <2>2 DEF ChannelInv
<1>11. ReaderInv'
  BY <1>1 DEF ReaderInv, BatchFrom
<1>12. ChannelInv'
  BY <1>1, <1>4, <1>6, <1>7, <1>8, <1>9, <1>10 DEF ChannelInv
<1>13. LogInv'
  BY <1>1 DEF LogInv, StoredInOrder, NoGap
<1>14. QED
  BY <1>11, <1>12, <1>13

\* The newest rows of a log are rows of it, in their order.
LEMMA NewestRows ==
  ASSUME NEW s \in Seq(Line), NEW n \in Nat
  PROVE  \E k \in 0 .. Len(s) :
           /\ Len(Newest(s, n)) = Len(s) - k
           /\ \A i \in 1 .. Len(s) - k : Newest(s, n)[i] = s[k + i]
           /\ k = 0 \/ (n < Len(s) /\ k = Len(s) - n)
<1>1. Len(s) \in Nat
  OBVIOUS
<1>2. CASE Len(s) <= n
  <2>1. Newest(s, n) = s
    BY <1>2 DEF Newest
  <2>2. 0 \in 0 .. Len(s)
    BY <1>1
  <2>3. QED
    BY <1>1, <2>1, <2>2
<1>3. CASE n < Len(s)
  <2> DEFINE k == Len(s) - n
  <2>1. k \in 0 .. Len(s) /\ Newest(s, n) = SubSeq(s, k + 1, Len(s))
    BY <1>1, <1>3 DEF Newest
  <2>2. \A i \in k + 1 .. Len(s) : s[i] \in Line
    BY <1>1, <2>1, ElementOfSeq
  <2>3. /\ Len(Newest(s, n)) = Len(s) - k
        /\ \A i \in 1 .. Len(s) - k : Newest(s, n)[i] = s[(k + 1) + i - 1]
    BY <1>1, <2>1, <2>2, SubSeqProperties
  <2>4. \A i \in 1 .. Len(s) - k : (k + 1) + i - 1 = k + i
    BY <1>1
  <2>5. /\ Len(Newest(s, n)) = Len(s) - k
        /\ \A i \in 1 .. Len(s) - k : Newest(s, n)[i] = s[k + i]
    BY <2>3, <2>4
  <2> HIDE DEF k
  <2>6. k = Len(s) - n
    BY DEF k
  <2>7. WITNESS k \in 0 .. Len(s)
  <2>8. QED
    BY <1>3, <2>5, <2>6
<1>4. Len(s) <= n \/ n < Len(s)
  BY <1>1
<1>5. QED
  BY <1>2, <1>3, <1>4

\* The rows of a log up to its front, with and without gaps.
Ordered(s, front) ==
  \A i \in 1 .. Len(s) :
    /\ s[i].from <= s[i].to
    /\ s[i].to <= front
    /\ i < Len(s) => s[i].to < s[i + 1].from

TouchingTo(s, front) ==
  s # <<>> => /\ \A i \in 1 .. Len(s) - 1 : s[i].to + 1 = s[i + 1].from
              /\ LastOf(s).to = front

\* A log in order up to the front stays so with the next batch behind it.
LEMMA OrderedConcat ==
  ASSUME NEW s \in Seq(Line), NEW t \in Seq(Line), t # <<>>, Tight(t),
         NEW front \in Nat, Ordered(s, front), front + 1 = t[1].from
  PROVE  /\ Ordered(s \o t, LastOf(t).to)
         /\ Ordered(s, LastOf(t).to)
         /\ TouchingTo(s, front) => TouchingTo(s \o t, LastOf(t).to)
<1> DEFINE u == s \o t
<1>1. /\ u \in Seq(Line) /\ Len(u) = Len(s) + Len(t)
      /\ Len(s) \in Nat /\ Len(t) \in Nat \ {0}
      /\ \A i \in 1 .. Len(u) : u[i] = IF i <= Len(s) THEN s[i] ELSE t[i - Len(s)]
  BY ConcatProperties, EmptySeq
<1>2. /\ t[1].from \in Nat /\ LastOf(t).to \in Nat /\ t[1].from <= LastOf(t).to
      /\ \A i \in 1 .. Len(t) : t[i].to <= LastOf(t).to
  BY LastOfType, TightLast
<1>3. Ordered(s, LastOf(t).to)
  <2> SUFFICES ASSUME NEW i \in 1 .. Len(s) PROVE s[i].to <= LastOf(t).to
    BY DEF Ordered
  <2>1. s[i].to <= front /\ s[i].to \in Nat
    BY FieldType DEF Ordered
  <2>2. QED
    BY <1>2, <2>1
<1> HIDE DEF u
<1>4. ASSUME NEW i \in 1 .. Len(u)
      PROVE  /\ u[i].from <= u[i].to
             /\ u[i].to <= LastOf(t).to
             /\ i < Len(u) => u[i].to < u[i + 1].from
  <2>1. CASE i < Len(s)
    <3>1. i \in 1 .. Len(s) /\ u[i] = s[i] /\ u[i + 1] = s[i + 1]
      BY <1>1, <2>1
    <3>2. QED
      BY <1>3, <2>1, <3>1 DEF Ordered
  <2>2. CASE i = Len(s)
    <3>1. i \in 1 .. Len(s) /\ u[i] = s[i] /\ u[i + 1] = t[1]
      BY <1>1, <2>2
    <3>2. s[i].from <= s[i].to /\ s[i].to <= front /\ s[i].to \in Nat
      BY <3>1, FieldType DEF Ordered
    <3>3. s[i].to <= LastOf(t).to /\ s[i].to < t[1].from
      BY <1>2, <3>2
    <3>4. QED
      BY <3>1, <3>2, <3>3
  <2>3. CASE i > Len(s)
    <3>1. i - Len(s) \in 1 .. Len(t) /\ u[i] = t[i - Len(s)]
      BY <1>1, <2>3
    <3>2. u[i].from <= u[i].to /\ u[i].to <= LastOf(t).to
      BY <1>2, <3>1 DEF Tight
    <3>3. ASSUME i < Len(u) PROVE u[i].to < u[i + 1].from
      <4>1. /\ (i - Len(s)) + 1 \in 1 .. Len(t) /\ u[i + 1] = t[(i - Len(s)) + 1]
            /\ i - Len(s) < (i - Len(s)) + 1
        BY <1>1, <2>3, <3>3
      <4>2. QED
        BY <3>1, <4>1 DEF Tight
    <3>4. QED
      BY <3>2, <3>3
  <2>4. QED
    BY <1>1, <2>1, <2>2, <2>3
<1>5. ASSUME TouchingTo(s, front), NEW i \in 1 .. Len(u) - 1
      PROVE  u[i].to + 1 = u[i + 1].from
  <2>1. CASE i < Len(s)
    <3>1. s # <<>> /\ i \in 1 .. Len(s) - 1 /\ u[i] = s[i] /\ u[i + 1] = s[i + 1]
      BY <1>1, <2>1, Constants
    <3>2. QED
      BY <1>5, <3>1 DEF TouchingTo
  <2>2. CASE i = Len(s)
    <3>1. s # <<>> /\ u[i] = LastOf(s) /\ u[i + 1] = t[1]
      BY <1>1, <2>2, Constants DEF LastOf
    <3>2. QED
      BY <1>5, <3>1 DEF TouchingTo
  <2>3. CASE i > Len(s)
    <3>1. i - Len(s) \in 1 .. Len(t) - 1 /\ u[i] = t[i - Len(s)] /\ u[i + 1] = t[(i - Len(s)) + 1]
      BY <1>1, <2>3
    <3>2. QED
      BY <3>1 DEF Tight
  <2>4. QED
    BY <1>1, <2>1, <2>2, <2>3
<1>6. LastOf(u) = LastOf(t)
  BY <1>1 DEF LastOf
<1>7. Ordered(u, LastOf(t).to)
  BY <1>4 DEF Ordered
<1>8. TouchingTo(s, front) => TouchingTo(u, LastOf(t).to)
  BY <1>5, <1>6 DEF TouchingTo
<1>9. QED
  BY <1>3, <1>7, <1>8 DEF u

\* A trim keeps order and touching.
LEMMA OrderedNewest ==
  ASSUME NEW s \in Seq(Line), NEW n \in Nat, NEW front \in Nat, Ordered(s, front)
  PROVE  /\ Ordered(Newest(s, n), front)
         /\ TouchingTo(s, front) => TouchingTo(Newest(s, n), front)
<1>1. Len(s) \in Nat /\ Newest(s, n) \in Seq(Line)
  <2>1. Len(s) \in Nat
    OBVIOUS
  <2>2. QED
    BY <2>1, NewestType
<1>2. PICK k \in 0 .. Len(s) :
        /\ Len(Newest(s, n)) = Len(s) - k
        /\ \A i \in 1 .. Len(s) - k : Newest(s, n)[i] = s[k + i]
  BY NewestRows
<1> DEFINE u == Newest(s, n)
<1> HIDE DEF u
<1>3. Ordered(u, front)
  <2> SUFFICES ASSUME NEW i \in 1 .. Len(u)
               PROVE  /\ u[i].from <= u[i].to /\ u[i].to <= front
                      /\ i < Len(u) => u[i].to < u[i + 1].from
    BY DEF Ordered
  <2>1. k + i \in 1 .. Len(s) /\ u[i] = s[k + i]
    BY <1>1, <1>2 DEF u
  <2>2. i < Len(u) => k + i < Len(s) /\ u[i + 1] = s[(k + i) + 1]
    BY <1>1, <1>2 DEF u
  <2>3. QED
    BY <2>1, <2>2 DEF Ordered
<1>4. ASSUME TouchingTo(s, front), u # <<>>
      PROVE  /\ \A i \in 1 .. Len(u) - 1 : u[i].to + 1 = u[i + 1].from
             /\ LastOf(u).to = front
  <2>1. Len(u) \in Nat \ {0} /\ Len(u) = Len(s) - k /\ s # <<>>
    BY <1>1, <1>2, <1>4, EmptySeq DEF u
  <2>2. ASSUME NEW i \in 1 .. Len(u) - 1 PROVE u[i].to + 1 = u[i + 1].from
    <3>1. k + i \in 1 .. Len(s) - 1 /\ u[i] = s[k + i] /\ u[i + 1] = s[(k + i) + 1]
      BY <1>1, <1>2, <2>1 DEF u
    <3>2. QED
      BY <1>4, <2>1, <3>1 DEF TouchingTo
  <2>3. LastOf(u) = LastOf(s)
    <3>1. \A m \in Nat : m # 0 => m \in 1 .. m
      OBVIOUS
    <3>2. Len(u) \in 1 .. Len(s) - k /\ u[Len(u)] = s[k + Len(u)]
      BY <1>1, <1>2, <2>1, <3>1 DEF u
    <3>3. k + Len(u) = Len(s)
      BY <1>1, <2>1
    <3>4. QED
      BY <3>2, <3>3 DEF LastOf
  <2>4. QED
    BY <1>4, <2>1, <2>2, <2>3 DEF TouchingTo
<1>5. QED
  BY <1>3, <1>4 DEF TouchingTo, u

\* The writer settles its batch: stored as a whole, or lost as a whole.
LEMMA WriterStoreInv ==
  ASSUME TypeOK, TypeOK', ReaderInv, ChannelInv, LogInv, WriterStore
  PROVE  ReaderInv' /\ ChannelInv' /\ LogInv'
<1>1. /\ writing # <<>> /\ writing' = <<>> /\ settled' = LastOf(writing).to
      /\ UNCHANGED <<pc, resume, buf, lineFrom, batch, outbox, read, chan, crashes>>
  BY DEF WriterStore, readerVars
<1>2. /\ writing \in Seq(Line) /\ stored \in Seq(Line) /\ stored' \in Seq(Line)
      /\ settled \in Nat /\ settled' \in Nat /\ MaxBufferLines \in Nat
  BY CaptureAssumption DEF CaptureAssumption, TypeOK, SeqOfLines
<1>3. /\ Tight(writing) /\ settled + 1 = writing[1].from
      /\ LastOf(writing).to + 1 = ChanFrom /\ LastOf(writing).to < lineFrom
  BY <1>1 DEF ChannelInv, EndsBefore, StartOf
<1>4. ChanFrom' = ChanFrom
  BY <1>1 DEF ChanFrom, OutFrom, BatchFrom
<1>5. ReaderInv'
  BY <1>1 DEF ReaderInv, BatchFrom
<1>6. ChannelInv'
  <2>1. /\ \A i \in 1 .. Len(chan') : chan'[i] # <<>> /\ Tight(chan'[i])
        /\ \A i \in 1 .. Len(chan') - 1 : LastOf(chan'[i]).to + 1 = chan'[i + 1][1].from
        /\ chan' # <<>> => LastOf(LastOf(chan')).to + 1 = OutFrom'
        /\ \A i \in 1 .. Len(chan') : LastOf(chan'[i]).to < lineFrom'
        /\ pc' = "down" => chan' = <<>> /\ writing' = <<>>
    BY <1>1 DEF ChannelInv, OutFrom, BatchFrom
  <2>2. Tight(writing') /\ EndsBefore(writing', ChanFrom')
    BY <1>1, TightEmpty
  <2>3. settled' + 1 = StartOf(writing', ChanFrom') /\ settled' < lineFrom'
    BY <1>1, <1>3, <1>4, TightEmpty
  <2>4. QED
    BY <1>1, <2>1, <2>2, <2>3 DEF ChannelInv
<1>7. Ordered(stored, settled) /\ ((dbErrors = 0 /\ crashes = 0) => TouchingTo(stored, settled))
  BY DEF LogInv, StoredInOrder, NoGap, Ordered, TouchingTo
<1>8. PICK inserted \in BOOLEAN, trimmed \in BOOLEAN :
        /\ dbErrors' = IF inserted /\ trimmed THEN dbErrors ELSE dbErrors + 1
        /\ LET rows == IF inserted THEN stored \o writing ELSE stored
           IN  stored' = IF TrimDue /\ trimmed
                         THEN Newest(rows, MaxBufferLines)
                         ELSE rows
  BY Zenon DEF WriterStore
<1> DEFINE rows == IF inserted THEN stored \o writing ELSE stored
<1>9. rows \in Seq(Line)
  BY <1>2, ConcatProperties
<1>10. Ordered(rows, settled')
  BY <1>1, <1>2, <1>3, <1>7, OrderedConcat
<1>11. dbErrors' = 0 /\ crashes' = 0 => TouchingTo(rows, settled')
  <2> HAVE dbErrors' = 0 /\ crashes' = 0
  <2>1. dbErrors \in Nat
    BY DEF TypeOK
  <2>2. \A n \in Nat : n + 1 # 0
    OBVIOUS
  <2>3. inserted = TRUE /\ dbErrors = 0 /\ crashes = 0
    BY <1>1, <1>8, <2>1, <2>2, Zenon
  <2>4. rows = stored \o writing
    BY <2>3, Zenon
  <2>5. QED
    BY <1>1, <1>2, <1>3, <1>7, <2>3, <2>4, OrderedConcat
<1>12. stored' = Newest(rows, MaxBufferLines) \/ stored' = rows
  BY <1>8, Zenon
<1> HIDE DEF rows
<1>13. Ordered(stored', settled') /\ (TouchingTo(rows, settled') => TouchingTo(stored', settled'))
  BY <1>2, <1>9, <1>10, <1>12, OrderedNewest
<1>14. LogInv'
  BY <1>11, <1>13 DEF LogInv, StoredInOrder, NoGap, Ordered, TouchingTo
<1>15. QED
  BY <1>5, <1>6, <1>14

-----------------------------------------------------------------------------
(* The rest of the world. *)

\* The daemon dies: nothing of the pipeline is left, the log stays in order.
LEMMA CrashInv ==
  ASSUME TypeOK, TypeOK', ReaderInv, ChannelInv, LogInv, Crash
  PROVE  ReaderInv' /\ ChannelInv' /\ LogInv'
<1>1. /\ pc' = "down" /\ buf' = <<>> /\ batch' = <<>> /\ outbox' = <<>>
      /\ chan' = <<>> /\ writing' = <<>> /\ settled' = read /\ lineFrom' = read + 1
      /\ UNCHANGED <<stored, read, resume>> /\ crashes' = crashes + 1
  BY DEF Crash
<1>2. read \in Nat /\ settled \in Nat /\ crashes \in Nat /\ lineFrom \in Nat /\ Len(buf) \in Nat
  BY DEF TypeOK
<1>3. settled <= read
  BY <1>2 DEF ReaderInv, ChannelInv
<1>4. BatchFrom' = read + 1 /\ OutFrom' = read + 1 /\ ChanFrom' = read + 1
  BY <1>1, TightEmpty DEF BatchFrom, OutFrom, ChanFrom
<1>5. ReaderInv'
  <2>1. lineFrom' + Len(buf') <= read' + 1
    <3>1. Len(buf') = 0
      BY <1>1, Constants
    <3>2. \A n \in Nat : (n + 1) + 0 <= n + 1
      OBVIOUS
    <3>3. QED
      BY ONLY <1>1, <1>2, <3>1, <3>2, Zenon
  <2>2. resume \in {"select", "lost", "done"}
    BY DEF ReaderInv
  <2>3. QED
    BY <1>1, <2>1, <2>2, TightEmpty DEF ReaderInv
<1>6. ChannelInv'
  <2>1. \A i \in 1 .. Len(chan') : FALSE
    BY <1>1, Constants
  <2>2. \A i \in 1 .. Len(chan') - 1 : FALSE
    BY <1>1, Constants
  <2>3. settled' + 1 = StartOf(writing', ChanFrom') /\ settled' < lineFrom'
    BY <1>1, <1>2, <1>4, TightEmpty
  <2>4. QED
    BY <1>1, <2>1, <2>2, <2>3, TightEmpty DEF ChannelInv
<1>7. StoredInOrder'
  <2> SUFFICES ASSUME NEW i \in 1 .. Len(stored)
               PROVE  /\ stored[i].from <= stored[i].to /\ stored[i].to <= read
                      /\ i < Len(stored) => stored[i].to < stored[i + 1].from
    BY <1>1 DEF StoredInOrder
  <2>1. stored[i].to \in Nat
    BY FieldType DEF TypeOK, SeqOfLines
  <2>2. stored[i].to <= settled
    BY DEF LogInv, StoredInOrder
  <2>3. QED
    BY <1>2, <1>3, <2>1, <2>2 DEF LogInv, StoredInOrder
<1>8. NoGap'
  BY <1>1, <1>2 DEF NoGap
<1>9. QED
  BY <1>5, <1>6, <1>7, <1>8 DEF LogInv

\* A restart begins with an empty pipeline behind the log it finds.
LEMMA RestartInv ==
  ASSUME TypeOK, TypeOK', ReaderInv, ChannelInv, LogInv, Restart
  PROVE  ReaderInv' /\ ChannelInv' /\ LogInv'
<1>1. /\ pc = "down" /\ pc' = "select"
      /\ UNCHANGED <<resume, buf, lineFrom, batch, outbox, writing, stored, settled,
                     dbErrors, chan, read, crashes>>
  BY DEF Restart
<1>2. ReaderInv'
  BY <1>1 DEF ReaderInv, BatchFrom
<1>3. ChannelInv'
  BY <1>1 DEF ChannelInv, ChanFrom, OutFrom, BatchFrom
<1>4. LogInv'
  BY <1>1 DEF LogInv, StoredInOrder, NoGap
<1>5. QED
  BY <1>2, <1>3, <1>4

\* Steps that touch neither the pipeline nor the log.
LEMMA StutterInv ==
  ASSUME ReaderInv, ChannelInv, LogInv,
         UNCHANGED <<readerVars, writing, stored, settled, dbErrors, chan, read, crashes>>
  PROVE  ReaderInv' /\ ChannelInv' /\ LogInv'
<1>1. UNCHANGED <<pc, resume, buf, lineFrom, batch, outbox>>
  BY DEF readerVars
<1>2. ReaderInv'
  BY <1>1 DEF ReaderInv, BatchFrom
<1>3. ChannelInv'
  BY <1>1 DEF ChannelInv, ChanFrom, OutFrom, BatchFrom
<1>4. LogInv'
  BY DEF LogInv, StoredInOrder, NoGap
<1>5. QED
  BY <1>2, <1>3, <1>4

-----------------------------------------------------------------------------
\* What was read is one chain of touching lines from the rows of the log to the
\* bytes the reader has not looked at yet (the way of a line through reader.rs).
THEOREM PipelineInvariant == Spec => []PipelineInv
<1>1. Init => PipelineInv
  <2> SUFFICES ASSUME Init PROVE PipelineInv
    OBVIOUS
  <2>1. Len(buf) = 0 /\ Len(stored) = 0 /\ Len(chan) = 0
    BY Constants DEF Init
  <2>2. ReaderInv
    BY <2>1, TightEmpty DEF Init, ReaderInv, BatchFrom
  <2>3. ChanFrom = 1
    BY TightEmpty DEF Init, ChanFrom, OutFrom, BatchFrom
  <2>4. ChannelInv
    BY <2>1, <2>3, TightEmpty DEF Init, ChannelInv
  <2>5. LogInv
    BY <2>1 DEF Init, LogInv, StoredInOrder, NoGap
  <2>6. QED
    BY <2>2, <2>4, <2>5 DEF PipelineInv
<1>2. TypeOK /\ TypeOK' /\ PipelineInv /\ [Next]_vars => PipelineInv'
  <2> SUFFICES ASSUME TypeOK, TypeOK', ReaderInv, ChannelInv, LogInv, [Next]_vars
               PROVE  ReaderInv' /\ ChannelInv' /\ LogInv'
    BY DEF PipelineInv
  <2>1. CASE \/ ReadBytes \/ ProcessByte \/ ChunkDone \/ FlushTimer \/ ReadFails
             \/ LinkLost \/ StopReading \/ StopBackoff \/ BackoffElapsed \/ TryConnect
    <3>1. UNCHANGED <<chan, writing, stored, settled, dbErrors, crashes>>
      BY <2>1, Zenon DEF ReadBytes, ProcessByte, ChunkDone, FlushTimer, ReadFails,
         LinkLost, StopReading, StopBackoff, BackoffElapsed, TryConnect, writerVars
    <3>2. ReaderInv' /\ OutFrom' = OutFrom /\ lineFrom <= lineFrom' /\ pc' # "down"
      BY <2>1, ReaderStepInv
    <3>3. QED
      BY <3>1, <3>2, ChannelStable
  <2>2. CASE Send
    BY <2>2, SendInv
  <2>3. CASE WriterRecv
    BY <2>3, WriterRecvInv
  <2>4. CASE WriterStore
    BY <2>4, WriterStoreInv
  <2>5. CASE Crash
    BY <2>5, CrashInv
  <2>6. CASE Restart
    BY <2>6, RestartInv
  <2>7. CASE Shutdown \/ Unplug \/ Plug \/ UNCHANGED vars
    <3>1. UNCHANGED <<readerVars, writing, stored, settled, dbErrors, chan, read, crashes>>
      BY <2>7, Zenon DEF Shutdown, Unplug, Plug, vars, writerVars
    <3>2. QED
      BY <3>1, StutterInv
  <2>8. QED
    BY <2>1, <2>2, <2>3, <2>4, <2>5, <2>6, <2>7 DEF Next, Reader, Writer, Environment
<1>3. QED
  BY <1>1, <1>2, TypeCorrect, PTL DEF Spec

\* The rows of the log are in the order of the bytes they came from.
THEOREM LogInOrder == Spec => []StoredInOrder
<1>1. PipelineInv => StoredInOrder
  BY DEF PipelineInv, LogInv
<1>2. QED
  BY <1>1, PipelineInvariant, PTL

\* Nothing between two rows was dropped unless an insert failed or a daemon died.
THEOREM LogWithoutGap == Spec => []NoGap
<1>1. PipelineInv => NoGap
  BY DEF PipelineInv, LogInv
<1>2. QED
  BY <1>1, PipelineInvariant, PTL

-----------------------------------------------------------------------------
(* Lines are cut at breaks only.  This holds of the rows because it holds of *)
(* every line on its way there.                                             *)

\* Every line of s that lacks its delimiter ends at one of the positions B.
Cut(s, B) == \A i \in 1 .. Len(s) : ~s[i].ended => s[i].to \in B

CutsInv ==
  /\ Cut(batch, breaks) /\ Cut(outbox, breaks) /\ Cut(writing, breaks) /\ Cut(stored, breaks)
  /\ \A k \in 1 .. Len(chan) : Cut(chan[k], breaks)

\* No line lacks its delimiter where there is none.
LEMMA CutEmpty == \A B : Cut(<<>>, B)
BY Constants DEF Cut

\* Breaks are never forgotten.
LEMMA CutMore ==
  ASSUME NEW s, NEW B, NEW C, Cut(s, B), B \subseteq C
  PROVE  Cut(s, C)
BY DEF Cut

\* Two sequences cut at breaks are so together.
LEMMA CutConcat ==
  ASSUME NEW s \in Seq(Line), NEW t \in Seq(Line), NEW B, Cut(s, B), Cut(t, B)
  PROVE  Cut(s \o t, B)
<1> DEFINE u == s \o t
<1>1. /\ Len(u) = Len(s) + Len(t) /\ Len(s) \in Nat /\ Len(t) \in Nat
      /\ \A i \in 1 .. Len(u) : u[i] = IF i <= Len(s) THEN s[i] ELSE t[i - Len(s)]
  BY ConcatProperties
<1> HIDE DEF u
<1>2. SUFFICES ASSUME NEW i \in 1 .. Len(u), ~u[i].ended PROVE u[i].to \in B
  BY DEF Cut, u
<1>3. CASE i <= Len(s)
  BY <1>1, <1>2, <1>3 DEF Cut
<1>4. CASE i > Len(s)
  <2>1. i - Len(s) \in 1 .. Len(t) /\ u[i] = t[i - Len(s)]
    BY <1>1, <1>4
  <2>2. QED
    BY <1>2, <2>1 DEF Cut
<1>5. QED
  BY <1>1, <1>3, <1>4

\* A trim cuts no line.
LEMMA CutNewest ==
  ASSUME NEW s \in Seq(Line), NEW n \in Nat, NEW B, Cut(s, B)
  PROVE  Cut(Newest(s, n), B)
<1>1. PICK k \in 0 .. Len(s) :
        /\ Len(Newest(s, n)) = Len(s) - k
        /\ \A i \in 1 .. Len(s) - k : Newest(s, n)[i] = s[k + i]
  BY NewestRows
<1> DEFINE u == Newest(s, n)
<1> HIDE DEF u
<1>2. SUFFICES ASSUME NEW i \in 1 .. Len(u), ~u[i].ended PROVE u[i].to \in B
  BY DEF Cut, u
<1>3. k + i \in 1 .. Len(s) /\ u[i] = s[k + i]
  BY <1>1 DEF u
<1>4. QED
  BY <1>2, <1>3 DEF Cut

\* What flush_batch sends was cut where the break is.
LEMMA CutFlushed ==
  ASSUME TypeOK, Cut(batch, breaks)
  PROVE  Cut(FlushedLines, breaks \cup {read})
<1>1. Cut(batch, breaks \cup {read})
  BY CutMore
<1>2. Cut(PartialLine, breaks \cup {read})
  <2>1. CASE lineFrom <= read
    <3>1. Len(PartialLine) = 1 /\ PartialLine[1].to = read
      BY <2>1 DEF PartialLine
    <3>2. QED
      BY <3>1 DEF Cut
  <2>2. CASE ~(lineFrom <= read)
    BY <2>2, CutEmpty DEF PartialLine
  <2>3. QED
    BY <2>1, <2>2
<1>3. batch \in Seq(Line) /\ PartialLine \in Seq(Line)
  BY PartialLineType DEF TypeOK, SeqOfLines
<1>4. QED
  BY <1>1, <1>2, <1>3, CutConcat DEF FlushedLines

\* flush_batch notes the break at which it cuts.
LEMMA FlushBatchCuts ==
  ASSUME TypeOK, NEW next, FlushBatch(next), CutsInv
  PROVE  Cut(batch', breaks') /\ Cut(outbox', breaks') /\ breaks \subseteq breaks'
<1>1. breaks' = breaks \cup {read} /\ Cut(FlushedLines, breaks')
  BY CutFlushed DEF CutsInv, FlushBatch
<1>2. CASE FlushedLines = <<>>
  <2>1. UNCHANGED <<batch, outbox>>
    BY <1>2 DEF FlushBatch
  <2>2. QED
    BY <1>1, <2>1, CutMore DEF CutsInv
<1>3. CASE FlushedLines # <<>>
  <2>1. outbox' = FlushedLines /\ batch' = <<>>
    BY <1>3 DEF FlushBatch, SendBatch
  <2>2. QED
    BY <1>1, <2>1, CutEmpty
<1>4. QED
  BY <1>2, <1>3

\* A step that leaves the channel and the writer alone.
LEMMA ReaderCuts ==
  ASSUME CutsInv, UNCHANGED <<chan, writing, stored>>, breaks \subseteq breaks',
         Cut(batch', breaks'), Cut(outbox', breaks')
  PROVE  CutsInv'
<1>1. Cut(writing, breaks') /\ Cut(stored, breaks') /\ \A k \in 1 .. Len(chan) : Cut(chan[k], breaks')
  BY CutMore DEF CutsInv
<1>2. QED
  BY <1>1 DEF CutsInv

\* Every line that lacks its delimiter was cut by a break.
THEOREM CutsInvariant == Spec => []CutsInv
<1>1. Init => CutsInv
  <2> SUFFICES ASSUME Init PROVE CutsInv
    OBVIOUS
  <2>1. batch = <<>> /\ outbox = <<>> /\ writing = <<>> /\ stored = <<>> /\ Len(chan) = 0
    BY Constants DEF Init
  <2>2. QED
    BY <2>1, CutEmpty DEF CutsInv
<1>2. TypeOK /\ CutsInv /\ [Next]_vars => CutsInv'
  <2> SUFFICES ASSUME TypeOK, CutsInv, [Next]_vars PROVE CutsInv'
    OBVIOUS
  <2>1. CASE ProcessByte
    <3>1. UNCHANGED <<chan, writing, stored, outbox, breaks>>
      BY <2>1 DEF ProcessByte, writerVars
    <3>2. CASE batch' = batch
      BY <3>1, <3>2, ReaderCuts DEF CutsInv
    <3>3. CASE batch' # batch
      <4> DEFINE line == [from |-> lineFrom, to |-> read - Len(buf) + 1, ended |-> TRUE]
      <4>1. batch' = Append(batch, line) /\ batch \in Seq(Line)
        BY <2>1, <3>3 DEF ProcessByte, TypeOK, SeqOfLines
      <4>2. line.ended
        OBVIOUS
      <4> HIDE DEF line
      <4>3. /\ Len(batch') = Len(batch) + 1 /\ Len(batch) \in Nat
            /\ \A i \in 1 .. Len(batch) : batch'[i] = batch[i]
            /\ batch'[Len(batch) + 1] = line
        BY <4>1, AppendProperties
      <4>4. Cut(batch', breaks)
        BY <4>2, <4>3 DEF CutsInv, Cut
      <4>5. QED
        BY <3>1, <4>4, ReaderCuts DEF CutsInv
    <3>4. QED
      BY <3>2, <3>3
  <2>2. CASE ChunkDone \/ FlushTimer
    <3>1. /\ UNCHANGED <<chan, writing, stored, breaks>>
          /\ \/ UNCHANGED <<batch, outbox>>
             \/ outbox' = batch /\ batch' = <<>>
      BY <2>2 DEF ChunkDone, FlushTimer, SendBatch, writerVars
    <3>2. Cut(batch', breaks') /\ Cut(outbox', breaks')
      BY <3>1, CutEmpty DEF CutsInv
    <3>3. QED
      BY <3>1, <3>2, ReaderCuts
  <2>3. CASE ReadFails \/ StopReading
    <3>1. UNCHANGED <<chan, writing, stored>> /\ \E next \in {"lost", "done"} : FlushBatch(next)
      BY <2>3 DEF ReadFails, StopReading, writerVars
    <3>2. QED
      BY <3>1, FlushBatchCuts, ReaderCuts
  <2>4. CASE Send
    <3>1. /\ UNCHANGED <<batch, writing, stored, breaks>> /\ outbox' = <<>>
          /\ chan' = Append(chan, outbox) /\ chan \in Seq(Seq(Line))
      BY <2>4 DEF Send, writerVars, TypeOK, SeqOfLines
    <3>2. /\ Len(chan') = Len(chan) + 1 /\ Len(chan) \in Nat
          /\ \A i \in 1 .. Len(chan) : chan'[i] = chan[i]
          /\ chan'[Len(chan) + 1] = outbox
      BY <3>1, outbox \in Seq(Line), AppendProperties DEF TypeOK, SeqOfLines
    <3>3. ASSUME NEW k \in 1 .. Len(chan') PROVE Cut(chan'[k], breaks)
      <4>1. CASE k \in 1 .. Len(chan)
        BY <3>2, <4>1 DEF CutsInv
      <4>2. CASE k = Len(chan) + 1
        BY <3>2, <4>2 DEF CutsInv
      <4>3. QED
        BY <3>2, <4>1, <4>2
    <3>4. QED
      BY <3>1, <3>3, CutEmpty DEF CutsInv
  <2>5. CASE WriterRecv
    <3>1. /\ UNCHANGED <<batch, outbox, stored, breaks>>
          /\ chan # <<>> /\ writing' = Head(chan) /\ chan' = Tail(chan)
          /\ chan \in Seq(Seq(Line))
      BY <2>5 DEF WriterRecv, readerVars, TypeOK, SeqOfLines
    <3>2. /\ Len(chan) \in Nat \ {0} /\ writing' = chan[1] /\ Len(chan') = Len(chan) - 1
          /\ \A k \in 1 .. Len(chan') : chan'[k] = chan[k + 1]
      BY <3>1, HeadTailProperties, EmptySeq
    <3>3. Cut(writing', breaks) /\ \A k \in 1 .. Len(chan') : Cut(chan'[k], breaks)
      BY <3>2 DEF CutsInv
    <3>4. QED
      BY <3>1, <3>3 DEF CutsInv
  <2>6. CASE WriterStore
    <3>1. UNCHANGED <<batch, outbox, chan, breaks>> /\ writing' = <<>>
      BY <2>6 DEF WriterStore, readerVars
    <3>2. stored \in Seq(Line) /\ writing \in Seq(Line) /\ MaxBufferLines \in Nat
      BY CaptureAssumption DEF CaptureAssumption, TypeOK, SeqOfLines
    <3>3. PICK rows \in {stored, stored \o writing} : stored' \in {rows, Newest(rows, MaxBufferLines)}
      BY <2>6 DEF WriterStore
    <3>4. rows \in Seq(Line) /\ Cut(rows, breaks)
      BY <3>2, <3>3, CutConcat, ConcatProperties DEF CutsInv
    <3>5. Cut(stored', breaks)
      BY <3>2, <3>3, <3>4, CutNewest
    <3>6. QED
      BY <3>1, <3>5, CutEmpty DEF CutsInv
  <2>7. CASE Crash
    <3>1. /\ batch' = <<>> /\ outbox' = <<>> /\ writing' = <<>> /\ Len(chan') = 0
          /\ stored' = stored /\ breaks \subseteq breaks'
      BY <2>7, Constants DEF Crash
    <3>2. Cut(stored', breaks')
      BY <3>1, CutMore DEF CutsInv
    <3>3. QED
      BY <3>1, <3>2, CutEmpty DEF CutsInv
  <2>8. CASE \/ ReadBytes \/ LinkLost \/ StopBackoff \/ BackoffElapsed \/ TryConnect
             \/ Shutdown \/ Unplug \/ Plug \/ Restart \/ UNCHANGED vars
    <3>1. UNCHANGED <<batch, outbox, chan, writing, stored, breaks>>
      BY <2>8, Zenon DEF ReadBytes, LinkLost, StopBackoff, BackoffElapsed, TryConnect, Shutdown,
         Unplug, Plug, Restart, vars, readerVars, writerVars
    <3>2. QED
      BY <3>1 DEF CutsInv, Cut
  <2>9. QED
    BY <2>1, <2>2, <2>3, <2>4, <2>5, <2>6, <2>7, <2>8 DEF Next, Reader, Writer, Environment
<1>3. QED
  BY <1>1, <1>2, TypeCorrect, PTL DEF Spec

\* The log of a port is a faithful record of what its device sent: in order,
\* each byte once, nothing missing without a failed insert or a dead daemon,
\* and no line cut but by the end of a link or of a task.
THEOREM LogIsFaithful == Spec => []LogFaithful
<1>1. CutsInv => CutOnlyAtBreaks
  BY DEF CutsInv, Cut, CutOnlyAtBreaks
<1>2. QED
  BY <1>1, LogInOrder, LogWithoutGap, CutsInvariant, PTL DEF LogFaithful

\* A capture that ended has settled every byte it read.
THEOREM EndLeavesNothing == Spec => []NothingLeftBehind
<1>1. TypeOK /\ PipelineInv => NothingLeftBehind
  <2> SUFFICES ASSUME TypeOK, ReaderInv, ChannelInv, Ended PROVE settled = read
    BY DEF PipelineInv, NothingLeftBehind
  <2>1. /\ pc = "done" /\ chan = <<>> /\ writing = <<>> /\ outbox = <<>> /\ batch = <<>>
        /\ lineFrom = read + 1
    BY DEF Ended, ReaderInv
  <2>2. ChanFrom = read + 1
    BY <2>1, TightEmpty DEF ChanFrom, OutFrom, BatchFrom
  <2>3. settled + 1 = read + 1
    BY <2>1, <2>2, TightEmpty DEF ChannelInv
  <2>4. QED
    BY <2>3 DEF TypeOK
<1>2. QED
  BY <1>1, TypeCorrect, PipelineInvariant, PTL

-----------------------------------------------------------------------------
(* The capture implements CaptureLog. *)

\* A write of the writer task commits its batch or loses it.
LEMMA StoreRefines ==
  ASSUME TypeOK, TypeOK', ReaderInv, ChannelInv, LogInv, WriterStore
  PROVE  Log!Commit \/ Log!Lose
<1> DEFINE M == MaxBufferLines
           b == Len(writing)
           n == Len(stored)
<1>1. /\ writing # <<>> /\ settled' = LastOf(writing).to
      /\ Tight(writing) /\ settled + 1 = writing[1].from
  BY DEF WriterStore, ChannelInv, StartOf
<1>2. /\ writing \in Seq(Line) /\ stored \in Seq(Line) /\ stored' \in Seq(Line)
      /\ settled \in Nat /\ settled' \in Nat /\ M \in Nat
      /\ n \in Nat /\ b \in Nat \ {0}
  BY <1>1, LastOfType, CaptureAssumption DEF CaptureAssumption, TypeOK, SeqOfLines
<1>3. settled' > settled
  BY <1>1, <1>2, TightLast, LastOfType
<1>4. PICK inserted \in BOOLEAN, trimmed \in BOOLEAN :
        LET rows == IF inserted THEN stored \o writing ELSE stored
        IN  stored' = IF TrimDue /\ trimmed THEN Newest(rows, M) ELSE rows
  BY Zenon DEF WriterStore
<1> DEFINE rows == IF inserted THEN stored \o writing ELSE stored
<1>5. rows \in Seq(Line) /\ Len(rows) \in Nat
  BY <1>2, ConcatProperties
<1>6. (TrimDue /\ stored' = Newest(rows, M)) \/ stored' = rows
  BY <1>4, Zenon
<1>7. TrimDue => M > 0
  BY DEF TrimDue
<1>8. inserted => rows = stored \o writing
  BY Zenon
<1>9. ~inserted => rows = stored
  BY Zenon
<1> HIDE DEF rows, M
<1>10. PICK d \in 0 .. Len(rows) :
         /\ Len(stored') = Len(rows) - d
         /\ \A i \in 1 .. Len(rows) - d : stored'[i] = rows[d + i]
         /\ d = 0 \/ (M > 0 /\ M < Len(rows) /\ d = Len(rows) - M)
  <2>1. CASE stored' = rows
    <3>1. 0 \in 0 .. Len(rows) /\ \A i \in 1 .. Len(rows) - 0 : rows[i] = rows[0 + i]
      BY <1>5
    <3>2. Len(rows) = Len(rows) - 0
      BY <1>5
    <3>3. QED
      BY <2>1, <3>1, <3>2
  <2>2. CASE TrimDue /\ stored' = Newest(rows, M)
    BY <1>2, <1>5, <1>7, <2>2, NewestRows
  <2>3. QED
    BY <1>6, <2>1, <2>2
<1>11. CASE inserted
  <2>1. /\ Len(rows) = n + b
        /\ \A i \in 1 .. n + b : rows[i] = IF i <= n THEN stored[i] ELSE writing[i - n]
    BY <1>2, <1>8, <1>11, ConcatProperties
  <2> HIDE DEF n, b
  <2>2. Len(stored') > 0 /\ Len(stored') = n + b - d
    BY <1>2, <1>10, <2>1
  \* k rows of before the write are still there
  <2> DEFINE k == IF d <= n THEN n - d ELSE 0
  <2>3. k \in 0 .. n /\ k \in Nat
    BY <1>2, <1>10, <2>1
  <2>4. k < Len(stored') /\ (k > 0 => d + k = n) /\ n <= d + k /\ d + Len(stored') = n + b
    BY <1>2, <1>10, <2>1, <2>2
  <2>5. \A i \in 1 .. k : stored'[i] = stored[n - k + i]
    <3> TAKE i \in 1 .. k
    <3>1. /\ i \in 1 .. Len(rows) - d /\ d + i \in 1 .. n + b /\ d + i <= n /\ n - k + i = d + i
      BY <1>2, <1>10, <2>1, <2>2, <2>3, <2>4
    <3>2. QED
      BY <1>10, <2>1, <3>1
  <2> HIDE DEF k
  <2>6. ASSUME NEW i \in k + 1 .. Len(stored')
        PROVE  /\ (d + i) - n \in 1 .. b /\ stored'[i] = writing[(d + i) - n]
    <3>1. /\ i \in 1 .. Len(rows) - d /\ d + i \in 1 .. n + b /\ ~(d + i <= n)
          /\ (d + i) - n \in 1 .. b
      BY <1>2, <1>10, <2>1, <2>2, <2>3, <2>4
    <3>2. QED
      BY <1>10, <2>1, <3>1
  <2>7. ASSUME NEW i \in k + 1 .. Len(stored') - 1
        PROVE  stored'[i].to + 1 = stored'[i + 1].from
    <3>1. /\ i \in k + 1 .. Len(stored') /\ i + 1 \in k + 1 .. Len(stored')
          /\ (d + (i + 1)) - n = ((d + i) - n) + 1
          /\ (d + i) - n \in 1 .. b - 1
      BY <1>2, <1>10, <2>1, <2>2, <2>3, <2>4
    <3>2. stored'[i] = writing[(d + i) - n] /\ stored'[i + 1] = writing[((d + i) - n) + 1]
      BY <2>6, <3>1
    <3>3. QED
      BY <1>1, <3>1, <3>2 DEF Tight, b
  <2>8. stored'[Len(stored')].to = settled'
    <3>1. Len(stored') \in k + 1 .. Len(stored') /\ (d + Len(stored')) - n = b
      BY <1>2, <1>10, <2>1, <2>2, <2>3, <2>4
    <3>2. stored'[Len(stored')] = writing[b]
      BY <2>6, <3>1
    <3>3. QED
      BY <1>1, <3>2 DEF LastOf, b
  <2>9. stored'[k + 1].from > settled /\ (k > 0 => stored'[k + 1].from = settled + 1)
    <3> DEFINE j == (d + (k + 1)) - n
    <3>1. k + 1 \in k + 1 .. Len(stored')
      BY <1>2, <1>10, <2>2, <2>3, <2>4
    <3>2. j \in 1 .. b /\ stored'[k + 1] = writing[j]
      BY <2>6, <3>1
    <3>3. k > 0 => j = 1
      BY <1>2, <1>10, <2>3, <2>4
    <3> HIDE DEF j
    <3>4. writing[j].from > settled
      <4>1. CASE j = 1
        BY <1>1, <1>2, <4>1
      <4>2. CASE j # 1
        <5>1. 1 \in 1 .. b /\ 1 < j
          BY <1>2, <3>2, <4>2
        <5>2. writing[1].from <= writing[1].to /\ writing[1].to < writing[j].from
          BY <1>1, <3>2, <5>1 DEF Tight, b
        <5>3. writing[1].from \in Nat /\ writing[1].to \in Nat /\ writing[j].from \in Nat
          BY <1>2, <3>2, <5>1, FieldType DEF b
        <5>4. QED
          BY <1>1, <1>2, <5>2, <5>3
      <4>3. QED
        BY <4>1, <4>2
    <3>5. QED
      BY <1>1, <3>2, <3>3, <3>4
  <2>10. Log!Commit
    <3>1. Log!KeepsNewest(stored, stored', k)
      BY <2>2, <2>3, <2>4, <2>5 DEF Log!KeepsNewest, n
    <3>2. Log!Touching(stored', k + 1, Len(stored'))
      BY <2>7 DEF Log!Touching
    <3>3. k \in 0 .. Len(stored)
      BY <2>3 DEF n
    <3>4. QED
      BY <1>3, <2>4, <2>8, <2>9, <3>1, <3>2, <3>3 DEF Log!Commit
  <2>11. QED
    BY <2>10
<1>12. CASE ~inserted
  <2>1. rows = stored
    BY <1>9, <1>12
  <2>2. /\ Len(stored') = n - d /\ d \in 0 .. n
        /\ \A i \in 1 .. n - d : stored'[i] = stored[d + i]
    BY <1>10, <2>1
  <2> HIDE DEF n
  <2>3. Len(stored') \in Nat /\ n - Len(stored') = d /\ Len(stored') <= n
    BY <1>2, <2>2
  <2>4. \A i \in 1 .. Len(stored') : stored'[i] = stored[n - Len(stored') + i]
    BY <2>2, <2>3
  <2>5. QED
    BY <1>3, <2>3, <2>4 DEF Log!Lose, Log!KeepsNewest, n
<1>13. QED
  BY <1>11, <1>12

\* Whatever reader, channel and writer do, the log of a port takes the bytes of its
\* device in order and batch by batch, as CaptureLog says.
THEOREM CaptureImplementsLog == Spec => ImplementsLog
<1>1. Init => Log!Init
  BY DEF Init, Log!Init
<1>2. TypeOK /\ TypeOK' /\ PipelineInv /\ [Next]_vars => [Log!Next]_(Log!logVars)
  <2> SUFFICES ASSUME TypeOK, TypeOK', ReaderInv, ChannelInv, LogInv, [Next]_vars
               PROVE  Log!Next \/ UNCHANGED <<stored, settled>>
    BY DEF PipelineInv, Log!logVars
  <2>1. CASE WriterStore
    BY <2>1, StoreRefines DEF Log!Next
  <2>2. CASE Crash
    <3>1. settled' = read /\ stored' = stored
      BY <2>2 DEF Crash
    <3>2. /\ settled \in Nat /\ read \in Nat /\ lineFrom \in Nat /\ Len(buf) \in Nat
          /\ Len(stored) \in Nat
      <4>1. /\ settled \in Nat /\ read \in Nat /\ lineFrom \in Nat
            /\ buf \in Seq(Byte) /\ stored \in Seq(Line)
        BY Zenon DEF TypeOK, SeqOfLines
      <4>2. Len(buf) \in Nat
        BY <4>1, LenProperties
      <4>3. Len(stored) \in Nat
        BY <4>1, LenProperties
      <4>4. QED
        BY <4>1, <4>2, <4>3
    <3>3. settled <= read
      BY <3>2 DEF ReaderInv, ChannelInv
    <3>4. CASE settled < read
      <4>1. \A i \in 1 .. Len(stored) : stored'[i] = stored[Len(stored) - Len(stored') + i]
        BY <3>1, <3>2
      <4>2. QED
        BY <3>1, <3>2, <3>4, <4>1 DEF Log!Next, Log!Lose, Log!KeepsNewest
    <3>5. CASE settled = read
      BY <3>1, <3>5
    <3>6. QED
      BY <3>2, <3>3, <3>4, <3>5
  <2>3. CASE [Next]_vars /\ ~WriterStore /\ ~Crash
    BY <2>3, Zenon DEF Next, Reader, Writer, Environment, ReadBytes, ProcessByte,
       ChunkDone, FlushTimer, ReadFails, LinkLost, StopReading, Send, StopBackoff,
       BackoffElapsed, TryConnect, WriterRecv, Shutdown, Unplug, Plug, Restart,
       vars, writerVars
  <2>4. QED
    BY <2>1, <2>2, <2>3
<1>3. QED
  BY <1>1, <1>2, TypeCorrect, PipelineInvariant, PTL DEF Spec, ImplementsLog, Log!Spec

-----------------------------------------------------------------------------
\* A reader ends by a shutdown, or by a link that was lost without a reconnect, and
\* then it has said so.  The send of the last batch is on the way to that end.
EndInv ==
  /\ NeverSilentlyDead
  /\ pc = "send" /\ resume = "done" => shut

\* A reader that ended although nobody stopped it left the port disconnected, however
\* often the link was lost and found before (reader_loop).
THEOREM NeverDeadInSilence == Spec => []NeverSilentlyDead
<1>1. Init => EndInv
  BY DEF Init, EndInv, NeverSilentlyDead
<1>2. EndInv /\ [Next]_vars => EndInv'
  <2> SUFFICES ASSUME EndInv, [Next]_vars PROVE EndInv'
    OBVIOUS
  <2> USE DEF EndInv, NeverSilentlyDead
  <2>1. CASE ReadBytes \/ ProcessByte
    BY <2>1 DEF ReadBytes, ProcessByte
  <2>2. CASE ChunkDone
    BY <2>2 DEF ChunkDone, SendBatch
  <2>3. CASE FlushTimer
    BY <2>3 DEF FlushTimer, SendBatch
  <2>4. CASE ReadFails
    BY <2>4 DEF ReadFails, FlushBatch, SendBatch
  <2>5. CASE LinkLost
    BY <2>5 DEF LinkLost
  <2>6. CASE StopReading
    BY <2>6 DEF StopReading, FlushBatch, SendBatch
  <2>7. CASE Send
    BY <2>7 DEF Send
  <2>8. CASE StopBackoff \/ BackoffElapsed
    BY <2>8 DEF StopBackoff, BackoffElapsed
  <2>9. CASE TryConnect
    BY <2>9 DEF TryConnect, AfterFailedConnect
  <2>10. CASE Writer
    BY <2>10 DEF Writer, WriterRecv, WriterStore, readerVars
  <2>11. CASE Environment
    BY <2>11 DEF Environment, Shutdown, Unplug, Plug, Crash, Restart, readerVars
  <2>12. CASE UNCHANGED vars
    BY <2>12 DEF vars, readerVars
  <2>13. QED
    BY <2>1, <2>2, <2>3, <2>4, <2>5, <2>6, <2>7, <2>8, <2>9, <2>10, <2>11, <2>12
       DEF Next, Reader
<1>3. EndInv => NeverSilentlyDead
  BY DEF EndInv
<1>4. QED
  BY <1>1, <1>2, <1>3, PTL DEF Spec

\* However a capture ends, it leaves neither bytes nor a port that seems to be connected.
THEOREM EndIsClean == Spec => []EndsCleanly
<1>1. NothingLeftBehind /\ NeverSilentlyDead => EndsCleanly
  BY DEF EndsCleanly
<1>2. QED
  BY <1>1, EndLeavesNothing, NeverDeadInSilence, PTL
=============================================================================
