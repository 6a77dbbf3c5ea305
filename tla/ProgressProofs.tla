---------------------------- MODULE ProgressProofs ----------------------------
(***************************************************************************)
(* The clocks of the reader task and the transfer of a file: how late a    *)
(* captured line may be written and how often a port that went away is     *)
(* asked for; that a file sent by ZMODEM, XMODEM or YMODEM arrives as it   *)
(* was sent.                                                               *)
(*                                                                         *)
(* None of the properties is inductive, and each part says what its        *)
(* invariant adds: the time waited before the current interval for the     *)
(* clock, the place of every unit in one script for ZMODEM, and for XMODEM *)
(* and YMODEM how many answers the line still holds or may cause, which    *)
(* bounds how far the sender runs ahead of the receiver.                   *)
(***************************************************************************)
EXTENDS MC_Progress, SequenceTheorems, TLAPS

USE ClockAssumption, ZmodemAssumption, TransferAssumption

(***************************************************************************)
(* The clocks of the reader task.  LateByReads forgets how much of the     *)
(* current interval has passed.  Arrears keeps that: what a line waited    *)
(* before the sleep was last started is a whole number of intervals, one   *)
(* for each line and each bare read that came after the first.             *)
(***************************************************************************)

\* The wait is the one that the number of attempts gives.
Waits == link = "down" => gap = Backoff(attempts)

Arrears ==
  /\ link # "up" => lines = 0
  /\ lines = 0 => age = 0
  /\ lines > 0 => age - armed <= Interval * (lines + bare - 1)

ClockInv == ClockTypeOK /\ Waits /\ Arrears

-----------------------------------------------------------------------------
\* No wait is longer than the maximum.
LEMMA BackoffBounds ==
  ASSUME NEW n \in Nat
  PROVE  Backoff(n) \in 0 .. MaxBackoff
<1>1. Base * Least(n, AttemptCap) \in Nat
  <2>1. Least(n, AttemptCap) \in Nat  BY DEF Least
  <2>2. QED  BY <2>1
<1>2. QED  BY <1>1 DEF Backoff, Least

\* A product grows with its factor.
LEMMA ProductGrows ==
  ASSUME NEW c \in Nat, NEW m \in Nat, NEW n \in Nat, m <= n
  PROVE  c * m <= c * n
<1>1. n - m \in Nat /\ n = m + (n - m)  OBVIOUS
<1>2. c * (n - m) \in Nat  BY <1>1
<1>3. c * n = c * m + c * (n - m)  BY <1>1
<1>4. c * m \in Nat /\ c * n \in Nat  OBVIOUS
<1>5. QED  BY <1>2, <1>3, <1>4

\* The intervals a batch may have waited before the current one.
LEMMA DebtIsNat ==
  ASSUME NEW m \in Nat, NEW n \in Nat, m > 0
  PROVE  Interval * (m + n - 1) \in Nat
<1>1. m + n - 1 \in Nat  OBVIOUS
<1>2. QED  BY <1>1

-----------------------------------------------------------------------------
\* The invariant holds at the start.
LEMMA ClockInitInv == ClockInit => ClockInv
BY DEF ClockInit, ClockInv, ClockTypeOK, Waits, Arrears

\* A read that leaves lines in the batch starts the sleep again: what the
\* lines waited so far now counts as one interval more.
LEMMA ClockReadInv == ClockInv /\ Read => ClockInv'
<1> SUFFICES ASSUME ClockInv, Read PROVE ClockInv'
  OBVIOUS
<1> USE DEF ClockInv, ClockTypeOK, Waits
<1>1. PICK n \in 0 .. LinesPerRead :
        \/ lines + n >= BatchSize /\ EmptyBatch
        \/ /\ lines + n < BatchSize
           /\ n = 0 /\ lines > 0 => bare < MaxBare
           /\ lines' = lines + n
           /\ bare' = IF lines > 0 /\ n = 0 THEN bare + 1 ELSE bare
           /\ UNCHANGED age
  BY DEF Read
<1>2. armed' = 0 /\ UNCHANGED <<link, backoffVars>>  BY DEF Read
<1>3. link = "up"  BY DEF Read
<1>4. CASE lines + n >= BatchSize /\ EmptyBatch
  BY <1>2, <1>4 DEF EmptyBatch, Arrears, backoffVars
<1>5. CASE ~(lines + n >= BatchSize /\ EmptyBatch)
  <2>1. ClockTypeOK'  BY <1>1, <1>2, <1>5 DEF backoffVars
  <2>2. lines' = 0 => age' = 0  BY <1>1, <1>5 DEF Arrears
  <2>3. CASE lines = 0
    <3>1. age' = 0  BY <1>1, <1>5, <2>3 DEF Arrears
    <3>2. lines' \in Nat /\ bare' \in Nat  BY <2>1
    <3>3. lines' > 0 => Interval * (lines' + bare' - 1) \in Nat
      BY <3>2, DebtIsNat
    <3>4. lines' > 0 => age' - armed' <= Interval * (lines' + bare' - 1)
      BY <1>2, <3>1, <3>3
    <3>5. link' = "up"  BY <1>2, <1>3
    <3>6. QED  BY <2>1, <2>2, <3>4, <3>5 DEF Arrears
  <2>4. CASE lines > 0
    <3>1. age - armed <= Interval * (lines + bare - 1)  BY <2>4 DEF Arrears
    <3>2. Interval * (lines + bare) = Interval * (lines + bare - 1) + Interval
      BY <2>4
    <3>3. lines + bare \in Nat /\ lines + bare - 1 \in Nat  BY <2>4
    <3>4. Interval * (lines + bare - 1) \in Nat  BY <3>3
    <3>5. age <= Interval * (lines + bare)  BY <3>1, <3>2, <3>4
    <3>6. /\ lines' + bare' - 1 \in Nat
          /\ lines + bare <= lines' + bare' - 1
      BY <1>1, <1>5, <2>4
    <3>7. Interval * (lines + bare) <= Interval * (lines' + bare' - 1)
      BY <3>3, <3>6, ProductGrows
    <3>8. Interval * (lines' + bare' - 1) \in Nat  BY <3>6
    <3>9. age' = age  BY <1>1, <1>5
    <3>10. age' <= Interval * (lines' + bare' - 1)
      BY <3>2, <3>4, <3>5, <3>7, <3>8, <3>9
    <3>11. lines' > 0 => age' - armed' <= Interval * (lines' + bare' - 1)
      BY <1>2, <3>8, <3>9, <3>10
    <3>12. link' = "up"  BY <1>2, <1>3
    <3>13. QED  BY <2>1, <2>2, <3>11, <3>12 DEF Arrears
  <2>5. QED  BY <2>3, <2>4
<1>6. QED  BY <1>4, <1>5

\* Every step keeps it.
LEMMA ClockNextInv == ClockInv /\ [ClockNext]_clockVars => ClockInv'
<1> SUFFICES ASSUME ClockInv, [ClockNext]_clockVars PROVE ClockInv'
  OBVIOUS
<1>1. CASE Read  BY <1>1, ClockReadInv
<1> USE DEF ClockInv, ClockTypeOK, Waits, Arrears, batchVars, backoffVars
<1>2. CASE TimerFires
  <2>1. CASE Due
    BY <1>2, <2>1 DEF TimerFires, EmptyBatch
  <2>2. CASE ~Due
    BY <1>2, <2>2 DEF TimerFires, Due
  <2>3. QED  BY <2>1, <2>2
<1>3. CASE LinkLost
  <2>1. Backoff(1) \in 0 .. MaxBackoff  BY BackoffBounds
  <2>2. QED  BY <1>3, <2>1 DEF LinkLost, EmptyBatch
<1>4. CASE Retry
  <2>1. Least(attempts + 1, MaxAttempts) \in 0 .. MaxAttempts  BY DEF Least
  <2>2. Backoff(Least(attempts + 1, MaxAttempts)) \in 0 .. MaxBackoff
    BY <2>1, BackoffBounds
  <2>3. lines = 0 /\ lines' = 0 /\ age' = age /\ bare' = bare
    BY <1>4 DEF Retry
  <2>4. CASE link' = "up" /\ armed' = 0 /\ attempts' = 0 /\ gap' = 0 /\ wait' = 0
    BY <2>3, <2>4
  <2>5. CASE /\ attempts' = Least(attempts + 1, MaxAttempts)
             /\ gap' = Backoff(attempts') /\ wait' = gap'
             /\ UNCHANGED <<link, armed>>
    BY <2>1, <2>2, <2>3, <2>5
  <2>6. QED  BY <1>4, <2>4, <2>5 DEF Retry
<1>5. CASE ClockStop
  BY <1>5 DEF ClockStop, EmptyBatch
<1>6. CASE Tick
  BY <1>6 DEF Tick
<1>7. CASE UNCHANGED clockVars
  BY <1>7 DEF clockVars
<1>8. QED  BY <1>1, <1>2, <1>3, <1>4, <1>5, <1>6, <1>7 DEF ClockNext

\* So it holds always.
LEMMA ClockInvariance == ClockSpec => []ClockInv
BY ClockInitInv, ClockNextInv, PTL DEF ClockSpec

\* And it bounds how late a line is written.
LEMMA ClockInvLate == ClockInv => LateByReads
<1> SUFFICES ASSUME ClockInv, lines > 0 PROVE age <= Interval * (lines + bare)
  BY DEF LateByReads
<1>1. armed <= Interval /\ armed \in Nat /\ age \in Nat
  BY DEF ClockInv, ClockTypeOK
<1>2. lines \in Nat /\ bare \in Nat  BY DEF ClockInv, ClockTypeOK
<1>3. age - armed <= Interval * (lines + bare - 1)  BY DEF ClockInv, Arrears
<1>4. lines + bare - 1 \in Nat  BY <1>2
<1>5. Interval * (lines + bare) = Interval * (lines + bare - 1) + Interval
  BY <1>2
<1>6. Interval * (lines + bare - 1) \in Nat  BY <1>4
<1>7. QED  BY <1>1, <1>3, <1>5, <1>6

\* The backoff grows with the number of attempts.
LEMMA BackoffGrows ==
  ASSUME NEW m \in Nat, NEW n \in Nat, m <= n
  PROVE  Backoff(m) <= Backoff(n)
<1>1. /\ Least(m, AttemptCap) \in Nat /\ Least(n, AttemptCap) \in Nat
      /\ Least(m, AttemptCap) <= Least(n, AttemptCap)
  BY DEF Least
<1>2. Base * Least(m, AttemptCap) <= Base * Least(n, AttemptCap)
  BY <1>1, ProductGrows
<1>3. Base * Least(m, AttemptCap) \in Nat /\ Base * Least(n, AttemptCap) \in Nat
  BY <1>1
<1>4. QED  BY <1>2, <1>3 DEF Backoff, Least

-----------------------------------------------------------------------------
(* Theorems.                                                               *)

\* The variables of the two clocks keep their types, whatever the settings:
\* the batch is never full between two turns of the select of reader_loop.
THEOREM ClockTypeCorrect == ClockSpec => []ClockTypeOK
<1>1. ClockInv => ClockTypeOK  BY DEF ClockInv
<1>2. QED  BY <1>1, ClockInvariance, PTL

\* A captured line waits at most flush_interval for each line behind it in the
\* batch and for each read that ended no line (reader_loop).
THEOREM LatenessBounded == ClockSpec => []LateByReads
BY ClockInvLate, ClockInvariance, PTL

\* While a device stays away, the waits between two attempts to open it never
\* shrink (reader_with_reconnect).
THEOREM WaitsNeverShrink == ClockSpec => GapsGrow
<1>1. ClockInv /\ [ClockNext]_clockVars
        => (link = "down" /\ link' = "down" => gap' >= gap)
  <2> SUFFICES ASSUME ClockInv, [ClockNext]_clockVars, link = "down", link' = "down"
               PROVE  gap' >= gap
    OBVIOUS
  <2>1. gap \in Nat  BY DEF ClockInv, ClockTypeOK
  <2>2. CASE Retry
    <3>1. attempts \in 0 .. MaxAttempts /\ gap = Backoff(attempts)
      BY DEF ClockInv, ClockTypeOK, Waits, Arrears
    <3>2. gap' = Backoff(Least(attempts + 1, MaxAttempts))
      BY <2>2 DEF Retry
    <3>3. /\ Least(attempts + 1, MaxAttempts) \in Nat
          /\ attempts <= Least(attempts + 1, MaxAttempts)
      BY <3>1 DEF Least
    <3>4. Backoff(attempts) <= Backoff(Least(attempts + 1, MaxAttempts))
      BY <3>1, <3>3, BackoffGrows
    <3>5. /\ Backoff(attempts) \in 0 .. MaxBackoff
          /\ Backoff(Least(attempts + 1, MaxAttempts)) \in 0 .. MaxBackoff
      BY <3>1, <3>3, BackoffBounds
    <3>6. QED  BY <3>1, <3>2, <3>4, <3>5
  <2>3. CASE ~Retry
    <3>1. gap' = gap
      BY <2>3 DEF ClockNext, Read, TimerFires, LinkLost, ClockStop, Tick, clockVars, backoffVars
    <3>2. QED  BY <2>1, <3>1
  <2>4. QED  BY <2>2, <2>3
<1>2. QED  BY <1>1, ClockInvariance, PTL DEF ClockSpec, GapsGrow

(***************************************************************************)
(* ZMODEM.  The sender writes one script, whatever happens: an invitation, *)
(* the name, the pieces in order, the end of the file and the end of the   *)
(* session.  What is on the line continues what the receiver was given,    *)
(* each unit in its place and perhaps hit; so a piece can be kept only in  *)
(* its place, and the answers bound how far either side is.                *)
(***************************************************************************)

\* What the line may do to a unit.
HitBy == {"no", "missed", "bad", "short"}
Units == [kind : {"header", "subpacket"},
          type : {"ZRQINIT", "ZFILE", "info", "ZDATA", "ZEOF", "ZFIN"} \cup Nat,
          hit : HitBy]
AnswerUnits == [kind : {"header"}, type : {"ZRINIT", "ZRPOS", "ZFIN"}, hit : HitBy]

\* The types of the ZMODEM transfer, and that the kept pieces are the first of the file.
ZmodemTypes ==
  /\ pieces \in Nat /\ sent \in Nat
  /\ sends \in {"idle", "invites", "names", "streams", "asks", "ends", "ok", "err"}
  /\ receives \in {"idle", "file", "info", "data", "pieces", "eof", "over", "ok", "err"}
  /\ toReceiver \in Seq(Units) /\ toSender \in Seq(AnswerUnits)
  /\ kept \in Seq(Nat) /\ Len(kept) <= pieces
  /\ \A i \in 1 .. Len(kept) : kept[i] = i

Is(u, kind, type) == u.kind = kind /\ u.type = type
\* Unit i of the one script a sender of p pieces follows.
InPlace(u, i, p) ==
  /\ i \in 1 .. (p + 6)
  /\ i = 1 => Is(u, "header", "ZRQINIT")
  /\ i = 2 => Is(u, "header", "ZFILE")
  /\ i = 3 => Is(u, "subpacket", "info")
  /\ i = 4 => Is(u, "header", "ZDATA")
  /\ i \in 5 .. (p + 4) => Is(u, "subpacket", i - 4)
  /\ i = p + 5 => Is(u, "header", "ZEOF")
  /\ i = p + 6 => Is(u, "header", "ZFIN")

\* A line that continues the script after c units.
OnLine(q, c, p) == \A k \in 1 .. Len(q) : InPlace(q[k], c + k, p)

\* The sender has written e units of the script.
SentUpTo(e) ==
  /\ e <= pieces + 6
  /\ sends = "idle" => e = 0 /\ sent = 0
  /\ sends = "invites" => e = 1 /\ sent = 0
  /\ sends = "names" => e = 3 /\ sent = 0
  /\ sends = "streams" => e = 4 + sent /\ sent <= pieces
  /\ sends = "asks" => e = pieces + 5

\* The receiver has been given c units of the script, of e written.
TakenUpTo(c, e) ==
  /\ receives \in {"idle", "file", "info"} => e <= 3 /\ kept = <<>>
  /\ receives = "info" /\ "receiver" \notin astray => c = 2
  /\ receives = "data" => c >= 3 /\ kept = <<>>
  /\ receives = "pieces" /\ "receiver" \notin astray => c = 4 + Len(kept)
  /\ receives = "pieces" => c >= 4 /\ (Len(kept) < pieces \/ pieces = 0)
  /\ receives = "eof" => c >= 4 + pieces /\ Len(kept) = pieces
  /\ receives \in {"data", "pieces", "eof", "err"} => e <= pieces + 5
  /\ receives \in {"over", "ok"} => e >= pieces + 5 /\ Len(kept) = pieces

Script(c) ==
  /\ OnLine(toReceiver, c, pieces)
  /\ SentUpTo(c + Len(toReceiver))
  /\ TakenUpTo(c, c + Len(toReceiver))

\* An answer that lets the sender go on is on the way.
Asked == \E k \in 1 .. Len(toSender) : toSender[k].type = "ZRPOS"
\* Neither side is further than the answers of the other allow.
Apace ==
  /\ \A k \in 1 .. Len(toSender) : toSender[k].type = "ZRPOS" =>
       /\ sends \in {"names", "err"}
       /\ sends = "names" => k = Len(toSender)
       /\ receives \notin {"idle", "file", "info"}
  /\ sends \in {"streams", "asks"} /\ toSender # <<>> => receives \in {"over", "ok"}
  /\ receives \in {"idle", "file", "info"} => sends \in {"idle", "invites", "names", "err"}
  /\ sends \in {"ends", "ok"} => receives \in {"over", "ok"}

\* The inductive invariant of a ZMODEM transfer.
ZInv == ZmodemTypes /\ (\E c \in Nat : Script(c)) /\ Apace

-----------------------------------------------------------------------------
\* The head of a line is the next unit of the script.
LEMMA FirstInPlace ==
  ASSUME NEW q \in Seq(Units), q # <<>>, NEW c \in Nat, NEW p \in Nat, OnLine(q, c, p)
  PROVE  /\ InPlace(Head(q), c + 1, p) /\ OnLine(Tail(q), c + 1, p)
         /\ Tail(q) \in Seq(Units) /\ Head(q) \in Units
         /\ Len(q) \in Nat /\ Len(Tail(q)) = Len(q) - 1 /\ Len(Tail(q)) \in Nat
<1>1. Len(q) \in Nat /\ Len(q) >= 1 /\ Head(q) = q[1]  BY EmptySeq
<1>2. /\ Tail(q) \in Seq(Units) /\ Head(q) \in Units /\ Len(Tail(q)) = Len(q) - 1
      /\ \A k \in 1 .. Len(Tail(q)) : Tail(q)[k] = q[k + 1]
  BY HeadTailProperties
<1>3. InPlace(q[1], c + 1, p)  BY <1>1 DEF OnLine
<1>4. ASSUME NEW k \in 1 .. Len(Tail(q)) PROVE InPlace(Tail(q)[k], (c + 1) + k, p)
  <2>1. k + 1 \in 1 .. Len(q) /\ c + (k + 1) = (c + 1) + k  BY <1>1, <1>2
  <2>2. InPlace(q[k + 1], c + (k + 1), p)  BY <2>1 DEF OnLine
  <2>3. QED  BY <1>2, <2>1, <2>2
<1>5. OnLine(Tail(q), c + 1, p)  BY <1>4 DEF OnLine
<1>6. QED  BY <1>1, <1>2, <1>3, <1>5

\* A line joined to what continues it.
LEMMA JoinInPlace ==
  ASSUME NEW q \in Seq(Units), NEW r \in Seq(Units), NEW c \in Nat, NEW p \in Nat,
         OnLine(q, c, p), OnLine(r, c + Len(q), p)
  PROVE  OnLine(q \o r, c, p) /\ q \o r \in Seq(Units) /\ Len(q \o r) = Len(q) + Len(r)
<1>1. /\ q \o r \in Seq(Units) /\ Len(q \o r) = Len(q) + Len(r)
      /\ \A i \in 1 .. Len(q) + Len(r) : (q \o r)[i] = IF i <= Len(q) THEN q[i] ELSE r[i - Len(q)]
  BY ConcatProperties
<1>2. Len(q) \in Nat /\ Len(r) \in Nat  OBVIOUS
<1>3. ASSUME NEW k \in 1 .. Len(q \o r) PROVE InPlace((q \o r)[k], c + k, p)
  <2>1. CASE k <= Len(q)  BY <1>1, <1>2, <2>1 DEF OnLine
  <2>2. CASE k > Len(q)
    <3>1. k - Len(q) \in 1 .. Len(r) /\ (c + Len(q)) + (k - Len(q)) = c + k  BY <1>1, <1>2, <2>2
    <3>2. InPlace(r[k - Len(q)], (c + Len(q)) + (k - Len(q)), p)  BY <3>1 DEF OnLine
    <3>3. (q \o r)[k] = r[k - Len(q)]  BY <1>1, <1>2, <2>2
    <3>4. QED  BY <3>1, <3>2, <3>3
  <2>3. QED  BY <1>1, <1>2, <2>1, <2>2
<1>4. QED  BY <1>1, <1>3 DEF OnLine

\* A unit that the line hits stays in its place.
LEMMA HitInPlace ==
  ASSUME NEW q \in Seq(Units), q # <<>>, NEW c \in Nat, NEW p \in Nat, OnLine(q, c, p),
         NEW h \in HitBy
  PROVE  /\ [q EXCEPT ![1].hit = h] \in Seq(Units)
         /\ Len([q EXCEPT ![1].hit = h]) = Len(q)
         /\ OnLine([q EXCEPT ![1].hit = h], c, p)
<1> DEFINE u == [q[1] EXCEPT !.hit = h]
           r == [q EXCEPT ![1] = u]
<1>1. Len(q) \in Nat /\ 1 \in 1 .. Len(q) /\ q[1] \in Units  BY EmptySeq, ElementOfSeq
<1>2. u \in Units /\ u.kind = q[1].kind /\ u.type = q[1].type  BY <1>1 DEF Units
<1>3. /\ r \in Seq(Units) /\ Len(r) = Len(q)
      /\ \A j \in 1 .. Len(q) : r[j] = IF j = 1 THEN u ELSE q[j]
  <2> HIDE DEF u
  <2>1. QED  BY <1>1, <1>2, ExceptSeq
<1>4. [q EXCEPT ![1].hit = h] = r  OBVIOUS
<1> HIDE DEF r
<1>5. ASSUME NEW k \in 1 .. Len(q) PROVE InPlace(r[k], c + k, p)
  <2>1. InPlace(q[k], c + k, p)  BY DEF OnLine
  <2>2. r[k].kind = q[k].kind /\ r[k].type = q[k].type  BY <1>2, <1>3
  <2>3. QED  BY <2>1, <2>2 DEF InPlace, Is
<1>6. QED  BY <1>3, <1>4, <1>5 DEF OnLine

\* The invariant holds before a transfer.
LEMMA ZInvInit == ZmodemInit => ZInv
<1> SUFFICES ASSUME ZmodemInit PROVE ZInv
  OBVIOUS
<1>1. ZmodemTypes  BY EmptySeq DEF ZmodemInit, ZmodemTypes
<1>2. Len(<<>>) = 0  BY EmptySeq
<1>3. Script(0)  BY <1>2 DEF ZmodemInit, Script, OnLine, SentUpTo, TakenUpTo
<1>4. Apace  BY <1>2 DEF ZmodemInit, Apace
<1>5. QED  BY <1>1, <1>3, <1>4 DEF ZInv

\* What the sender writes.
LEMMA FramesAreUnits ==
  /\ \A t \in {"ZRQINIT", "ZFILE", "ZDATA", "ZEOF", "ZFIN"} :
       <<Frame(t)>> \in Seq(Units) /\ Len(<<Frame(t)>>) = 1
  /\ <<Frame("ZFILE"), Info>> \in Seq(Units) /\ Len(<<Frame("ZFILE"), Info>>) = 2
  /\ \A i \in Nat : <<Piece(i)>> \in Seq(Units) /\ Len(<<Piece(i)>>) = 1
  /\ \A t \in {"ZRINIT", "ZRPOS", "ZFIN"} :
       <<Frame(t)>> \in Seq(AnswerUnits) /\ Len(<<Frame(t)>>) = 1
<1>1. \A t \in {"ZRQINIT", "ZFILE", "ZDATA", "ZEOF", "ZFIN"} : Frame(t) \in Units
  BY DEF Frame, Units, HitBy
<1>2. Info \in Units  BY DEF Info, Units, HitBy
<1>3. \A i \in Nat : Piece(i) \in Units  BY DEF Piece, Units, HitBy
<1>4. \A t \in {"ZRINIT", "ZRPOS", "ZFIN"} : Frame(t) \in AnswerUnits  BY DEF Frame, AnswerUnits, HitBy
<1>5. QED  BY <1>1, <1>2, <1>3, <1>4

\* What the sender writes is what comes next in the file.
LEMMA NextInPlace ==
  ASSUME NEW p \in Nat, NEW i \in Nat
  PROVE  /\ i = 0 => OnLine(<<Frame("ZRQINIT")>>, i, p)
         /\ i = 1 => OnLine(<<Frame("ZFILE"), Info>>, i, p)
         /\ i = 3 => OnLine(<<Frame("ZDATA")>>, i, p)
         /\ \A n \in Nat : i = n + 4 /\ n < p => OnLine(<<Piece(n + 1)>>, i, p)
         /\ i = p + 4 => OnLine(<<Frame("ZEOF")>>, i, p)
         /\ i = p + 5 => OnLine(<<Frame("ZFIN")>>, i, p)
<1>1. \A u : Len(<<u>>) = 1 /\ <<u>>[1] = u  OBVIOUS
<1>2. \A u : InPlace(u, i + 1, p) => OnLine(<<u>>, i, p)
  <2> SUFFICES ASSUME NEW u, InPlace(u, i + 1, p), NEW k \in 1 .. Len(<<u>>)
               PROVE  InPlace(<<u>>[k], i + k, p)
    BY DEF OnLine
  <2>1. k = 1  BY <1>1
  <2>2. QED  BY <2>1
<1>3. i = 0 => InPlace(Frame("ZRQINIT"), i + 1, p)  BY DEF InPlace, Is, Frame
<1>4. i = 3 => InPlace(Frame("ZDATA"), i + 1, p)  BY DEF InPlace, Is, Frame
<1>5. i = p + 4 => InPlace(Frame("ZEOF"), i + 1, p)  BY DEF InPlace, Is, Frame
<1>6. i = p + 5 => InPlace(Frame("ZFIN"), i + 1, p)  BY DEF InPlace, Is, Frame
<1>7. ASSUME NEW n \in Nat, i = n + 4, n < p PROVE InPlace(Piece(n + 1), i + 1, p)
  <2>1. i + 1 \in 5 .. (p + 4) /\ (i + 1) - 4 = n + 1 /\ i + 1 > 4 /\ i + 1 < p + 5  BY <1>7
  <2>2. Piece(n + 1).kind = "subpacket" /\ Piece(n + 1).type = n + 1  BY DEF Piece
  <2>3. QED  BY <2>1, <2>2 DEF InPlace, Is
<1>8. i = 1 => OnLine(<<Frame("ZFILE"), Info>>, i, p)
  <2> SUFFICES ASSUME i = 1, NEW k \in 1 .. Len(<<Frame("ZFILE"), Info>>)
               PROVE  InPlace(<<Frame("ZFILE"), Info>>[k], i + k, p)
    BY DEF OnLine
  <2>1. k \in {1, 2}  BY FramesAreUnits
  <2>2. CASE k = 1  BY <2>2 DEF InPlace, Is, Frame
  <2>3. CASE k = 2  BY <2>3 DEF InPlace, Is, Info
  <2>4. QED  BY <2>1, <2>2, <2>3
<1>9. QED  BY <1>2, <1>3, <1>4, <1>5, <1>6, <1>7, <1>8

\* The types while nothing is kept.
LEMMA TypesKept ==
  ASSUME ZmodemTypes
  PROVE  Len(toReceiver) \in Nat /\ Len(toSender) \in Nat /\ Len(kept) \in Nat
BY DEF ZmodemTypes

\* The next units of the file go out.
LEMMA EmitsNext ==
  ASSUME ZmodemTypes, pieces' = pieces, NEW c \in Nat, OnLine(toReceiver, c, pieces),
         NEW r \in Seq(Units), Emits(r), OnLine(r, c + Len(toReceiver), pieces)
  PROVE  /\ OnLine(toReceiver, c, pieces)' /\ toReceiver' \in Seq(Units)
         /\ Len(toReceiver') = Len(toReceiver) + Len(r)
BY JoinInPlace DEF ZmodemTypes, Emits

\* The sender starts.
LEMMA SendFileKeeps == ZInv /\ SendFile => ZInv'
<1> SUFFICES ASSUME ZInv, SendFile PROVE ZInv'
  OBVIOUS
<1>1. PICK c \in Nat : Script(c)  BY DEF ZInv
<1>2. ZmodemTypes /\ Apace  BY DEF ZInv
<1>3. /\ sends = "idle" /\ sends' = "invites" /\ Emits(<<Frame("ZRQINIT")>>)
      /\ UNCHANGED <<pieces, sent, receives, kept, toSender, astray>>
  BY DEF SendFile, SenderTo
<1>4. c + Len(toReceiver) = 0 /\ sent = 0  BY <1>1, <1>2, <1>3, TypesKept DEF Script, SentUpTo
<1>5. OnLine(<<Frame("ZRQINIT")>>, c + Len(toReceiver), pieces)
  <2>1. OnLine(<<Frame("ZRQINIT")>>, 0, pieces)  BY <1>2, NextInPlace DEF ZmodemTypes
  <2>2. QED  BY <1>4, <2>1
<1>6. /\ OnLine(toReceiver, c, pieces)' /\ toReceiver' \in Seq(Units)
      /\ Len(toReceiver') = Len(toReceiver) + 1
  BY <1>1, <1>2, <1>3, <1>5, FramesAreUnits, EmitsNext DEF Script
<1>7. SentUpTo(c + Len(toReceiver))'  BY <1>2, <1>3, <1>4, <1>6, TypesKept DEF SentUpTo, ZmodemTypes
<1>8. TakenUpTo(c, c + Len(toReceiver))'
  BY <1>1, <1>2, <1>3, <1>4, <1>6, TypesKept DEF Script, TakenUpTo, ZmodemTypes
<1>9. ZmodemTypes'  BY <1>2, <1>3, <1>6 DEF ZmodemTypes
<1>10. Apace'  BY <1>2, <1>3 DEF Apace
<1>11. QED  BY <1>6, <1>7, <1>8, <1>9, <1>10 DEF ZInv, Script

\* The sender writes a piece, or the end of the file.
LEMMA StreamKeeps == ZInv /\ Stream => ZInv'
<1> SUFFICES ASSUME ZInv, Stream PROVE ZInv'
  OBVIOUS
<1>1. PICK c \in Nat : Script(c)  BY DEF ZInv
<1>2. ZmodemTypes /\ Apace  BY DEF ZInv
<1>3. sends = "streams" /\ UNCHANGED <<pieces, receives, kept, toSender, astray>>  BY DEF Stream
<1>4. c + Len(toReceiver) = 4 + sent /\ sent <= pieces /\ sent \in Nat /\ pieces \in Nat
  BY <1>1, <1>2, <1>3 DEF Script, SentUpTo, ZmodemTypes
<1>5. receives \notin {"idle", "file", "info"} /\ (toSender = <<>> \/ receives \in {"over", "ok"})
  BY <1>2, <1>3 DEF Apace
<1>6. CASE sent < pieces
  <2>1. sends' = sends /\ sent' = sent + 1 /\ Emits(<<Piece(sent + 1)>>)  BY <1>6 DEF Stream
  <2>2. OnLine(<<Piece(sent + 1)>>, c + Len(toReceiver), pieces)
    <3>1. OnLine(<<Piece(sent + 1)>>, sent + 4, pieces)  BY <1>4, <1>6, NextInPlace
    <3>2. c + Len(toReceiver) = sent + 4  BY <1>4
    <3>3. QED  BY <3>1, <3>2
  <2>3. <<Piece(sent + 1)>> \in Seq(Units) /\ Len(<<Piece(sent + 1)>>) = 1  BY <1>4, FramesAreUnits
  <2>4. /\ OnLine(toReceiver, c, pieces)' /\ toReceiver' \in Seq(Units)
        /\ Len(toReceiver') = Len(toReceiver) + 1
    BY <1>1, <1>2, <1>3, <2>1, <2>2, <2>3, EmitsNext DEF Script
  <2>5. SentUpTo(c + Len(toReceiver))'
    BY <1>2, <1>3, <1>4, <1>6, <2>1, <2>4, TypesKept DEF SentUpTo
  <2>6. TakenUpTo(c, c + Len(toReceiver))'
    BY <1>1, <1>2, <1>3, <1>4, <1>5, <1>6, <2>1, <2>4, TypesKept DEF Script, TakenUpTo
  <2>7. ZmodemTypes'  BY <1>2, <1>3, <1>4, <2>1, <2>4 DEF ZmodemTypes
  <2>8. Apace'  BY <1>2, <1>3, <2>1 DEF Apace
  <2>9. QED  BY <2>4, <2>5, <2>6, <2>7, <2>8 DEF ZInv, Script
<1>7. CASE ~(sent < pieces)
  <2>1. sends' = "asks" /\ sent' = sent /\ Emits(<<Frame("ZEOF")>>)
    BY <1>7 DEF Stream, SenderTo
  <2>2. OnLine(<<Frame("ZEOF")>>, c + Len(toReceiver), pieces)
    <3>1. c + Len(toReceiver) = pieces + 4 /\ pieces + 4 \in Nat  BY <1>4, <1>7
    <3>2. OnLine(<<Frame("ZEOF")>>, pieces + 4, pieces)  BY <1>4, <3>1, NextInPlace
    <3>3. QED  BY <3>1, <3>2
  <2>4. /\ OnLine(toReceiver, c, pieces)' /\ toReceiver' \in Seq(Units)
        /\ Len(toReceiver') = Len(toReceiver) + 1
    BY <1>1, <1>2, <1>3, <2>1, <2>2, FramesAreUnits, EmitsNext DEF Script
  <2>5. SentUpTo(c + Len(toReceiver))'
    BY <1>2, <1>3, <1>4, <1>7, <2>1, <2>4, TypesKept DEF SentUpTo
  <2>6. TakenUpTo(c, c + Len(toReceiver))'
    BY <1>1, <1>2, <1>3, <1>4, <1>5, <1>7, <2>1, <2>4, TypesKept DEF Script, TakenUpTo
  <2>7. ZmodemTypes'  BY <1>2, <1>3, <1>4, <2>1, <2>4 DEF ZmodemTypes
  <2>8. Apace'  BY <1>2, <1>3, <1>5, <2>1 DEF Apace
  <2>9. QED  BY <2>4, <2>5, <2>6, <2>7, <2>8 DEF ZInv, Script
<1>8. QED  BY <1>6, <1>7

\* What is left of the answers when one was read.
LEMMA AnswersLeft ==
  ASSUME ZmodemTypes, toSender # <<>>, toSender' = Tail(toSender)
  PROVE  /\ toSender' \in Seq(AnswerUnits) /\ Len(toSender) \in Nat /\ Len(toSender) > 0
         /\ Len(toSender') = Len(toSender) - 1
         /\ \A k \in 1 .. Len(toSender') : toSender'[k] = toSender[k + 1] /\ k + 1 \in 1 .. Len(toSender)
         /\ Head(toSender) = toSender[1] /\ toSender[1] \in AnswerUnits
<1>1. toSender \in Seq(AnswerUnits)  BY DEF ZmodemTypes
<1>2. Len(toSender) \in Nat /\ Len(toSender) > 0  BY <1>1, EmptySeq
<1>3. /\ Tail(toSender) \in Seq(AnswerUnits) /\ Len(Tail(toSender)) = Len(toSender) - 1
      /\ \A k \in 1 .. Len(Tail(toSender)) : Tail(toSender)[k] = toSender[k + 1]
  BY <1>1, HeadTailProperties
<1>4. Head(toSender) = toSender[1] /\ toSender[1] \in AnswerUnits  BY <1>1, <1>2, ElementOfSeq
<1>5. QED  BY <1>2, <1>3, <1>4

\* The sender turns to another place and writes nothing.
LEMMA QuietScript ==
  ASSUME ZmodemTypes, NEW c \in Nat, Script(c),
         UNCHANGED <<pieces, sent, receives, kept, toReceiver, astray>>,
         sends' \in {sends, "err"} \/ (sends' = "ok" /\ sends \in {"asks", "ends"})
  PROVE  Script(c)'
<1>1. OnLine(toReceiver, c, pieces)'  BY DEF Script
<1>2. SentUpTo(c + Len(toReceiver))'  BY TypesKept DEF Script, SentUpTo
<1>3. TakenUpTo(c, c + Len(toReceiver))'  BY DEF Script, TakenUpTo
<1>4. QED  BY <1>1, <1>2, <1>3 DEF Script

\* The sender reads no answer: it waited too long.
LEMMA HeaderTimeoutKeeps == ZInv /\ HeaderTimeout => ZInv'
<1> SUFFICES ASSUME ZInv, HeaderTimeout PROVE ZInv'
  OBVIOUS
<1>1. PICK c \in Nat : Script(c)  BY DEF ZInv
<1>2. ZmodemTypes /\ Apace  BY DEF ZInv
<1>3. /\ sends' = Result /\ toSender = <<>> /\ SenderWaits
      /\ UNCHANGED <<pieces, sent, receives, kept, toReceiver, toSender, astray>>
  BY DEF HeaderTimeout, SenderTo, EndAnyway
<1>4. sends' = "err" \/ (sends' = "ok" /\ sends = "ends")  BY <1>3 DEF Result
<1>5. Script(c)'  BY <1>1, <1>2, <1>3, <1>4, QuietScript
<1>6. ZmodemTypes'  BY <1>2, <1>3, <1>4 DEF ZmodemTypes
<1>7. Apace'  BY <1>2, <1>3, <1>4 DEF Apace
<1>8. QED  BY <1>5, <1>6, <1>7 DEF ZInv

\* The sender reads an answer.
LEMMA SenderReadsKeeps == ZInv /\ SenderReads => ZInv'
<1> SUFFICES ASSUME ZInv, SenderReads PROVE ZInv'
  OBVIOUS
<1>1. PICK c \in Nat : Script(c)  BY DEF ZInv
<1>2. ZmodemTypes /\ Apace  BY DEF ZInv
<1> DEFINE u == Head(toSender)
<1>3. /\ SenderWaits /\ toSender # <<>> /\ toSender' = Tail(toSender)
      /\ UNCHANGED <<pieces, sent, receives, kept>>
  BY DEF SenderReads
<1>4. /\ toSender' \in Seq(AnswerUnits) /\ Len(toSender) \in Nat /\ Len(toSender) > 0
      /\ Len(toSender') = Len(toSender) - 1
      /\ \A k \in 1 .. Len(toSender') : toSender'[k] = toSender[k + 1] /\ k + 1 \in 1 .. Len(toSender)
      /\ u = toSender[1] /\ u \in AnswerUnits
  BY <1>2, <1>3, AnswersLeft
<1>5. CASE /\ UNCHANGED toReceiver
           /\ astray' = astray \/ astray' = astray \cup {"sender"}
           /\ sends' \in {sends, "err"} \/ (sends' = "ok" /\ sends \in {"asks", "ends"})
  <2>1. "receiver" \in astray <=> "receiver" \in astray'  BY <1>5
  <2>2. Script(c)'
    <3>1. OnLine(toReceiver, c, pieces)'  BY <1>1, <1>3, <1>5 DEF Script
    <3>2. SentUpTo(c + Len(toReceiver))'  BY <1>1, <1>3, <1>5 DEF Script, SentUpTo
    <3>3. TakenUpTo(c, c + Len(toReceiver))'  BY <1>1, <1>3, <1>5, <2>1 DEF Script, TakenUpTo
    <3>4. QED  BY <3>1, <3>2, <3>3 DEF Script
  <2>3. ZmodemTypes'  BY <1>2, <1>3, <1>4, <1>5 DEF ZmodemTypes
  <2>4. Apace'
    <3>1. ASSUME NEW k \in 1 .. Len(toSender'), toSender'[k].type = "ZRPOS"
          PROVE  /\ sends' \in {"names", "err"}
                 /\ sends' = "names" => k = Len(toSender')
                 /\ receives' \notin {"idle", "file", "info"}
      <4>1. k + 1 \in 1 .. Len(toSender) /\ toSender[k + 1].type = "ZRPOS"  BY <1>4, <3>1
      <4>2. /\ sends \in {"names", "err"} /\ receives \notin {"idle", "file", "info"}
            /\ sends = "names" => k + 1 = Len(toSender)
        BY <1>2, <4>1 DEF Apace
      <4>3. sends' \in {"names", "err"} /\ (sends' = "names" => sends = "names")  BY <1>5, <4>2
      <4>4. k \in Int /\ Len(toSender') = Len(toSender) - 1  BY <1>4
      <4>5. sends = "names" => k = Len(toSender')  BY <1>4, <4>2, <4>4
      <4>6. QED  BY <1>3, <4>2, <4>3, <4>5
    <3>2. sends' \in {"streams", "asks"} => receives' \in {"over", "ok"}
      BY <1>2, <1>3, <1>5 DEF Apace
    <3>3. receives' \in {"idle", "file", "info"} => sends' \in {"idle", "invites", "names", "err"}
      BY <1>2, <1>3, <1>5 DEF Apace
    <3>4. sends' \in {"ends", "ok"} => receives' \in {"over", "ok"}
      BY <1>2, <1>3, <1>5 DEF Apace
    <3>5. QED  BY <3>1, <3>2, <3>3, <3>4 DEF Apace
  <2>5. QED  BY <2>2, <2>3, <2>4 DEF ZInv
<1>6. CASE Found(u) /\ Heard(u.type) /\ UNCHANGED astray
  <2>1. CASE sends = "invites" /\ u.type = "ZRINIT"
    <3>1. sends' = "names" /\ Emits(<<Frame("ZFILE"), Info>>)  BY <1>6, <2>1 DEF Heard, SenderTo
    <3>2. c + Len(toReceiver) = 1 /\ sent = 0  BY <1>1, <2>1 DEF Script, SentUpTo
    <3>3. OnLine(<<Frame("ZFILE"), Info>>, c + Len(toReceiver), pieces)
      <4>1. OnLine(<<Frame("ZFILE"), Info>>, 1, pieces)  BY <1>2, NextInPlace DEF ZmodemTypes
      <4>2. QED  BY <3>2, <4>1
    <3>4. /\ OnLine(toReceiver, c, pieces)' /\ toReceiver' \in Seq(Units)
          /\ Len(toReceiver') = Len(toReceiver) + 2
      BY <1>1, <1>2, <1>3, <3>1, <3>3, FramesAreUnits, EmitsNext DEF Script
    <3>5. SentUpTo(c + Len(toReceiver))'
      BY <1>2, <1>3, <3>1, <3>2, <3>4, TypesKept DEF SentUpTo, ZmodemTypes
    <3>6. TakenUpTo(c, c + Len(toReceiver))'
      BY <1>1, <1>2, <1>3, <1>6, <3>1, <3>2, <3>4, TypesKept DEF Script, TakenUpTo, ZmodemTypes
    <3>7. ZmodemTypes'  BY <1>2, <1>3, <1>4, <3>1, <3>4 DEF ZmodemTypes
    <3>8. Apace'  BY <1>2, <1>3, <1>4, <2>1, <3>1 DEF Apace
    <3>9. QED  BY <3>4, <3>5, <3>6, <3>7, <3>8 DEF ZInv, Script
  <2>2. CASE sends = "names" /\ u.type = "ZRPOS"
    <3>1. sends' = "streams" /\ Emits(<<Frame("ZDATA")>>)  BY <1>6, <2>2 DEF Heard, SenderTo
    <3>2. c + Len(toReceiver) = 3 /\ sent = 0  BY <1>1, <2>2 DEF Script, SentUpTo
    <3>3. OnLine(<<Frame("ZDATA")>>, c + Len(toReceiver), pieces)
      <4>1. OnLine(<<Frame("ZDATA")>>, 3, pieces)  BY <1>2, NextInPlace DEF ZmodemTypes
      <4>2. QED  BY <3>2, <4>1
    <3>4. /\ OnLine(toReceiver, c, pieces)' /\ toReceiver' \in Seq(Units)
          /\ Len(toReceiver') = Len(toReceiver) + 1
      BY <1>1, <1>2, <1>3, <3>1, <3>3, FramesAreUnits, EmitsNext DEF Script
    <3>5. receives \notin {"idle", "file", "info"} /\ Len(toSender) = 1
      BY <1>2, <1>4, <2>2 DEF Apace
    <3>6. SentUpTo(c + Len(toReceiver))'
      BY <1>2, <1>3, <3>1, <3>2, <3>4, TypesKept DEF SentUpTo, ZmodemTypes
    <3>7. TakenUpTo(c, c + Len(toReceiver))'
      BY <1>1, <1>2, <1>3, <1>6, <3>1, <3>2, <3>4, <3>5, TypesKept DEF Script, TakenUpTo, ZmodemTypes
    <3>8. ZmodemTypes'  BY <1>2, <1>3, <1>4, <3>1, <3>4 DEF ZmodemTypes
    <3>9. toSender' = <<>> /\ Len(toSender') = 0  BY <1>4, <3>5, EmptySeq
    <3>10. Apace'  BY <1>3, <3>1, <3>5, <3>9 DEF Apace
    <3>11. QED  BY <3>4, <3>6, <3>7, <3>8, <3>10 DEF ZInv, Script
  <2>3. CASE sends = "asks" /\ u.type = "ZRINIT"
    <3>1. sends' = "ends" /\ Emits(<<Frame("ZFIN")>>)  BY <1>6, <2>3 DEF Heard, SenderTo
    <3>2. c + Len(toReceiver) = pieces + 5 /\ pieces + 5 \in Nat
      BY <1>1, <1>2, <2>3 DEF Script, SentUpTo, ZmodemTypes
    <3>3. OnLine(<<Frame("ZFIN")>>, c + Len(toReceiver), pieces)
      <4>1. OnLine(<<Frame("ZFIN")>>, pieces + 5, pieces)  BY <1>2, <3>2, NextInPlace DEF ZmodemTypes
      <4>2. QED  BY <3>2, <4>1
    <3>4. /\ OnLine(toReceiver, c, pieces)' /\ toReceiver' \in Seq(Units)
          /\ Len(toReceiver') = Len(toReceiver) + 1
      BY <1>1, <1>2, <1>3, <3>1, <3>3, FramesAreUnits, EmitsNext DEF Script
    <3>5. receives \in {"over", "ok"}  BY <1>2, <1>3, <2>3 DEF Apace
    <3>6. SentUpTo(c + Len(toReceiver))'
      BY <1>2, <1>3, <3>1, <3>2, <3>4, TypesKept DEF SentUpTo, ZmodemTypes
    <3>7. TakenUpTo(c, c + Len(toReceiver))'
      BY <1>1, <1>2, <1>3, <1>6, <3>1, <3>2, <3>4, <3>5, TypesKept DEF Script, TakenUpTo, ZmodemTypes
    <3>8. ZmodemTypes'  BY <1>2, <1>3, <1>4, <3>1, <3>4 DEF ZmodemTypes
    <3>9. Apace'  BY <1>2, <1>3, <1>4, <2>3, <3>1, <3>5 DEF Apace
    <3>10. QED  BY <3>4, <3>6, <3>7, <3>8, <3>9 DEF ZInv, Script
  <2>4. CASE ~(sends = "invites" /\ u.type = "ZRINIT") /\ ~(sends = "names" /\ u.type = "ZRPOS")
             /\ ~(sends = "asks" /\ u.type = "ZRINIT")
    BY <1>3, <1>5, <1>6, <2>4 DEF Heard, Stops, SenderTo, SenderWaits
  <2>5. QED  BY <2>1, <2>2, <2>3, <2>4
<1>7. CASE "sender" \in astray \/ ~(Found(u) /\ Heard(u.type) /\ UNCHANGED astray)
  BY <1>3, <1>5, <1>7 DEF SenderReads, SenderTo, Result, SenderWaits, StraysIn
<1>8. QED  BY <1>6, <1>7

\* An answer goes out behind the others.
LEMMA AnswersGrow ==
  ASSUME ZmodemTypes, NEW t \in {"ZRINIT", "ZRPOS", "ZFIN"}, Returns(<<Frame(t)>>)
  PROVE  /\ toSender' \in Seq(AnswerUnits) /\ Len(toSender) \in Nat
         /\ Len(toSender') = Len(toSender) + 1 /\ toSender' # <<>>
         /\ \A k \in 1 .. Len(toSender) : toSender'[k] = toSender[k]
         /\ toSender'[Len(toSender) + 1].type = t
<1>1. toSender \in Seq(AnswerUnits) /\ <<Frame(t)>> \in Seq(AnswerUnits) /\ Len(<<Frame(t)>>) = 1
  BY FramesAreUnits DEF ZmodemTypes
<1>2. toSender' = toSender \o <<Frame(t)>>  BY DEF Returns
<1>3. /\ toSender' \in Seq(AnswerUnits) /\ Len(toSender') = Len(toSender) + 1
      /\ \A i \in 1 .. Len(toSender) + 1 :
           toSender'[i] = IF i <= Len(toSender) THEN toSender[i] ELSE <<Frame(t)>>[i - Len(toSender)]
  BY <1>1, <1>2, ConcatProperties
<1>4. Len(toSender) \in Nat  BY <1>1
<1>5. \A k \in 1 .. Len(toSender) : toSender'[k] = toSender[k]  BY <1>3, <1>4
<1>6. toSender'[Len(toSender) + 1] = <<Frame(t)>>[1]
  <2>1. Len(toSender) + 1 \in 1 .. Len(toSender) + 1 /\ (Len(toSender) + 1) - Len(toSender) = 1
    BY <1>4
  <2>2. QED  BY <1>3, <1>4, <2>1
<1>7. <<Frame(t)>>[1].type = t  BY DEF Frame
<1>8. toSender' # <<>>  BY <1>3, <1>4, EmptySeq
<1>9. QED  BY <1>3, <1>4, <1>5, <1>6, <1>7, <1>8

\* An answer other than ZRPOS, from a receiver that may give it.
LEMMA AnswerApace ==
  ASSUME ZmodemTypes, Apace, NEW t \in {"ZRINIT", "ZFIN"}, Returns(<<Frame(t)>>), sends' = sends,
         sends \in {"names"} => receives' \in {"file"},
         receives' \in {"file", "over", "ok"}, receives' = "file" => receives \in {"idle", "file"}
  PROVE  Apace'
<1>1. /\ Len(toSender) \in Nat /\ Len(toSender') = Len(toSender) + 1
      /\ \A k \in 1 .. Len(toSender) : toSender'[k] = toSender[k]
      /\ toSender'[Len(toSender) + 1].type = t
  BY AnswersGrow
<1>2. ASSUME NEW k \in 1 .. Len(toSender'), toSender'[k].type = "ZRPOS"
      PROVE  k \in 1 .. Len(toSender) /\ toSender[k].type = "ZRPOS"
  BY <1>1, <1>2
<1>3. ASSUME NEW k \in 1 .. Len(toSender'), toSender'[k].type = "ZRPOS"
      PROVE  sends' = "err" /\ receives' \notin {"idle", "file", "info"}
  BY <1>2, <1>3 DEF Apace
<1>4. receives' = "file" => sends' \in {"idle", "invites", "names", "err"}  BY DEF Apace
<1>5. QED  BY <1>3, <1>4 DEF Apace

\* The receiver starts.
LEMMA ReceiveFileKeeps == ZInv /\ ReceiveFile => ZInv'
<1> SUFFICES ASSUME ZInv, ReceiveFile PROVE ZInv'
  OBVIOUS
<1>1. PICK c \in Nat : Script(c)  BY DEF ZInv
<1>2. ZmodemTypes /\ Apace  BY DEF ZInv
<1>3. /\ receives = "idle" /\ receives' = "file" /\ Returns(<<Frame("ZRINIT")>>)
      /\ UNCHANGED <<pieces, sends, sent, kept, toReceiver, astray>>
  BY DEF ReceiveFile, ReceiverTo
<1>4. Script(c)'  BY <1>1, <1>3 DEF Script, SentUpTo, TakenUpTo
<1>5. ZmodemTypes'  BY <1>2, <1>3, AnswersGrow DEF ZmodemTypes
<1>6. Apace'  BY <1>2, <1>3, AnswerApace
<1>7. QED  BY <1>4, <1>5, <1>6 DEF ZInv

\* The log takes what nobody waits for.
LEMMA UnheardKeeps == ZInv /\ Unheard => ZInv'
<1> SUFFICES ASSUME ZInv, Unheard PROVE ZInv'
  OBVIOUS
<1>1. PICK c \in Nat : Script(c)  BY DEF ZInv
<1>2. ZmodemTypes /\ Apace  BY DEF ZInv
<1>3. UNCHANGED <<pieces, sends, sent, receives, kept, astray>>  BY DEF Unheard
<1>4. CASE receives = "idle" /\ toReceiver # <<>> /\ toReceiver' = Tail(toReceiver) /\ UNCHANGED toSender
  <2>1. /\ OnLine(Tail(toReceiver), c + 1, pieces) /\ Tail(toReceiver) \in Seq(Units)
        /\ Len(Tail(toReceiver)) = Len(toReceiver) - 1
    BY <1>1, <1>2, <1>4, FirstInPlace DEF Script, ZmodemTypes
  <2>2. (c + 1) + Len(toReceiver') = c + Len(toReceiver)  BY <1>2, <1>4, <2>1, TypesKept
  <2>3. Script(c + 1)'
    BY <1>1, <1>3, <1>4, <2>1, <2>2 DEF Script, SentUpTo, TakenUpTo
  <2>4. ZmodemTypes'  BY <1>2, <1>3, <1>4, <2>1 DEF ZmodemTypes
  <2>5. Apace'  BY <1>2, <1>3, <1>4 DEF Apace
  <2>6. c + 1 \in Nat  OBVIOUS
  <2>7. QED  BY <2>3, <2>4, <2>5, <2>6 DEF ZInv
<1>5. CASE sends = "idle" /\ toSender # <<>> /\ toSender' = Tail(toSender) /\ UNCHANGED toReceiver
  <2>1. /\ toSender' \in Seq(AnswerUnits)
        /\ \A k \in 1 .. Len(toSender') : toSender'[k] = toSender[k + 1] /\ k + 1 \in 1 .. Len(toSender)
    BY <1>2, <1>5, AnswersLeft
  <2>2. Script(c)'  BY <1>1, <1>3, <1>5 DEF Script, SentUpTo, TakenUpTo
  <2>3. ZmodemTypes'  BY <1>2, <1>3, <1>5, <2>1 DEF ZmodemTypes
  <2>4. \A k \in 1 .. Len(toSender') : toSender'[k].type # "ZRPOS"  BY <1>2, <1>5, <2>1 DEF Apace
  <2>5. Apace'  BY <1>2, <1>3, <1>5, <2>4 DEF Apace
  <2>6. QED  BY <2>2, <2>3, <2>5 DEF ZInv
<1>6. QED  BY <1>4, <1>5 DEF Unheard

\* The receiver waits in vain.
LEMMA ReceiverTimeoutKeeps == ZInv /\ ReceiverTimeout => ZInv'
<1> SUFFICES ASSUME ZInv, ReceiverTimeout PROVE ZInv'
  OBVIOUS
<1>1. PICK c \in Nat : Script(c)  BY DEF ZInv
<1>2. ZmodemTypes /\ Apace  BY DEF ZInv
<1>3. /\ receives' = (IF receives = "over" THEN "ok" ELSE "err")
      /\ receives \in {"file", "data", "eof", "over"}
      /\ UNCHANGED <<pieces, sends, sent, kept, toReceiver, toSender, astray>>
  BY DEF ReceiverTimeout, ReceiverTo, Outcome, WaitsForHeader
<1>4. pieces \in Nat /\ c + Len(toReceiver) \in Nat  BY <1>2, TypesKept DEF ZmodemTypes
<1>5. Script(c)'
  <2>1. OnLine(toReceiver, c, pieces)' /\ SentUpTo(c + Len(toReceiver))'
    BY <1>1, <1>3 DEF Script, SentUpTo
  <2>2. TakenUpTo(c, c + Len(toReceiver))'  BY <1>1, <1>3, <1>4 DEF Script, TakenUpTo
  <2>3. QED  BY <2>1, <2>2 DEF Script
<1>6. ZmodemTypes'  BY <1>2, <1>3 DEF ZmodemTypes
<1>7. Apace'  BY <1>2, <1>3 DEF Apace
<1>8. QED  BY <1>5, <1>6, <1>7 DEF ZInv

\* The receiver has taken one unit more: where that leaves it is all there is to show.
LEMMA TakesOne ==
  ASSUME ZmodemTypes, NEW c \in Nat, Script(c), toReceiver # <<>>, toReceiver' = Tail(toReceiver),
         UNCHANGED <<pieces, sends, sent>>,
         NEW e \in Nat, e = c + Len(toReceiver), TakenUpTo(c + 1, e)'
  PROVE  Script(c + 1)' /\ toReceiver' \in Seq(Units)
<1>1. /\ OnLine(Tail(toReceiver), c + 1, pieces) /\ Tail(toReceiver) \in Seq(Units)
      /\ Len(Tail(toReceiver)) = Len(toReceiver) - 1
  BY FirstInPlace DEF Script, ZmodemTypes
<1>2. (c + 1) + Len(toReceiver') = e  BY <1>1, TypesKept
<1>3. TakenUpTo(c + 1, (c + 1) + Len(toReceiver))'  BY <1>2
<1>4. SentUpTo((c + 1) + Len(toReceiver))'  BY <1>2 DEF Script, SentUpTo
<1>5. OnLine(toReceiver, c + 1, pieces)'  BY <1>1
<1>6. QED  BY <1>1, <1>3, <1>4, <1>5 DEF Script

\* The receiver reads a header.
LEMMA ReadHeaderKeeps == ZInv /\ ReadHeader => ZInv'
<1> SUFFICES ASSUME ZInv, ReadHeader PROVE ZInv'
  OBVIOUS
<1>1. PICK c \in Nat : Script(c)  BY DEF ZInv
<1>2. ZmodemTypes /\ Apace  BY DEF ZInv
<1> DEFINE u == Head(toReceiver)
<1>3. /\ receives \in {"file", "data", "eof", "over"}
      /\ toReceiver # <<>> /\ toReceiver' = Tail(toReceiver)
      /\ UNCHANGED <<pieces, sends, sent, kept>>
  BY DEF ReadHeader, WaitsForHeader
<1>4. PICK e \in Nat : e = c + Len(toReceiver)  BY <1>2, TypesKept
<1>5. InPlace(u, c + 1, pieces) /\ c + 1 <= e /\ c + 1 \in Nat
  <2>1. InPlace(u, c + 1, pieces) /\ Len(toReceiver) \in Nat /\ Len(toReceiver) - 1 \in Nat
    BY <1>1, <1>2, <1>3, FirstInPlace DEF Script, ZmodemTypes
  <2>2. QED  BY <1>4, <2>1
<1>6. SentUpTo(e) /\ TakenUpTo(c, e)  BY <1>1, <1>4 DEF Script
<1>7. pieces \in Nat /\ Len(kept) \in Nat  BY <1>2, TypesKept DEF ZmodemTypes
\* Nothing is heard that is in its place, and the receiver goes on, or gives up.
<1>8. CASE /\ UNCHANGED toSender
           /\ \/ receives' = receives /\ (astray' = astray \/ astray' = astray \cup {"receiver"})
              \/ receives' = Outcome /\ astray' = astray
  <2>1. TakenUpTo(c + 1, e)'  BY <1>3, <1>5, <1>6, <1>7, <1>8 DEF TakenUpTo, Outcome
  <2>2. Script(c + 1)' /\ toReceiver' \in Seq(Units)  BY <1>1, <1>2, <1>3, <1>4, <2>1, TakesOne
  <2>3. ZmodemTypes'  BY <1>2, <1>3, <1>8, <2>2 DEF ZmodemTypes, Outcome
  <2>4. Apace'  BY <1>2, <1>3, <1>8 DEF Apace, Outcome
  <2>5. QED  BY <1>5, <2>2, <2>3, <2>4 DEF ZInv
<1>9. CASE Found(u) /\ TakesHeader(u.type) /\ UNCHANGED astray
  <2>1. CASE receives = "file"
    <3>1. e <= 3 /\ kept = <<>> /\ sends \in {"idle", "invites", "names", "err"}
      BY <1>2, <1>6, <2>1 DEF TakenUpTo, Apace
    <3>2. c + 1 \in {1, 2, 3}  BY <1>5, <3>1
    <3>3. u.kind = "header"  BY <1>9 DEF Found
    <3>4. \/ c + 1 = 1 /\ u.type = "ZRQINIT"
          \/ c + 1 = 2 /\ u.type = "ZFILE"
      BY <1>5, <3>2, <3>3 DEF InPlace, Is
    <3>5. CASE c + 1 = 1 /\ u.type = "ZRQINIT"
      <4>1. receives' = "file" /\ Returns(<<Frame("ZRINIT")>>)
        BY <1>9, <2>1, <3>5 DEF TakesHeader, Replies, ReceiverTo
      <4>2. TakenUpTo(c + 1, e)'  BY <1>3, <3>1, <4>1 DEF TakenUpTo
      <4>3. Script(c + 1)' /\ toReceiver' \in Seq(Units)  BY <1>1, <1>2, <1>3, <1>4, <4>2, TakesOne
      <4>4. ZmodemTypes'  BY <1>2, <1>3, <4>1, <4>3, AnswersGrow DEF ZmodemTypes
      <4>5. Apace'  BY <1>2, <1>3, <2>1, <4>1, AnswerApace
      <4>6. QED  BY <1>5, <4>3, <4>4, <4>5 DEF ZInv
    <3>6. CASE c + 1 = 2 /\ u.type = "ZFILE"
      <4>1. receives' = "info" /\ UNCHANGED toSender
        BY <1>9, <2>1, <3>6 DEF TakesHeader, Silently, ReceiverTo
      <4>2. TakenUpTo(c + 1, e)'  BY <1>3, <3>1, <3>6, <4>1 DEF TakenUpTo
      <4>3. Script(c + 1)' /\ toReceiver' \in Seq(Units)  BY <1>1, <1>2, <1>3, <1>4, <4>2, TakesOne
      <4>4. ZmodemTypes'  BY <1>2, <1>3, <4>1, <4>3 DEF ZmodemTypes
      <4>5. Apace'  BY <1>2, <1>3, <2>1, <4>1 DEF Apace
      <4>6. QED  BY <1>5, <4>3, <4>4, <4>5 DEF ZInv
    <3>7. QED  BY <3>4, <3>5, <3>6
  <2>2. CASE receives = "data"
    <3>1. c >= 3 /\ kept = <<>> /\ e <= pieces + 5  BY <1>6, <2>2 DEF TakenUpTo
    <3>2. UNCHANGED toSender /\ receives' = (IF u.type = "ZDATA" THEN "pieces" ELSE "err")
      BY <1>9, <2>2 DEF TakesHeader, Silently, ReceiverTo
    <3>3. Len(kept) = 0  BY <3>1, EmptySeq
    <3>4. u.type = "ZDATA" => c + 1 = 4
      <4>1. SUFFICES ASSUME u.type = "ZDATA", c + 1 # 4 PROVE FALSE
        OBVIOUS
      <4>2. c + 1 \in 5 .. (pieces + 4) \/ c + 1 = pieces + 5  BY <1>5, <1>7, <3>1, <4>1
      <4>3. c + 1 \in 5 .. (pieces + 4)  BY <1>5, <4>1, <4>2 DEF InPlace, Is
      <4>4. u.kind = "subpacket"  BY <1>5, <4>3 DEF InPlace, Is
      <4>5. QED  BY <1>9, <4>4 DEF Found
    <3>5. TakenUpTo(c + 1, e)'  BY <1>3, <1>7, <3>1, <3>2, <3>3, <3>4 DEF TakenUpTo
    <3>6. Script(c + 1)' /\ toReceiver' \in Seq(Units)  BY <1>1, <1>2, <1>3, <1>4, <3>5, TakesOne
    <3>7. ZmodemTypes'  BY <1>2, <1>3, <3>2, <3>6 DEF ZmodemTypes
    <3>8. Apace'  BY <1>2, <1>3, <2>2, <3>2 DEF Apace
    <3>9. QED  BY <1>5, <3>6, <3>7, <3>8 DEF ZInv
  <2>3. CASE receives = "eof"
    <3>1. c >= 4 + pieces /\ Len(kept) = pieces /\ e <= pieces + 5  BY <1>6, <2>3 DEF TakenUpTo
    <3>2. c + 1 = pieces + 5 /\ e = pieces + 5  BY <1>5, <1>7, <3>1
    <3>3. u.type = "ZEOF"  BY <1>5, <3>2 DEF InPlace, Is
    <3>4. receives' = "over" /\ Returns(<<Frame("ZRINIT")>>)
      BY <1>9, <2>3, <3>3 DEF TakesHeader, Replies, ReceiverTo
    <3>5. TakenUpTo(c + 1, e)'  BY <1>3, <1>7, <3>1, <3>2, <3>4 DEF TakenUpTo
    <3>6. Script(c + 1)' /\ toReceiver' \in Seq(Units)  BY <1>1, <1>2, <1>3, <1>4, <3>5, TakesOne
    <3>7. sends # "names"  BY <1>6, <1>7, <3>2 DEF SentUpTo
    <3>8. ZmodemTypes'  BY <1>2, <1>3, <3>4, <3>6, AnswersGrow DEF ZmodemTypes
    <3>9. Apace'  BY <1>2, <1>3, <3>4, <3>7, AnswerApace
    <3>10. QED  BY <1>5, <3>6, <3>8, <3>9 DEF ZInv
  <2>4. CASE receives = "over"
    <3>1. Len(kept) = pieces /\ e >= pieces + 5  BY <1>6, <2>4 DEF TakenUpTo
    <3>2. receives' = "ok" /\ (UNCHANGED toSender \/ Returns(<<Frame("ZFIN")>>))
      BY <1>9, <2>4 DEF TakesHeader, Silently, Replies, ReceiverTo
    <3>3. TakenUpTo(c + 1, e)'  BY <1>3, <1>7, <3>1, <3>2 DEF TakenUpTo
    <3>4. Script(c + 1)' /\ toReceiver' \in Seq(Units)  BY <1>1, <1>2, <1>3, <1>4, <3>3, TakesOne
    <3>5. sends # "names"  BY <1>6, <1>7, <3>1 DEF SentUpTo
    <3>6. ZmodemTypes'  BY <1>2, <1>3, <3>2, <3>4, AnswersGrow DEF ZmodemTypes
    <3>7. CASE UNCHANGED toSender
      <4>1. Apace'  BY <1>2, <1>3, <2>4, <3>2, <3>7 DEF Apace
      <4>2. QED  BY <1>5, <3>4, <3>6, <4>1 DEF ZInv
    <3>8. CASE Returns(<<Frame("ZFIN")>>)
      <4>1. Apace'  BY <1>2, <1>3, <3>2, <3>5, <3>8, AnswerApace
      <4>2. QED  BY <1>5, <3>4, <3>6, <4>1 DEF ZInv
    <3>9. QED  BY <3>2, <3>7, <3>8
  <2>5. QED  BY <1>3, <2>1, <2>2, <2>3, <2>4
<1>10. QED  BY <1>8, <1>9 DEF ReadHeader, ReceiverTo, StraysIn

\* The receiver reads a piece.
LEMMA ReadSubpacketKeeps == ZInv /\ ReadSubpacket => ZInv'
<1> SUFFICES ASSUME ZInv, ReadSubpacket PROVE ZInv'
  OBVIOUS
<1>1. PICK c \in Nat : Script(c)  BY DEF ZInv
<1>2. ZmodemTypes /\ Apace  BY DEF ZInv
<1> DEFINE u == Head(toReceiver)
<1>3. /\ receives \in {"info", "pieces"}
      /\ toReceiver # <<>> /\ toReceiver' = Tail(toReceiver)
      /\ UNCHANGED <<pieces, sends, sent>>
  BY DEF ReadSubpacket
<1>4. PICK e \in Nat : e = c + Len(toReceiver)  BY <1>2, TypesKept
<1>5. InPlace(u, c + 1, pieces) /\ c + 1 <= e /\ c + 1 \in Nat
  <2>1. InPlace(u, c + 1, pieces) /\ Len(toReceiver) \in Nat /\ Len(toReceiver) - 1 \in Nat
    BY <1>1, <1>2, <1>3, FirstInPlace DEF Script, ZmodemTypes
  <2>2. QED  BY <1>4, <2>1
<1>6. SentUpTo(e) /\ TakenUpTo(c, e)  BY <1>1, <1>4 DEF Script
<1>7. pieces \in Nat /\ Len(kept) \in Nat  BY <1>2, TypesKept DEF ZmodemTypes
<1>8. CASE /\ UNCHANGED <<toSender, kept>>
           /\ \/ receives' = receives /\ astray' = astray \cup {"receiver"}
              \/ receives' = "err" /\ astray' = astray
  <2>1. TakenUpTo(c + 1, e)'  BY <1>3, <1>5, <1>6, <1>7, <1>8 DEF TakenUpTo
  <2>2. Script(c + 1)' /\ toReceiver' \in Seq(Units)  BY <1>1, <1>2, <1>3, <1>4, <2>1, TakesOne
  <2>3. ZmodemTypes'  BY <1>2, <1>3, <1>8, <2>2 DEF ZmodemTypes
  <2>4. Apace'  BY <1>2, <1>3, <1>8 DEF Apace
  <2>5. QED  BY <1>5, <2>2, <2>3, <2>4 DEF ZInv
<1>9. CASE Fits(u) /\ TakesSubpacket(u) /\ UNCHANGED astray
  <2>1. "receiver" \notin astray /\ u.kind = "subpacket" /\ u.hit = "no"  BY <1>9 DEF Fits, Checked
  <2>2. CASE receives = "info"
    <3>1. c = 2 /\ e <= 3 /\ kept = <<>> /\ sends \in {"idle", "invites", "names", "err"}
      BY <1>2, <1>6, <2>1, <2>2 DEF TakenUpTo, Apace
    <3>2. receives' = "data" /\ Returns(<<Frame("ZRPOS")>>) /\ UNCHANGED kept
      BY <1>9, <2>2 DEF TakesSubpacket, ReceiverTo
    <3>3. TakenUpTo(c + 1, e)'  BY <1>3, <1>7, <3>1, <3>2 DEF TakenUpTo
    <3>4. Script(c + 1)' /\ toReceiver' \in Seq(Units)  BY <1>1, <1>2, <1>3, <1>4, <3>3, TakesOne
    <3>5. sends \in {"names", "err"}  BY <1>5, <1>6, <3>1 DEF SentUpTo
    <3>6. ZmodemTypes'  BY <1>2, <1>3, <3>2, <3>4, AnswersGrow DEF ZmodemTypes
    <3>7. \A k \in 1 .. Len(toSender) : toSender[k].type # "ZRPOS"  BY <1>2, <2>2 DEF Apace
    <3>8. ASSUME NEW k \in 1 .. Len(toSender'), toSender'[k].type = "ZRPOS"
          PROVE  k = Len(toSender')
      BY <1>2, <3>2, <3>7, <3>8, AnswersGrow
    <3>9. Apace'  BY <1>3, <3>2, <3>5, <3>8 DEF Apace
    <3>10. QED  BY <1>5, <3>4, <3>6, <3>9 DEF ZInv
  <2>3. CASE receives = "pieces"
    <3>1. /\ c = 4 + Len(kept) /\ (Len(kept) < pieces \/ pieces = 0) /\ e <= pieces + 5
      BY <1>6, <2>1, <2>3 DEF TakenUpTo
    <3>2. Len(kept) < pieces
      <4>1. SUFFICES ASSUME pieces = 0 PROVE FALSE
        BY <3>1
      <4>2. Len(kept) = 0  BY <1>2, <1>7, <4>1 DEF ZmodemTypes
      <4>3. c + 1 = pieces + 5  BY <3>1, <4>1, <4>2
      <4>4. u.kind = "header"  BY <1>5, <4>3 DEF InPlace, Is
      <4>5. QED  BY <2>1, <4>4
    <3>3. u.type = Len(kept) + 1
      <4>1. c + 1 \in 5 .. (pieces + 4) /\ (c + 1) - 4 = Len(kept) + 1  BY <1>7, <3>1, <3>2
      <4>2. QED  BY <1>5, <4>1 DEF InPlace, Is
    <3>4. /\ kept' = Append(kept, Len(kept) + 1) /\ UNCHANGED toSender
          /\ receives' = (IF Len(kept) + 1 = pieces THEN "eof" ELSE "pieces")
      BY <1>9, <2>1, <2>3, <3>3 DEF TakesSubpacket, ReceiverTo
    <3>5. kept \in Seq(Nat) /\ \A i \in 1 .. Len(kept) : kept[i] = i  BY <1>2 DEF ZmodemTypes
    <3>6. kept' \in Seq(Nat) /\ Len(kept') = Len(kept) + 1  BY <1>7, <3>4, <3>5
    <3>7. \A i \in 1 .. Len(kept') : kept'[i] = i
      <4>1. \A i \in 1 .. Len(kept) + 1 :
              Append(kept, Len(kept) + 1)[i] = IF i <= Len(kept) THEN kept[i] ELSE Len(kept) + 1
        BY <1>7, <3>5
      <4>2. QED  BY <1>7, <3>4, <3>5, <3>6, <4>1
    <3>8. TakenUpTo(c + 1, e)'  BY <1>3, <1>7, <3>1, <3>2, <3>4, <3>6 DEF TakenUpTo
    <3>9. Script(c + 1)' /\ toReceiver' \in Seq(Units)  BY <1>1, <1>2, <1>3, <1>4, <3>8, TakesOne
    <3>10. Len(kept') <= pieces'  BY <1>3, <1>7, <3>2, <3>6
    <3>11. ZmodemTypes'  BY <1>2, <1>3, <3>4, <3>6, <3>7, <3>9, <3>10 DEF ZmodemTypes
    <3>12. Apace'  BY <1>2, <1>3, <2>3, <3>4 DEF Apace
    <3>13. QED  BY <1>5, <3>9, <3>11, <3>12 DEF ZInv
  <2>4. QED  BY <1>3, <2>2, <2>3
<1>10. QED  BY <1>8, <1>9 DEF ReadSubpacket, ReceiverTo

\* The line hits a unit.
LEMMA LineHitKeeps == ZInv /\ LineHit => ZInv'
<1> SUFFICES ASSUME ZInv, LineHit PROVE ZInv'
  OBVIOUS
<1>1. PICK c \in Nat : Script(c)  BY DEF ZInv
<1>2. ZmodemTypes /\ Apace  BY DEF ZInv
<1>3. UNCHANGED <<pieces, sends, sent, receives, kept, astray>>  BY DEF LineHit
<1>4. ASSUME NEW h \in HitBy, toReceiver # <<>>, UNCHANGED toSender,
             toReceiver' = [toReceiver EXCEPT ![1].hit = h]
      PROVE  ZInv'
  <2>1. /\ toReceiver' \in Seq(Units) /\ Len(toReceiver') = Len(toReceiver)
        /\ OnLine(toReceiver', c, pieces)
    BY <1>1, <1>2, <1>4, HitInPlace DEF Script, ZmodemTypes
  <2>2. Script(c)'  BY <1>1, <1>3, <2>1 DEF Script, SentUpTo, TakenUpTo
  <2>3. ZmodemTypes'  BY <1>2, <1>3, <1>4, <2>1 DEF ZmodemTypes
  <2>4. Apace'  BY <1>2, <1>3, <1>4 DEF Apace
  <2>5. QED  BY <2>2, <2>3, <2>4 DEF ZInv
<1>5. ASSUME NEW h \in HitBy, toSender # <<>>, UNCHANGED toReceiver,
             toSender' = [toSender EXCEPT ![1].hit = h]
      PROVE  ZInv'
  <2> DEFINE a == [toSender[1] EXCEPT !.hit = h]
             r == [toSender EXCEPT ![1] = a]
  <2>1. toSender \in Seq(AnswerUnits) /\ Len(toSender) \in Nat /\ 1 \in 1 .. Len(toSender) /\ toSender[1] \in AnswerUnits
    BY <1>2, <1>5, EmptySeq, ElementOfSeq DEF ZmodemTypes
  <2>2. a \in AnswerUnits /\ a.type = toSender[1].type  BY <2>1 DEF AnswerUnits
  <2>3. toSender' = r  BY <1>5
  <2> HIDE DEF a
  <2>4. /\ toSender' \in Seq(AnswerUnits) /\ Len(toSender') = Len(toSender)
        /\ \A j \in 1 .. Len(toSender) : toSender'[j] = IF j = 1 THEN a ELSE toSender[j]
    BY <2>1, <2>2, <2>3, ExceptSeq
  <2>5. \A j \in 1 .. Len(toSender) : toSender'[j].type = toSender[j].type  BY <2>2, <2>4
  <2>6. Script(c)'  BY <1>1, <1>3, <1>5 DEF Script, SentUpTo, TakenUpTo
  <2>7. ZmodemTypes'  BY <1>2, <1>3, <1>5, <2>4 DEF ZmodemTypes
  <2>8. Apace'  BY <1>2, <1>3, <1>5, <2>4, <2>5 DEF Apace
  <2>9. QED  BY <2>6, <2>7, <2>8 DEF ZInv
<1>6. \A v : Hits(v) \subseteq HitBy  BY DEF Hits, HitBy
<1>7. QED  BY <1>4, <1>5, <1>6 DEF LineHit

\* The invariant gives the property.
LEMMA ZInvImplies == ZInv => ZmodemArrives
<1> SUFFICES ASSUME ZInv PROVE ZmodemArrives
  OBVIOUS
<1>1. PICK c \in Nat : Script(c)  BY DEF ZInv
<1>2. ZmodemTypes /\ Apace  BY DEF ZInv
<1> DEFINE file == [i \in 1 .. pieces |-> i]
<1>3. /\ kept \in Seq(Nat) /\ Len(kept) \in Nat /\ Len(kept) <= pieces /\ pieces \in Nat
      /\ \A i \in 1 .. Len(kept) : kept[i] = i
  BY <1>2, TypesKept DEF ZmodemTypes
<1>4. file \in Seq(Nat) /\ Len(file) = pieces /\ \A i \in 1 .. pieces : file[i] = i  BY <1>3
<1> HIDE DEF file
<1>5. IsPrefix(kept, file)
  <2>1. SubSeq(kept, 1, Len(kept)) = kept  BY <1>3, SubSeqFull
  <2>2. /\ SubSeq(file, 1, Len(kept)) \in Seq(Nat) /\ Len(SubSeq(file, 1, Len(kept))) = Len(kept)
        /\ \A i \in 1 .. Len(kept) : SubSeq(file, 1, Len(kept))[i] = file[i]
    <3>1. \A i \in 1 .. Len(kept) : file[i] \in Nat  BY <1>3, <1>4
    <3>2. QED  BY <1>3, <3>1, SubSeqProperties
  <2>3. \A i \in 1 .. Len(kept) : kept[i] = SubSeq(file, 1, Len(kept))[i]  BY <1>3, <1>4, <2>2
  <2>4. kept = SubSeq(file, 1, Len(kept))  BY <1>3, <2>2, <2>3, SeqEqual
  <2>5. QED  BY <1>3, <1>4, <2>1, <2>4 DEF IsPrefix
<1>6. receives = "ok" \/ sends = "ok" => Len(kept) = pieces
  BY <1>1, <1>2 DEF Script, TakenUpTo, Apace
<1>7. Len(kept) = pieces => kept = file  BY <1>3, <1>4, SeqEqual
<1>8. QED  BY <1>5, <1>6, <1>7 DEF ZmodemArrives, file

\* Nothing moves.
LEMMA ZInvStutters == ZInv /\ UNCHANGED zmodemVars => ZInv'
<1> SUFFICES ASSUME ZInv, UNCHANGED zmodemVars PROVE ZInv'  OBVIOUS
<1>1. UNCHANGED <<pieces, sends, sent, receives, kept, toReceiver, toSender, astray>>
  BY DEF zmodemVars
<1>2. ZmodemTypes'  BY <1>1 DEF ZInv, ZmodemTypes
<1>3. (\E c \in Nat : Script(c))'  BY <1>1 DEF ZInv, Script, SentUpTo, TakenUpTo
<1>4. Apace'  BY <1>1 DEF ZInv, Apace
<1>5. QED  BY <1>2, <1>3, <1>4 DEF ZInv

\* Every step keeps the invariant.
LEMMA ZInvKept == ZInv /\ ZmodemNext => ZInv'
BY SendFileKeeps, SenderReadsKeeps, HeaderTimeoutKeeps, StreamKeeps, ReceiveFileKeeps,
   UnheardKeeps, ReadHeaderKeeps, ReadSubpacketKeeps, ReceiverTimeoutKeeps, LineHitKeeps
DEF ZmodemNext, SenderSteps

\* Files are sent by ZMODEM (modem/zmodem.rs) one piece after another: what the receiver
\* has kept is at every moment a prefix of the file, and the whole file once either side
\* reports success.
THEOREM ZmodemDelivers == ZmodemSpec => []ZmodemArrives
<1>1. ZmodemInit => ZInv  BY ZInvInit
<1>2. ZInv /\ [ZmodemNext]_zmodemVars => ZInv'  BY ZInvKept, ZInvStutters
<1>3. QED  BY <1>1, <1>2, ZInvImplies, PTL DEF ZmodemSpec

(***************************************************************************)
(* XMODEM and YMODEM.  A block number is one byte, so a receiver that was  *)
(* overtaken by a whole turn of the numbers would take one block for       *)
(* another.  Load counts the answers that the line may still cause.  An    *)
(* answer moves the sender on by at most one block, and every answer is    *)
(* paid for: by a start character, or by a token on the line.  So the      *)
(* sender is at most Room blocks ahead (Ahead), the blocks on the line are *)
(* in order, and the number of a block decides which one it is             *)
(* (ModUnique).                                                            *)
(***************************************************************************)

\* What asks for a file, and what it becomes on the line.
StartBytes == {"C", "oldC"}
\* What a sender writes as one piece, and a receiver answers once.
WholeTypes == {"block", "header", "EOT", "null"}
\* The sender has written its end of file.
Late == {"eot", "eot2", "next", "null", "ok", "err"}
\* Blocks the sender may be ahead of the receiver: XMODEM starts by every start character.
Room == IF proto = "xmodem" THEN MaxRetries ELSE 1
\* No rest is answered twice.
Sane == ~AnsweredTwice
\* Nothing was taken for what it is not.
Clear == ~misread /\ ~stale

\* Answers the head of the line may still cause, and the whole line; in: a block is being read.
HeadLoad(in, d) ==
  IF d.t = "noise" THEN 0
  ELSE IF d.t = "rest" THEN IF RestMax > 2 \/ d.n = 0 \/ (in /\ d.n = 1) THEN 0 ELSE 1
  ELSE 1
Load(in, q) ==
  (IF in THEN 1 ELSE 0) + (IF q = <<>> THEN 0 ELSE (Len(q) - 1) + HeadLoad(in, q[1]))

\* Only the head of the line may be damaged.
Followers(q) == \A k \in 2 .. Len(q) : q[k].t \in WholeTypes
Without(type, q) == \A k \in 1 .. Len(q) : q[k].t # type
\* The blocks on the line: none before low or after high, the sender is at high, and none
\* is overtaken.
Ordered(q, low, high) ==
  \A k \in 1 .. Len(q) : q[k].t = "block" =>
    /\ low <= q[k].n /\ q[k].n <= high /\ high <= q[k].n + (Len(q) - k)
    /\ \A j \in k .. Len(q) : q[j].t = "block" => q[k].n <= q[j].n
StartsOnly(q) == \A k \in 1 .. Len(q) : q[k] \in StartBytes

\* Before the first block.
Beginning ==
  /\ spc \in {"idle", "start", "header", "ready"} => blk = 1
  /\ spc \in {"idle", "start"} => down = <<>> /\ ~inside /\ rpc \in {"idle", "start", "err"}
  /\ rpc = "idle" => starts = 0 /\ up = <<>> /\ down = <<>> /\ ~inside /\ ~misread
                     /\ spc \in {"idle", "start", "err"}
  /\ rpc \in {"idle", "start"} => received = <<>> /\ StartsOnly(up)
  /\ rpc = "err" /\ spc \in {"idle", "start"} => StartsOnly(up)
  /\ proto = "ymodem" /\ rpc = "start" => spc \in {"idle", "start", "header", "err"}
  /\ \/ Without("header", down)
     \/ /\ Len(down) = 1 /\ rpc \in {"start", "err"} /\ spc \in {"header", "err"}
        /\ proto = "ymodem" /\ StartsOnly(up)
  /\ proto = "xmodem" => /\ spc \in {"idle", "start", "block", "eot", "ok", "err"}
                         /\ rpc \in {"idle", "start", "data", "ok", "err"}

\* An end of file, or nothing that is answered.
Quiet(d) == d.t \in {"EOT", "noise"} \/ (d.t = "rest" /\ (RestMax > 2 \/ d.n = 0))

\* After the last block.
Ending ==
  /\ spc \notin Late => Without("EOT", down)
  /\ ~misread /\ rpc \in {"eot", "last"} => spc \in Late
  /\ rpc = "eot" => ~inside /\ (spc \in Late \/ down # <<>>)
  /\ Without("null", down) \/ (proto = "ymodem" /\ spc \in {"null", "ok"})
  /\ Sane /\ proto = "ymodem" /\ rpc = "data" /\ spc \in Late =>
       /\ spc \in {"eot", "err"}
       /\ spc = "eot" => /\ up = <<>> /\ ~inside /\ Load(inside, down) <= 1
                         /\ \A k \in 1 .. Len(down) : Quiet(down[k])

\* What is on the line and what is kept.
Held ==
  /\ Followers(down)
  /\ Sane => Len(received) <= Blocks /\ \A i \in 1 .. Len(received) : received[i] = i

\* How far the sender may be ahead of the receiver, and what its answers promise.
Ahead ==
  Sane /\ rpc \in {"idle", "start", "data"} =>
    /\ expected = (Len(received) + 1) % Wrap
    /\ Len(received) <= blk /\ blk <= Len(received) + Room
    /\ Ordered(down, Len(received), blk)
    /\ spc = "block" => \A k \in 1 .. Len(up) : up[k] = "ACK" => blk + k <= Len(received) + Room

\* The receiver still waits for blocks, or has not been misled.
Steady == Sane /\ (rpc \in {"start", "data", "err"} \/ ~misread)
\* Answers that are on the way or may come are paid for by the start characters.
Credit ==
  /\ Sane /\ rpc \in {"idle", "start", "data"} /\ proto = "xmodem" => Len(up) + Load(inside, down) <= starts
  /\ Steady /\ proto = "ymodem" /\ spc = "header" =>
       /\ Load(inside, down) <= 1 /\ Without("block", down)
       /\ \A k \in 1 .. Len(up) : up[k] = "ACK" => k >= Len(up) - 1 /\ Load(inside, down) = 0
  /\ Steady /\ proto = "ymodem" /\ spc \in {"ready", "block"} => Len(up) + Load(inside, down) <= 1

\* What an ACK says while nothing was mistaken.
Told ==
  /\ Clear /\ proto = "xmodem" /\ spc \in {"block", "eot"} =>
       /\ Load(inside, down) <= 1
       /\ \A k \in 1 .. Len(up) : up[k] \notin StartBytes => k = Len(up) /\ Load(inside, down) = 0
  /\ Clear /\ spc = "block" => \A k \in 1 .. Len(up) : up[k] = "ACK" => Len(received) >= blk
  /\ Clear /\ spc \in {"eot", "eot2", "next", "null", "ok"} =>
       Len(received) = Blocks \/ (proto = "ymodem" /\ declared \notin {Blocks, Unknown})

\* The inductive invariant of a transfer by XMODEM or YMODEM.
TInv == TransferTypeOK /\ Beginning /\ Ending /\ Held /\ Ahead /\ Credit /\ Told

-----------------------------------------------------------------------------
\* The head of a line.
LEMMA LineEnds ==
  ASSUME NEW q \in Seq(Tokens)
  PROVE  /\ Len(q) \in Nat /\ (q = <<>> <=> Len(q) = 0)
         /\ q # <<>> => q[1] \in Tokens /\ Head(q) = q[1] /\ Len(q) >= 1
BY EmptySeq, ElementOfSeq

\* What a token is, from its type.
LEMMA TokenShape ==
  ASSUME NEW d \in Tokens
  PROVE  /\ d.t \in {"block", "header", "EOT", "null", "short", "noise", "rest"}
         /\ d.n \in Nat /\ d.good \in BOOLEAN
         /\ d.t = "rest" => d.n <= RestMax /\ d = Rest(d.n)
         /\ d.t = "block" => d.n \in 1 .. Blocks /\ d = Block(d.n, d.good)
<1>1. CASE d \in {Block(i, ok) : i \in 1 .. Blocks, ok \in BOOLEAN}
  <2>1. PICK i \in 1 .. Blocks, ok \in BOOLEAN : d = Block(i, ok)  BY <1>1
  <2>2. d.t = "block" /\ d.n = i /\ d.good = ok  BY <2>1 DEF Block
  <2>3. QED  BY <2>1, <2>2
<1>2. CASE d \in {Header(ok) : ok \in BOOLEAN}
  <2>1. PICK ok \in BOOLEAN : d = Header(ok)  BY <1>2
  <2>2. d.t = "header" /\ d.n = 0 /\ d.good = ok  BY <2>1 DEF Header
  <2>3. QED  BY <2>2
<1>3. CASE d \in {Control(c) : c \in {"EOT", "null", "short", "noise"}}
  <2>1. PICK c \in {"EOT", "null", "short", "noise"} : d = Control(c)  BY <1>3
  <2>2. d.t = c /\ d.n = 0  BY <2>1 DEF Control
  <2>3. d.good \in BOOLEAN  BY <2>1 DEF Control
  <2>4. QED  BY <2>2, <2>3
<1>4. CASE d \in {Rest(k) : k \in 0 .. RestMax}
  <2>1. PICK k \in 0 .. RestMax : d = Rest(k)  BY <1>4
  <2>2. d.t = "rest" /\ d.n = k  BY <2>1 DEF Rest
  <2>3. d.good \in BOOLEAN  BY <2>1 DEF Rest
  <2>4. QED  BY <2>1, <2>2, <2>3
<1>5. QED  BY <1>1, <1>2, <1>3, <1>4 DEF Tokens

\* The tokens by their constructors.
LEMMA WholeTokens ==
  /\ \A i \in 1 .. Blocks, ok \in BOOLEAN : Block(i, ok) \in Tokens /\ Block(i, ok).t = "block"
                                     /\ Block(i, ok).n = i /\ Block(i, ok).good = ok
  /\ \A ok \in BOOLEAN : Header(ok) \in Tokens /\ Header(ok).t = "header"
  /\ \A c \in {"EOT", "null", "short", "noise"} : Control(c) \in Tokens /\ Control(c).t = c
  /\ \A k \in 0 .. RestMax : Rest(k) \in Tokens /\ Rest(k).t = "rest" /\ Rest(k).n = k
<1>1. \A i \in 1 .. Blocks, ok \in BOOLEAN : Block(i, ok) \in Tokens  BY DEF Tokens
<1>2. \A i, ok : Block(i, ok).t = "block" /\ Block(i, ok).n = i /\ Block(i, ok).good = ok  BY DEF Block
<1>3. \A ok \in BOOLEAN : Header(ok) \in Tokens  BY DEF Tokens
<1>4. \A ok : Header(ok).t = "header"  BY DEF Header
<1>5. \A c \in {"EOT", "null", "short", "noise"} : Control(c) \in Tokens  BY DEF Tokens
<1>6. \A c : Control(c).t = c  BY DEF Control
<1>7. \A k \in 0 .. RestMax : Rest(k) \in Tokens  BY DEF Tokens
<1>8. \A k : Rest(k).t = "rest" /\ Rest(k).n = k  BY DEF Rest
<1>9. QED  BY <1>1, <1>2, <1>3, <1>4, <1>5, <1>6, <1>7, <1>8

\* The line when its head is taken, when another takes its place, and when it grows.
LEMMA TailLine ==
  ASSUME NEW q \in Seq(Tokens), q # <<>>
  PROVE  /\ Tail(q) \in Seq(Tokens) /\ Len(Tail(q)) = Len(q) - 1 /\ Len(q) \in Nat /\ Len(q) >= 1
         /\ \A k \in 1 .. Len(Tail(q)) : Tail(q)[k] = q[k + 1] /\ k + 1 \in 2 .. Len(q)
<1>1. Len(q) \in Nat /\ Len(q) >= 1  BY LineEnds
<1>2. QED  BY <1>1, HeadTailProperties

\* A line whose head is replaced.
LEMMA FrontLine ==
  ASSUME NEW q \in Seq(Tokens), q # <<>>, NEW x \in Tokens
  PROVE  /\ <<x>> \o Tail(q) \in Seq(Tokens) /\ Len(<<x>> \o Tail(q)) = Len(q)
         /\ Len(q) \in Nat /\ Len(q) >= 1
         /\ (<<x>> \o Tail(q))[1] = x
         /\ \A k \in 2 .. Len(q) : (<<x>> \o Tail(q))[k] = q[k]
<1> DEFINE r == <<x>> \o Tail(q)
<1>1. /\ Tail(q) \in Seq(Tokens) /\ Len(Tail(q)) = Len(q) - 1 /\ Len(q) \in Nat /\ Len(q) >= 1
      /\ \A k \in 1 .. Len(Tail(q)) : Tail(q)[k] = q[k + 1] /\ k + 1 \in 2 .. Len(q)
  BY TailLine
<1>2. <<x>> \in Seq(Tokens) /\ Len(<<x>>) = 1 /\ <<x>>[1] = x  OBVIOUS
<1>3. /\ r \in Seq(Tokens) /\ Len(r) = 1 + Len(Tail(q))
      /\ \A i \in 1 .. 1 + Len(Tail(q)) : r[i] = IF i <= 1 THEN <<x>>[i] ELSE Tail(q)[i - 1]
  BY <1>1, <1>2, ConcatProperties
<1> HIDE DEF r
<1>4. r[1] = x  BY <1>1, <1>2, <1>3
<1>5. ASSUME NEW k \in 2 .. Len(q) PROVE r[k] = q[k]
  <2>1. k - 1 \in 1 .. Len(Tail(q)) /\ (k - 1) + 1 = k  BY <1>1
  <2>2. r[k] = Tail(q)[k - 1]  BY <1>1, <1>3
  <2>3. QED  BY <1>1, <2>1, <2>2
<1>6. QED  BY <1>1, <1>3, <1>4, <1>5 DEF r

\* A line that grows.
LEMMA GrownLine ==
  ASSUME NEW q \in Seq(Tokens), NEW x \in Tokens
  PROVE  /\ Append(q, x) \in Seq(Tokens) /\ Len(Append(q, x)) = Len(q) + 1 /\ Len(q) \in Nat
         /\ Append(q, x)[Len(q) + 1] = x
         /\ \A k \in 1 .. Len(q) : Append(q, x)[k] = q[k]
OBVIOUS

\* The head of the line causes at most one answer, a whole piece exactly one.
LEMMA HeadLoadType ==
  ASSUME NEW in \in BOOLEAN, NEW d \in Tokens
  PROVE  HeadLoad(in, d) \in {0, 1} /\ (d.t \in WholeTypes => HeadLoad(in, d) = 1)
BY TokenShape DEF HeadLoad, WholeTypes

\* The load when the head is taken.
LEMMA TailLoad ==
  ASSUME NEW q \in Seq(Tokens), q # <<>>, Followers(q), NEW in \in BOOLEAN
  PROVE  /\ Load(in, Tail(q)) = (IF in THEN 1 ELSE 0) + (Len(q) - 1)
         /\ Followers(Tail(q))
<1>1. /\ Tail(q) \in Seq(Tokens) /\ Len(Tail(q)) = Len(q) - 1 /\ Len(q) \in Nat /\ Len(q) >= 1
      /\ \A k \in 1 .. Len(Tail(q)) : Tail(q)[k] = q[k + 1] /\ k + 1 \in 2 .. Len(q)
  BY TailLine
<1>2. \A k \in 1 .. Len(Tail(q)) : Tail(q)[k].t \in WholeTypes  BY <1>1 DEF Followers
<1>3. CASE Tail(q) = <<>>
  <2>1. Len(Tail(q)) = 0  BY <1>1, <1>3, LineEnds
  <2>2. Followers(Tail(q))  BY <2>1 DEF Followers
  <2>3. Len(q) - 1 = 0  BY <1>1, <2>1
  <2>4. Load(in, Tail(q)) = (IF in THEN 1 ELSE 0) + 0  BY <1>3 DEF Load
  <2>5. QED  BY <2>2, <2>3, <2>4
<1>4. CASE Tail(q) # <<>>
  <2>1. Tail(q)[1] \in Tokens /\ Len(Tail(q)) >= 1  BY <1>1, <1>4, LineEnds
  <2>2. 1 \in 1 .. Len(Tail(q))  BY <1>1, <2>1
  <2>3. Tail(q)[1] \in Tokens /\ Tail(q)[1].t \in WholeTypes  BY <1>2, <2>1, <2>2
  <2>4. HeadLoad(in, Tail(q)[1]) = 1  BY <2>3, HeadLoadType
  <2>5. Load(in, Tail(q)) = (IF in THEN 1 ELSE 0) + ((Len(Tail(q)) - 1) + 1)  BY <1>4, <2>4 DEF Load
  <2>6. (Len(Tail(q)) - 1) + 1 = Len(q) - 1  BY <1>1
  <2>7. Load(in, Tail(q)) = (IF in THEN 1 ELSE 0) + (Len(q) - 1)  BY <2>5, <2>6
  <2>8. Followers(Tail(q))  BY <1>1, <1>2 DEF Followers
  <2>9. QED  BY <2>7, <2>8
<1>5. QED  BY <1>3, <1>4

\* The load when the head is replaced.
LEMMA FrontLoad ==
  ASSUME NEW q \in Seq(Tokens), q # <<>>, Followers(q), NEW x \in Tokens, NEW in \in BOOLEAN
  PROVE  /\ Load(in, <<x>> \o Tail(q)) = (IF in THEN 1 ELSE 0) + (Len(q) - 1) + HeadLoad(in, x)
         /\ Followers(<<x>> \o Tail(q))
<1> DEFINE r == <<x>> \o Tail(q)
<1>1. /\ r \in Seq(Tokens) /\ Len(r) = Len(q) /\ Len(q) \in Nat /\ Len(q) >= 1 /\ r[1] = x
      /\ \A k \in 2 .. Len(q) : r[k] = q[k]
  BY FrontLine
<1> HIDE DEF r
<1>2. r # <<>>  BY <1>1, LineEnds
<1>3. HeadLoad(in, x) \in {0, 1}  BY HeadLoadType
<1>4. Load(in, r) = (IF in THEN 1 ELSE 0) + (Len(q) - 1) + HeadLoad(in, x)
  BY <1>1, <1>2, <1>3 DEF Load
<1>5. Followers(r)  BY <1>1 DEF Followers
<1>6. QED  BY <1>4, <1>5 DEF r

\* The load when a whole piece is written.
LEMMA GrownLoad ==
  ASSUME NEW q \in Seq(Tokens), Followers(q), NEW x \in Tokens, x.t \in WholeTypes, NEW in \in BOOLEAN
  PROVE  /\ Load(in, Append(q, x)) = Load(in, q) + 1 /\ Load(in, q) \in Nat
         /\ Followers(Append(q, x))
<1> DEFINE r == Append(q, x)
<1>1. /\ r \in Seq(Tokens) /\ Len(r) = Len(q) + 1 /\ Len(q) \in Nat
      /\ r[Len(q) + 1] = x /\ \A k \in 1 .. Len(q) : r[k] = q[k]
  BY GrownLine
<1> HIDE DEF r
<1>2. r # <<>>  BY <1>1, LineEnds
<1>3. HeadLoad(in, x) = 1  BY HeadLoadType
<1>4. Followers(r)  BY <1>1 DEF Followers
<1>5. CASE q = <<>>  BY <1>1, <1>2, <1>3, <1>4, <1>5, LineEnds DEF Load, r
<1>6. CASE q # <<>>
  <2>1. r[1] = q[1] /\ q[1] \in Tokens /\ Len(q) >= 1  BY <1>1, <1>6, LineEnds
  <2>2. HeadLoad(in, q[1]) \in {0, 1}  BY <2>1, HeadLoadType
  <2>3. QED  BY <1>1, <1>2, <1>4, <1>6, <2>1, <2>2 DEF Load, r
<1>7. QED  BY <1>5, <1>6

\* The load is a number.
LEMMA LoadType ==
  ASSUME NEW q \in Seq(Tokens), NEW in \in BOOLEAN
  PROVE  /\ Load(in, q) \in Nat
         /\ q = <<>> => Load(in, q) = IF in THEN 1 ELSE 0
         /\ q # <<>> => Load(in, q) = (IF in THEN 1 ELSE 0) + (Len(q) - 1) + HeadLoad(in, q[1])
<1>1. CASE q = <<>>  BY <1>1 DEF Load
<1>2. CASE q # <<>>
  <2>1. q[1] \in Tokens /\ Len(q) \in Nat /\ Len(q) >= 1  BY <1>2, LineEnds
  <2>2. HeadLoad(in, q[1]) \in {0, 1}  BY <2>1, HeadLoadType
  <2>3. QED  BY <1>2, <2>1, <2>2 DEF Load
<1>3. QED  BY <1>1, <1>2

-----------------------------------------------------------------------------
\* Division with a remainder.
LEMMA DivMod ==
  ASSUME NEW a \in Nat, NEW w \in Nat \ {0}
  PROVE  a = w * (a \div w) + (a % w) /\ (a \div w) \in Nat /\ a % w \in 0 .. w - 1
OBVIOUS

\* Two multiples are at least the factor apart.
LEMMA Multiples ==
  ASSUME NEW w \in Nat \ {0}, NEW i \in Int, NEW j \in Int, i < j
  PROVE w * i + w <= w * j
<1>1. PICK d \in Nat : j = i + 1 + d  
  <2>1. j - i - 1 \in Nat OBVIOUS
  <2>2. QED BY <2>1
<1>2. w * j = w * i + w + w * d  BY <1>1
<1>3. w * d \in Nat OBVIOUS
<1>4. QED BY <1>2, <1>3

\* Two block numbers that agree on the wire, and are less than a wrap apart, are one.
LEMMA ModUnique ==
  ASSUME NEW a \in Nat, NEW b \in Nat, NEW w \in Nat \ {0}, a % w = b % w, a - b < w, b - a < w
  PROVE a = b
<1> DEFINE i == a \div w
           j == b \div w
<1>1. a = w * i + (a % w) /\ b = w * j + (b % w) /\ i \in Nat /\ j \in Nat /\ a % w \in 0 .. w-1 BY DivMod
<1> HIDE DEF i, j
<1>2. ~(i < j)
  <2>1. SUFFICES ASSUME i < j PROVE FALSE OBVIOUS
  <2>2. w * i + w <= w * j BY <1>1, <2>1, Multiples
  <2>3. w * i \in Int /\ w * j \in Int BY <1>1
  <2>4. QED BY <1>1, <2>2, <2>3
<1>3. ~(j < i)
  <2>1. SUFFICES ASSUME j < i PROVE FALSE OBVIOUS
  <2>2. w * j + w <= w * i BY <1>1, <2>1, Multiples
  <2>3. w * i \in Int /\ w * j \in Int BY <1>1
  <2>4. QED BY <1>1, <2>2, <2>3
<1>4. i = j BY <1>1, <1>2, <1>3
<1>5. QED BY <1>1, <1>4

\* The remainder of a number that is given by one.
LEMMA ModOf ==
  ASSUME NEW a \in Nat, NEW w \in Nat \ {0}, NEW i \in Int, NEW r \in 0 .. w - 1, a = w * i + r
  PROVE a % w = r
<1> DEFINE j == a \div w
<1>1. a = w * j + (a % w) /\ j \in Nat /\ a % w \in 0 .. w-1 BY DivMod
<1> HIDE DEF j
<1>0. w * i \in Int /\ w * j \in Int BY <1>1
<1>2. ~(i < j)
  <2>1. SUFFICES ASSUME i < j PROVE FALSE OBVIOUS
  <2>2. w * i + w <= w * j BY <1>1, <2>1, Multiples
  <2>4. QED BY <1>1, <2>2, <1>0
<1>3. ~(j < i)
  <2>1. SUFFICES ASSUME j < i PROVE FALSE OBVIOUS
  <2>2. w * j + w <= w * i BY <1>1, <2>1, Multiples
  <2>4. QED BY <1>1, <2>2, <1>0
<1>4. i = j BY <1>1, <1>2, <1>3
<1>5. QED BY <1>1, <1>4, <1>0

\* The number expected next.
LEMMA SuccMod ==
  ASSUME NEW a \in Nat, NEW w \in Nat \ {0}
  PROVE ((a % w) + 1) % w = (a + 1) % w
<1> DEFINE i == a \div w
           r == a % w
<1>1. a = w * i + r /\ i \in Nat /\ r \in 0 .. w-1 BY DivMod
<1> HIDE DEF i, r
<1>2. CASE r + 1 < w
  <2>1. a + 1 = w * i + (r + 1) BY <1>1
  <2>2. (a + 1) % w = r + 1 BY <1>1, <1>2, <2>1, ModOf
  <2>3. r + 1 = w * 0 + (r + 1) BY <1>1
  <2>4. (r + 1) % w = r + 1 BY <1>1, <1>2, <2>3, ModOf
  <2>5. QED BY <2>2, <2>4 DEF r
<1>3. CASE r + 1 = w
  <2>1. a + 1 = w * (i + 1) + 0 BY <1>1, <1>3
  <2>2. (a + 1) % w = 0 BY <1>1, <2>1, ModOf
  <2>3. r + 1 = w * 1 + 0 BY <1>1, <1>3
  <2>4. (r + 1) % w = 0 BY <1>1, <2>3, ModOf
  <2>5. QED BY <2>2, <2>4 DEF r
<1>4. QED BY <1>1, <1>2, <1>3

-----------------------------------------------------------------------------
\* The order of the blocks when the head is taken.
LEMMA TailOrder ==
  ASSUME NEW q \in Seq(Tokens), q # <<>>, NEW low \in Nat, NEW high \in Nat, Ordered(q, low, high)
  PROVE  /\ Ordered(Tail(q), low, high)
         /\ q[1].t = "block" => /\ Ordered(Tail(q), q[1].n, high)
                                /\ low <= q[1].n /\ q[1].n <= high /\ high <= q[1].n + (Len(q) - 1)
<1>1. /\ Tail(q) \in Seq(Tokens) /\ Len(Tail(q)) = Len(q) - 1 /\ Len(q) \in Nat /\ Len(q) >= 1
      /\ \A k \in 1 .. Len(Tail(q)) : Tail(q)[k] = q[k + 1] /\ k + 1 \in 2 .. Len(q)
  BY TailLine
<1>2. ASSUME NEW k \in 1 .. Len(Tail(q)), Tail(q)[k].t = "block"
      PROVE  /\ low <= Tail(q)[k].n /\ Tail(q)[k].n <= high
             /\ high <= Tail(q)[k].n + (Len(Tail(q)) - k)
             /\ \A j \in k .. Len(Tail(q)) : Tail(q)[j].t = "block" => Tail(q)[k].n <= Tail(q)[j].n
  <2>1. k + 1 \in 1 .. Len(q) /\ q[k + 1] = Tail(q)[k]  BY <1>1
  <2>2. /\ low <= q[k + 1].n /\ q[k + 1].n <= high /\ high <= q[k + 1].n + (Len(q) - (k + 1))
        /\ \A j \in k + 1 .. Len(q) : q[j].t = "block" => q[k + 1].n <= q[j].n
    BY <1>2, <2>1 DEF Ordered
  <2>3. Len(q) - (k + 1) = Len(Tail(q)) - k  BY <1>1
  <2>4. ASSUME NEW j \in k .. Len(Tail(q)), Tail(q)[j].t = "block" PROVE Tail(q)[k].n <= Tail(q)[j].n
    <3>1. j \in 1 .. Len(Tail(q)) /\ j + 1 \in k + 1 .. Len(q) /\ q[j + 1] = Tail(q)[j]  BY <1>1
    <3>2. QED  BY <2>1, <2>2, <2>4, <3>1
  <2>5. QED  BY <2>1, <2>2, <2>3, <2>4
<1>3. Ordered(Tail(q), low, high)  BY <1>2 DEF Ordered
<1>4. ASSUME q[1].t = "block"
      PROVE  /\ Ordered(Tail(q), q[1].n, high)
             /\ low <= q[1].n /\ q[1].n <= high /\ high <= q[1].n + (Len(q) - 1)
  <2>1. 1 \in 1 .. Len(q)  BY <1>1
  <2>2. /\ low <= q[1].n /\ q[1].n <= high /\ high <= q[1].n + (Len(q) - 1)
        /\ \A j \in 1 .. Len(q) : q[j].t = "block" => q[1].n <= q[j].n
    BY <1>4, <2>1 DEF Ordered
  <2>3. ASSUME NEW k \in 1 .. Len(Tail(q)), Tail(q)[k].t = "block" PROVE q[1].n <= Tail(q)[k].n
    <3>1. k + 1 \in 1 .. Len(q) /\ q[k + 1] = Tail(q)[k]  BY <1>1
    <3>2. QED  BY <2>2, <2>3, <3>1
  <2>4. Ordered(Tail(q), q[1].n, high)  BY <1>2, <2>3 DEF Ordered
  <2>5. QED  BY <2>2, <2>4
<1>5. QED  BY <1>3, <1>4

\* The order of the blocks when the head is damaged.
LEMMA FrontOrder ==
  ASSUME NEW q \in Seq(Tokens), q # <<>>, NEW low \in Nat, NEW high \in Nat, Ordered(q, low, high),
         NEW x \in Tokens, x.t = "block" => q[1].t = "block" /\ x.n = q[1].n
  PROVE  Ordered(<<x>> \o Tail(q), low, high)
<1> DEFINE r == <<x>> \o Tail(q)
<1>1. /\ r \in Seq(Tokens) /\ Len(r) = Len(q) /\ Len(q) \in Nat /\ Len(q) >= 1 /\ r[1] = x
      /\ \A k \in 2 .. Len(q) : r[k] = q[k]
  BY FrontLine
<1> HIDE DEF r
<1>2. \A k \in 1 .. Len(r) : r[k].t = "block" => q[k].t = "block" /\ r[k].n = q[k].n
  <2> SUFFICES ASSUME NEW k \in 1 .. Len(r), r[k].t = "block" PROVE q[k].t = "block" /\ r[k].n = q[k].n
    OBVIOUS
  <2>1. CASE k = 1  BY <1>1, <2>1
  <2>2. CASE k # 1  BY <1>1, <2>2
  <2>3. QED  BY <2>1, <2>2
<1>3. ASSUME NEW k \in 1 .. Len(r), r[k].t = "block"
      PROVE  /\ low <= r[k].n /\ r[k].n <= high /\ high <= r[k].n + (Len(r) - k)
             /\ \A j \in k .. Len(r) : r[j].t = "block" => r[k].n <= r[j].n
  <2>1. /\ low <= q[k].n /\ q[k].n <= high /\ high <= q[k].n + (Len(q) - k)
        /\ \A j \in k .. Len(q) : q[j].t = "block" => q[k].n <= q[j].n
    BY <1>1, <1>2, <1>3 DEF Ordered
  <2>2. ASSUME NEW j \in k .. Len(r), r[j].t = "block" PROVE r[k].n <= r[j].n
    <3>1. j \in 1 .. Len(r) /\ j \in k .. Len(q)  BY <1>1
    <3>2. q[j].t = "block" /\ r[j].n = q[j].n  BY <1>2, <2>2, <3>1
    <3>3. QED  BY <1>2, <1>3, <2>1, <3>1, <3>2
  <2>3. QED  BY <1>1, <1>2, <1>3, <2>1, <2>2
<1>4. Ordered(r, low, high)  BY <1>3 DEF Ordered
<1>5. QED  BY <1>4 DEF r

\* The order of the blocks when one is written.
LEMMA GrownOrder ==
  ASSUME NEW q \in Seq(Tokens), NEW low \in Nat, NEW high \in Nat, Ordered(q, low, high), low <= high,
         NEW x \in Tokens, NEW top \in Nat, top \in {high, high + 1},
         \/ x.t = "block" /\ x.n = top
         \/ x.t # "block" /\ top = high
  PROVE  Ordered(Append(q, x), low, top)
<1> DEFINE r == Append(q, x)
<1>1. /\ r \in Seq(Tokens) /\ Len(r) = Len(q) + 1 /\ Len(q) \in Nat
      /\ r[Len(q) + 1] = x /\ \A k \in 1 .. Len(q) : r[k] = q[k]
  BY GrownLine
<1> HIDE DEF r
<1>2. \A k \in 1 .. Len(q) : q[k].n \in Nat  BY ElementOfSeq, TokenShape
<1>3. ASSUME NEW k \in 1 .. Len(r), r[k].t = "block"
      PROVE  /\ low <= r[k].n /\ r[k].n <= top /\ top <= r[k].n + (Len(r) - k)
             /\ \A j \in k .. Len(r) : r[j].t = "block" => r[k].n <= r[j].n
  <2>1. CASE k = Len(q) + 1
    <3>1. r[k] = x /\ x.n = top /\ Len(r) - k = 0  BY <1>1, <1>3, <2>1
    <3>2. \A j \in k .. Len(r) : j = k  BY <1>1, <2>1
    <3>3. QED  BY <3>1, <3>2
  <2>2. CASE k # Len(q) + 1
    <3>1. k \in 1 .. Len(q) /\ r[k] = q[k]  BY <1>1, <2>2
    <3>2. /\ low <= q[k].n /\ q[k].n <= high /\ high <= q[k].n + (Len(q) - k)
          /\ \A j \in k .. Len(q) : q[j].t = "block" => q[k].n <= q[j].n
      BY <1>3, <3>1 DEF Ordered
    <3>3. ASSUME NEW j \in k .. Len(r), r[j].t = "block" PROVE r[k].n <= r[j].n
      <4>1. CASE j = Len(q) + 1
        <5>1. r[j] = x /\ x.n = top  BY <1>1, <3>3, <4>1
        <5>2. QED  BY <1>2, <3>1, <3>2, <5>1
      <4>2. CASE j # Len(q) + 1
        <5>1. j \in k .. Len(q) /\ j \in 1 .. Len(q)  BY <1>1, <3>1, <4>2
        <5>2. QED  BY <1>1, <3>1, <3>2, <3>3, <5>1
      <4>3. QED  BY <4>1, <4>2
    <3>4. r[k].n <= top /\ top <= r[k].n + (Len(r) - k)  BY <1>1, <1>2, <3>1, <3>2
    <3>5. QED  BY <3>1, <3>2, <3>3, <3>4
  <2>3. QED  BY <2>1, <2>2
<1>4. QED  BY <1>3 DEF Ordered, r

-----------------------------------------------------------------------------
\* What the types say of the lengths.
LEMMA Lengths ==
  ASSUME TransferTypeOK
  PROVE  /\ down \in Seq(Tokens) /\ Len(down) \in Nat /\ (down = <<>> <=> Len(down) = 0)
         /\ up \in Seq(AnswerBytes) /\ Len(up) \in Nat /\ (up = <<>> <=> Len(up) = 0)
         /\ received \in Seq(0 .. Blocks) /\ Len(received) \in Nat
         /\ (received = <<>> <=> Len(received) = 0)
         /\ blk \in Nat /\ starts \in Nat /\ inside \in BOOLEAN /\ Load(inside, down) \in Nat
         /\ Room \in Nat \ {0} /\ Room <= MaxRetries /\ (proto = "xmodem" => Room = MaxRetries)
         /\ proto \in {"xmodem", "ymodem"}
<1>1. /\ down \in Seq(Tokens) /\ up \in Seq(AnswerBytes) /\ received \in Seq(0 .. Blocks)
      /\ blk \in Nat /\ starts \in Nat /\ inside \in BOOLEAN /\ proto \in {"xmodem", "ymodem"}
  BY DEF TransferTypeOK
<1>2. Load(inside, down) \in Nat  BY <1>1, LoadType
<1>3. Room \in Nat \ {0} /\ Room <= MaxRetries /\ (proto = "xmodem" => Room = MaxRetries)  BY DEF Room
<1>4. QED  BY <1>1, <1>2, <1>3, EmptySeq

\* A byte is taken from the answers.
LEMMA AnswerTaken ==
  ASSUME TransferTypeOK, up # <<>>, up' = Tail(up)
  PROVE  /\ Len(up') = Len(up) - 1 /\ Len(up) >= 1 /\ Len(up') \in Nat /\ Head(up) = up[1] /\ up[1] \in AnswerBytes
         /\ up' \in Seq(AnswerBytes)
         /\ \A k \in 1 .. Len(up') : up'[k] = up[k + 1] /\ k + 1 \in 1 .. Len(up)
         /\ StartsOnly(up) => StartsOnly(up') /\ up[1] \in StartBytes
<1>1. up \in Seq(AnswerBytes)  BY DEF TransferTypeOK
<1>2. Len(up) \in Nat /\ Len(up) >= 1  BY <1>1, EmptySeq
<1>3. /\ Tail(up) \in Seq(AnswerBytes) /\ Len(Tail(up)) = Len(up) - 1
      /\ \A k \in 1 .. Len(Tail(up)) : Tail(up)[k] = up[k + 1]
  BY <1>1, HeadTailProperties
<1>4. \A k \in 1 .. Len(up') : up'[k] = up[k + 1] /\ k + 1 \in 1 .. Len(up)  BY <1>2, <1>3
<1>5. StartsOnly(up) => StartsOnly(up') /\ up[1] \in StartBytes  BY <1>2, <1>4 DEF StartsOnly
<1>6. Head(up) = up[1] /\ up[1] \in AnswerBytes  BY <1>1, <1>2, ElementOfSeq
<1>7. QED  BY <1>2, <1>3, <1>4, <1>5, <1>6

\* The sender writes a block, a header or an end.
LEMMA TokenWritten ==
  ASSUME TransferTypeOK, Held, NEW x \in Tokens, x.t \in WholeTypes, down' = Append(down, x), inside' = inside
  PROVE  /\ down' \in Seq(Tokens) /\ Len(down') = Len(down) + 1 /\ Followers(down')
         /\ Load(inside', down') = Load(inside, down) + 1
         /\ \A type \in WholeTypes : Without(type, down) /\ x.t # type => Without(type, down')
         /\ down'[Len(down) + 1] = x /\ \A k \in 1 .. Len(down) : down'[k] = down[k]
<1>1. down \in Seq(Tokens) /\ Followers(down) /\ inside \in BOOLEAN  BY DEF TransferTypeOK, Held
<1>2. /\ Append(down, x) \in Seq(Tokens) /\ Len(Append(down, x)) = Len(down) + 1 /\ Len(down) \in Nat
      /\ Append(down, x)[Len(down) + 1] = x
      /\ \A k \in 1 .. Len(down) : Append(down, x)[k] = down[k]
  BY <1>1, GrownLine
<1>3. Load(inside, Append(down, x)) = Load(inside, down) + 1 /\ Followers(Append(down, x))
  BY <1>1, GrownLoad
<1>4. ASSUME NEW type \in WholeTypes, Without(type, down), x.t # type PROVE Without(type, Append(down, x))
  <2> DEFINE r == Append(down, x)
  <2> HIDE DEF r
  <2>1. Len(r) = Len(down) + 1 /\ r[Len(down) + 1] = x /\ \A k \in 1 .. Len(down) : r[k] = down[k]
    BY <1>2 DEF r
  <2>2. \A k \in 1 .. Len(r) : r[k].t # type  BY <1>2, <1>4, <2>1 DEF Without
  <2>3. QED  BY <2>2 DEF Without, r
<1>5. QED  BY <1>1, <1>2, <1>3, <1>4

\* A step of the sender.
ReceiverRests == UNCHANGED <<proto, rpc, inside, starts, expected, received, declared, misread>>

\* An answer after which nothing is written.
LEMMA QuietAnswer ==
  ASSUME TInv, TransferTypeOK', up # <<>>, up' = Tail(up), ReceiverRests,
         UNCHANGED <<blk, down>>, ~stale' => ~stale,
         \/ spc = "start" /\ spc' = "start"
         \/ spc' = "err" /\ spc # "null"
         \/ spc = "header" /\ spc' = "ready" /\ up[1] = "ACK"
         \/ spc = "eot" /\ spc' = "ok"
         \/ spc = "eot" /\ spc' = "next" /\ proto = "ymodem"
         \/ spc = "eot2" /\ spc' = "next"
         \/ spc \in {"next", "null"} /\ spc' = "ok",
         spc \notin {"ok", "err"}
  PROVE  TInv'
<1>1. /\ TransferTypeOK /\ Beginning /\ Ending /\ Held /\ Ahead /\ Credit /\ Told
      /\ UNCHANGED <<proto, rpc, inside, starts, expected, received, declared, misread, blk, down>>
  BY DEF TInv, ReceiverRests
<1>2. /\ Len(up') = Len(up) - 1 /\ Len(up) >= 1 /\ Len(up') \in Nat
      /\ \A k \in 1 .. Len(up') : up'[k] = up[k + 1] /\ k + 1 \in 1 .. Len(up)
      /\ StartsOnly(up) => StartsOnly(up') /\ up[1] \in StartBytes
  BY <1>1, AnswerTaken
<1>3. Beginning'
  BY <1>1, <1>2 DEF Beginning, StartBytes
<1>4. Ending'
  <2>1. spc' \notin Late => Without("EOT", down)'  BY <1>1 DEF Ending, Late
  <2>2. ~misread' /\ rpc' \in {"eot", "last"} => spc' \in Late  BY <1>1 DEF Ending, Late
  <2>3. Without("null", down)' \/ (proto' = "ymodem" /\ spc' \in {"null", "ok"})  BY <1>1 DEF Ending
  <2>4. Sane' /\ proto' = "ymodem" /\ rpc' = "data" /\ spc' \in Late => spc' = "err"
    BY <1>1 DEF Ending, Late, Sane, AnsweredTwice
  <2>5. rpc' = "eot" => ~inside' /\ (spc' \in Late \/ down' # <<>>)  BY <1>1 DEF Ending, Late
  <2>6. QED  BY <2>1, <2>2, <2>3, <2>4, <2>5 DEF Ending
<1>5. Held'
  BY <1>1 DEF Held, Sane, AnsweredTwice
<1>6. Ahead'
  BY <1>1 DEF Ahead, Sane, AnsweredTwice, Room
<1>7. Credit'
  BY <1>1, <1>2, Lengths DEF Credit, Steady, Sane, AnsweredTwice
<1>8. Told'
  BY <1>1, <1>2 DEF Told, Clear
<1>9. QED  BY <1>3, <1>4, <1>5, <1>6, <1>7, <1>8 DEF TInv

\* The first block, or the header of YMODEM, goes out at a start character.
LEMMA FirstWritten ==
  ASSUME TInv, TransferTypeOK', up # <<>>, up' = Tail(up), ReceiverRests, ~stale' => ~stale,
         spc = "start", NEW x \in Tokens, down' = Append(down, x), blk' = 1,
         \/ proto = "xmodem" /\ spc' = "block" /\ x.t = "block" /\ x.n = 1
         \/ proto = "ymodem" /\ spc' = "header" /\ x.t = "header"
  PROVE  TInv'
<1>0. x.t \in WholeTypes  BY DEF WholeTypes
<1>1. /\ TransferTypeOK /\ Beginning /\ Ending /\ Held /\ Ahead /\ Credit /\ Told
      /\ UNCHANGED <<proto, rpc, inside, starts, expected, received, declared, misread>>
  BY DEF TInv, ReceiverRests
<1>2. /\ Len(up') = Len(up) - 1 /\ Len(up) >= 1 /\ Len(up') \in Nat
      /\ \A k \in 1 .. Len(up') : up'[k] = up[k + 1] /\ k + 1 \in 1 .. Len(up)
      /\ StartsOnly(up) => StartsOnly(up') /\ up[1] \in StartBytes
  BY <1>1, AnswerTaken
<1>3. /\ down' \in Seq(Tokens) /\ Len(down') = Len(down) + 1 /\ Followers(down')
      /\ Load(inside', down') = Load(inside, down) + 1
      /\ \A type \in WholeTypes : Without(type, down) /\ x.t # type => Without(type, down')
      /\ down'[Len(down) + 1] = x /\ \A k \in 1 .. Len(down) : down'[k] = down[k]
  BY <1>0, <1>1, TokenWritten
<1>4. /\ Len(down) \in Nat /\ (down = <<>> <=> Len(down) = 0) /\ Len(received) \in Nat
      /\ (received = <<>> <=> Len(received) = 0) /\ blk \in Nat /\ starts \in Nat /\ inside \in BOOLEAN
      /\ Load(inside, down) \in Nat /\ Room \in Nat \ {0} /\ proto \in {"xmodem", "ymodem"}
      /\ down \in Seq(Tokens)
  BY <1>1, Lengths
<1>5. Room' = Room /\ (Sane' <=> Sane) /\ (Steady' <=> Steady)
  BY <1>1 DEF Room, Sane, AnsweredTwice, Steady
<1>6. /\ down = <<>> /\ ~inside /\ rpc \in {"start", "err"} /\ StartsOnly(up') /\ blk = 1
  BY <1>1, <1>2 DEF Beginning
<1>7. Load(inside, down) = 0  BY <1>1, <1>4, <1>6, LoadType
<1>8. \A k \in 1 .. Len(up') : up'[k] # "ACK"  BY <1>6 DEF StartsOnly, StartBytes
<1>9. Beginning'
  <2>1. Without("header", down')
            \/ (proto = "ymodem" /\ Len(down') = 1 /\ spc' = "header" /\ StartsOnly(up'))
    BY <1>1, <1>3, <1>4, <1>6 DEF Beginning, WholeTypes
  <2>2. QED  BY <1>1, <1>6, <2>1 DEF Beginning
<1>10. Ending'
  <2>1. Without("EOT", down') /\ Without("null", down')
    BY <1>1, <1>3 DEF Ending, WholeTypes, Late
  <2>2. QED  BY <1>1, <1>6, <2>1 DEF Ending, Late
<1>11. Held'
  BY <1>1, <1>3, <1>5 DEF Held
<1>12. Ahead'
  <2>1. Sane /\ rpc \in {"idle", "start", "data"} => Ordered(down', Len(received), 1)
    <3>1. ASSUME Sane, rpc \in {"idle", "start", "data"} PROVE Ordered(down', Len(received), 1)
      <4>1. Ordered(down, Len(received), 1) /\ Len(received) <= 1 /\ Len(received) \in Nat /\ 1 \in Nat
        BY <1>1, <1>4, <1>6, <3>1 DEF Ahead
      <4>2. (x.t = "block" /\ x.n = 1) \/ x.t # "block"  OBVIOUS
      <4>3. Ordered(Append(down, x), Len(received), 1)
        BY <1>4, <4>1, <4>2, GrownOrder
      <4>4. QED  BY <4>3
    <3>2. QED  BY <3>1
  <2>2. QED  BY <1>1, <1>5, <1>6, <1>8, <2>1 DEF Ahead
<1>13. Credit'
  <2>1. Load(inside', down') = 1  BY <1>3, <1>7
  <2>2. proto = "ymodem" => Without("block", down')
    <3>1. Len(down) = 0 /\ Len(down') = 1  BY <1>3, <1>4, <1>6
    <3>2. down'[1] = x  BY <1>3, <3>1
    <3>3. QED  BY <3>1, <3>2 DEF Without
  <2>3. Sane /\ rpc \in {"idle", "start", "data"} /\ proto = "xmodem" => Len(up') + 1 <= starts
    BY <1>1, <1>2, <1>4, <1>7 DEF Credit
  <2>4. QED  BY <1>1, <1>5, <1>8, <2>1, <2>2, <2>3 DEF Credit
<1>14. Told'
  <2>1. Load(inside', down') = 1  BY <1>3, <1>7
  <2>2. QED  BY <1>1, <1>6, <1>8, <2>1 DEF Told, StartsOnly
<1>15. QED  BY <1>9, <1>10, <1>11, <1>12, <1>13, <1>14 DEF TInv

\* A block goes out: the first that was asked for, the same once more, or the next.
LEMMA BlockWritten ==
  ASSUME TInv, TransferTypeOK', up # <<>>, up' = Tail(up), ReceiverRests, ~stale' => ~stale,
         spc' = "block", NEW x \in Tokens, down' = Append(down, x), x.t = "block", x.n = blk',
         \/ spc = "ready" /\ blk' = 1
         \/ spc = "block" /\ blk' = blk
         \/ spc = "block" /\ blk' = blk + 1 /\ up[1] = "ACK",
         ~stale' => spc = "ready" \/ up[1] \notin StartBytes
  PROVE  TInv'
<1>0. x.t \in WholeTypes  BY DEF WholeTypes
<1>1. /\ TransferTypeOK /\ Beginning /\ Ending /\ Held /\ Ahead /\ Credit /\ Told
      /\ UNCHANGED <<proto, rpc, inside, starts, expected, received, declared, misread>>
  BY DEF TInv, ReceiverRests
<1>2. /\ Len(up') = Len(up) - 1 /\ Len(up) >= 1 /\ Len(up') \in Nat
      /\ \A k \in 1 .. Len(up') : up'[k] = up[k + 1] /\ k + 1 \in 1 .. Len(up)
      /\ StartsOnly(up) => StartsOnly(up') /\ up[1] \in StartBytes
      /\ up' \in Seq(AnswerBytes)
  BY <1>1, AnswerTaken
<1>3. /\ down' \in Seq(Tokens) /\ Len(down') = Len(down) + 1 /\ Followers(down')
      /\ Load(inside', down') = Load(inside, down) + 1
      /\ \A type \in WholeTypes : Without(type, down) /\ x.t # type => Without(type, down')
      /\ down'[Len(down) + 1] = x /\ \A k \in 1 .. Len(down) : down'[k] = down[k]
  BY <1>0, <1>1, TokenWritten
<1>4. /\ Len(down) \in Nat /\ (down = <<>> <=> Len(down) = 0) /\ Len(received) \in Nat
      /\ (received = <<>> <=> Len(received) = 0) /\ blk \in Nat /\ starts \in Nat /\ inside \in BOOLEAN
      /\ Load(inside, down) \in Nat /\ Room \in Nat \ {0} /\ proto \in {"xmodem", "ymodem"}
      /\ down \in Seq(Tokens)
  BY <1>1, Lengths
<1>5. Room' = Room /\ (Sane' <=> Sane) /\ (Steady' <=> Steady)
  BY <1>1 DEF Room, Sane, AnsweredTwice, Steady
<1>6. spc = "ready" => blk = 1 /\ proto = "ymodem"  BY <1>1, <1>4 DEF Beginning
<1>7. Steady /\ proto = "ymodem" => up' = <<>> /\ Len(up') = 0 /\ Load(inside', down') = 1
  <2>1. Steady /\ proto = "ymodem" => Len(up) + Load(inside, down) <= 1  BY <1>1 DEF Credit
  <2>2. Len(up') = 0 => up' = <<>>  BY <1>2, EmptySeq
  <2>3. QED  BY <1>2, <1>3, <1>4, <2>1, <2>2
<1>8. Beginning'
  <2>1. Without("header", down)  BY <1>1 DEF Beginning
  <2>2. Without("header", down')
    <3>1. "header" \in WholeTypes /\ x.t # "header"  BY DEF WholeTypes
    <3>2. QED  BY <1>3, <2>1, <3>1
  <2>3. spc \in {"ready", "block"} /\ rpc # "idle" /\ ~(proto = "ymodem" /\ rpc = "start")
    BY <1>1 DEF Beginning
  <2>4. rpc = "start" => received = <<>> /\ StartsOnly(up')  BY <1>1, <1>2 DEF Beginning
  <2>5. proto = "xmodem" => rpc \in {"idle", "start", "data", "ok", "err"}  BY <1>1 DEF Beginning
  <2>6. QED  BY <1>1, <2>2, <2>3, <2>4, <2>5 DEF Beginning
<1>9. Ending'
  <2>1. Without("EOT", down') /\ Without("null", down')
    BY <1>1, <1>3 DEF Ending, WholeTypes, Late
  <2>2. QED  BY <1>1, <2>1 DEF Ending, Late
<1>10. Held'
  BY <1>1, <1>3, <1>5 DEF Held
<1>11. Ahead'
  <2> SUFFICES ASSUME Sane, rpc \in {"idle", "start", "data"}
               PROVE  /\ expected = (Len(received) + 1) % Wrap
                      /\ Len(received) <= blk' /\ blk' <= Len(received) + Room
                      /\ Ordered(down', Len(received), blk')
                      /\ \A k \in 1 .. Len(up') : up'[k] = "ACK" => blk' + k <= Len(received) + Room
    BY <1>1, <1>5 DEF Ahead
  <2>1. /\ expected = (Len(received) + 1) % Wrap
        /\ Len(received) <= blk /\ blk <= Len(received) + Room /\ Ordered(down, Len(received), blk)
        /\ spc = "block" => \A k \in 1 .. Len(up) : up[k] = "ACK" => blk + k <= Len(received) + Room
    BY <1>1 DEF Ahead
  <2>2. blk' \in {blk, blk + 1} /\ blk' \in Nat  BY <1>4, <1>6
  <2>3. blk' <= Len(received) + Room /\ Len(received) <= blk'
    <3>1. CASE blk' = blk  BY <2>1, <3>1
    <3>2. CASE blk' # blk
      <4>1. spc = "block" /\ blk' = blk + 1 /\ up[1] = "ACK" /\ 1 \in 1 .. Len(up)  BY <1>2, <1>6, <3>2
      <4>2. blk + 1 <= Len(received) + Room  BY <2>1, <4>1
      <4>3. QED  BY <1>4, <2>1, <4>1, <4>2
    <3>3. QED  BY <3>1, <3>2
  <2>4. Ordered(down', Len(received), blk')
    <3>1. Ordered(Append(down, x), Len(received), blk')
      BY <1>4, <2>1, <2>2, GrownOrder
    <3>2. QED  BY <3>1
  <2>5. ASSUME NEW k \in 1 .. Len(up'), up'[k] = "ACK" PROVE blk' + k <= Len(received) + Room
    <3>1. CASE spc = "block"
      <4>1. k + 1 \in 1 .. Len(up) /\ up[k + 1] = "ACK"  BY <1>2, <2>5
      <4>2. blk + (k + 1) <= Len(received) + Room  BY <2>1, <3>1, <4>1
      <4>3. k \in Nat /\ Len(received) + Room \in Nat  BY <1>4
      <4>4. QED  BY <1>4, <2>2, <4>2, <4>3
    <3>2. CASE spc = "ready"
      <4>1. Steady  BY <1>1, <1>6, <3>2 DEF Steady, Beginning
      <4>2. QED  BY <1>6, <1>7, <3>2, <4>1
    <3>3. QED  BY <3>1, <3>2
  <2>6. QED  BY <2>1, <2>3, <2>4, <2>5
<1>12. Credit'
  <2>1. Sane /\ rpc \in {"idle", "start", "data"} /\ proto = "xmodem" => Len(up') + Load(inside', down') <= starts
    BY <1>1, <1>2, <1>3, <1>4 DEF Credit
  <2>2. Steady /\ proto = "ymodem" => Len(up') + Load(inside', down') <= 1  BY <1>7
  <2>3. QED  BY <1>1, <1>5, <2>1, <2>2 DEF Credit
<1>13. Told'
  <2> SUFFICES ASSUME Clear'
               PROVE  /\ Load(inside', down') <= 1 /\ Len(up') = 0
    BY DEF Told
  <2>1. Clear /\ Steady  BY <1>1 DEF Clear, Steady, Sane, AnsweredTwice
  <2>2. CASE proto = "ymodem"  BY <1>7, <2>1, <2>2
  <2>3. CASE proto = "xmodem"
    <3>1. spc = "block" /\ up[1] \notin StartBytes /\ 1 \in 1 .. Len(up)
      BY <1>2, <1>6, <2>3 DEF Clear
    <3>2. 1 = Len(up) /\ Load(inside, down) = 0  BY <1>1, <2>1, <2>3, <3>1 DEF Told
    <3>3. Load(inside', down') = 1  BY <1>3, <3>2
    <3>4. Len(up') = 0  BY <1>2, <3>2
    <3>5. QED  BY <3>3, <3>4
  <2>4. QED  BY <1>4, <2>2, <2>3
<1>14. QED  BY <1>8, <1>9, <1>10, <1>11, <1>12, <1>13 DEF TInv

\* A line that is owed no answer holds nothing that will be answered.
LEMMA NothingOwed ==
  ASSUME NEW q \in Seq(Tokens), NEW in \in BOOLEAN, Load(in, q) = 0
  PROVE  ~in /\ Len(q) <= 1 /\ \A k \in 1 .. Len(q) : Quiet(q[k])
<1>1. CASE q = <<>>
  <2>1. Len(q) = 0  BY <1>1
  <2>2. Load(in, q) = IF in THEN 1 ELSE 0  BY <1>1, LoadType
  <2>3. ~in  BY <2>2
  <2>4. QED  BY <2>1, <2>3
<1>2. CASE q # <<>>
  <2>1. q[1] \in Tokens /\ Len(q) \in Nat /\ Len(q) >= 1  BY <1>2, LineEnds
  <2>2. HeadLoad(in, q[1]) \in {0, 1}  BY <2>1, HeadLoadType
  <2>3. (IF in THEN 1 ELSE 0) + (Len(q) - 1) + HeadLoad(in, q[1]) = 0  BY <1>2, LoadType
  <2>8. in => 1 + (Len(q) - 1) + HeadLoad(in, q[1]) = 0  BY <2>3
  <2>9. ~in  BY <2>1, <2>2, <2>8
  <2>10. (Len(q) - 1) + HeadLoad(in, q[1]) = 0  BY <2>1, <2>2, <2>3, <2>9
  <2>11. HeadLoad(in, q[1]) \in Nat  BY <2>2
  <2>12. \A n \in Nat, h \in Nat : n >= 1 /\ (n - 1) + h = 0 => n = 1 /\ h = 0  OBVIOUS
  <2>4. Len(q) = 1 /\ HeadLoad(in, q[1]) = 0  BY <2>1, <2>10, <2>11, <2>12
  <2>5. Quiet(q[1])  BY <2>1, <2>4, <2>9 DEF HeadLoad, Quiet
  <2>6. \A k \in 1 .. Len(q) : k = 1  BY <2>4
  <2>7. QED  BY <2>4, <2>5, <2>6, <2>9
<1>3. QED  BY <1>1, <1>2

\* An end goes out: after the last block, once more, or after the last file.
LEMMA EndWritten ==
  ASSUME TInv, TransferTypeOK', up # <<>>, up' = Tail(up), ReceiverRests, ~stale' => ~stale,
         NEW x \in Tokens, down' = Append(down, x), blk' = blk,
         \/ spc = "block" /\ spc' = "eot" /\ x.t = "EOT" /\ up[1] = "ACK" /\ blk = Blocks
         \/ spc = "eot" /\ spc' = "eot" /\ x.t = "EOT" /\ proto = "xmodem"
         \/ spc = "eot" /\ spc' = "eot2" /\ x.t = "EOT" /\ proto = "ymodem"
         \/ spc = "next" /\ spc' = "null" /\ x.t = "null",
         ~stale' => spc = "next" \/ up[1] \notin StartBytes
  PROVE  TInv'
<1>0. x.t \in WholeTypes /\ x.t # "header" /\ x.t # "block"  BY DEF WholeTypes
<1>1. /\ TransferTypeOK /\ Beginning /\ Ending /\ Held /\ Ahead /\ Credit /\ Told
      /\ UNCHANGED <<proto, rpc, inside, starts, expected, received, declared, misread>>
  BY DEF TInv, ReceiverRests
<1>2. /\ Len(up') = Len(up) - 1 /\ Len(up) >= 1 /\ Len(up') \in Nat
      /\ \A k \in 1 .. Len(up') : up'[k] = up[k + 1] /\ k + 1 \in 1 .. Len(up)
      /\ StartsOnly(up) => StartsOnly(up') /\ up[1] \in StartBytes
      /\ up' \in Seq(AnswerBytes)
  BY <1>1, AnswerTaken
<1>3. /\ down' \in Seq(Tokens) /\ Len(down') = Len(down) + 1 /\ Followers(down')
      /\ Load(inside', down') = Load(inside, down) + 1
      /\ \A type \in WholeTypes : Without(type, down) /\ x.t # type => Without(type, down')
      /\ down'[Len(down) + 1] = x /\ \A k \in 1 .. Len(down) : down'[k] = down[k]
  BY <1>0, <1>1, TokenWritten
<1>4. /\ Len(down) \in Nat /\ (down = <<>> <=> Len(down) = 0) /\ Len(received) \in Nat
      /\ (received = <<>> <=> Len(received) = 0) /\ blk \in Nat /\ starts \in Nat /\ inside \in BOOLEAN
      /\ Load(inside, down) \in Nat /\ Room \in Nat \ {0} /\ proto \in {"xmodem", "ymodem"}
      /\ down \in Seq(Tokens)
  BY <1>1, Lengths
<1>5. Room' = Room /\ (Sane' <=> Sane) /\ (Steady' <=> Steady)
  BY <1>1 DEF Room, Sane, AnsweredTwice, Steady
<1>6. /\ spc \in {"block", "eot", "next"} /\ rpc # "idle" /\ ~(proto = "ymodem" /\ rpc = "start")
      /\ spc = "next" => proto = "ymodem"
  BY <1>1, <1>4 DEF Beginning
<1>8. Beginning'
  <2>1. Without("header", down)  BY <1>1, <1>6 DEF Beginning
  <2>2. Without("header", down')
    <3>1. "header" \in WholeTypes  BY DEF WholeTypes
    <3>2. QED  BY <1>0, <1>3, <2>1, <3>1
  <2>4. rpc = "start" => received = <<>> /\ StartsOnly(up')  BY <1>1, <1>2 DEF Beginning
  <2>5. proto = "xmodem" => rpc \in {"idle", "start", "data", "ok", "err"} /\ spc' = "eot"
    BY <1>1, <1>6 DEF Beginning
  <2>6. spc' \in {"eot", "eot2", "null"}  OBVIOUS
  <2>7. QED  BY <1>1, <1>6, <2>2, <2>4, <2>5, <2>6 DEF Beginning
<1>9. Ending'
  <2>1. spc' \in Late  BY DEF Late
  <2>2. Without("null", down') \/ (proto = "ymodem" /\ spc' \in {"null", "ok"})
    <3>1. CASE x.t = "null"  BY <1>6, <3>1
    <3>2. CASE x.t # "null"
      <4>1. Without("null", down)  BY <1>1, <1>6 DEF Ending
      <4>2. "null" \in WholeTypes  BY DEF WholeTypes
      <4>3. QED  BY <1>3, <3>2, <4>1, <4>2
    <3>3. QED  BY <3>1, <3>2
  <2>3. ASSUME Sane, proto = "ymodem", rpc = "data"
        PROVE  /\ spc' = "eot" /\ up' = <<>> /\ ~inside /\ Load(inside', down') <= 1
               /\ \A k \in 1 .. Len(down') : Quiet(down'[k])
    <3>1. spc = "block"
      <4>1. spc \notin Late \/ (spc \in {"eot", "err"} /\ (spc = "eot" => up = <<>>))
        BY <1>1, <2>3 DEF Ending
      <4>2. "eot" \in Late /\ "next" \in Late  BY DEF Late
      <4>3. QED  BY <1>6, <4>1, <4>2
    <3>2. Len(up) + Load(inside, down) <= 1  BY <1>1, <2>3, <3>1 DEF Credit, Steady
    <3>3. Load(inside, down) = 0 /\ Len(up') = 0  BY <1>2, <1>4, <3>2
    <3>4. up' = <<>>  BY <1>2, <3>3, EmptySeq
    <3>5. ~inside /\ \A k \in 1 .. Len(down) : Quiet(down[k])  BY <1>4, <3>3, NothingOwed
    <3>6. Quiet(x)  BY <3>1 DEF Quiet
    <3>7. \A k \in 1 .. Len(down') : k \in 1 .. Len(down) \/ k = Len(down) + 1  BY <1>3, <1>4
    <3>8. \A k \in 1 .. Len(down') : Quiet(down'[k])  BY <1>3, <3>5, <3>6, <3>7
    <3>9. Load(inside', down') <= 1  BY <1>3, <3>3
    <3>10. QED  BY <3>1, <3>4, <3>5, <3>8, <3>9
  <2>4. QED  BY <1>1, <1>5, <2>1, <2>2, <2>3 DEF Ending
<1>10. Held'
  BY <1>1, <1>3, <1>5 DEF Held
<1>11. Ahead'
  <2> SUFFICES ASSUME Sane, rpc \in {"idle", "start", "data"}
               PROVE  /\ expected = (Len(received) + 1) % Wrap
                      /\ Len(received) <= blk /\ blk <= Len(received) + Room
                      /\ Ordered(down', Len(received), blk)
    BY <1>1, <1>5, <1>6 DEF Ahead
  <2>1. /\ expected = (Len(received) + 1) % Wrap
        /\ Len(received) <= blk /\ blk <= Len(received) + Room /\ Ordered(down, Len(received), blk)
    BY <1>1 DEF Ahead
  <2>2. Ordered(Append(down, x), Len(received), blk)  BY <1>0, <1>4, <2>1, GrownOrder
  <2>3. QED  BY <2>1, <2>2
<1>12. Credit'
  <2>1. Sane /\ rpc \in {"idle", "start", "data"} /\ proto = "xmodem" => Len(up') + Load(inside', down') <= starts
    BY <1>1, <1>2, <1>3, <1>4 DEF Credit
  <2>2. spc' \in {"eot", "eot2", "null"}  OBVIOUS
  <2>3. QED  BY <1>1, <1>5, <2>1, <2>2 DEF Credit
<1>13. Told'
  <2>1. ASSUME Clear'
        PROVE  Len(received) = Blocks \/ (proto = "ymodem" /\ declared \notin {Blocks, Unknown})
    <3>1. Clear /\ Sane  BY <1>1, <2>1 DEF Clear, Sane, AnsweredTwice
    <3>2. CASE spc = "block"
      <4>1. up[1] = "ACK" /\ 1 \in 1 .. Len(up) /\ blk = Blocks  BY <1>2, <3>2
      <4>2. Len(received) >= Blocks  BY <1>1, <3>1, <3>2, <4>1 DEF Told
      <4>3. Len(received) <= Blocks  BY <1>1, <3>1 DEF Held
      <4>4. QED  BY <1>4, <4>2, <4>3
    <3>3. CASE spc # "block"  BY <1>1, <1>6, <3>1, <3>3 DEF Told
    <3>4. QED  BY <3>2, <3>3
  <2>2. ASSUME Clear', proto = "xmodem"
        PROVE  Load(inside', down') <= 1 /\ Len(up') = 0
    <3>1. Clear  BY <1>1, <2>2 DEF Clear
    <3>2. spc \in {"block", "eot"} /\ up[1] \notin StartBytes /\ 1 \in 1 .. Len(up)
      BY <1>2, <1>6, <2>2 DEF Clear
    <3>3. 1 = Len(up) /\ Load(inside, down) = 0  BY <1>1, <2>2, <3>1, <3>2 DEF Told
    <3>4. Load(inside', down') = 1  BY <1>3, <3>3
    <3>5. Len(up') = 0  BY <1>2, <3>3
    <3>6. QED  BY <3>4, <3>5
  <2>3. spc' \in {"eot", "eot2", "null"}  OBVIOUS
  <2>4. QED  BY <1>1, <2>1, <2>2, <2>3 DEF Told
<1>14. QED  BY <1>8, <1>9, <1>10, <1>11, <1>12, <1>13 DEF TInv

\* What an answer leaves has its type.
LEMMA AnswerTypes ==
  ASSUME TransferTypeOK, Answer
  PROVE  TransferTypeOK'
<1>1. /\ up' \in Seq(AnswerBytes) /\ Head(up) = up[1] /\ up[1] \in AnswerBytes
      /\ up # <<>> /\ down \in Seq(Tokens)
  <2>1. up # <<>> /\ up' = Tail(up)  BY DEF Answer
  <2>2. QED  BY <2>1, AnswerTaken DEF TransferTypeOK
<1>2. stale' \in BOOLEAN
  <2>1. stale' = (stale \/ (Head(up) \in {"C", "oldC"} /\ spc \in {"header", "block", "eot", "eot2"}))
    BY DEF Answer
  <2>2. QED  BY <2>1
<1>3. UNCHANGED <<proto, rpc, inside, starts, expected, received, declared, misread>>
  BY DEF Answer, receiver
<1>4. /\ spc' \in {"idle", "start", "header", "ready", "block", "eot", "eot2", "next", "null", "ok", "err"}
      /\ blk' \in 1 .. Blocks /\ retries' \in 0 .. MaxRetries - 1 /\ down' \in Seq(Tokens)
  <2> DEFINE a == Head(up)
             Good == /\ spc' \in {"idle", "start", "header", "ready", "block", "eot", "eot2", "next", "null", "ok", "err"}
                     /\ blk' \in 1 .. Blocks /\ retries' \in 0 .. MaxRetries - 1 /\ down' \in Seq(Tokens)
  <2>1. /\ spc \in {"idle", "start", "header", "ready", "block", "eot", "eot2", "next", "null", "ok", "err"}
        /\ blk \in 1 .. Blocks /\ retries \in 0 .. MaxRetries - 1
    BY DEF TransferTypeOK
  <2>2. ASSUME NEW place \in {"header", "block", "eot", "eot2", "null"}, NEW b \in 1 .. Blocks,
               NEW r \in 0 .. MaxRetries - 1, NEW x \in Tokens, Writes(place, b, r, x)
        PROVE  Good
    <3>1. Append(down, x) \in Seq(Tokens)  BY <1>1, GrownLine
    <3>2. QED  BY <2>2, <3>1 DEF Writes
  <2>3. ASSUME UNCHANGED <<blk, retries, down>>,
               spc' \in {"start", "ready", "next", "ok", "err"}
        PROVE  Good
    BY <1>1, <2>1, <2>3
  <2>4. Fails => Good  BY <2>3 DEF Fails
  <2>5. \A p \in {"ready", "next", "ok"} : Goes(p) => Good  BY <2>3 DEF Goes
  <2>6. 0 \in 0 .. MaxRetries - 1 /\ 1 \in 1 .. Blocks /\ (blk < Blocks => blk + 1 \in 1 .. Blocks)
        /\ (MayRetry => retries + 1 \in 0 .. MaxRetries - 1)
    BY <2>1 DEF MayRetry
  <2>7. /\ \A i \in 1 .. Blocks : Block(i, TRUE) \in Tokens
        /\ Header(TRUE) \in Tokens /\ Control("EOT") \in Tokens /\ Control("null") \in Tokens
    BY WholeTokens
  <2> HIDE DEF Good
  <2>8. ASSUME spc = "start", WaitForStart(a) PROVE Good
    <3>1. CASE a = "C"  BY <2>8, <2>2, <2>6, <2>7, <3>1 DEF WaitForStart
    <3>2. CASE a = "CAN"  BY <2>8, <2>4, <3>2 DEF WaitForStart
    <3>3. CASE a # "C" /\ a # "CAN"  BY <2>8, <2>3, <3>3 DEF WaitForStart
    <3>4. QED  BY <3>1, <3>2, <3>3
  <2>9. ASSUME HeaderAnswered(a) PROVE Good
    <3>1. CASE a = "ACK"  BY <2>9, <2>3, <3>1 DEF HeaderAnswered
    <3>2. CASE a # "ACK"  BY <2>9, <2>4, <3>2 DEF HeaderAnswered
    <3>3. QED  BY <3>1, <3>2
  <2>10. ASSUME DataRequested(a) PROVE Good
    <3>1. CASE a = "C"  BY <2>10, <2>2, <2>6, <2>7, <3>1 DEF DataRequested
    <3>2. CASE a # "C"  BY <2>10, <2>4, <3>2 DEF DataRequested
    <3>3. QED  BY <3>1, <3>2
  <2>11. ASSUME BlockAnswered(a) PROVE Good
    <3>1. CASE blk < Blocks /\ Writes("block", blk + 1, 0, Block(blk + 1, TRUE))
      BY <2>2, <2>6, <2>7, <3>1
    <3>2. CASE Writes("eot", blk, 0, Control("EOT"))  BY <2>1, <2>2, <2>6, <2>7, <3>2
    <3>3. CASE MayRetry /\ Writes("block", blk, retries + 1, Block(blk, TRUE))
      BY <2>1, <2>2, <2>6, <2>7, <3>3
    <3>4. CASE Fails  BY <2>4, <3>4
    <3>5. QED  BY <2>11, <3>1, <3>2, <3>3, <3>4 DEF BlockAnswered
  <2>12. ASSUME EotAnswered(a) PROVE Good
    <3>1. CASE Goes("ok") \/ Goes("next")  BY <2>5, <3>1
    <3>2. CASE Fails  BY <2>4, <3>2
    <3>3. CASE MayRetry /\ Writes("eot", blk, retries + 1, Control("EOT"))
      BY <2>1, <2>2, <2>6, <2>7, <3>3
    <3>4. CASE Writes("eot2", blk, 0, Control("EOT"))  BY <2>1, <2>2, <2>6, <2>7, <3>4
    <3>5. QED  BY <2>12, <3>1, <3>2, <3>3, <3>4 DEF EotAnswered
  <2>13. ASSUME SecondEotAnswered(a) PROVE Good  BY <2>13, <2>4, <2>5 DEF SecondEotAnswered
  <2>14. ASSUME NextFile(a) PROVE Good
    <3>1. CASE a = "C"  BY <2>14, <2>1, <2>2, <2>6, <2>7, <3>1 DEF NextFile
    <3>2. CASE a # "C"  BY <2>14, <2>5, <3>2 DEF NextFile
    <3>3. QED  BY <3>1, <3>2
  <2>15. Good  BY <2>5, <2>8, <2>9, <2>10, <2>11, <2>12, <2>13, <2>14 DEF Answer
  <2>16. QED  BY <2>15 DEF Good
<1>5. QED  BY <1>1, <1>2, <1>3, <1>4 DEF TransferTypeOK

\* The sender's answer to one byte keeps the invariant.
LEMMA AnswerKeeps ==
  ASSUME TInv, Answer
  PROVE  TInv'
<1> DEFINE a == Head(up)
<1>1. /\ TransferTypeOK /\ Beginning
  BY DEF TInv
<1>2. TransferTypeOK'  BY <1>1, AnswerTypes
<1>3. up # <<>> /\ up' = Tail(up) /\ ReceiverRests  BY DEF Answer, receiver, ReceiverRests
<1>4. a = up[1]  BY <1>1, <1>3, AnswerTaken
<1>5. stale' = (stale \/ (a \in {"C", "oldC"} /\ spc \in {"header", "block", "eot", "eot2"}))
  BY DEF Answer
<1>6. ~stale' => ~stale  BY <1>5
<1>7. ~stale' => spc \notin {"block", "eot", "eot2"} \/ up[1] \notin StartBytes  BY <1>4, <1>5 DEF StartBytes
<1>8. /\ \A i \in 1 .. Blocks : Block(i, TRUE) \in Tokens /\ Block(i, TRUE).t = "block" /\ Block(i, TRUE).n = i
      /\ Header(TRUE) \in Tokens /\ Header(TRUE).t = "header"
      /\ \A c \in {"EOT", "null"} : Control(c) \in Tokens /\ Control(c).t = c
  BY WholeTokens
<1>9. blk \in 1 .. Blocks /\ proto \in {"xmodem", "ymodem"} /\ 1 \in 1 .. Blocks  BY <1>1 DEF TransferTypeOK
<1>10. ASSUME spc \notin {"ok", "err"}, spc # "null", Fails PROVE TInv'
  BY <1>2, <1>3, <1>6, <1>10, QuietAnswer DEF Fails
<1>11. CASE spc = "start" /\ WaitForStart(a)
  <2>1. CASE a = "C" /\ proto = "xmodem"
    <3>1. spc' = "block" /\ blk' = 1 /\ down' = Append(down, Block(1, TRUE))
      BY <1>11, <2>1 DEF WaitForStart, Writes
    <3>2. QED  BY <1>2, <1>3, <1>6, <1>8, <1>9, <1>11, <2>1, <3>1, FirstWritten
  <2>2. CASE a = "C" /\ proto # "xmodem"
    <3>1. spc' = "header" /\ blk' = 1 /\ down' = Append(down, Header(TRUE))
      BY <1>11, <2>2 DEF WaitForStart, Writes
    <3>2. QED  BY <1>2, <1>3, <1>6, <1>8, <1>9, <1>11, <2>2, <3>1, FirstWritten
  <2>3. CASE a = "CAN"
    <3>1. Fails  BY <1>11, <2>3 DEF WaitForStart
    <3>2. QED  BY <1>10, <1>11, <3>1
  <2>4. CASE a # "C" /\ a # "CAN"
    <3>1. UNCHANGED <<spc, blk, retries, down>>  BY <1>11, <2>4 DEF WaitForStart
    <3>2. QED  BY <1>2, <1>3, <1>6, <1>11, <3>1, QuietAnswer
  <2>5. QED  BY <2>1, <2>2, <2>3, <2>4
<1>12. CASE spc = "header" /\ HeaderAnswered(a)
  <2>1. CASE a = "ACK"  BY <1>2, <1>3, <1>4, <1>6, <1>12, <2>1, QuietAnswer DEF HeaderAnswered
  <2>2. CASE a # "ACK"  BY <1>10, <1>12, <2>2 DEF HeaderAnswered
  <2>3. QED  BY <2>1, <2>2
<1>13. CASE spc = "ready" /\ DataRequested(a)
  <2>1. CASE a = "C"
    <3>1. spc' = "block" /\ blk' = 1 /\ down' = Append(down, Block(1, TRUE))
      BY <1>13, <2>1 DEF DataRequested, Writes
    <3>2. QED  BY <1>2, <1>3, <1>6, <1>8, <1>9, <1>13, <3>1, BlockWritten
  <2>2. CASE a # "C"  BY <1>10, <1>13, <2>2 DEF DataRequested
  <2>3. QED  BY <2>1, <2>2
<1>14. CASE spc = "block" /\ BlockAnswered(a)
  <2>1. CASE a = "ACK" /\ blk < Blocks /\ Writes("block", blk + 1, 0, Block(blk + 1, TRUE))
    <3>1. blk + 1 \in 1 .. Blocks  BY <1>9, <2>1
    <3>2. spc' = "block" /\ blk' = blk + 1 /\ down' = Append(down, Block(blk + 1, TRUE))
      BY <2>1 DEF Writes
    <3>3. QED  BY <1>2, <1>3, <1>4, <1>6, <1>7, <1>8, <1>14, <2>1, <3>1, <3>2, BlockWritten
  <2>2. CASE a = "ACK" /\ blk = Blocks /\ Writes("eot", blk, 0, Control("EOT"))
    <3>1. spc' = "eot" /\ blk' = blk /\ down' = Append(down, Control("EOT"))  BY <2>2 DEF Writes
    <3>2. QED  BY <1>2, <1>3, <1>4, <1>6, <1>7, <1>8, <1>14, <2>2, <3>1, EndWritten
  <2>3. CASE Writes("block", blk, retries + 1, Block(blk, TRUE))
    <3>1. spc' = "block" /\ blk' = blk /\ down' = Append(down, Block(blk, TRUE))  BY <2>3 DEF Writes
    <3>2. QED  BY <1>2, <1>3, <1>4, <1>6, <1>7, <1>8, <1>9, <1>14, <3>1, BlockWritten
  <2>4. CASE Fails  BY <1>10, <1>14, <2>4
  <2>5. QED  BY <1>14, <2>1, <2>2, <2>3, <2>4 DEF BlockAnswered
<1>15. CASE spc = "eot" /\ EotAnswered(a)
  <2>1. CASE Goes("ok")  BY <1>2, <1>3, <1>6, <1>15, <2>1, QuietAnswer DEF Goes
  <2>2. CASE Fails  BY <1>10, <1>15, <2>2
  <2>3. CASE proto = "xmodem" /\ Writes("eot", blk, retries + 1, Control("EOT"))
    <3>1. spc' = "eot" /\ blk' = blk /\ down' = Append(down, Control("EOT"))  BY <2>3 DEF Writes
    <3>2. QED  BY <1>2, <1>3, <1>4, <1>6, <1>7, <1>8, <1>15, <2>3, <3>1, EndWritten
  <2>4. CASE proto = "ymodem" /\ Writes("eot2", blk, 0, Control("EOT"))
    <3>1. spc' = "eot2" /\ blk' = blk /\ down' = Append(down, Control("EOT"))  BY <2>4 DEF Writes
    <3>2. QED  BY <1>2, <1>3, <1>4, <1>6, <1>7, <1>8, <1>15, <2>4, <3>1, EndWritten
  <2>5. CASE proto = "ymodem" /\ Goes("next")
    BY <1>2, <1>3, <1>6, <1>15, <2>5, QuietAnswer DEF Goes
  <2>6. QED  BY <1>15, <2>1, <2>2, <2>3, <2>4, <2>5 DEF EotAnswered
<1>16. CASE spc = "eot2" /\ SecondEotAnswered(a)
  <2>1. CASE a = "ACK"  BY <1>2, <1>3, <1>6, <1>16, <2>1, QuietAnswer DEF SecondEotAnswered, Goes
  <2>2. CASE a # "ACK"  BY <1>10, <1>16, <2>2 DEF SecondEotAnswered
  <2>3. QED  BY <2>1, <2>2
<1>17. CASE spc = "next" /\ NextFile(a)
  <2>1. CASE a = "C"
    <3>1. spc' = "null" /\ blk' = blk /\ down' = Append(down, Control("null"))
      BY <1>17, <2>1 DEF NextFile, Writes
    <3>2. QED  BY <1>2, <1>3, <1>4, <1>6, <1>8, <1>17, <2>1, <3>1, EndWritten
  <2>2. CASE a # "C"  BY <1>2, <1>3, <1>6, <1>17, <2>2, QuietAnswer DEF NextFile, Goes
  <2>3. QED  BY <2>1, <2>2
<1>18. CASE spc = "null" /\ Goes("ok")
  BY <1>2, <1>3, <1>6, <1>18, QuietAnswer DEF Goes
<1>19. QED
  BY <1>11, <1>12, <1>13, <1>14, <1>15, <1>16, <1>17, <1>18 DEF Answer

\* A step of the receiver.
SenderRests == UNCHANGED <<proto, spc, blk, retries, stale>>

\* The line as the receiver leaves it: the head is gone, or a rest is left of it.
Taken ==
  /\ down # <<>>
  /\ \/ down' = Tail(down)
     \/ \E k \in 0 .. RestMax : down' = <<Rest(k)>> \o Tail(down)
\* What a line that lost its head, or part of it, keeps.
Reduced ==
  /\ down' \in Seq(Tokens) /\ Followers(down')
  /\ \A type \in WholeTypes : Without(type, down) => Without(type, down')
  /\ \A low \in Nat, high \in Nat : Ordered(down, low, high) => Ordered(down', low, high)

LEMMA TakenReduced ==
  ASSUME TransferTypeOK, Held, Taken
  PROVE  /\ Reduced /\ Len(down) \in Nat /\ Len(down) >= 1 /\ down[1] \in Tokens /\ Head(down) = down[1]
         /\ Len(down) = 1 => \A type \in WholeTypes : Without(type, down')
<1>1. down \in Seq(Tokens) /\ down # <<>> /\ Followers(down)  BY DEF TransferTypeOK, Held, Taken
<1>2. Len(down) \in Nat /\ Len(down) >= 1 /\ down[1] \in Tokens /\ Head(down) = down[1]  BY <1>1, LineEnds
<1>3. CASE down' = Tail(down)
  <2>1. /\ Tail(down) \in Seq(Tokens) /\ Len(Tail(down)) = Len(down) - 1
        /\ \A k \in 1 .. Len(Tail(down)) : Tail(down)[k] = down[k + 1] /\ k + 1 \in 2 .. Len(down)
    BY <1>1, TailLine
  <2>2. ASSUME NEW type \in WholeTypes, Without(type, down) \/ Len(down) = 1 PROVE Without(type, Tail(down))
    BY <1>2, <2>1, <2>2 DEF Without
  <2>3. ASSUME NEW low \in Nat, NEW high \in Nat, Ordered(down, low, high) PROVE Ordered(Tail(down), low, high)
    BY <1>1, <2>3, TailOrder
  <2>4. Followers(Tail(down))  BY <1>1, TailLoad
  <2>5. QED  BY <1>2, <1>3, <2>1, <2>2, <2>3, <2>4 DEF Reduced
<1>4. CASE \E k \in 0 .. RestMax : down' = <<Rest(k)>> \o Tail(down)
  <2>1. PICK n \in 0 .. RestMax : down' = <<Rest(n)>> \o Tail(down)  BY <1>4
  <2>2. Rest(n) \in Tokens /\ Rest(n).t = "rest"  BY WholeTokens
  <2> DEFINE r == <<Rest(n)>> \o Tail(down)
  <2>3. /\ r \in Seq(Tokens) /\ Len(r) = Len(down) /\ r[1] = Rest(n)
        /\ \A k \in 2 .. Len(down) : r[k] = down[k]
    BY <1>1, <2>2, FrontLine
  <2>4. Followers(r)  BY <1>1, <2>2, FrontLoad
  <2>5. ASSUME NEW low \in Nat, NEW high \in Nat, Ordered(down, low, high) PROVE Ordered(r, low, high)
    BY <1>1, <2>2, <2>5, FrontOrder
  <2> HIDE DEF r
  <2>6. ASSUME NEW type \in WholeTypes, Without(type, down) \/ Len(down) = 1 PROVE Without(type, r)
    <3>1. type # "rest"  BY DEF WholeTypes
    <3>2. ASSUME NEW k \in 1 .. Len(r) PROVE r[k].t # type
      <4>1. CASE k = 1  BY <2>2, <2>3, <3>1, <4>1
      <4>2. CASE k # 1
        <5>1. k \in 2 .. Len(down) /\ Len(down) # 1 /\ k \in 1 .. Len(down)  BY <1>2, <2>3, <4>2
        <5>2. QED  BY <2>3, <2>6, <5>1 DEF Without
      <4>3. QED  BY <4>1, <4>2
    <3>3. QED  BY <3>2 DEF Without
  <2>7. down' = r  BY <2>1 DEF r
  <2>8. QED  BY <1>2, <2>3, <2>4, <2>5, <2>6, <2>7 DEF Reduced
<1>5. QED  BY <1>3, <1>4 DEF Taken

\* What is left to answer once the head is taken.
LEMMA TakenLoad ==
  ASSUME TransferTypeOK, Held, down # <<>>, inside' \in BOOLEAN
  PROVE  /\ down' = Tail(down) => Load(inside', down') = (IF inside' THEN 1 ELSE 0) + (Len(down) - 1)
         /\ \A k \in 0 .. RestMax : down' = <<Rest(k)>> \o Tail(down) =>
              Load(inside', down') = (IF inside' THEN 1 ELSE 0) + (Len(down) - 1) + HeadLoad(inside', Rest(k))
         /\ Load(inside, down) = (IF inside THEN 1 ELSE 0) + (Len(down) - 1) + HeadLoad(inside, down[1])
<1>1. down \in Seq(Tokens) /\ down # <<>> /\ Followers(down) /\ inside \in BOOLEAN  BY DEF TransferTypeOK, Held
<1>2. \A k \in 0 .. RestMax : Rest(k) \in Tokens  BY WholeTokens
<1>3. Load(inside', Tail(down)) = (IF inside' THEN 1 ELSE 0) + (Len(down) - 1)  BY <1>1, TailLoad
<1>4. \A k \in 0 .. RestMax : Load(inside', <<Rest(k)>> \o Tail(down))
          = (IF inside' THEN 1 ELSE 0) + (Len(down) - 1) + HeadLoad(inside', Rest(k))
  BY <1>1, <1>2, FrontLoad
<1>5. Load(inside, down) = (IF inside THEN 1 ELSE 0) + (Len(down) - 1) + HeadLoad(inside, down[1])
  BY <1>1, LoadType
<1>6. QED  BY <1>3, <1>4, <1>5

\* Taking from the line keeps how a transfer begins.
LEMMA BeginningKept ==
  ASSUME TransferTypeOK, Held, Beginning, SenderRests, Taken, rpc' # "idle",
         rpc' = "start" => rpc = "start" /\ received' = received /\ (StartsOnly(up) => StartsOnly(up')),
         rpc' = rpc \/ (proto = "xmodem" => rpc' \in {"start", "data", "ok", "err"})
  PROVE  /\ Beginning'
         /\ rpc # "idle" /\ spc \notin {"idle", "start"}
<1>1. down # <<>>  BY DEF Taken
<1>2. Reduced /\ (Len(down) = 1 => \A type \in WholeTypes : Without(type, down'))  BY TakenReduced
<1>3. rpc # "idle" /\ spc \notin {"idle", "start"}  BY <1>1 DEF Beginning
<1>4. Without("header", down')
  <2>1. "header" \in WholeTypes  BY DEF WholeTypes
  <2>2. Without("header", down) \/ Len(down) = 1  BY DEF Beginning
  <2>3. QED  BY <1>2, <2>1, <2>2 DEF Reduced
<1>5. UNCHANGED <<proto, spc, blk>>  BY DEF SenderRests
<1>6. rpc' = "start" => received' = <<>> /\ StartsOnly(up')  BY DEF Beginning
<1>7. proto = "xmodem" => /\ spc \in {"idle", "start", "block", "eot", "ok", "err"}
                          /\ rpc' \in {"idle", "start", "data", "ok", "err"}
  BY DEF Beginning
<1>8. proto = "ymodem" /\ rpc' = "start" => spc \in {"idle", "start", "header", "err"}  BY DEF Beginning
<1>9. Beginning'  BY <1>3, <1>4, <1>5, <1>6, <1>7, <1>8 DEF Beginning
<1>10. QED  BY <1>3, <1>9

\* Nothing is on the line: the receiver waits, and in the end gives up.
LEMMA BeginningWaits ==
  ASSUME Beginning, SenderRests, down = <<>>, down' = <<>>, inside' = inside, received' = received,
         \/ rpc = "start" /\ rpc' = "start" /\ (StartsOnly(up) => StartsOnly(up'))
         \/ rpc \in {"start", "data", "eot"} /\ rpc' = "err" /\ up' = up
         \/ rpc = "last" /\ rpc' = "ok"
  PROVE  Beginning'
<1>1. UNCHANGED <<proto, spc, blk>>  BY DEF SenderRests
<1>2. Without("header", down')  BY DEF Without
<1>3. spc \in {"idle", "start"} => ~inside /\ rpc \in {"idle", "start", "err"}  BY DEF Beginning
<1>4. rpc' = "start" => received' = <<>> /\ StartsOnly(up')  BY DEF Beginning
<1>5. rpc' = "err" /\ spc \in {"idle", "start"} => StartsOnly(up')  BY DEF Beginning
<1>6. proto = "xmodem" => spc \in {"idle", "start", "block", "eot", "ok", "err"}
                          /\ rpc \in {"idle", "start", "data", "ok", "err"}  BY DEF Beginning
<1>7. proto = "ymodem" /\ rpc = "start" => spc \in {"idle", "start", "header", "err"}  BY DEF Beginning
<1>8. spc \in {"idle", "start", "header", "ready"} => blk = 1  BY DEF Beginning
<1>9. QED  BY <1>1, <1>2, <1>3, <1>4, <1>5, <1>6, <1>7, <1>8 DEF Beginning

\* What is cut is a part of what was held.
LEMMA Cut ==
  ASSUME TransferTypeOK
  PROVE  /\ Truncated \in Seq(0 .. Blocks) /\ Len(Truncated) <= Len(received) /\ Len(Truncated) \in Nat
         /\ \A i \in 1 .. Len(Truncated) : Truncated[i] = received[i]
         /\ declared >= Len(received) => Truncated = received
         /\ Len(received) <= Blocks /\ declared \in {Blocks, Unknown} => Truncated = received
<1>1. received \in Seq(0 .. Blocks) /\ declared \in Nat /\ Len(received) \in Nat
  BY DEF TransferTypeOK, Unknown
<1>2. ASSUME declared < Len(received)
      PROVE  /\ Truncated \in Seq(0 .. Blocks) /\ Len(Truncated) = declared
             /\ \A i \in 1 .. declared : Truncated[i] = received[i]
  <2>1. Truncated = SubSeq(received, 1, declared)  BY <1>2 DEF Truncated
  <2>2. /\ SubSeq(received, 1, declared) \in Seq(0 .. Blocks)
        /\ Len(SubSeq(received, 1, declared)) = declared
        /\ \A i \in 1 .. declared : SubSeq(received, 1, declared)[i] = received[i]
    BY <1>1, <1>2, SubSeqProperties
  <2>3. QED  BY <2>1, <2>2
<1>3. declared >= Len(received) => Truncated = received  BY <1>1 DEF Truncated
<1>4. Len(received) <= Blocks /\ declared \in {Blocks, Unknown} => declared >= Len(received)
  BY <1>1 DEF Unknown
<1>5. CASE declared < Len(received)
  BY <1>1, <1>2, <1>4, <1>5
<1>6. CASE ~(declared < Len(received))
  <2>1. Truncated = received  BY <1>1, <1>3, <1>6
  <2>2. QED  BY <1>1, <2>1
<1>7. QED  BY <1>5, <1>6

\* The handshake at the end: what it says and how often is of no account.
LEMMA ClosingKeeps ==
  ASSUME TInv, TransferTypeOK', SenderRests, Taken \/ (down = <<>> /\ down' = <<>> /\ inside' = inside
                                                       /\ received' = received /\ rpc = "last" /\ rpc' = "ok"),
         rpc \in {"eot", "last"}, rpc' \in {"last", "ok"},
         UNCHANGED <<expected, declared>>, misread => misread', received' \in {received, Truncated}
  PROVE  TInv'
<1>1. /\ TransferTypeOK /\ Beginning /\ Ending /\ Held /\ Ahead /\ Credit /\ Told
      /\ UNCHANGED <<proto, spc, blk, stale>>
  BY DEF TInv, SenderRests
<1>2. proto = "ymodem" /\ proto # "xmodem"
  <2>1. proto \in {"xmodem", "ymodem"}  BY <1>1 DEF TransferTypeOK
  <2>2. QED  BY <1>1, <2>1 DEF Beginning
<1>3. Beginning'
  <2>1. CASE Taken  BY <1>1, <1>2, <2>1, BeginningKept
  <2>2. CASE ~Taken  BY <1>1, <2>2, BeginningWaits
  <2>3. QED  BY <2>1, <2>2
<1>4. Followers(down') /\ \A type \in WholeTypes : Without(type, down) => Without(type, down')
  <2>1. CASE Taken  BY <1>1, <2>1, TakenReduced DEF Reduced
  <2>2. CASE ~Taken  BY <1>1, <2>2 DEF Held
  <2>3. QED  BY <2>1, <2>2
<1>5. "EOT" \in WholeTypes /\ "null" \in WholeTypes  BY DEF WholeTypes
<1>6. ~misread' => spc \in Late  BY <1>1 DEF Ending
<1>7. Sane' => Sane  BY DEF Sane, AnsweredTwice
<1>8. Ending'  BY <1>1, <1>4, <1>5, <1>6 DEF Ending
<1>9. Held'
  <2>1. Sane' => Len(received') <= Blocks /\ \A i \in 1 .. Len(received') : received'[i] = i
    <3> SUFFICES ASSUME Sane PROVE Len(received') <= Blocks /\ \A i \in 1 .. Len(received') : received'[i] = i
      BY <1>7
    <3>1. Len(received) <= Blocks /\ \A i \in 1 .. Len(received) : received[i] = i  BY <1>1 DEF Held
    <3>2. CASE received' = received  BY <3>1, <3>2
    <3>3. CASE received' = Truncated
      <4>1. /\ Len(Truncated) <= Len(received) /\ Len(Truncated) \in Nat /\ Len(received) \in Nat
            /\ \A i \in 1 .. Len(Truncated) : Truncated[i] = received[i]
        BY <1>1, Cut, Lengths
      <4>2. QED  BY <3>1, <3>3, <4>1
    <3>4. QED  BY <3>2, <3>3
  <2>2. QED  BY <1>4, <2>1 DEF Held
<1>10. Ahead'  BY DEF Ahead
<1>11. Credit'
  <2>1. spc \in {"header", "ready", "block"} => misread'  BY <1>6 DEF Late
  <2>2. ~(spc' \in {"header", "ready", "block"} /\ Steady')  BY <1>1, <2>1 DEF Steady
  <2>3. QED  BY <1>1, <1>2, <2>2 DEF Credit
<1>12. Told'
  <2>1. Clear' => Clear /\ spc # "block"  BY <1>1, <1>6 DEF Clear, Late
  <2>2. ASSUME Clear', spc \in {"eot", "eot2", "next", "null", "ok"}
        PROVE  Len(received') = Blocks \/ (proto = "ymodem" /\ declared \notin {Blocks, Unknown})
    <3>1. Len(received) = Blocks \/ (proto = "ymodem" /\ declared \notin {Blocks, Unknown})
      BY <1>1, <2>1, <2>2 DEF Told
    <3>2. Len(received) = Blocks /\ declared \in {Blocks, Unknown} => Truncated = received  BY <1>1, Cut
    <3>3. QED  BY <1>2, <3>1, <3>2
  <2>3. QED  BY <1>1, <1>2, <2>1, <2>2 DEF Told
<1>13. QED  BY <1>3, <1>8, <1>9, <1>10, <1>11, <1>12 DEF TInv

\* A byte that is passed over, one that the receiver reads on from, the start of a block.
LEMMA StaysKeeps ==
  ASSUME TInv, TransferTypeOK', SenderRests, Taken, misread => misread',
         UNCHANGED <<rpc, starts, expected, received, declared, up>>,
         Sane' => Load(inside', down') <= Load(inside, down),
         rpc # "eot",
         Sane' /\ ~inside /\ (\A k \in 1 .. Len(down) : Quiet(down[k]))
            => ~inside' /\ \A k \in 1 .. Len(down') : Quiet(down'[k])
  PROVE  TInv'
<1>1. /\ TransferTypeOK /\ Beginning /\ Ending /\ Held /\ Ahead /\ Credit /\ Told
      /\ UNCHANGED <<proto, spc, blk, stale>>
  BY DEF TInv, SenderRests
<1>2. rpc' # "idle"
  <2>1. down # <<>>  BY DEF Taken
  <2>2. QED  BY <1>1, <2>1 DEF Beginning
<1>3. Beginning' /\ rpc # "idle"  BY <1>1, <1>2, BeginningKept
<1>4. Reduced  BY <1>1, TakenReduced
<1>5. "EOT" \in WholeTypes /\ "null" \in WholeTypes /\ "block" \in WholeTypes  BY DEF WholeTypes
<1>6. (Sane' => Sane) /\ (Steady' => Steady) /\ (Clear' => Clear)
  BY <1>1 DEF Sane, AnsweredTwice, Steady, Clear
<1>7. Ending'
  <2>1. ASSUME Sane', proto = "ymodem", rpc = "data", spc \in Late
        PROVE  /\ spc \in {"eot", "err"}
               /\ spc = "eot" => /\ up = <<>> /\ ~inside' /\ Load(inside', down') <= 1
                                 /\ \A k \in 1 .. Len(down') : Quiet(down'[k])
    <3>1. /\ spc \in {"eot", "err"}
          /\ spc = "eot" => /\ up = <<>> /\ ~inside /\ Load(inside, down) <= 1
                            /\ \A k \in 1 .. Len(down) : Quiet(down[k])
      BY <1>1, <1>6, <2>1 DEF Ending
    <3>2. Load(inside', down') \in Nat /\ Load(inside, down) \in Nat
      BY <1>1, LoadType DEF TransferTypeOK
    <3>3. Load(inside, down) <= 1 => Load(inside', down') <= 1  BY <2>1, <3>2
    <3>4. QED  BY <2>1, <3>1, <3>3
  <2>2. QED  BY <1>1, <1>4, <1>5, <2>1 DEF Ending, Reduced
<1>8. Held'  BY <1>1, <1>4, <1>6 DEF Held, Reduced
<1>9. Ahead'
  <2>1. blk \in Nat /\ Len(received) \in Nat  BY <1>1, Lengths
  <2>2. Room' = Room  BY <1>1 DEF Room
  <2>3. QED  BY <1>1, <1>4, <1>6, <2>1, <2>2 DEF Ahead, Reduced
<1>10. Load(inside', down') \in Nat /\ Load(inside, down) \in Nat /\ Len(up) \in Nat /\ starts \in Nat
  BY <1>1, LoadType, Lengths DEF TransferTypeOK
<1>11. Credit'
  <2>1. Sane' => Len(up) + Load(inside', down') <= Len(up) + Load(inside, down)  BY <1>10
  <2>2. Sane' /\ rpc \in {"idle", "start", "data"} /\ proto = "xmodem" => Len(up) + Load(inside', down') <= starts
    BY <1>1, <1>6, <1>10 DEF Credit
  <2>3. Steady' /\ proto = "ymodem" /\ spc = "header" =>
       /\ Load(inside', down') <= 1 /\ Without("block", down')
       /\ \A k \in 1 .. Len(up) : up[k] = "ACK" => k >= Len(up) - 1 /\ Load(inside', down') = 0
    <3>1. Steady' => Sane'  BY DEF Steady
    <3>2. QED  BY <1>1, <1>4, <1>5, <1>6, <1>10, <3>1 DEF Credit, Reduced
  <2>4. Steady' /\ proto = "ymodem" /\ spc \in {"ready", "block"} => Len(up) + Load(inside', down') <= 1
    <3>1. Steady' => Sane'  BY DEF Steady
    <3>2. QED  BY <1>1, <1>6, <1>10, <3>1 DEF Credit
  <2>5. QED  BY <1>1, <2>2, <2>3, <2>4 DEF Credit
<1>12. Told'
  <2>1. Clear' => Sane'  BY DEF Clear, Sane, AnsweredTwice
  <2>2. QED  BY <1>1, <1>6, <1>10, <2>1 DEF Told
<1>13. QED  BY <1>3, <1>7, <1>8, <1>9, <1>11, <1>12 DEF TInv

\* The answers when the receiver adds one or two.
LEMMA Said ==
  ASSUME TransferTypeOK, NEW x \in AnswerBytes, up' = up \o <<x>>
  PROVE  /\ up' \in Seq(AnswerBytes) /\ Len(up') = Len(up) + 1 /\ Len(up) \in Nat /\ up'[Len(up) + 1] = x
         /\ \A k \in 1 .. Len(up) : up'[k] = up[k]
         /\ \A k \in 1 .. Len(up') : k \in 1 .. Len(up) \/ k = Len(up) + 1
         /\ StartsOnly(up) /\ x \in StartBytes => StartsOnly(up')
<1>1. up \in Seq(AnswerBytes) /\ Len(up) \in Nat  BY EmptySeq DEF TransferTypeOK
<1>2. <<x>> \in Seq(AnswerBytes) /\ Len(<<x>>) = 1 /\ <<x>>[1] = x  OBVIOUS
<1>3. /\ up \o <<x>> \in Seq(AnswerBytes) /\ Len(up \o <<x>>) = Len(up) + Len(<<x>>)
      /\ \A i \in 1 .. Len(up) + Len(<<x>>) : (up \o <<x>>)[i] = IF i <= Len(up) THEN up[i] ELSE <<x>>[i - Len(up)]
  BY <1>1, <1>2, ConcatProperties
<1>4. /\ up' \in Seq(AnswerBytes) /\ Len(up') = Len(up) + 1 /\ up'[Len(up) + 1] = x
      /\ \A k \in 1 .. Len(up) : up'[k] = up[k]
  BY <1>1, <1>2, <1>3
<1>5. \A k \in 1 .. Len(up') : k \in 1 .. Len(up) \/ k = Len(up) + 1  BY <1>1, <1>4
<1>6. StartsOnly(up) /\ x \in StartBytes => StartsOnly(up')  BY <1>4, <1>5 DEF StartsOnly
<1>7. QED  BY <1>1, <1>4, <1>5, <1>6

\* Two answers at once.
LEMMA SaidTwo ==
  ASSUME TransferTypeOK, NEW x \in AnswerBytes, NEW y \in AnswerBytes, up' = up \o <<x, y>>
  PROVE  /\ up' \in Seq(AnswerBytes) /\ Len(up') = Len(up) + 2 /\ Len(up) \in Nat
         /\ \A k \in 1 .. Len(up) : up'[k] = up[k]
         /\ \A k \in 1 .. Len(up') : k \in 1 .. Len(up) \/ k >= Len(up') - 1
<1>1. up \in Seq(AnswerBytes) /\ Len(up) \in Nat  BY EmptySeq DEF TransferTypeOK
<1>2. <<x, y>> \in Seq(AnswerBytes) /\ Len(<<x, y>>) = 2  OBVIOUS
<1>3. /\ up \o <<x, y>> \in Seq(AnswerBytes) /\ Len(up \o <<x, y>>) = Len(up) + Len(<<x, y>>)
      /\ \A i \in 1 .. Len(up) + Len(<<x, y>>) :
           (up \o <<x, y>>)[i] = IF i <= Len(up) THEN up[i] ELSE <<x, y>>[i - Len(up)]
  BY <1>1, <1>2, ConcatProperties
<1>4. /\ up' \in Seq(AnswerBytes) /\ Len(up') = Len(up) + 2
      /\ \A k \in 1 .. Len(up) : up'[k] = up[k]
  BY <1>1, <1>2, <1>3
<1>5. \A k \in 1 .. Len(up') : k \in 1 .. Len(up) \/ k >= Len(up') - 1  BY <1>1, <1>4
<1>6. QED  BY <1>1, <1>4, <1>5

\* The receiver still waits for its first block: it asks again, or gives up.
LEMMA AsksKeeps ==
  ASSUME TInv, TransferTypeOK', SenderRests, rpc = "start",
         \/ rpc' = "start" /\ starts' = starts + 1 /\ up' = up \o <<"C">>
         \/ rpc' = "err" /\ UNCHANGED <<starts, up>>,
         Taken \/ (down = <<>> /\ down' = <<>>), UNCHANGED <<inside, expected, received, declared>>,
         misread => misread', Sane' => Load(inside', down') <= Load(inside, down)
  PROVE  TInv'
<1>1. /\ TransferTypeOK /\ Beginning /\ Ending /\ Held /\ Ahead /\ Credit /\ Told
      /\ UNCHANGED <<proto, spc, blk, stale>>
  BY DEF TInv, SenderRests
<1>2. StartsOnly(up)  BY <1>1 DEF Beginning
<1>3. StartsOnly(up') /\ (rpc' = "start" => Len(up') = Len(up) + 1)
  <2>1. CASE up' = up \o <<"C">>
    <3>1. "C" \in AnswerBytes /\ "C" \in StartBytes  BY DEF AnswerBytes, StartBytes
    <3>2. QED  BY <1>1, <1>2, <2>1, <3>1, Said
  <2>2. CASE up' = up /\ rpc' = "err"  BY <1>2, <2>2
  <2>3. QED  BY <2>1, <2>2
<1>4. Beginning'
  <2>1. CASE Taken  BY <1>1, <1>3, <2>1, BeginningKept
  <2>2. CASE ~Taken
    <3>1. CASE rpc' = "start"  BY <1>1, <1>3, <2>2, <3>1, BeginningWaits
    <3>2. CASE rpc' = "err" /\ up' = up  BY <1>1, <2>2, <3>2, BeginningWaits
    <3>3. QED  BY <3>1, <3>2
  <2>3. QED  BY <2>1, <2>2
<1>5. Reduced
  <2>1. CASE Taken  BY <1>1, <2>1, TakenReduced
  <2>2. CASE ~Taken  BY <1>1, <2>2 DEF Reduced, Held, TransferTypeOK
  <2>3. QED  BY <2>1, <2>2
<1>6. "EOT" \in WholeTypes /\ "null" \in WholeTypes /\ "block" \in WholeTypes  BY DEF WholeTypes
<1>7. (Sane' => Sane) /\ (Steady' => Steady) /\ (Clear' => Clear)
  BY <1>1 DEF Sane, AnsweredTwice, Steady, Clear
<1>8. Ending'  BY <1>1, <1>5, <1>6 DEF Ending, Reduced
<1>9. Held'  BY <1>1, <1>5, <1>7 DEF Held, Reduced
<1>10. \A k \in 1 .. Len(up') : up'[k] # "ACK" /\ up'[k] \in StartBytes  BY <1>3 DEF StartsOnly, StartBytes
<1>11. Ahead'
  <2>1. blk \in Nat /\ Len(received) \in Nat  BY <1>1, Lengths
  <2>2. Room' = Room  BY <1>1 DEF Room
  <2>3. QED  BY <1>1, <1>5, <1>7, <1>10, <2>1, <2>2 DEF Ahead, Reduced
<1>12. Load(inside', down') \in Nat /\ Load(inside, down) \in Nat /\ Len(up) \in Nat /\ starts \in Nat
  BY <1>1, LoadType, Lengths DEF TransferTypeOK
<1>13. Credit'
  <2>1. Sane' /\ rpc' = "start" /\ proto = "xmodem" => Len(up') + Load(inside', down') <= starts'
    BY <1>1, <1>3, <1>7, <1>12 DEF Credit
  <2>2. Steady' /\ proto = "ymodem" /\ spc = "header" => Load(inside', down') <= 1 /\ Without("block", down')
    <3>1. Steady' => Sane'  BY DEF Steady
    <3>2. QED  BY <1>1, <1>5, <1>6, <1>7, <1>12, <3>1 DEF Credit, Reduced
  <2>3. proto = "ymodem" => spc \notin {"ready", "block"}  BY <1>1 DEF Beginning
  <2>4. QED  BY <1>1, <1>10, <2>1, <2>2, <2>3 DEF Credit
<1>14. Told'
  <2>1. Clear' => Sane'  BY DEF Clear, Sane, AnsweredTwice
  <2>2. Clear' /\ proto = "xmodem" /\ spc \in {"block", "eot"} => Load(inside', down') <= 1
    BY <1>1, <1>7, <1>12, <2>1 DEF Told
  <2>3. QED  BY <1>1, <1>7, <1>10, <2>2 DEF Told
<1>15. QED  BY <1>4, <1>8, <1>9, <1>11, <1>13, <1>14 DEF TInv

\* A transfer that fails at the receiver.
LEMMA GivesUpKeeps ==
  ASSUME TInv, TransferTypeOK', SenderRests, rpc' = "err", UNCHANGED <<inside, starts, expected, received, declared, up>>,
         \/ proto = "xmodem" /\ rpc \in {"start", "data"} /\ Taken
         \/ rpc \in {"data", "eot"} /\ down = <<>> /\ down' = <<>>,
         misread => misread', Sane' => Load(inside', down') <= Load(inside, down)
  PROVE  TInv'
<1>1. /\ TransferTypeOK /\ Beginning /\ Ending /\ Held /\ Ahead /\ Credit /\ Told
      /\ UNCHANGED <<proto, spc, blk, stale>>
  BY DEF TInv, SenderRests
<1>4. Beginning'
  <2>1. CASE Taken  BY <1>1, <2>1, BeginningKept
  <2>2. CASE ~Taken  BY <1>1, <2>2, BeginningWaits
  <2>3. QED  BY <2>1, <2>2
<1>5. Reduced
  <2>1. CASE Taken  BY <1>1, <2>1, TakenReduced
  <2>2. CASE ~Taken  BY <1>1, <2>2 DEF Reduced, Held, TransferTypeOK
  <2>3. QED  BY <2>1, <2>2
<1>6. "EOT" \in WholeTypes /\ "null" \in WholeTypes /\ "block" \in WholeTypes  BY DEF WholeTypes
<1>7. (Sane' => Sane) /\ (Clear' => Clear)
  BY <1>1 DEF Sane, AnsweredTwice, Clear
<1>8. Ending'  BY <1>1, <1>5, <1>6 DEF Ending, Reduced
<1>9. Held'  BY <1>1, <1>5, <1>7 DEF Held, Reduced
<1>11. Ahead'  BY DEF Ahead
<1>12. Load(inside', down') \in Nat /\ Load(inside, down) \in Nat /\ Len(up) \in Nat /\ starts \in Nat
  BY <1>1, LoadType, Lengths DEF TransferTypeOK
<1>13. Credit'
  <2>1. CASE proto = "xmodem"  BY <1>1, <2>1 DEF Credit
  <2>2. CASE proto # "xmodem" /\ rpc = "data"
    <3>1. Steady' => Steady /\ Sane'  BY <1>7, <2>2 DEF Steady
    <3>2. QED  BY <1>1, <1>5, <1>6, <1>12, <2>2, <3>1 DEF Credit, Reduced
  <2>3. CASE proto # "xmodem" /\ rpc = "eot"
    <3>1. spc \in Late  BY <1>1, <2>3 DEF Ending
    <3>2. QED  BY <1>1, <3>1 DEF Credit, Late
  <2>4. QED  BY <2>1, <2>2, <2>3
<1>14. Told'
  <2>1. Clear' => Sane'  BY DEF Clear, Sane, AnsweredTwice
  <2>2. QED  BY <1>1, <1>7, <1>12, <2>1 DEF Told
<1>15. QED  BY <1>4, <1>8, <1>9, <1>11, <1>13, <1>14 DEF TInv

\* The end of an XMODEM file, or a byte taken for it.
LEMMA XmodemEndKeeps ==
  ASSUME TInv, TransferTypeOK', SenderRests, proto = "xmodem", rpc \in {"start", "data"}, rpc' = "ok",
         up' = up \o <<"ACK">>, Taken, ~inside, UNCHANGED <<inside, starts, expected, received, declared>>,
         misread => misread', misread' \/ (down[1].t = "EOT" /\ down' = Tail(down))
  PROVE  TInv'
<1>1. /\ TransferTypeOK /\ Beginning /\ Ending /\ Held /\ Ahead /\ Credit /\ Told
      /\ UNCHANGED <<proto, spc, blk, stale>>
  BY DEF TInv, SenderRests
<1>2. Beginning' /\ Reduced /\ Len(down) \in Nat /\ Len(down) >= 1 /\ down[1] \in Tokens
  BY <1>1, BeginningKept, TakenReduced
<1>3. "EOT" \in WholeTypes /\ "null" \in WholeTypes  BY DEF WholeTypes
<1>4. "ACK" \in AnswerBytes  BY DEF AnswerBytes
<1>5. /\ Len(up') = Len(up) + 1 /\ Len(up) \in Nat /\ up'[Len(up) + 1] = "ACK"
      /\ \A k \in 1 .. Len(up) : up'[k] = up[k]
      /\ \A k \in 1 .. Len(up') : k \in 1 .. Len(up) \/ k = Len(up) + 1
  BY <1>1, <1>4, Said
<1>7. (Sane' => Sane) /\ (Clear' => Clear)
  BY <1>1 DEF Sane, AnsweredTwice, Clear
<1>8. Ending'  BY <1>1, <1>2, <1>3 DEF Ending, Reduced
<1>9. Held'  BY <1>1, <1>2, <1>7 DEF Held, Reduced
<1>10. Ahead'  BY DEF Ahead
<1>11. Credit'  BY <1>1 DEF Credit
<1>12. Told'
  <2>1. ASSUME Clear'
        PROVE  spc # "block" /\ (spc = "eot" => /\ Load(inside', down') = 0
                                               /\ \A k \in 1 .. Len(up) : up[k] \in StartBytes)
    <3>1. down[1].t = "EOT" /\ down' = Tail(down)  BY <2>1 DEF Clear
    <3>2. spc \in Late  BY <1>1, <1>2, <3>1 DEF Ending, Without
    <3>3. HeadLoad(inside, down[1]) = 1  BY <1>1, <1>2, <1>3, <3>1, HeadLoadType DEF TransferTypeOK
    <3>4. down # <<>> /\ inside' = FALSE /\ inside = FALSE  BY <1>1 DEF Taken, TransferTypeOK
    <3>5. /\ Load(inside', down') = (IF inside' THEN 1 ELSE 0) + (Len(down) - 1)
          /\ Load(inside, down) = (IF inside THEN 1 ELSE 0) + (Len(down) - 1) + HeadLoad(inside, down[1])
      BY <1>1, <3>1, <3>4, TakenLoad
    <3>6. Load(inside', down') = Len(down) - 1 /\ Load(inside, down) = Len(down)  BY <1>2, <3>3, <3>4, <3>5
    <3>7. ASSUME spc = "eot" PROVE Load(inside', down') = 0 /\ \A k \in 1 .. Len(up) : up[k] \in StartBytes
      <4>1. Load(inside, down) <= 1
            /\ \A k \in 1 .. Len(up) : up[k] \notin StartBytes => Load(inside, down) = 0
        BY <1>1, <1>7, <2>1, <3>7 DEF Told
      <4>2. QED  BY <1>2, <3>6, <4>1
    <3>8. QED  BY <3>2, <3>7 DEF Late
  <2>2. QED  BY <1>1, <1>5, <1>7, <2>1 DEF Told
<1>13. QED  BY <1>2, <1>8, <1>9, <1>10, <1>11, <1>12 DEF TInv

\* The first end of a YMODEM file, or a byte taken for it.
LEMMA YmodemEndKeeps ==
  ASSUME TInv, TransferTypeOK', SenderRests, proto = "ymodem", rpc = "data", rpc' = "eot",
         Taken, ~inside', UNCHANGED <<starts, expected, received, declared>>,
         misread => misread', down[1].t = "EOT" \/ (misread' /\ down' # <<>>)
  PROVE  TInv'
<1>1. /\ TransferTypeOK /\ Beginning /\ Ending /\ Held /\ Ahead /\ Credit /\ Told
      /\ UNCHANGED <<proto, spc, blk, stale>>
  BY DEF TInv, SenderRests
<1>2. Beginning' /\ Reduced /\ Len(down) \in Nat /\ Len(down) >= 1
  BY <1>1, BeginningKept, TakenReduced
<1>3. "EOT" \in WholeTypes /\ "null" \in WholeTypes  BY DEF WholeTypes
<1>4. down[1].t = "EOT" => spc \in Late  BY <1>1, <1>2 DEF Ending, Without
<1>7. (Sane' => Sane) /\ (Clear' => Clear)
  BY <1>1 DEF Sane, AnsweredTwice, Clear
<1>8. Ending'  BY <1>1, <1>2, <1>3, <1>4 DEF Ending, Reduced
<1>9. Held'  BY <1>1, <1>2, <1>7 DEF Held, Reduced
<1>10. Ahead'  BY DEF Ahead
<1>11. Credit'
  <2>1. Steady' => spc \in Late  BY <1>4 DEF Steady
  <2>2. QED  BY <1>1, <2>1 DEF Credit, Late
<1>12. Told'
  <2>1. Clear' => spc \in Late  BY <1>4 DEF Clear
  <2>2. QED  BY <1>1, <1>7, <2>1 DEF Told, Late
<1>13. QED  BY <1>2, <1>8, <1>9, <1>10, <1>11, <1>12 DEF TInv

\* The receiver of YMODEM takes a block for the header.
LEMMA HeaderKeeps ==
  ASSUME TInv, TransferTypeOK', SenderRests, proto = "ymodem", rpc = "start", Taken, ~inside',
         UNCHANGED <<starts, expected, received, misread>>,
         \/ rpc' = "data" /\ up' = up \o <<"ACK", "C">>
         \/ rpc' = "ok" /\ up' = up \o <<"ACK">>
         \/ rpc' = "err" /\ up' = up,
         Load(inside', down') < Load(inside, down)
  PROVE  TInv'
<1>1. /\ TransferTypeOK /\ Beginning /\ Ending /\ Held /\ Ahead /\ Credit /\ Told
      /\ UNCHANGED <<proto, spc, blk, stale>>
  BY DEF TInv, SenderRests
<1>2. Beginning' /\ Reduced /\ spc \notin {"idle", "start"}  BY <1>1, BeginningKept, TakenReduced
<1>3. "EOT" \in WholeTypes /\ "null" \in WholeTypes /\ "block" \in WholeTypes  BY DEF WholeTypes
<1>4. spc \in {"header", "err"}  BY <1>1, <1>2 DEF Beginning
<1>5. StartsOnly(up)  BY <1>1 DEF Beginning
<1>6. \A k \in 1 .. Len(up') : up'[k] = "ACK" => k >= Len(up') - 1
  <2>1. \A k \in 1 .. Len(up) : up[k] # "ACK"  BY <1>5 DEF StartsOnly, StartBytes
  <2>2. "ACK" \in AnswerBytes /\ "C" \in AnswerBytes  BY DEF AnswerBytes
  <2>3. CASE up' = up \o <<"ACK", "C">>  BY <1>1, <2>1, <2>2, <2>3, SaidTwo
  <2>4. CASE up' = up \o <<"ACK">>
    <3>1. /\ Len(up') = Len(up) + 1 /\ Len(up) \in Nat /\ \A k \in 1 .. Len(up) : up'[k] = up[k]
          /\ \A k \in 1 .. Len(up') : k \in 1 .. Len(up) \/ k = Len(up) + 1
      BY <1>1, <2>2, <2>4, Said
    <3>2. QED  BY <2>1, <3>1
  <2>5. CASE up' = up  BY <2>1, <2>5
  <2>6. QED  BY <2>3, <2>4, <2>5
<1>7. (Sane' <=> Sane) /\ (Steady' => Steady) /\ (Clear' => Clear)
  BY <1>1 DEF Sane, AnsweredTwice, Clear, Steady
<1>8. Ending'
  <2>1. spc \in Late => spc = "err"  BY <1>4 DEF Late
  <2>2. rpc' # "eot" /\ rpc' # "last"  OBVIOUS
  <2>3. QED  BY <1>1, <1>2, <1>3, <2>1, <2>2 DEF Ending, Reduced
<1>9. Held'  BY <1>1, <1>2, <1>7 DEF Held, Reduced
<1>10. Ahead'
  <2>1. blk \in Nat /\ Len(received) \in Nat  BY <1>1, Lengths
  <2>2. Room' = Room  BY <1>1 DEF Room
  <2>3. QED  BY <1>1, <1>2, <1>4, <1>7, <2>1, <2>2 DEF Ahead, Reduced
<1>11. Load(inside', down') \in Nat /\ Load(inside, down) \in Nat
  BY <1>1, LoadType DEF TransferTypeOK
<1>12. Credit'
  <2>1. ASSUME Steady', spc = "header" PROVE Load(inside', down') = 0 /\ Without("block", down')
    <3>1. Load(inside, down) <= 1 /\ Without("block", down)  BY <1>1, <1>7, <2>1 DEF Credit
    <3>2. QED  BY <1>2, <1>3, <1>11, <3>1 DEF Reduced
  <2>2. QED  BY <1>1, <1>4, <1>6, <2>1 DEF Credit
<1>13. Told'  BY <1>1, <1>4 DEF Told
<1>14. QED  BY <1>2, <1>8, <1>9, <1>10, <1>12, <1>13 DEF TInv

\* A block that is not taken: bad, or out of order in XMODEM.
LEMMA RefusalKeeps ==
  ASSUME TInv, TransferTypeOK', SenderRests, Taken, ~inside', NEW x \in {"NAK", "CAN"}, up' = up \o <<x>>,
         UNCHANGED <<starts, expected, received, declared, misread>>,
         \/ proto = "ymodem" /\ rpc = "data" /\ rpc' = "data"
         \/ proto = "xmodem" /\ rpc \in {"start", "data"} /\ rpc' \in {"data", "err"},
         Load(inside', down') < Load(inside, down), inside \/ ~Quiet(down[1])
  PROVE  TInv'
<1>1. /\ TransferTypeOK /\ Beginning /\ Ending /\ Held /\ Ahead /\ Credit /\ Told
      /\ UNCHANGED <<proto, spc, blk, stale>>
  BY DEF TInv, SenderRests
<1>2. Beginning' /\ Reduced /\ Len(down) \in Nat /\ Len(down) >= 1  BY <1>1, BeginningKept, TakenReduced
<1>3. "EOT" \in WholeTypes /\ "null" \in WholeTypes /\ "block" \in WholeTypes  BY DEF WholeTypes
<1>4. x \in AnswerBytes /\ x # "ACK"  BY DEF AnswerBytes
<1>5. /\ Len(up') = Len(up) + 1 /\ Len(up) \in Nat /\ up'[Len(up) + 1] = x
      /\ \A k \in 1 .. Len(up) : up'[k] = up[k]
      /\ \A k \in 1 .. Len(up') : k \in 1 .. Len(up) \/ k = Len(up) + 1
  BY <1>1, <1>4, Said
<1>6. \A k \in 1 .. Len(up') : up'[k] = "ACK" => k \in 1 .. Len(up) /\ up[k] = "ACK"  BY <1>4, <1>5
<1>7. (Sane' <=> Sane) /\ (Steady' => Steady) /\ (Clear' <=> Clear)
  BY <1>1 DEF Sane, AnsweredTwice, Clear, Steady
<1>8. Ending'
  <2>1. ASSUME Sane, proto = "ymodem", spc \in Late PROVE spc = "err"
    <3>1. /\ spc \in {"eot", "err"}
          /\ spc = "eot" => ~inside /\ \A k \in 1 .. Len(down) : Quiet(down[k])
      BY <1>1, <2>1 DEF Ending
    <3>2. 1 \in 1 .. Len(down)  BY <1>2
    <3>3. QED  BY <3>1, <3>2
  <2>2. rpc' # "eot" /\ rpc' # "last"  OBVIOUS
  <2>3. QED  BY <1>1, <1>2, <1>3, <1>7, <2>1, <2>2 DEF Ending, Reduced
<1>9. Held'  BY <1>1, <1>2, <1>7 DEF Held, Reduced
<1>10. Ahead'
  <2>1. blk \in Nat /\ Len(received) \in Nat  BY <1>1, Lengths
  <2>2. Room' = Room  BY <1>1 DEF Room
  <2>3. QED  BY <1>1, <1>2, <1>6, <1>7, <2>1, <2>2 DEF Ahead, Reduced
<1>11. Load(inside', down') \in Nat /\ Load(inside, down) \in Nat /\ starts \in Nat
  BY <1>1, LoadType DEF TransferTypeOK
<1>12. Credit'
  <2>1. Sane' /\ rpc' \in {"idle", "start", "data"} /\ proto = "xmodem" => Len(up') + Load(inside', down') <= starts
    BY <1>1, <1>5, <1>7, <1>11 DEF Credit
  <2>2. Steady' /\ proto = "ymodem" /\ spc = "header" =>
       /\ Load(inside', down') <= 1 /\ Without("block", down')
       /\ \A k \in 1 .. Len(up') : up'[k] # "ACK"
    <3> SUFFICES ASSUME Steady', proto = "ymodem", spc = "header"
                 PROVE  /\ Load(inside', down') <= 1 /\ Without("block", down')
                        /\ \A k \in 1 .. Len(up') : up'[k] # "ACK"
      OBVIOUS
    <3>1. /\ Load(inside, down) <= 1 /\ Without("block", down)
          /\ \A k \in 1 .. Len(up) : up[k] = "ACK" => Load(inside, down) = 0
      BY <1>1, <1>7 DEF Credit
    <3>2. Load(inside, down) # 0  BY <1>11
    <3>3. QED  BY <1>2, <1>3, <1>6, <1>11, <3>1, <3>2 DEF Reduced
  <2>3. Steady' /\ proto = "ymodem" /\ spc \in {"ready", "block"} => Len(up') + Load(inside', down') <= 1
    BY <1>1, <1>5, <1>7, <1>11 DEF Credit
  <2>4. QED  BY <1>1, <2>1, <2>2, <2>3 DEF Credit
<1>13. Told'
  <2>1. ASSUME Clear, proto = "xmodem", spc \in {"block", "eot"}
        PROVE  /\ Load(inside', down') = 0
               /\ \A k \in 1 .. Len(up') : up'[k] \notin StartBytes => k = Len(up')
    <3>1. /\ Load(inside, down) <= 1
          /\ \A k \in 1 .. Len(up) : up[k] \notin StartBytes => Load(inside, down) = 0
      BY <1>1, <2>1 DEF Told
    <3>2. Load(inside, down) # 0 /\ Load(inside', down') = 0  BY <1>11, <3>1
    <3>3. QED  BY <1>5, <3>1, <3>2
  <2>2. Clear /\ spc = "block" => \A k \in 1 .. Len(up') : up'[k] = "ACK" => Len(received) >= blk
    BY <1>1, <1>6 DEF Told
  <2>3. QED  BY <1>1, <1>7, <2>1, <2>2 DEF Told
<1>14. QED  BY <1>2, <1>8, <1>9, <1>10, <1>12, <1>13 DEF TInv

\* The number of the block at the head of the line says which block it is.
LEMMA Position ==
  ASSUME TInv, Sane, down # <<>>, down[1].t \in {"block", "header", "null"},
         \/ proto = "ymodem" /\ rpc = "data"
         \/ proto = "xmodem" /\ rpc \in {"start", "data"}
  PROVE  /\ down[1].t = "block" /\ down[1].n \in 1 .. Blocks
         /\ Number(down[1].n) = expected => down[1].n = Len(received) + 1
         /\ proto = "ymodem" /\ Number(down[1].n) # expected => down[1].n = Len(received)
         /\ Succ(Number(down[1].n)) = expected => down[1].n = Len(received) /\ rpc # "start"
<1>1. TransferTypeOK /\ Beginning /\ Ending /\ Ahead  BY DEF TInv
<1>2. down \in Seq(Tokens) /\ 1 \in 1 .. Len(down) /\ down[1] \in Tokens
  BY <1>1, LineEnds DEF TransferTypeOK
<1>3. down[1].t # "header"
  <2>1. Without("header", down)  BY <1>1 DEF Beginning
  <2>2. QED  BY <1>2, <2>1 DEF Without
<1>4. down[1].t # "null"
  <2>1. Without("null", down)  BY <1>1 DEF Ending, Late
  <2>2. QED  BY <1>2, <2>1 DEF Without
<1>5. down[1].t = "block" /\ down[1].n \in 1 .. Blocks  BY <1>2, <1>3, <1>4, TokenShape
<1> DEFINE n == Len(received)
           b == down[1].n
<1>6. /\ expected = (n + 1) % Wrap /\ n <= blk /\ blk <= n + Room /\ Ordered(down, n, blk)
  BY <1>1 DEF Ahead
<1>7. n <= b /\ b <= blk  BY <1>2, <1>5, <1>6 DEF Ordered
<1>8. /\ n \in Nat /\ b \in Nat /\ blk \in Nat /\ Room \in Nat /\ Room <= MaxRetries
      /\ Wrap \in Nat \ {0} /\ Wrap > MaxRetries + 1 /\ MaxRetries \in Nat
  BY <1>1, <1>5, Lengths
<1>9. received = <<>> => n = 0  BY <1>1, Lengths
<1> HIDE DEF n, b
<1>10. ASSUME b % Wrap = expected PROVE b = n + 1
  <2>1. n + 1 \in Nat /\ b - (n + 1) < Wrap /\ (n + 1) - b < Wrap  BY <1>6, <1>7, <1>8
  <2>2. QED  BY <1>6, <1>8, <1>10, <2>1, ModUnique
<1>11. ASSUME ((b % Wrap) + 1) % Wrap = expected PROVE b = n
  <2>1. (b + 1) % Wrap = (n + 1) % Wrap  BY <1>6, <1>8, <1>11, SuccMod
  <2>2. n + 1 \in Nat /\ b + 1 \in Nat /\ (b + 1) - (n + 1) < Wrap /\ (n + 1) - (b + 1) < Wrap
    BY <1>6, <1>7, <1>8
  <2>3. b + 1 = n + 1  BY <1>8, <2>1, <2>2, ModUnique
  <2>4. QED  BY <1>8, <2>3
<1>12. ASSUME proto = "ymodem", b % Wrap # expected PROVE b = n
  <2>1. Room = 1  BY <1>12 DEF Room
  <2>2. b = n \/ b = n + 1  BY <1>6, <1>7, <1>8, <2>1
  <2>3. QED  BY <1>6, <1>12, <2>2
<1>13. ASSUME b = n PROVE rpc # "start"
  <2>1. rpc = "start" => n = 0  BY <1>1, <1>9 DEF Beginning
  <2>2. b # 0  BY <1>5 DEF b
  <2>3. QED  BY <1>13, <2>1, <2>2
<1>14. QED  BY <1>5, <1>10, <1>11, <1>12, <1>13 DEF n, b, Number, Succ

\* A good block is appended, or was appended before.
LEMMA BlockKeeps ==
  ASSUME TInv, TransferTypeOK', SenderRests, down # <<>>, down' = Tail(down), ~inside, inside' = inside,
         down[1].t \in {"block", "header", "null"}, up' = up \o <<"ACK">>, rpc' = "data",
         UNCHANGED <<starts, declared, misread>>,
         \/ proto = "ymodem" /\ rpc = "data"
         \/ proto = "xmodem" /\ rpc \in {"start", "data"},
         Sane => \/ /\ received' = Append(received, down[1].n) /\ expected' = Succ(expected)
                    /\ down[1].n = Len(received) + 1
                 \/ received' = received /\ expected' = expected /\ down[1].n = Len(received)
  PROVE  TInv'
<1>1. /\ TransferTypeOK /\ Beginning /\ Ending /\ Held /\ Ahead /\ Credit /\ Told
      /\ UNCHANGED <<proto, spc, blk, stale>>
  BY DEF TInv, SenderRests
<1>2. Beginning' /\ Reduced /\ Len(down) \in Nat /\ Len(down) >= 1 /\ down[1] \in Tokens
  <2>1. Taken  BY DEF Taken
  <2>2. QED  BY <1>1, <2>1, BeginningKept, TakenReduced
<1>3. /\ "EOT" \in WholeTypes /\ "null" \in WholeTypes /\ "block" \in WholeTypes
      /\ down[1].t \in WholeTypes
  BY DEF WholeTypes
<1>4. "ACK" \in AnswerBytes  BY DEF AnswerBytes
<1>5. /\ Len(up') = Len(up) + 1 /\ Len(up) \in Nat /\ up'[Len(up) + 1] = "ACK"
      /\ \A k \in 1 .. Len(up) : up'[k] = up[k]
      /\ \A k \in 1 .. Len(up') : k \in 1 .. Len(up) \/ k = Len(up) + 1
  BY <1>1, <1>4, Said
<1>6. (Sane' <=> Sane) /\ (Steady' => Sane) /\ (Clear' <=> Clear) /\ (Clear => Sane)
  BY <1>1 DEF Sane, AnsweredTwice, Clear, Steady
<1>7. Load(inside', down') = Len(down) - 1 /\ Load(inside, down) = Len(down)
  <2>1. HeadLoad(inside, down[1]) = 1 /\ inside = FALSE /\ inside' = FALSE
    BY <1>1, <1>2, <1>3, HeadLoadType DEF TransferTypeOK
  <2>2. /\ Load(inside', down') = (IF inside' THEN 1 ELSE 0) + (Len(down) - 1)
        /\ Load(inside, down) = (IF inside THEN 1 ELSE 0) + (Len(down) - 1) + HeadLoad(inside, down[1])
    BY <1>1, <2>1, TakenLoad
  <2>3. QED  BY <1>2, <2>1, <2>2
<1>8. Sane => down[1].t = "block" /\ down[1].n \in 1 .. Blocks  BY Position
<1> DEFINE n == Len(received)
           m == Len(received')
           b == down[1].n
<1>9. Sane => m = b /\ n <= m /\ expected' = (m + 1) % Wrap /\ m <= Blocks
              /\ \A i \in 1 .. m : received'[i] = i
  <2> SUFFICES ASSUME Sane
               PROVE  m = b /\ n <= m /\ expected' = (m + 1) % Wrap /\ m <= Blocks
                      /\ \A i \in 1 .. m : received'[i] = i
    OBVIOUS
  <2>1. expected = (n + 1) % Wrap  BY <1>1 DEF Ahead
  <2>2. received \in Seq(0 .. Blocks) /\ n \in Nat  BY <1>1, Lengths
  <2>3. \A i \in 1 .. n : received[i] = i  BY <1>1 DEF Held
  <2>4. b \in 1 .. Blocks  BY <1>8
  <2>5. CASE received' = Append(received, b) /\ expected' = Succ(expected) /\ b = n + 1
    <3>1. /\ Len(Append(received, b)) = n + 1 /\ Append(received, b)[n + 1] = b
          /\ \A i \in 1 .. n : Append(received, b)[i] = received[i]
      BY <2>2, <2>4
    <3>2. n + 1 \in Nat /\ Wrap \in Nat \ {0}  BY <2>2
    <3>3. expected' = ((n + 1) + 1) % Wrap  BY <2>1, <2>5, <3>2, SuccMod DEF Succ
    <3>4. m = n + 1  BY <2>5, <3>1
    <3>5. \A i \in 1 .. m : i \in 1 .. n \/ i = n + 1  BY <2>2, <3>4
    <3>6. \A i \in 1 .. m : received'[i] = i  BY <2>3, <2>5, <3>1, <3>5
    <3>7. QED  BY <2>2, <2>4, <2>5, <3>3, <3>4, <3>6
  <2>6. CASE received' = received /\ expected' = expected /\ b = n
    BY <2>1, <2>2, <2>3, <2>4, <2>6
  <2>7. QED  BY <2>5, <2>6
<1>10. Sane => /\ n <= blk /\ blk <= n + Room /\ Ordered(down, n, blk)
               /\ Ordered(down', b, blk) /\ b <= blk /\ blk <= b + (Len(down) - 1)
  <2> SUFFICES ASSUME Sane
               PROVE  /\ n <= blk /\ blk <= n + Room /\ Ordered(down, n, blk)
                      /\ Ordered(down', b, blk) /\ b <= blk /\ blk <= b + (Len(down) - 1)
    OBVIOUS
  <2>1. n <= blk /\ blk <= n + Room /\ Ordered(down, n, blk)  BY <1>1 DEF Ahead
  <2>2. n \in Nat /\ blk \in Nat /\ down \in Seq(Tokens)  BY <1>1, Lengths
  <2>3. down[1].t = "block"  BY <1>8
  <2>4. Ordered(Tail(down), b, blk) /\ b <= blk /\ blk <= b + (Len(down) - 1)
    BY <2>1, <2>2, <2>3, TailOrder
  <2>5. QED  BY <2>1, <2>4
<1>11. /\ n \in Nat /\ blk \in Nat /\ starts \in Nat /\ starts <= MaxRetries
       /\ Room \in Nat \ {0} /\ Room <= MaxRetries /\ (proto = "xmodem" => Room = MaxRetries)
       /\ Room' = Room /\ m \in Nat
  <2>1. Room' = Room  BY <1>1 DEF Room
  <2>2. m \in Nat  BY EmptySeq DEF TransferTypeOK
  <2>3. starts <= MaxRetries  BY <1>1 DEF TransferTypeOK
  <2>4. QED  BY <1>1, <2>1, <2>2, <2>3, Lengths
<1>12. Sane => b \in Nat  BY <1>8
<1>13. ASSUME Sane, proto = "ymodem" PROVE spc \notin Late \/ spc = "err"
  <2>1. Quiet(down[1]) => down[1].t # "block"  BY DEF Quiet
  <2>2. 1 \in 1 .. Len(down)  BY <1>2
  <2>3. spc \in Late => spc \in {"eot", "err"} /\ (spc = "eot" => Quiet(down[1]))
    BY <1>1, <1>13, <2>2 DEF Ending
  <2>4. QED  BY <1>8, <1>13, <2>1, <2>3
<1> HIDE DEF n, m, b
<1>14. Ending'
  <2>1. rpc' # "eot" /\ rpc' # "last"  OBVIOUS
  <2>2. QED  BY <1>1, <1>2, <1>3, <1>6, <1>13, <2>1 DEF Ending, Reduced
<1>15. Held'
  <2>1. Sane' => m <= Blocks /\ \A i \in 1 .. m : received'[i] = i  BY <1>6, <1>9
  <2>2. QED  BY <1>2, <2>1 DEF Held, Reduced, m
\* The sender cannot have been answered more often than it asked.
<1>16. ASSUME Sane, spc = "block" PROVE Len(up) + Len(down) <= Room
  <2>1. CASE proto = "ymodem"
    <3>1. Steady  BY <1>16, <2>1 DEF Steady
    <3>2. Len(up) + Len(down) <= 1  BY <1>1, <1>7, <1>16, <2>1, <3>1 DEF Credit
    <3>3. QED  BY <1>2, <1>5, <1>11, <3>2
  <2>2. CASE proto = "xmodem"
    <3>1. Len(up) + Len(down) <= starts  BY <1>1, <1>7, <1>16, <2>2 DEF Credit
    <3>2. QED  BY <1>2, <1>5, <1>11, <2>2, <3>1
  <2>3. QED  BY <2>1, <2>2
<1>17. Ahead'
  <2> SUFFICES ASSUME Sane
               PROVE  /\ expected' = (m + 1) % Wrap /\ m <= blk /\ blk <= m + Room
                      /\ Ordered(down', m, blk)
                      /\ spc = "block" => \A k \in 1 .. Len(up') : up'[k] = "ACK" => blk + k <= m + Room
    BY <1>1, <1>6, <1>11 DEF Ahead, m
  <2>1. m = b /\ n <= m /\ expected' = (m + 1) % Wrap  BY <1>9
  <2>2. m <= blk /\ blk <= m + Room  BY <1>10, <1>11, <1>12, <2>1
  <2>3. ASSUME spc = "block", NEW k \in 1 .. Len(up'), up'[k] = "ACK" PROVE blk + k <= m + Room
    <3>1. CASE k \in 1 .. Len(up)
      <4>1. up[k] = "ACK"  BY <1>5, <2>3, <3>1
      <4>2. blk + k <= n + Room  BY <1>1, <2>3, <3>1, <4>1 DEF Ahead, n
      <4>3. QED  BY <1>5, <1>11, <2>1, <3>1, <4>2
    <3>2. CASE k = Len(up) + 1
      <4>1. Len(up) + Len(down) <= Room  BY <1>16, <2>3
      <4>2. blk <= m + (Len(down) - 1)  BY <1>10, <2>1
      <4>3. QED  BY <1>2, <1>5, <1>11, <3>2, <4>1, <4>2
    <3>3. QED  BY <1>5, <3>1, <3>2
  <2>4. QED  BY <1>10, <2>1, <2>2, <2>3
<1>18. Credit'
  <2>1. Sane /\ proto = "xmodem" => Len(up') + Load(inside', down') <= starts
    BY <1>1, <1>2, <1>5, <1>7, <1>11 DEF Credit
  <2>2. Sane /\ proto = "ymodem" => spc # "header"
    <3>1. Sane /\ proto = "ymodem" /\ spc = "header" => Without("block", down)  BY <1>1 DEF Credit, Steady
    <3>2. 1 \in 1 .. Len(down)  BY <1>2
    <3>3. QED  BY <1>8, <3>1, <3>2 DEF Without
  <2>3. Sane /\ proto = "ymodem" /\ spc \in {"ready", "block"} => Len(up') + Load(inside', down') <= 1
    <3>1. Sane /\ proto = "ymodem" /\ spc \in {"ready", "block"} => Len(up) + Load(inside, down) <= 1
      BY <1>1 DEF Credit, Steady
    <3>2. QED  BY <1>2, <1>5, <1>7, <3>1
  <2>4. QED  BY <1>1, <1>6, <2>1, <2>2, <2>3 DEF Credit
<1>19. Told'
  <2>1. ASSUME Clear, proto = "xmodem", spc \in {"block", "eot"}
        PROVE  /\ Load(inside', down') = 0
               /\ \A k \in 1 .. Len(up') : up'[k] \notin StartBytes => k = Len(up')
    <3>1. /\ Load(inside, down) <= 1
          /\ \A k \in 1 .. Len(up) : up[k] \notin StartBytes => Load(inside, down) = 0
      BY <1>1, <2>1 DEF Told
    <3>2. Load(inside, down) # 0 /\ Load(inside', down') = 0  BY <1>2, <1>7, <3>1
    <3>3. QED  BY <1>5, <3>1, <3>2
  <2>2. ASSUME Clear, spc = "block" PROVE m >= blk
    <3>1. Len(down) <= 1
      <4>1. CASE proto = "ymodem"
        <5>1. Len(up) + Len(down) <= 1  BY <1>6, <1>16, <2>2, <4>1 DEF Room
        <5>2. QED  BY <1>2, <1>5, <5>1
      <4>2. CASE proto = "xmodem"  BY <1>1, <1>7, <2>2, <4>2 DEF Told
      <4>3. QED  BY <4>1, <4>2
    <3>2. blk <= b + (Len(down) - 1) /\ m = b  BY <1>6, <1>9, <1>10, <2>2
    <3>3. QED  BY <1>2, <1>11, <3>1, <3>2
  <2>3. ASSUME Clear, spc \in {"eot", "eot2", "next", "null", "ok"}
        PROVE  m = Blocks \/ (proto = "ymodem" /\ declared \notin {Blocks, Unknown})
    <3>1. proto = "xmodem"
      <4>1. spc \in Late /\ spc # "err"  BY <2>3 DEF Late
      <4>2. proto # "ymodem"  BY <1>6, <1>13, <2>3, <4>1
      <4>3. QED  BY <4>2
    <3>2. n = Blocks  BY <1>1, <2>3, <3>1 DEF Told, n
    <3>3. n <= m /\ m <= Blocks  BY <1>6, <1>9, <2>3
    <3>4. QED  BY <1>11, <3>2, <3>3
  <2>4. QED  BY <1>1, <1>6, <2>1, <2>2, <2>3 DEF Told, m
<1>20. QED  BY <1>2, <1>14, <1>15, <1>17, <1>18, <1>19 DEF TInv

\* The sender starts.
LEMMA SendStartKeeps == TInv /\ SendStart => TInv'
<1> SUFFICES ASSUME TInv, SendStart PROVE TInv'  OBVIOUS
<1>1. /\ TransferTypeOK /\ Beginning /\ Ending /\ Held /\ Ahead /\ Credit /\ Told
      /\ spc = "idle" /\ spc' = "start"
      /\ UNCHANGED <<proto, blk, retries, stale, rpc, inside, starts, expected, received, declared, misread, down, up>>
  BY DEF TInv, SendStart, receiver
<1>2. TransferTypeOK'  BY <1>1 DEF TransferTypeOK
<1>3. Beginning'  BY <1>1 DEF Beginning
<1>4. Ending'  BY <1>1 DEF Ending, Late
<1>5. Held'  BY <1>1 DEF Held, Sane, AnsweredTwice
<1>6. Ahead'  BY <1>1 DEF Ahead, Sane, AnsweredTwice, Room
<1>7. Credit'  BY <1>1 DEF Credit, Sane, AnsweredTwice, Steady
<1>8. Told'  BY <1>1 DEF Told, Clear
<1>9. QED  BY <1>2, <1>3, <1>4, <1>5, <1>6, <1>7, <1>8 DEF TInv

\* The sender waits in vain.
LEMMA SenderTimesOutKeeps == TInv /\ SenderTimesOut => TInv'
<1> SUFFICES ASSUME TInv, SenderTimesOut PROVE TInv'  OBVIOUS
<1>1. /\ TransferTypeOK /\ Beginning /\ Ending /\ Held /\ Ahead /\ Credit /\ Told
      /\ UNCHANGED <<proto, blk, retries, stale, rpc, inside, starts, expected, received, declared, misread, down, up>>
      /\ \/ spc \in {"start", "header", "ready", "block", "eot", "eot2"} /\ spc' = "err"
         \/ spc \in {"next", "null"} /\ spc' = "ok"
  BY DEF TInv, SenderTimesOut, receiver
<1>2. TransferTypeOK'  BY <1>1 DEF TransferTypeOK
<1>3. Beginning'  BY <1>1 DEF Beginning
<1>4. Ending'  BY <1>1 DEF Ending, Late, Sane, AnsweredTwice
<1>5. Held'  BY <1>1 DEF Held, Sane, AnsweredTwice
<1>6. Ahead'  BY <1>1 DEF Ahead, Sane, AnsweredTwice, Room
<1>7. Credit'  BY <1>1 DEF Credit, Sane, AnsweredTwice, Steady
<1>8. Told'  BY <1>1 DEF Told, Clear
<1>9. QED  BY <1>2, <1>3, <1>4, <1>5, <1>6, <1>7, <1>8 DEF TInv

\* A byte of the answers is taken, lost or changed.
LEMMA FewerAnswers ==
  ASSUME TInv, TransferTypeOK', up # <<>>, NEW g \in {0, 1}, Len(up') = Len(up) - g,
         \A k \in 1 .. Len(up') : /\ k + g \in 1 .. Len(up)
                                  /\ up'[k] = "ACK" => up[k + g] = "ACK"
                                  /\ up'[k] \notin StartBytes => up[k + g] \notin StartBytes,
         UNCHANGED <<proto, spc, blk, retries, stale, rpc, inside, starts, expected, received, declared, misread, down>>
  PROVE  TInv'
<1>1. /\ TransferTypeOK /\ Beginning /\ Ending /\ Held /\ Ahead /\ Credit /\ Told
  BY DEF TInv
<1>2. StartsOnly(up) => StartsOnly(up')  BY DEF StartsOnly
<1>3. /\ (Sane' <=> Sane) /\ (Steady' <=> Steady) /\ (Clear' <=> Clear) /\ Room' = Room
  BY DEF Sane, AnsweredTwice, Steady, Clear, Room
<1>4. Len(up) \in Nat /\ Len(up') \in Nat /\ blk \in Nat /\ Len(received) \in Nat /\ Room \in Nat
      /\ Load(inside, down) \in Nat /\ starts \in Nat
  <2>1. Len(up') \in Nat  BY EmptySeq DEF TransferTypeOK
  <2>2. QED  BY <1>1, <2>1, Lengths
<1>5. Beginning'
  <2>1. rpc # "idle"  BY <1>1 DEF Beginning
  <2>2. QED  BY <1>1, <1>2, <2>1 DEF Beginning
<1>6. Ending'
  <2>1. Sane /\ proto = "ymodem" /\ rpc = "data" /\ spc \in Late => spc \in {"eot", "err"} /\ spc # "eot"
    BY <1>1 DEF Ending
  <2>2. QED  BY <1>1, <1>3, <2>1 DEF Ending
<1>7. Held'  BY <1>1, <1>3 DEF Held
<1>8. Ahead'
  <2> SUFFICES ASSUME Sane, rpc \in {"idle", "start", "data"}
               PROVE  /\ expected = (Len(received) + 1) % Wrap
                      /\ Len(received) <= blk /\ blk <= Len(received) + Room
                      /\ Ordered(down, Len(received), blk)
                      /\ spc = "block" => \A k \in 1 .. Len(up') : up'[k] = "ACK" => blk + k <= Len(received) + Room
    BY <1>3 DEF Ahead
  <2>1. /\ expected = (Len(received) + 1) % Wrap
        /\ Len(received) <= blk /\ blk <= Len(received) + Room
        /\ Ordered(down, Len(received), blk)
        /\ spc = "block" => \A k \in 1 .. Len(up) : up[k] = "ACK" => blk + k <= Len(received) + Room
    BY <1>1 DEF Ahead
  <2>2. ASSUME spc = "block", NEW k \in 1 .. Len(up'), up'[k] = "ACK" PROVE blk + k <= Len(received) + Room
    <3>1. blk + (k + g) <= Len(received) + Room  BY <2>1, <2>2
    <3>2. QED  BY <1>4, <3>1
  <2>3. QED  BY <2>1, <2>2
<1>9. Credit'
  <2>1. Sane /\ rpc \in {"idle", "start", "data"} /\ proto = "xmodem" => Len(up') + Load(inside, down) <= starts
    BY <1>1, <1>4 DEF Credit
  <2>2. Steady /\ proto = "ymodem" /\ spc = "header" =>
          /\ Load(inside, down) <= 1 /\ Without("block", down)
          /\ \A k \in 1 .. Len(up') : up'[k] = "ACK" => k >= Len(up') - 1 /\ Load(inside, down) = 0
    <3> SUFFICES ASSUME Steady, proto = "ymodem", spc = "header"
                 PROVE  /\ Load(inside, down) <= 1 /\ Without("block", down)
                        /\ \A k \in 1 .. Len(up') : up'[k] = "ACK" => k >= Len(up') - 1 /\ Load(inside, down) = 0
      OBVIOUS
    <3>1. /\ Load(inside, down) <= 1 /\ Without("block", down)
          /\ \A k \in 1 .. Len(up) : up[k] = "ACK" => k >= Len(up) - 1 /\ Load(inside, down) = 0
      BY <1>1 DEF Credit
    <3>2. ASSUME NEW k \in 1 .. Len(up'), up'[k] = "ACK" PROVE k >= Len(up') - 1 /\ Load(inside, down) = 0
      <4>1. k + g >= Len(up) - 1 /\ Load(inside, down) = 0  BY <3>1, <3>2
      <4>2. QED  BY <1>4, <4>1
    <3>3. QED  BY <3>1, <3>2
  <2>3. Steady /\ proto = "ymodem" /\ spc \in {"ready", "block"} => Len(up') + Load(inside, down) <= 1
    BY <1>1, <1>4 DEF Credit
  <2>4. QED  BY <1>3, <2>1, <2>2, <2>3 DEF Credit
<1>10. Told'
  <2>1. Clear /\ proto = "xmodem" /\ spc \in {"block", "eot"} =>
          /\ Load(inside, down) <= 1
          /\ \A k \in 1 .. Len(up') : up'[k] \notin StartBytes => k = Len(up') /\ Load(inside, down) = 0
    <3> SUFFICES ASSUME Clear, proto = "xmodem", spc \in {"block", "eot"}
                 PROVE  /\ Load(inside, down) <= 1
                        /\ \A k \in 1 .. Len(up') : up'[k] \notin StartBytes => k = Len(up') /\ Load(inside, down) = 0
      OBVIOUS
    <3>1. /\ Load(inside, down) <= 1
          /\ \A k \in 1 .. Len(up) : up[k] \notin StartBytes => k = Len(up) /\ Load(inside, down) = 0
      BY <1>1 DEF Told
    <3>2. ASSUME NEW k \in 1 .. Len(up'), up'[k] \notin StartBytes PROVE k = Len(up') /\ Load(inside, down) = 0
      <4>1. k + g = Len(up) /\ Load(inside, down) = 0  BY <3>1, <3>2
      <4>2. QED  BY <1>4, <4>1
    <3>3. QED  BY <3>1, <3>2
  <2>2. Clear /\ spc = "block" => \A k \in 1 .. Len(up') : up'[k] = "ACK" => Len(received) >= blk
    BY <1>1 DEF Told
  <2>3. QED  BY <1>1, <1>3, <2>1, <2>2 DEF Told
<1>11. QED  BY <1>5, <1>6, <1>7, <1>8, <1>9, <1>10 DEF TInv

\* The log takes an answer that nobody waits for.
LEMMA CapturedKeeps == TInv /\ Captured => TInv'
<1> SUFFICES ASSUME TInv, Captured PROVE TInv'  OBVIOUS
<1>1. /\ TransferTypeOK /\ up # <<>> /\ up' = Tail(up)
      /\ UNCHANGED <<proto, spc, blk, retries, stale, rpc, inside, starts, expected, received, declared, misread, down>>
  BY DEF TInv, Captured, sender, receiver
<1>2. /\ Len(up') = Len(up) - 1 /\ up' \in Seq(AnswerBytes)
      /\ \A k \in 1 .. Len(up') : up'[k] = up[k + 1] /\ k + 1 \in 1 .. Len(up)
  BY <1>1, AnswerTaken
<1>3. TransferTypeOK'  BY <1>1, <1>2 DEF TransferTypeOK
<1>4. \A k \in 1 .. Len(up') : /\ k + 1 \in 1 .. Len(up)
                               /\ up'[k] = "ACK" => up[k + 1] = "ACK"
                               /\ up'[k] \notin StartBytes => up[k + 1] \notin StartBytes
  BY <1>2
<1>5. QED  BY <1>1, <1>2, <1>3, <1>4, FewerAnswers

\* The receiver starts.
LEMMA ReceiveStartKeeps == TInv /\ ReceiveStart => TInv'
<1> SUFFICES ASSUME TInv, ReceiveStart PROVE TInv'  OBVIOUS
<1>1. /\ TransferTypeOK /\ Beginning /\ Ending /\ Held /\ Ahead /\ Credit /\ Told
      /\ rpc = "idle" /\ rpc' = "start" /\ starts' = 1 /\ up' = up \o <<"C">>
      /\ UNCHANGED <<proto, spc, blk, retries, stale, inside, expected, received, declared, misread, down>>
  BY DEF TInv, ReceiveStart, sender, Says
<1>2. "C" \in AnswerBytes /\ "C" \in StartBytes  BY DEF AnswerBytes, StartBytes
<1>3. /\ up' \in Seq(AnswerBytes) /\ Len(up') = Len(up) + 1
      /\ StartsOnly(up) => StartsOnly(up')
  BY <1>1, <1>2, Said
<1>4. TransferTypeOK'  BY <1>1, <1>3 DEF TransferTypeOK
<1>5. /\ up = <<>> /\ down = <<>> /\ ~inside /\ spc \in {"idle", "start", "err"} /\ received = <<>> /\ StartsOnly(up)
  BY <1>1 DEF Beginning
<1>6. StartsOnly(up') /\ Len(up') = 1  BY <1>3, <1>5
<1>7. Load(inside, down) = 0  BY <1>5 DEF Load
<1>8. Beginning'  BY <1>1, <1>5, <1>6 DEF Beginning
<1>9. Ending'  BY <1>1 DEF Ending, Late, Sane, AnsweredTwice
<1>10. Held'  BY <1>1 DEF Held, Sane, AnsweredTwice
<1>11. Ahead'  BY <1>1, <1>5 DEF Ahead, Sane, AnsweredTwice, Room
<1>12. Credit'  BY <1>1, <1>5, <1>6, <1>7 DEF Credit, Sane, AnsweredTwice, Steady
<1>13. Told'  BY <1>1, <1>5 DEF Told, Clear
<1>14. QED  BY <1>4, <1>8, <1>9, <1>10, <1>11, <1>12, <1>13 DEF TInv

\* Another start character, or the end of the attempts.
LEMMA TriesAgain ==
  ASSUME TransferTypeOK, rpc = "start", TryAgain
  PROVE  /\ \/ rpc' = "start" /\ starts' = starts + 1 /\ up' = up \o <<"C">>
            \/ rpc' = "err" /\ UNCHANGED <<starts, up>>
         /\ starts' \in 0 .. MaxRetries /\ up' \in Seq(AnswerBytes)
<1>1. starts \in 0 .. MaxRetries /\ up \in Seq(AnswerBytes)  BY DEF TransferTypeOK
<1>2. CASE starts < MaxRetries /\ starts' = starts + 1 /\ Says(<<"C">>) /\ UNCHANGED rpc
  <2>1. "C" \in AnswerBytes  BY DEF AnswerBytes
  <2>2. up' \in Seq(AnswerBytes)  BY <1>2, <2>1, Said DEF Says
  <2>3. QED  BY <1>1, <1>2, <2>2 DEF Says
<1>3. CASE starts = MaxRetries /\ rpc' = "err" /\ UNCHANGED <<starts, up>>  BY <1>1, <1>3
<1>4. QED  BY <1>2, <1>3 DEF TryAgain

\* The receiver waits in vain.
LEMMA ReceiverTimesOutKeeps == TInv /\ ReceiverTimesOut => TInv'
<1> SUFFICES ASSUME TInv, ReceiverTimesOut PROVE TInv'  OBVIOUS
<1>1. /\ TransferTypeOK /\ down = <<>> /\ down' = <<>> /\ ~inside
      /\ UNCHANGED <<proto, spc, blk, retries, stale, inside, expected, received, declared, misread>>
      /\ \/ rpc = "start" /\ TryAgain
         \/ rpc \in {"data", "eot"} /\ rpc' = "err" /\ UNCHANGED <<starts, up>>
         \/ rpc = "last" /\ rpc' = "ok" /\ UNCHANGED <<starts, up>>
  BY DEF TInv, ReceiverTimesOut, sender
<1>2. SenderRests /\ down' = down  BY <1>1 DEF SenderRests
<1>3. Load(inside', down') = Load(inside, down) /\ Load(inside, down) \in Nat
  BY <1>1, LoadType DEF TransferTypeOK
<1>4. CASE rpc = "start" /\ TryAgain
  <2>1. /\ \/ rpc' = "start" /\ starts' = starts + 1 /\ up' = up \o <<"C">>
           \/ rpc' = "err" /\ UNCHANGED <<starts, up>>
        /\ starts' \in 0 .. MaxRetries /\ up' \in Seq(AnswerBytes)
    BY <1>1, <1>4, TriesAgain
  <2>2. TransferTypeOK'  BY <1>1, <2>1 DEF TransferTypeOK
  <2>3. QED  BY <1>1, <1>2, <1>3, <1>4, <2>1, <2>2, AsksKeeps
<1>5. CASE rpc \in {"data", "eot"} /\ rpc' = "err" /\ UNCHANGED <<starts, up>>
  <2>1. TransferTypeOK'  BY <1>1, <1>5 DEF TransferTypeOK
  <2>2. QED  BY <1>1, <1>2, <1>3, <1>5, <2>1, GivesUpKeeps
<1>6. CASE rpc = "last" /\ rpc' = "ok" /\ UNCHANGED <<starts, up>>
  <2>1. TransferTypeOK'  BY <1>1, <1>6 DEF TransferTypeOK
  <2>2. QED  BY <1>1, <1>2, <1>6, <2>1, ClosingKeeps
<1>7. QED  BY <1>1, <1>4, <1>5, <1>6

\* What a whole block leaves at the receiver has its type.
LEMMA WholeBlockTypes ==
  ASSUME TransferTypeOK, NEW b, b.n \in 0 .. Blocks, b.good \in BOOLEAN, WholeBlock(b)
  PROVE  /\ rpc' \in {"data", "ok", "err"}
         /\ expected' \in 0 .. Wrap - 1 /\ received' \in Seq(0 .. Blocks)
         /\ declared' \in 0 .. Unknown /\ up' \in Seq(AnswerBytes)
<1>1. /\ expected \in 0 .. Wrap - 1 /\ received \in Seq(0 .. Blocks)
      /\ declared \in 0 .. Unknown /\ up \in Seq(AnswerBytes) /\ Wrap \in Nat \ {0}
  BY DEF TransferTypeOK
<1>2. \A x \in AnswerBytes : up' = up \o <<x>> => up' \in Seq(AnswerBytes)  BY Said
<1>3. "ACK" \in AnswerBytes /\ "NAK" \in AnswerBytes /\ "CAN" \in AnswerBytes /\ "C" \in AnswerBytes
  BY DEF AnswerBytes
<1>4. Succ(expected) \in 0 .. Wrap - 1
  <2>1. expected + 1 \in Nat  BY <1>1
  <2>2. QED  BY <1>1, <2>1, DivMod DEF Succ
<1>5. Append(received, b.n) \in Seq(0 .. Blocks)  BY <1>1
<1>6. 0 \in 0 .. Unknown /\ Blocks \in 0 .. Unknown  BY DEF Unknown
<1>7. CASE rpc = "last" /\ NullHeader  BY <1>1, <1>2, <1>3, <1>7 DEF NullHeader, Says, Keeps
<1>8. CASE HeaderBlock(b)
  <2>1. CASE rpc' = "data" /\ Says(<<"ACK", "C">>) /\ Keeps
             /\ declared' \in IF b.good THEN {Blocks} ELSE 0 .. Unknown
    <3>1. up' \in Seq(AnswerBytes)  BY <1>3, <2>1, SaidTwo DEF Says
    <3>2. declared' \in 0 .. Unknown  BY <1>6, <2>1
    <3>3. QED  BY <1>1, <2>1, <3>1, <3>2 DEF Keeps
  <2>2. CASE rpc' = "ok" /\ Says(<<"ACK">>) /\ declared' = 0 /\ Keeps
    BY <1>1, <1>2, <1>3, <1>6, <2>2 DEF Says, Keeps
  <2>3. CASE rpc' = "err" /\ UNCHANGED <<up, declared>> /\ Keeps  BY <1>1, <2>3 DEF Keeps
  <2>4. QED  BY <1>8, <2>1, <2>2, <2>3 DEF HeaderBlock
<1>9. CASE rpc = "data" /\ YmodemBlock(b)
  <2>1. CASE Appends(b.n)  BY <1>1, <1>2, <1>3, <1>4, <1>5, <1>9, <2>1 DEF Appends, Says, YmodemBlock
  <2>2. CASE Says(<<"ACK">>) /\ Keeps  BY <1>1, <1>2, <1>3, <1>9, <2>2 DEF Keeps, Says, YmodemBlock
  <2>3. CASE Says(<<"NAK">>) /\ Keeps  BY <1>1, <1>2, <1>3, <1>9, <2>3 DEF Keeps, Says, YmodemBlock
  <2>4. QED  BY <1>9, <2>1, <2>2, <2>3 DEF YmodemBlock
<1>10. CASE XmodemBlock(b)
  <2>1. rpc' \in {"data", "err"} /\ declared' = declared  BY <1>10 DEF XmodemBlock
  <2>2. /\ expected' \in 0 .. Wrap - 1 /\ received' \in Seq(0 .. Blocks) /\ up' \in Seq(AnswerBytes)
    <3>1. CASE Appends(b.n)  BY <1>1, <1>2, <1>3, <1>4, <1>5, <3>1 DEF Appends, Says
    <3>2. CASE Says(<<"ACK">>) /\ UNCHANGED received
               /\ expected' = IF rpc = "start" THEN Succ(expected) ELSE expected
      BY <1>1, <1>2, <1>3, <1>4, <3>2 DEF Says
    <3>3. CASE Says(<<"CAN">>) /\ Keeps  BY <1>1, <1>2, <1>3, <3>3 DEF Keeps, Says
    <3>4. CASE Says(<<"NAK">>) /\ Keeps  BY <1>1, <1>2, <1>3, <3>4 DEF Keeps, Says
    <3>5. QED  BY <1>10, <3>1, <3>2, <3>3, <3>4 DEF XmodemBlock
  <2>3. QED  BY <1>1, <2>1, <2>2
<1>11. QED  BY <1>7, <1>8, <1>9, <1>10 DEF WholeBlock

\* A block read to its last byte, from its first one or out of step.
LEMMA WholeBlockKeeps ==
  ASSUME TInv, TransferTypeOK', SenderRests, Taken, ~inside', UNCHANGED <<starts, misread>>,
         NEW b, b.n \in 0 .. Blocks, b.good \in BOOLEAN, WholeBlock(b),
         Load(inside', down') < Load(inside, down),
         \/ inside /\ ~b.good
         \/ ~inside /\ down' = Tail(down) /\ b = down[1] /\ b.t \in {"block", "header", "null"}
  PROVE  TInv'
<1>1. /\ TransferTypeOK /\ Ending /\ Beginning /\ proto \in {"xmodem", "ymodem"} /\ down # <<>>
      /\ inside \in BOOLEAN /\ inside' \in BOOLEAN
  BY DEF TInv, TransferTypeOK, Taken
<1>2. inside \/ ~Quiet(down[1])  BY DEF Quiet
<1>3. b.good => /\ ~inside /\ inside' = inside /\ down' = Tail(down) /\ b = down[1]
                /\ down[1].t \in {"block", "header", "null"}
  BY <1>1
<1>4. CASE rpc = "last" /\ NullHeader
  BY <1>4, ClosingKeeps DEF NullHeader, Keeps
<1>5. CASE proto = "ymodem" /\ rpc = "start" /\ HeaderBlock(b)
  <2>1. /\ \/ rpc' = "data" /\ up' = up \o <<"ACK", "C">>
           \/ rpc' = "ok" /\ up' = up \o <<"ACK">>
           \/ rpc' = "err" /\ up' = up
        /\ UNCHANGED <<expected, received>>
    BY <1>5 DEF HeaderBlock, Says, Keeps
  <2>2. QED  BY <1>5, <2>1, HeaderKeeps
<1>6. CASE proto = "ymodem" /\ rpc = "data" /\ YmodemBlock(b)
  <2>1. UNCHANGED <<rpc, declared>>  BY <1>6 DEF YmodemBlock
  <2>2. CASE ~b.good
    <3>1. up' = up \o <<"NAK">> /\ UNCHANGED <<expected, received>>
      BY <1>6, <2>2 DEF YmodemBlock, Says, Keeps
    <3>2. QED  BY <1>2, <1>6, <2>1, <3>1, RefusalKeeps
  <2>3. CASE b.good /\ Number(b.n) = expected /\ Appends(b.n)
    <3>1. /\ received' = Append(received, down[1].n) /\ expected' = Succ(expected) /\ up' = up \o <<"ACK">>
      BY <1>3, <2>3 DEF Appends, Says
    <3>2. Sane => down[1].n = Len(received) + 1  BY <1>1, <1>3, <1>6, <2>3, Position
    <3>3. QED  BY <1>1, <1>3, <1>6, <2>1, <2>3, <3>1, <3>2, BlockKeeps
  <2>4. CASE b.good /\ Number(b.n) # expected /\ Says(<<"ACK">>) /\ Keeps
    <3>1. received' = received /\ expected' = expected /\ up' = up \o <<"ACK">>
      BY <2>4 DEF Keeps, Says
    <3>2. Sane => down[1].n = Len(received)  BY <1>1, <1>3, <1>6, <2>4, Position
    <3>3. QED  BY <1>1, <1>3, <1>6, <2>1, <2>4, <3>1, <3>2, BlockKeeps
  <2>5. QED  BY <1>6, <2>2, <2>3, <2>4 DEF YmodemBlock
<1>7. CASE proto = "xmodem" /\ rpc \in {"start", "data"} /\ XmodemBlock(b)
  <2> DEFINE first == rpc = "start"
             new == Number(b.n) = expected
             again == Succ(Number(b.n)) = expected
  <2>1. /\ declared' = declared
        /\ rpc' = IF first /\ (~b.good \/ ~(new \/ again)) THEN "err" ELSE "data"
        /\ \/ b.good /\ new /\ Appends(b.n)
           \/ /\ b.good /\ again /\ Says(<<"ACK">>) /\ UNCHANGED received
              /\ expected' = IF first THEN Succ(expected) ELSE expected
           \/ b.good /\ ~new /\ ~again /\ Says(<<"CAN">>) /\ Keeps
           \/ ~b.good /\ Says(<<"NAK">>) /\ Keeps
    BY <1>7 DEF XmodemBlock
  <2>2. CASE b.good /\ new /\ Appends(b.n)
    <3>1. /\ received' = Append(received, down[1].n) /\ expected' = Succ(expected) /\ up' = up \o <<"ACK">>
      BY <1>3, <2>2 DEF Appends, Says
    <3>2. Sane => down[1].n = Len(received) + 1  BY <1>1, <1>3, <1>7, <2>2, Position
    <3>3. rpc' = "data"  BY <2>1, <2>2
    <3>4. QED  BY <1>1, <1>3, <1>7, <2>1, <2>2, <3>1, <3>2, <3>3, BlockKeeps
  <2>3. CASE /\ b.good /\ again /\ Says(<<"ACK">>) /\ UNCHANGED received
             /\ expected' = IF first THEN Succ(expected) ELSE expected
    <3>1. received' = received /\ up' = up \o <<"ACK">>  BY <2>3 DEF Says
    <3>2. Sane => down[1].n = Len(received) /\ rpc # "start"  BY <1>1, <1>3, <1>7, <2>3, Position
    <3>3. rpc' = "data"  BY <2>1, <2>3
    <3>4. Sane => expected' = expected  BY <2>3, <3>2
    <3>5. QED  BY <1>1, <1>3, <1>7, <2>1, <2>3, <3>1, <3>2, <3>3, <3>4, BlockKeeps
  <2>4. CASE \E x \in {"NAK", "CAN"} : Says(<<x>>) /\ Keeps
    <3>1. PICK x \in {"NAK", "CAN"} : Says(<<x>>) /\ Keeps  BY <2>4
    <3>2. up' = up \o <<x>> /\ UNCHANGED <<expected, received>>  BY <3>1 DEF Says, Keeps
    <3>3. rpc' \in {"data", "err"}  BY <2>1
    <3>4. QED  BY <1>2, <1>7, <2>1, <3>2, <3>3, RefusalKeeps
  <2>5. QED  BY <2>1, <2>2, <2>3, <2>4
<1>8. QED  BY <1>4, <1>5, <1>6, <1>7 DEF WholeBlock

\* A whole token is a block of the file, or has no number.
LEMMA WholeToken ==
  ASSUME NEW b \in Tokens, b.t # "rest"
  PROVE  b.n \in 0 .. Blocks
<1>1. b.t = "block" => b.n \in 1 .. Blocks  BY TokenShape
<1>2. b.t # "block" => b.n = 0
  <2>1. CASE b \in {Block(i, ok) : i \in 1 .. Blocks, ok \in BOOLEAN}  BY <2>1 DEF Block
  <2>2. CASE b \in {Header(ok) : ok \in BOOLEAN}  BY <2>2 DEF Header
  <2>3. CASE b \in {Control(c) : c \in {"EOT", "null", "short", "noise"}}  BY <2>3 DEF Control
  <2>4. CASE b \in {Rest(k) : k \in 0 .. RestMax}  BY <2>4 DEF Rest
  <2>5. QED  BY <2>1, <2>2, <2>3, <2>4 DEF Tokens
<1>3. QED  BY <1>1, <1>2

\* A block or a header is read.
LEMMA ReadBlockKeeps == TInv /\ ReadBlock => TInv'
<1> SUFFICES ASSUME TInv, ReadBlock PROVE TInv'  OBVIOUS
<1> DEFINE b == down[1]
<1>1. /\ TransferTypeOK /\ Held /\ down # <<>> /\ ~inside /\ down' = Tail(down)
      /\ Head(down).t \in {"block", "header", "null"} /\ WholeBlock(Head(down))
      /\ UNCHANGED <<proto, spc, blk, retries, stale, inside, starts, misread>>
  BY DEF TInv, ReadBlock, sender
<1>2. Taken /\ SenderRests  BY <1>1 DEF Taken, SenderRests
<1>3. Reduced /\ b \in Tokens /\ Head(down) = b /\ Len(down) \in Nat  BY <1>1, <1>2, TakenReduced
<1>4. b.n \in 0 .. Blocks /\ b.good \in BOOLEAN /\ b.t \in WholeTypes
  <2>1. b.t # "rest"  BY <1>1, <1>3
  <2>2. b.n \in 0 .. Blocks  BY <1>3, <2>1, WholeToken
  <2>3. b.good \in BOOLEAN  BY <1>3, TokenShape
  <2>4. b.t \in WholeTypes  BY <1>1, <1>3 DEF WholeTypes
  <2>5. QED  BY <2>2, <2>3, <2>4
<1>5. WholeBlock(b)  BY <1>1, <1>3
<1>6. TransferTypeOK'
  <2>1. /\ rpc' \in {"data", "ok", "err"}
        /\ expected' \in 0 .. Wrap - 1 /\ received' \in Seq(0 .. Blocks)
        /\ declared' \in 0 .. Unknown /\ up' \in Seq(AnswerBytes)
    BY <1>1, <1>4, <1>5, WholeBlockTypes
  <2>2. down' \in Seq(Tokens)  BY <1>3 DEF Reduced
  <2>3. QED  BY <1>1, <2>1, <2>2 DEF TransferTypeOK
<1>7. Load(inside', down') < Load(inside, down)
  <2>1. HeadLoad(inside, b) = 1 /\ inside = FALSE /\ inside' = FALSE
    BY <1>1, <1>3, <1>4, HeadLoadType DEF TransferTypeOK
  <2>2. /\ Load(inside', down') = (IF inside' THEN 1 ELSE 0) + (Len(down) - 1)
        /\ Load(inside, down) = (IF inside THEN 1 ELSE 0) + (Len(down) - 1) + HeadLoad(inside, b)
    BY <1>1, <2>1, TakenLoad
  <2>3. QED  BY <1>3, <2>1, <2>2
<1>8. QED  BY <1>1, <1>2, <1>3, <1>4, <1>5, <1>6, <1>7, WholeBlockKeeps

\* A block that lost a byte is read.
LEMMA ReadShortKeeps == TInv /\ ReadShort => TInv'
<1> SUFFICES ASSUME TInv, ReadShort PROVE TInv'  OBVIOUS
<1> DEFINE b == down[1]
<1>1. /\ TransferTypeOK /\ Held /\ down # <<>> /\ ~inside /\ inside' = TRUE /\ down' = Tail(down)
      /\ Head(down).t = "short" /\ TakesBlocks
      /\ UNCHANGED <<proto, spc, blk, retries, stale, rpc, starts, expected, received, declared, misread, up>>
  BY DEF TInv, ReadShort, sender
<1>2. Taken /\ SenderRests  BY <1>1 DEF Taken, SenderRests
<1>3. Reduced /\ b \in Tokens /\ Head(down) = b /\ Len(down) \in Nat /\ Len(down) >= 1  BY <1>1, <1>2, TakenReduced
<1>4. TransferTypeOK'  BY <1>1, <1>3 DEF TransferTypeOK, Reduced
<1>5. Load(inside', down') <= Load(inside, down)
  <2>1. HeadLoad(inside, b) = 1  BY <1>1, <1>3 DEF HeadLoad
  <2>2. inside = FALSE  BY <1>1 DEF TransferTypeOK
  <2>3. /\ Load(inside', down') = (IF inside' THEN 1 ELSE 0) + (Len(down) - 1)
        /\ Load(inside, down) = (IF inside THEN 1 ELSE 0) + (Len(down) - 1) + HeadLoad(inside, b)
    BY <1>1, TakenLoad
  <2>4. Load(inside', down') = 1 + (Len(down) - 1)  BY <1>1, <2>3
  <2>5. Load(inside, down) = 0 + (Len(down) - 1) + HeadLoad(inside, b)  BY <2>2, <2>3
  <2>6. QED  BY <1>3, <2>1, <2>4, <2>5
<1>6. ~Quiet(b) /\ 1 \in 1 .. Len(down)  BY <1>1, <1>3 DEF Quiet
<1>7. rpc # "eot"  BY <1>1 DEF TakesBlocks
<1>8. QED  BY <1>1, <1>2, <1>4, <1>5, <1>6, <1>7, StaysKeeps

\* What follows the first bytes of a token, and what it owes.
LEMMA RemainsShape ==
  ASSUME NEW d \in Tokens, NEW q \in Seq(Tokens)
  PROVE  \/ Remains(d) \o q = q /\ (d.t \in {"EOT", "noise"} \/ (d.t = "rest" /\ d.n = 0))
         \/ \E k \in 0 .. RestMax : /\ Remains(d) \o q = <<Rest(k)>> \o q
                                    /\ d.t \notin {"EOT", "noise"} /\ (d.t = "rest" => d.n = k + 1)
<1>1. <<>> \o q = q  BY ConcatEmptySeq
<1>2. d.n \in Nat /\ (d.t = "rest" => d.n <= RestMax)  BY TokenShape
<1>3. CASE d.t \in {"EOT", "noise"}
  <2>1. Remains(d) = <<>>  BY <1>3 DEF Remains
  <2>2. QED  BY <1>1, <1>3, <2>1
<1>4. CASE d.t = "rest" /\ d.n = 0
  <2>1. Remains(d) = <<>>  BY <1>4 DEF Remains
  <2>2. QED  BY <1>1, <1>4, <2>1
<1>5. CASE d.t = "rest" /\ d.n > 0
  <2>1. Remains(d) = <<Rest(d.n - 1)>>  BY <1>5 DEF Remains
  <2>2. d.n - 1 \in 0 .. RestMax /\ d.n = (d.n - 1) + 1  BY <1>2, <1>5
  <2>3. QED  BY <1>5, <2>1, <2>2
<1>6. CASE d.t \notin {"EOT", "noise", "rest"}
  <2>1. Remains(d) = <<Rest(RestMax)>>  BY <1>6 DEF Remains
  <2>2. RestMax \in 0 .. RestMax  OBVIOUS
  <2>3. QED  BY <1>6, <2>1, <2>2
<1>7. d.t = "rest" => d.n = 0 \/ d.n > 0  BY <1>2
<1>8. CASE d.t = "rest"  BY <1>4, <1>5, <1>7, <1>8
<1>9. CASE d.t # "rest"  BY <1>3, <1>6, <1>9
<1>10. QED  BY <1>8, <1>9

\* The rest of a block is read from what follows it.
LEMMA ReadOnKeeps == TInv /\ ReadOn => TInv'
<1> SUFFICES ASSUME TInv, ReadOn PROVE TInv'  OBVIOUS
<1> DEFINE d == down[1]
           b == Block(1, FALSE)
<1>1. /\ TransferTypeOK /\ Held /\ Ending /\ down # <<>> /\ inside = TRUE /\ down \in Seq(Tokens)
      /\ UNCHANGED <<proto, spc, blk, retries, stale, starts, misread>>
  BY DEF TInv, ReadOn, sender, TransferTypeOK
<1>2. d \in Tokens /\ Head(down) = d /\ Len(down) \in Nat /\ Len(down) >= 1 /\ Tail(down) \in Seq(Tokens)
  BY <1>1, LineEnds, TailLine
<1>3. SenderRests  BY <1>1 DEF SenderRests
<1>4. HeadLoad(inside, d) \in Nat
  <2>1. HeadLoad(inside, d) \in {0, 1}  BY <1>1, <1>2, HeadLoadType
  <2>2. QED  BY <2>1
<1>5. Load(inside, down) = 1 + (Len(down) - 1) + HeadLoad(inside, d)
  <2>1. Load(inside, down) = (IF inside THEN 1 ELSE 0) + (Len(down) - 1) + HeadLoad(inside, d)
    BY <1>1, LoadType DEF TransferTypeOK
  <2>2. QED  BY <1>1, <2>1
<1>6. CASE UNCHANGED <<inside, rpc, expected, received, declared, up>> /\ down' = Tail(down)
  <2>1. Taken  BY <1>1, <1>6 DEF Taken
  <2>2. TransferTypeOK'  BY <1>1, <1>2, <1>6 DEF TransferTypeOK
  <2>3. Load(inside', down') <= Load(inside, down)
    <3>1. inside' = TRUE  BY <1>1, <1>6
    <3>2. Load(inside', down') = (IF inside' THEN 1 ELSE 0) + (Len(down) - 1)  BY <1>1, <1>6, <3>1, TakenLoad
    <3>3. Load(inside', down') = 1 + (Len(down) - 1)  BY <3>1, <3>2
    <3>4. QED  BY <1>2, <1>4, <1>5, <3>3
  <2>4. rpc # "eot"  BY <1>1 DEF Ending
  <2>5. QED  BY <1>1, <1>3, <1>6, <2>1, <2>2, <2>3, <2>4, StaysKeeps
<1>7. CASE inside' = FALSE /\ WholeBlock(b) /\ down' = Remains(Head(down)) \o Tail(down)
  <2>1. \/ down' = Tail(down)
        \/ \E k \in 0 .. RestMax : /\ down' = <<Rest(k)>> \o Tail(down)
                                   /\ d.t \notin {"EOT", "noise"} /\ (d.t = "rest" => d.n = k + 1)
    BY <1>2, <1>7, RemainsShape
  <2>2. Taken  BY <1>1, <2>1 DEF Taken
  <2>3. Reduced  BY <1>1, <2>2, TakenReduced
  <2>4. Load(inside', down') < Load(inside, down)
    <3>1. CASE down' = Tail(down)
      <4>1. Load(inside', down') = (IF inside' THEN 1 ELSE 0) + (Len(down) - 1)  BY <1>1, <1>7, <3>1, TakenLoad
      <4>2. Load(inside', down') = 0 + (Len(down) - 1)  BY <1>7, <4>1
      <4>3. QED  BY <1>2, <1>4, <1>5, <4>2
    <3>2. CASE \E k \in 0 .. RestMax : /\ down' = <<Rest(k)>> \o Tail(down)
                                       /\ d.t \notin {"EOT", "noise"} /\ (d.t = "rest" => d.n = k + 1)
      <4>1. PICK k \in 0 .. RestMax : /\ down' = <<Rest(k)>> \o Tail(down)
                                      /\ d.t \notin {"EOT", "noise"} /\ (d.t = "rest" => d.n = k + 1)
        BY <3>2
      <4>2. Load(inside', down') = (IF inside' THEN 1 ELSE 0) + (Len(down) - 1) + HeadLoad(inside', Rest(k))
        BY <1>1, <1>7, <4>1, TakenLoad
      <4>3. Load(inside', down') = 0 + (Len(down) - 1) + HeadLoad(inside', Rest(k))  BY <1>7, <4>2
      <4>4. Rest(k) \in Tokens /\ Rest(k).t = "rest" /\ Rest(k).n = k  BY WholeTokens
      <4>5. HeadLoad(inside', Rest(k)) = IF RestMax > 2 \/ k = 0 THEN 0 ELSE 1  BY <1>7, <4>4 DEF HeadLoad
      <4>6. HeadLoad(inside', Rest(k)) <= HeadLoad(inside, d)
        <5>1. CASE d.t = "rest"
          <6>1. HeadLoad(inside, d) = IF RestMax > 2 \/ d.n = 0 \/ d.n = 1 THEN 0 ELSE 1  BY <1>1, <5>1 DEF HeadLoad
          <6>2. d.n = k + 1  BY <4>1, <5>1
          <6>3. QED  BY <4>5, <6>1, <6>2
        <5>2. CASE d.t # "rest"
          <6>1. HeadLoad(inside, d) = 1  BY <4>1, <5>2 DEF HeadLoad
          <6>2. QED  BY <4>5, <6>1
        <5>3. QED  BY <5>1, <5>2
      <4>7. HeadLoad(inside', Rest(k)) \in Nat  BY <4>5
      <4>8. QED  BY <1>2, <1>4, <1>5, <4>3, <4>6, <4>7
    <3>3. QED  BY <2>1, <3>1, <3>2
  <2>5. b.n \in 0 .. Blocks /\ b.good = FALSE  BY DEF Block
  <2> HIDE DEF b
  <2>6. TransferTypeOK'
    <3>1. /\ rpc' \in {"data", "ok", "err"}
          /\ expected' \in 0 .. Wrap - 1 /\ received' \in Seq(0 .. Blocks)
          /\ declared' \in 0 .. Unknown /\ up' \in Seq(AnswerBytes)
      BY <1>1, <1>7, <2>5, WholeBlockTypes
    <3>2. down' \in Seq(Tokens)  BY <2>3 DEF Reduced
    <3>3. QED  BY <1>1, <1>7, <3>1, <3>2 DEF TransferTypeOK
  <2>7. QED  BY <1>1, <1>3, <1>7, <2>2, <2>4, <2>5, <2>6, WholeBlockKeeps
<1>8. QED  BY <1>6, <1>7 DEF ReadOn

\* The next bytes to the receiver are changed or lost.
LEMMA DamageKeeps ==
  ASSUME TInv, down # <<>>,
         \/ down' = Tail(down) /\ down[1].t = "EOT"
         \/ \E y \in Tokens : /\ down' = <<y>> \o Tail(down)
                              /\ down[1].t \in WholeTypes /\ y.t \notin {"EOT", "null"}
                              /\ y.t = "block" => down[1].t = "block" /\ y.n = down[1].n
                              /\ y.t = "header" => down[1].t = "header"
                              /\ down[1].t = "EOT" => y.t = "noise",
         UNCHANGED <<proto, spc, blk, retries, stale, rpc, inside, starts, expected, received, declared, misread, up>>
  PROVE  TInv'
<1> DEFINE d == down[1]
<1>1. /\ TransferTypeOK /\ Beginning /\ Ending /\ Held /\ Ahead /\ Credit /\ Told
      /\ down \in Seq(Tokens) /\ Followers(down) /\ inside \in BOOLEAN /\ inside' = inside
  BY DEF TInv, TransferTypeOK, Held
<1>2. d \in Tokens /\ Len(down) \in Nat /\ Len(down) >= 1 /\ 1 \in 1 .. Len(down)  BY <1>1, LineEnds
<1>3. d.t \in WholeTypes  BY DEF WholeTypes
<1>4. HeadLoad(inside, d) = 1  BY <1>1, <1>2, <1>3, HeadLoadType
<1>5. Load(inside, down) = (IF inside THEN 1 ELSE 0) + (Len(down) - 1) + 1  BY <1>1, <1>4, LoadType
<1>6. (IF inside THEN 1 ELSE 0) \in Nat  BY <1>1
<1>7. /\ down' \in Seq(Tokens) /\ Followers(down')
      /\ Load(inside, down') \in Nat /\ Load(inside, down') <= Load(inside, down)
      /\ \A low \in Nat, high \in Nat : Ordered(down, low, high) => Ordered(down', low, high)
      /\ \A type \in WholeTypes : Without(type, down) => Without(type, down')
      /\ Without("header", down') \/ Len(down') = Len(down)
      /\ down' # <<>> \/ d.t = "EOT"
      /\ (\A k \in 1 .. Len(down) : Quiet(down[k])) => \A k \in 1 .. Len(down') : Quiet(down'[k])
  <2>1. CASE down' = Tail(down) /\ d.t = "EOT"
    <3>0. Taken  BY <2>1 DEF Taken
    <3>1. Reduced /\ (Len(down) = 1 => \A type \in WholeTypes : Without(type, down'))
      BY <1>1, <3>0, TakenReduced
    <3>2. Load(inside, Tail(down)) = (IF inside THEN 1 ELSE 0) + (Len(down) - 1)  BY <1>1, TailLoad
    <3>3. Load(inside, down') \in Nat /\ Load(inside, down') <= Load(inside, down)
      BY <1>2, <1>5, <1>6, <2>1, <3>2
    <3>4. /\ Len(Tail(down)) = Len(down) - 1
          /\ \A k \in 1 .. Len(Tail(down)) : Tail(down)[k] = down[k + 1] /\ k + 1 \in 2 .. Len(down)
      BY <1>1, TailLine
    <3>5. \A k \in 1 .. Len(Tail(down)) : k + 1 \in 1 .. Len(down)  BY <1>2, <3>4
    <3>6. (\A k \in 1 .. Len(down) : Quiet(down[k])) => \A k \in 1 .. Len(down') : Quiet(down'[k])
      BY <2>1, <3>4, <3>5
    <3>7. Without("header", down')
      <4>1. Without("header", down) \/ Len(down) = 1  BY <1>1 DEF Beginning
      <4>2. "header" \in WholeTypes  BY DEF WholeTypes
      <4>3. QED  BY <3>1, <4>1, <4>2 DEF Reduced
    <3>8. QED  BY <2>1, <3>1, <3>3, <3>6, <3>7 DEF Reduced
  <2>2. CASE \E y \in Tokens : /\ down' = <<y>> \o Tail(down)
                               /\ d.t \in WholeTypes /\ y.t \notin {"EOT", "null"}
                               /\ y.t = "block" => d.t = "block" /\ y.n = d.n
                               /\ y.t = "header" => d.t = "header"
                               /\ d.t = "EOT" => y.t = "noise"
    <3>0. PICK y \in Tokens : /\ down' = <<y>> \o Tail(down)
                              /\ d.t \in WholeTypes /\ y.t \notin {"EOT", "null"}
                              /\ y.t = "block" => d.t = "block" /\ y.n = d.n
                              /\ y.t = "header" => d.t = "header"
                              /\ d.t = "EOT" => y.t = "noise"
      BY <2>2
    <3>1. /\ down' \in Seq(Tokens) /\ Len(down') = Len(down) /\ down'[1] = y
          /\ \A k \in 2 .. Len(down) : down'[k] = down[k]
      BY <1>1, <3>0, FrontLine
    <3>2. /\ Load(inside, down') = (IF inside THEN 1 ELSE 0) + (Len(down) - 1) + HeadLoad(inside, y)
          /\ Followers(down')
      BY <1>1, <3>0, FrontLoad
    <3>3. HeadLoad(inside, y) \in Nat /\ HeadLoad(inside, y) <= 1
      <4>1. HeadLoad(inside, y) \in {0, 1}  BY <1>1, HeadLoadType
      <4>2. QED  BY <4>1
    <3>4. Load(inside, down') \in Nat /\ Load(inside, down') <= Load(inside, down)
      BY <1>2, <1>5, <1>6, <3>2, <3>3
    <3>5. ASSUME NEW low \in Nat, NEW high \in Nat, Ordered(down, low, high) PROVE Ordered(down', low, high)
      BY <1>1, <3>0, <3>5, FrontOrder
    <3>6. \A k \in 1 .. Len(down) : k = 1 \/ k \in 2 .. Len(down)  BY <1>2
    <3>7. ASSUME NEW type \in WholeTypes, Without(type, down) PROVE Without(type, down')
      <4>1. d.t # type  BY <1>2, <3>7 DEF Without
      <4>2. y.t # type  BY <3>0, <4>1 DEF WholeTypes
      <4>3. \A k \in 1 .. Len(down') : down'[k].t # type  BY <3>1, <3>6, <3>7, <4>2 DEF Without
      <4>4. QED  BY <4>3 DEF Without
    <3>8. ASSUME \A k \in 1 .. Len(down) : Quiet(down[k]), NEW k \in 1 .. Len(down') PROVE Quiet(down'[k])
      <4>1. d.t = "EOT"  BY <1>2, <1>3, <3>8 DEF Quiet, WholeTypes
      <4>2. Quiet(y)  BY <3>0, <4>1 DEF Quiet
      <4>3. QED  BY <3>1, <3>6, <3>8, <4>2
    <3>9. down' # <<>>  BY <1>2, <3>1, LineEnds
    <3>10. QED  BY <3>1, <3>2, <3>4, <3>5, <3>7, <3>8, <3>9
  <2>3. QED  BY <2>1, <2>2
<1>8. /\ (Sane' <=> Sane) /\ (Steady' <=> Steady) /\ (Clear' <=> Clear) /\ Room' = Room
  BY DEF Sane, AnsweredTwice, Steady, Clear, Room
<1>9. TransferTypeOK'  BY <1>1, <1>7 DEF TransferTypeOK
<1>10. "EOT" \in WholeTypes /\ "null" \in WholeTypes /\ "block" \in WholeTypes /\ "header" \in WholeTypes
  BY DEF WholeTypes
<1>11. Beginning'
  <2>1. spc \notin {"idle", "start"} /\ rpc # "idle"  BY <1>1 DEF Beginning
  <2>2. \/ Without("header", down')
        \/ /\ Len(down') = 1 /\ rpc \in {"start", "err"} /\ spc \in {"header", "err"}
           /\ proto = "ymodem" /\ StartsOnly(up)
    BY <1>1, <1>7, <1>10 DEF Beginning
  <2>3. QED  BY <1>1, <2>1, <2>2 DEF Beginning
<1>12. Ending'
  <2>1. d.t = "EOT" => spc \in Late  BY <1>1, <1>2 DEF Ending, Without
  <2>2. rpc = "eot" => ~inside /\ (spc \in Late \/ down' # <<>>)  BY <1>1, <1>7, <2>1 DEF Ending
  <2>3. ASSUME Sane, proto = "ymodem", rpc = "data", spc \in Late
        PROVE  /\ spc \in {"eot", "err"}
               /\ spc = "eot" => /\ up = <<>> /\ ~inside /\ Load(inside, down') <= 1
                                 /\ \A k \in 1 .. Len(down') : Quiet(down'[k])
    <3>1. /\ spc \in {"eot", "err"}
          /\ spc = "eot" => /\ up = <<>> /\ ~inside /\ Load(inside, down) <= 1
                            /\ \A k \in 1 .. Len(down) : Quiet(down[k])
      BY <1>1, <2>3 DEF Ending
    <3>2. Load(inside, down) \in Nat  BY <1>1, LoadType
    <3>3. Load(inside, down) <= 1 => Load(inside, down') <= 1  BY <1>7, <3>2
    <3>4. QED  BY <1>7, <3>1, <3>3
  <2>4. QED  BY <1>1, <1>7, <1>8, <1>10, <2>2, <2>3 DEF Ending
<1>13. Held'  BY <1>1, <1>7, <1>8 DEF Held
<1>14. Ahead'
  <2>1. blk \in Nat /\ Len(received) \in Nat  BY <1>1, Lengths
  <2>2. QED  BY <1>1, <1>7, <1>8, <2>1 DEF Ahead
<1>15. Load(inside, down) \in Nat /\ Len(up) \in Nat /\ starts \in Nat  BY <1>1, Lengths
<1>16. Credit'
  <2>1. Sane /\ rpc \in {"idle", "start", "data"} /\ proto = "xmodem" => Len(up) + Load(inside, down') <= starts
    BY <1>1, <1>7, <1>15 DEF Credit
  <2>2. Steady /\ proto = "ymodem" /\ spc = "header" =>
       /\ Load(inside, down') <= 1 /\ Without("block", down')
       /\ \A k \in 1 .. Len(up) : up[k] = "ACK" => k >= Len(up) - 1 /\ Load(inside, down') = 0
    BY <1>1, <1>7, <1>10, <1>15 DEF Credit
  <2>3. Steady /\ proto = "ymodem" /\ spc \in {"ready", "block"} => Len(up) + Load(inside, down') <= 1
    BY <1>1, <1>7, <1>15 DEF Credit
  <2>4. QED  BY <1>1, <1>8, <2>1, <2>2, <2>3 DEF Credit
<1>17. Told'
  <2>1. Clear /\ proto = "xmodem" /\ spc \in {"block", "eot"} =>
          /\ Load(inside, down') <= 1
          /\ \A k \in 1 .. Len(up) : up[k] \notin StartBytes => k = Len(up) /\ Load(inside, down') = 0
    BY <1>1, <1>7, <1>15 DEF Told
  <2>2. QED  BY <1>1, <1>8, <2>1 DEF Told
<1>18. QED  BY <1>9, <1>11, <1>12, <1>13, <1>14, <1>16, <1>17 DEF TInv

\* What becomes of the head of the line.
LEMMA HitHead ==
  ASSUME TransferTypeOK, down # <<>>, \E d \in Damaged(Head(down)) : down' = d \o Tail(down)
  PROVE  /\ down[1].t \in WholeTypes
         /\ \/ down' = Tail(down) /\ down[1].t = "EOT"
            \/ \E y \in Tokens : /\ down' = <<y>> \o Tail(down) /\ y.t \notin {"EOT", "null"}
                                 /\ y.t = "block" => down[1].t = "block" /\ y.n = down[1].n
                                 /\ y.t = "header" => down[1].t = "header"
                                 /\ down[1].t = "EOT" => y.t = "noise"
<1> DEFINE h == down[1]
<1>1. h \in Tokens /\ Head(down) = h /\ Tail(down) \in Seq(Tokens)  BY LineEnds, TailLine DEF TransferTypeOK
<1>2. <<>> \o Tail(down) = Tail(down)  BY <1>1, ConcatEmptySeq
<1>3. PICK d \in Damaged(h) : down' = d \o Tail(down)  BY <1>1
<1>4. Short \in Tokens /\ Short.t = "short" /\ Rest(RestMax) \in Tokens /\ Rest(RestMax).t = "rest"
      /\ Control("noise") \in Tokens /\ Control("noise").t = "noise"
      /\ Header(FALSE) \in Tokens /\ Header(FALSE).t = "header"
  <2>1. "short" \in {"EOT", "null", "short", "noise"} /\ "noise" \in {"EOT", "null", "short", "noise"}
        /\ FALSE \in BOOLEAN /\ RestMax \in 0 .. RestMax
    OBVIOUS
  <2>2. Control("short") \in Tokens /\ Control("short").t = "short"
        /\ Control("noise") \in Tokens /\ Control("noise").t = "noise"
    BY <2>1, WholeTokens
  <2>3. Header(FALSE) \in Tokens /\ Header(FALSE).t = "header"  BY <2>1, WholeTokens
  <2>4. Rest(RestMax) \in Tokens /\ Rest(RestMax).t = "rest"  BY <2>1, WholeTokens
  <2>5. QED  BY <2>2, <2>3, <2>4 DEF Short
<1>5. h.t \in {"block", "header", "null", "EOT"}
      /\ \/ h.t = "block" /\ d \in {<<Block(h.n, FALSE)>>, <<Short>>, <<Rest(RestMax)>>}
         \/ h.t = "header" /\ d \in {<<Header(FALSE)>>, <<Short>>, <<Rest(RestMax)>>}
         \/ h.t = "null" /\ d \in {<<Short>>, <<Rest(RestMax)>>}
         \/ h.t = "EOT" /\ d \in {<<Control("noise")>>, <<>>}
  <2>1. CASE h.t = "block"  BY <1>3, <2>1 DEF Damaged
  <2>2. CASE h.t = "header"  BY <1>3, <2>2 DEF Damaged
  <2>3. CASE h.t = "null"  BY <1>3, <2>3 DEF Damaged
  <2>4. CASE h.t = "EOT"  BY <1>3, <2>4 DEF Damaged
  <2>5. CASE h.t \notin {"block", "header", "null", "EOT"}  BY <1>3, <2>5 DEF Damaged
  <2>6. QED  BY <2>1, <2>2, <2>3, <2>4, <2>5
<1>6. h.t = "block" => /\ Block(h.n, FALSE) \in Tokens /\ Block(h.n, FALSE).t = "block"
                       /\ Block(h.n, FALSE).n = h.n
  BY <1>1, TokenShape, WholeTokens
<1>7. h.t \in WholeTypes  BY <1>5 DEF WholeTypes
<1>8. CASE d = <<>>  BY <1>2, <1>3, <1>5, <1>7, <1>8
<1>9. CASE d # <<>>
  <2>1. PICK y \in Tokens : /\ d = <<y>> /\ y.t \notin {"EOT", "null"}
                            /\ y.t = "block" => h.t = "block" /\ y.n = h.n
                            /\ y.t = "header" => h.t = "header"
                            /\ h.t = "EOT" => y.t = "noise"
    BY <1>4, <1>5, <1>6, <1>9
  <2>2. QED  BY <1>3, <1>7, <2>1
<1>10. QED  BY <1>8, <1>9

\* An end of file does not come from damage.
LEMMA HitLineEnds ==
  ASSUME TransferTypeOK, down # <<>>, \E d \in Damaged(Head(down)) : down' = d \o Tail(down),
         Without("EOT", down)
  PROVE  Without("EOT", down')
<1>1. down \in Seq(Tokens)  BY DEF TransferTypeOK
<1>2. /\ Len(Tail(down)) = Len(down) - 1 /\ Len(down) \in Nat /\ Len(down) >= 1
      /\ \A k \in 1 .. Len(Tail(down)) : Tail(down)[k] = down[k + 1] /\ k + 1 \in 2 .. Len(down)
  BY <1>1, TailLine
<1>3. CASE down' = Tail(down)  BY <1>2, <1>3 DEF Without
<1>4. CASE \E y \in Tokens : down' = <<y>> \o Tail(down) /\ y.t # "EOT"
  <2>1. PICK y \in Tokens : down' = <<y>> \o Tail(down) /\ y.t # "EOT"  BY <1>4
  <2>2. /\ Len(down') = Len(down) /\ down'[1] = y
        /\ \A k \in 2 .. Len(down) : down'[k] = down[k]
    BY <1>1, <2>1, FrontLine
  <2>3. ASSUME NEW k \in 1 .. Len(down') PROVE down'[k].t # "EOT"
    <3>1. CASE k = 1  BY <2>1, <2>2, <3>1
    <3>2. CASE k # 1
      <4>1. k \in 2 .. Len(down) /\ k \in 1 .. Len(down)  BY <1>2, <2>2, <3>2
      <4>2. QED  BY <2>2, <4>1 DEF Without
    <3>3. QED  BY <3>1, <3>2
  <2>4. QED  BY <2>3 DEF Without
<1>5. QED  BY <1>3, <1>4, HitHead

\* The line loses or changes a byte.
LEMMA LineFaultKeeps == TInv /\ LineFault => TInv'
<1> SUFFICES ASSUME TInv, LineFault PROVE TInv'  OBVIOUS
<1>1. /\ TransferTypeOK /\ down \in Seq(Tokens) /\ up \in Seq(AnswerBytes)
      /\ UNCHANGED <<proto, spc, blk, retries, stale, rpc, inside, starts, expected, received, declared, misread>>
  BY DEF TInv, LineFault, sender, receiver, TransferTypeOK
<1>2. CASE down # <<>> /\ (\E d \in Damaged(Head(down)) : down' = d \o Tail(down)) /\ UNCHANGED up
  BY <1>1, <1>2, HitHead, DamageKeeps
<1>3. CASE /\ up # <<>> /\ UNCHANGED down
           /\ \E d \in {<<IF Head(up) \in {"C", "oldC"} THEN "oldC" ELSE "noise">>, << >>} : up' = d \o Tail(up)
  <2>1. /\ Tail(up) \in Seq(AnswerBytes) /\ Len(Tail(up)) = Len(up) - 1 /\ Len(up) \in Nat /\ Len(up) >= 1
        /\ \A k \in 1 .. Len(Tail(up)) : Tail(up)[k] = up[k + 1]
        /\ Head(up) = up[1]
    <3>1. Len(up) \in Nat /\ Len(up) >= 1  BY <1>1, <1>3, EmptySeq
    <3>2. QED  BY <1>1, <1>3, <3>1, HeadTailProperties
  <2>2. CASE up' = <<>> \o Tail(up)
    <3>1. up' = Tail(up)  BY <2>1, <2>2, ConcatEmptySeq
    <3>2. \A k \in 1 .. Len(up') : k + 1 \in 1 .. Len(up) /\ up'[k] = up[k + 1]  BY <2>1, <3>1
    <3>3. TransferTypeOK'  BY <1>1, <1>3, <2>1, <3>1 DEF TransferTypeOK
    <3>4. Len(up') = Len(up) - 1  BY <2>1, <3>1
    <3>5. \A k \in 1 .. Len(up') : /\ k + 1 \in 1 .. Len(up)
                                   /\ up'[k] = "ACK" => up[k + 1] = "ACK"
                                   /\ up'[k] \notin StartBytes => up[k + 1] \notin StartBytes
      BY <3>2
    <3>6. QED  BY <1>1, <1>3, <3>3, <3>4, <3>5, FewerAnswers
  <2>3. CASE up' = <<IF Head(up) \in {"C", "oldC"} THEN "oldC" ELSE "noise">> \o Tail(up)
    <3> DEFINE y == IF up[1] \in {"C", "oldC"} THEN "oldC" ELSE "noise"
    <3>1. y \in AnswerBytes /\ y # "ACK" /\ (y \notin StartBytes => up[1] \notin StartBytes)
      BY DEF AnswerBytes, StartBytes
    <3>2. up' = <<y>> \o Tail(up)  BY <2>1, <2>3
    <3> HIDE DEF y
    <3>3. <<y>> \in Seq(AnswerBytes) /\ Len(<<y>>) = 1 /\ <<y>>[1] = y  BY <3>1
    <3>4. /\ <<y>> \o Tail(up) \in Seq(AnswerBytes) /\ Len(<<y>> \o Tail(up)) = 1 + Len(Tail(up))
          /\ \A i \in 1 .. 1 + Len(Tail(up)) :
               (<<y>> \o Tail(up))[i] = IF i <= 1 THEN <<y>>[i] ELSE Tail(up)[i - 1]
      BY <2>1, <3>3, ConcatProperties
    <3>5. up' \in Seq(AnswerBytes) /\ Len(up') = Len(up) /\ up'[1] = y  BY <2>1, <3>2, <3>3, <3>4
    <3>6. ASSUME NEW k \in 1 .. Len(up'), k # 1 PROVE up'[k] = up[k]
      <4>1. k - 1 \in 1 .. Len(Tail(up)) /\ (k - 1) + 1 = k /\ k \in 1 .. 1 + Len(Tail(up)) /\ ~(k <= 1)
        BY <2>1, <3>5, <3>6
      <4>2. up'[k] = Tail(up)[k - 1]  BY <3>2, <3>4, <4>1
      <4>3. QED  BY <2>1, <4>1, <4>2
    <3>7. TransferTypeOK'  BY <1>1, <1>3, <3>5 DEF TransferTypeOK
    <3>8. \A k \in 1 .. Len(up') : /\ k \in 1 .. Len(up)
                                   /\ up'[k] = "ACK" => up[k] = "ACK"
                                   /\ up'[k] \notin StartBytes => up[k] \notin StartBytes
      BY <3>1, <3>5, <3>6
    <3>9. \A k \in 1 .. Len(up') : k + 0 = k  OBVIOUS
    <3>10. Len(up') = Len(up) - 0  BY <2>1, <3>5
    <3>11. QED  BY <1>1, <1>3, <3>7, <3>8, <3>9, <3>10, FewerAnswers
  <2>4. QED  BY <1>3, <2>2, <2>3
<1>4. QED  BY <1>2, <1>3 DEF LineFault

\* One byte, an end, or a control byte of a rest, owes no more once it is read.
LEMMA ByteLoad ==
  ASSUME TransferTypeOK, Held, down # <<>>, inside = FALSE, inside' = FALSE, down[1].t \in {"EOT", "noise", "rest"},
         down' = Tail(down) \/ down' = Remains(down[1]) \o Tail(down)
  PROVE  Load(inside', down') <= Load(inside, down)
<1> DEFINE d == down[1]
<1>1. down \in Seq(Tokens) /\ inside \in BOOLEAN /\ inside' \in BOOLEAN  BY DEF TransferTypeOK
<1>2. d \in Tokens /\ Len(down) \in Nat /\ Len(down) >= 1 /\ Tail(down) \in Seq(Tokens)
  BY <1>1, LineEnds, TailLine
<1>3. HeadLoad(inside, d) \in Nat
  <2>1. HeadLoad(inside, d) \in {0, 1}  BY <1>1, <1>2, HeadLoadType
  <2>2. QED  BY <2>1
<1>4. Load(inside, down) = 0 + (Len(down) - 1) + HeadLoad(inside, d)
  <2>1. Load(inside, down) = (IF inside THEN 1 ELSE 0) + (Len(down) - 1) + HeadLoad(inside, d)
    BY <1>1, LoadType
  <2>2. QED  BY <2>1
<1>5. CASE down' = Tail(down)
  <2>1. Load(inside', down') = (IF inside' THEN 1 ELSE 0) + (Len(down) - 1)  BY <1>1, <1>5, TakenLoad
  <2>2. Load(inside', down') = 0 + (Len(down) - 1)  BY <2>1
  <2>3. QED  BY <1>2, <1>3, <1>4, <2>2
<1>6. CASE \E k \in 0 .. RestMax : /\ down' = <<Rest(k)>> \o Tail(down)
                                   /\ d.t \notin {"EOT", "noise"} /\ (d.t = "rest" => d.n = k + 1)
  <2>1. PICK k \in 0 .. RestMax : down' = <<Rest(k)>> \o Tail(down) /\ d.t = "rest" /\ d.n = k + 1  BY <1>6
  <2>2. Load(inside', down') = (IF inside' THEN 1 ELSE 0) + (Len(down) - 1) + HeadLoad(inside', Rest(k))
    BY <1>1, <2>1, TakenLoad
  <2>3. Load(inside', down') = 0 + (Len(down) - 1) + HeadLoad(inside', Rest(k))  BY <2>2
  <2>4. Rest(k) \in Tokens /\ Rest(k).t = "rest" /\ Rest(k).n = k  BY WholeTokens
  <2>5. HeadLoad(inside', Rest(k)) = IF RestMax > 2 \/ k = 0 THEN 0 ELSE 1  BY <2>4 DEF HeadLoad
  <2>6. HeadLoad(inside, d) = IF RestMax > 2 \/ d.n = 0 THEN 0 ELSE 1  BY <2>1 DEF HeadLoad
  <2>7. HeadLoad(inside', Rest(k)) <= HeadLoad(inside, d) /\ HeadLoad(inside', Rest(k)) \in Nat
    BY <2>1, <2>5, <2>6
  <2>8. QED  BY <1>2, <1>3, <1>4, <2>3, <2>7
<1>7. QED  BY <1>2, <1>5, <1>6, RemainsShape

\* A control byte of a rest taken for the start of a block.
LEMMA StartLoad ==
  ASSUME TransferTypeOK, Held, down # <<>>, inside = FALSE, inside' = TRUE, down[1].t = "rest", down[1].n > 0,
         RestMax <= 2, down' = Remains(down[1]) \o Tail(down)
  PROVE  Load(inside', down') <= Load(inside, down)
<1> DEFINE d == down[1]
<1>1. down \in Seq(Tokens) /\ inside \in BOOLEAN /\ inside' \in BOOLEAN  BY DEF TransferTypeOK
<1>2. d \in Tokens /\ Len(down) \in Nat /\ Len(down) >= 1 /\ Tail(down) \in Seq(Tokens) /\ d.n \in Nat
  BY <1>1, LineEnds, TailLine, TokenShape
<1>3. Load(inside, down) = 0 + (Len(down) - 1) + HeadLoad(inside, d)
  <2>1. Load(inside, down) = (IF inside THEN 1 ELSE 0) + (Len(down) - 1) + HeadLoad(inside, d)
    BY <1>1, LoadType
  <2>2. QED  BY <2>1
<1>4. \E k \in 0 .. RestMax : down' = <<Rest(k)>> \o Tail(down) /\ d.n = k + 1
  <2>1. d.t = "rest" /\ d.n # 0  BY <1>2
  <2> DEFINE q == Tail(down)
  <2>2. \/ Remains(d) \o q = q /\ (d.t \in {"EOT", "noise"} \/ (d.t = "rest" /\ d.n = 0))
        \/ \E k \in 0 .. RestMax : /\ Remains(d) \o q = <<Rest(k)>> \o q
                                   /\ d.t \notin {"EOT", "noise"} /\ (d.t = "rest" => d.n = k + 1)
    <3> HIDE DEF d, q
    <3>1. d \in Tokens /\ q \in Seq(Tokens)  BY <1>2 DEF d, q
    <3>2. QED  BY <3>1, RemainsShape
  <2>3. PICK k \in 0 .. RestMax : Remains(d) \o q = <<Rest(k)>> \o q /\ (d.t = "rest" => d.n = k + 1)
    BY <2>1, <2>2
  <2>4. QED  BY <2>1, <2>3
<1>5. PICK k \in 0 .. RestMax : down' = <<Rest(k)>> \o Tail(down) /\ d.n = k + 1  BY <1>4
<1>6. Load(inside', down') = (IF inside' THEN 1 ELSE 0) + (Len(down) - 1) + HeadLoad(inside', Rest(k))
  BY <1>1, <1>5, TakenLoad
<1>7. Load(inside', down') = 1 + (Len(down) - 1) + HeadLoad(inside', Rest(k))  BY <1>6
<1>8. Rest(k) \in Tokens /\ Rest(k).t = "rest" /\ Rest(k).n = k  BY WholeTokens
<1>9. k = 0 \/ k = 1
  <2>1. d.n <= RestMax  BY <1>2, TokenShape
  <2>2. QED  BY <1>5, <2>1
<1>10. HeadLoad(inside', Rest(k)) = 0  BY <1>8, <1>9 DEF HeadLoad
<1>11. HeadLoad(inside, d) = 1  BY <1>2 DEF HeadLoad
<1>12. Load(inside', down') = 1 + (Len(down) - 1) + 0  BY <1>7, <1>10, Zenon
<1>13. Load(inside, down) = 0 + (Len(down) - 1) + 1  BY <1>3, <1>11, Zenon
<1>14. 1 + (Len(down) - 1) + 0 = Len(down) /\ 0 + (Len(down) - 1) + 1 = Len(down)  BY <1>2
<1>15. Load(inside', down') = Load(inside, down) /\ Load(inside, down) = Len(down)
      /\ Load(inside', down') = Len(down)
  BY <1>12, <1>13, <1>14, Zenon
<1>16. Len(down) <= Len(down)  BY <1>2
<1>17. QED  BY <1>15, <1>16, Zenon

\* A byte is read: the types.
LEMMA ReadByteTypes ==
  ASSUME TransferTypeOK, Held, ReadByte
  PROVE  TransferTypeOK' /\ Taken
<1> DEFINE d == down[1]
           control == d.t = "rest" /\ d.n > 0
<1>1. /\ down # <<>> /\ down \in Seq(Tokens) /\ inside = FALSE /\ rpc \in {"start", "data", "eot", "last"}
      /\ received' = (IF rpc = "eot" THEN Truncated ELSE received)
      /\ UNCHANGED <<proto, spc, blk, retries, stale, expected, declared>>
      /\ starts \in 0 .. MaxRetries /\ up \in Seq(AnswerBytes) /\ misread \in BOOLEAN
  BY DEF ReadByte, TransferTypeOK, sender
<1>2. d \in Tokens /\ Head(down) = d /\ Tail(down) \in Seq(Tokens)  BY <1>1, LineEnds, TailLine
<1>3. received' \in Seq(0 .. Blocks)
  <2>1. Truncated \in Seq(0 .. Blocks) /\ received \in Seq(0 .. Blocks)  BY Cut DEF TransferTypeOK
  <2>2. QED  BY <1>1, <2>1
<1>4. /\ down' = Tail(down) \/ down' = Remains(d) \o Tail(down)
      /\ inside' \in BOOLEAN /\ misread' \in BOOLEAN
      /\ EndOfFile \/ Cancelled \/ OtherByte \/ UNCHANGED <<rpc, starts, up>>
  BY <1>1, <1>2 DEF ReadByte
<1>5. Taken  BY <1>1, <1>2, <1>4, RemainsShape DEF Taken
<1>6. down' \in Seq(Tokens)  BY <1>5, TakenReduced DEF Reduced
<1> DEFINE Good == rpc' \in {"start", "data", "eot", "last", "ok", "err"} /\ starts' \in 0 .. MaxRetries
                   /\ up' \in Seq(AnswerBytes)
<1>7. "ACK" \in AnswerBytes /\ "NAK" \in AnswerBytes /\ "C" \in AnswerBytes  BY DEF AnswerBytes
<1>8. ASSUME rpc = "start", TryAgain PROVE Good
  <2>1. rpc' \in {"start", "err"}  BY <1>8, TriesAgain
  <2>2. QED  BY <1>8, <2>1, TriesAgain
<1>9. ASSUME UNCHANGED starts, NEW x \in AnswerBytes, up' = up \o <<x>>, rpc' \in {"ok", "eot"} PROVE Good
  <2>1. up' \in Seq(AnswerBytes)  BY <1>9, Said
  <2>2. QED  BY <1>1, <1>9, <2>1
<1>10. ASSUME UNCHANGED starts, up' = up \o <<"ACK", "C">>, rpc' = "last" PROVE Good
  <2>1. up' \in Seq(AnswerBytes)  BY <1>7, <1>10, SaidTwo
  <2>2. QED  BY <1>1, <1>10, <2>1
<1>11. ASSUME UNCHANGED <<starts, up>>, rpc' \in {"data", "ok", "last", "err"} \/ rpc' = rpc PROVE Good
  BY <1>1, <1>11
<1> HIDE DEF Good
<1>12. EndOfFile => Good
  <2> SUFFICES ASSUME EndOfFile PROVE Good  OBVIOUS
  <2>1. CASE Says(<<"ACK">>) /\ rpc' = "ok" /\ UNCHANGED starts  BY <1>7, <1>9, <2>1 DEF Says
  <2>2. CASE rpc = "start" /\ TryAgain  BY <1>8, <2>2
  <2>3. CASE Says(<<"NAK">>) /\ rpc' = "eot" /\ UNCHANGED starts  BY <1>7, <1>9, <2>3 DEF Says
  <2>4. CASE Says(<<"ACK", "C">>) /\ rpc' = "last" /\ UNCHANGED starts  BY <1>10, <2>4 DEF Says
  <2>5. CASE rpc' = "ok" /\ UNCHANGED <<starts, up>>  BY <1>11, <2>5
  <2>6. QED  BY <2>1, <2>2, <2>3, <2>4, <2>5 DEF EndOfFile
<1>13. OtherByte => Good
  <2> SUFFICES ASSUME OtherByte PROVE Good  OBVIOUS
  <2>1. CASE rpc = "start" /\ TryAgain  BY <1>8, <2>1
  <2>2. CASE UNCHANGED <<rpc, starts, up>>  BY <1>11, <2>2
  <2>3. CASE rpc' \in {"last", "ok"} /\ UNCHANGED <<starts, up>>  BY <1>11, <2>3
  <2>4. QED  BY <2>1, <2>2, <2>3 DEF OtherByte
<1>14. Cancelled => Good
  <2>1. ASSUME rpc' = "err" /\ UNCHANGED <<starts, up>> PROVE Good  BY <1>11, <2>1
  <2>2. QED  BY <1>13, <2>1 DEF Cancelled
<1>15. Good  BY <1>4, <1>11, <1>12, <1>13, <1>14
<1>16. proto' \in Protocols /\ UNCHANGED <<spc, blk, retries, stale, expected, declared>>
  BY <1>1 DEF TransferTypeOK
<1>17. TransferTypeOK'
  <2>1. rpc' \in {"idle", "start", "data", "eot", "last", "ok", "err"} /\ starts' \in 0 .. MaxRetries
        /\ up' \in Seq(AnswerBytes)
    BY <1>15 DEF Good
  <2>2. QED  BY <1>3, <1>4, <1>6, <1>16, <2>1 DEF TransferTypeOK
<1>18. QED  BY <1>5, <1>17

\* A byte is read where a block may start.
LEMMA ReadByteKeeps == TInv /\ ReadByte => TInv'
<1> SUFFICES ASSUME TInv, ReadByte PROVE TInv'  OBVIOUS
<1> DEFINE d == down[1]
           control == d.t = "rest" /\ d.n > 0
<1>1. /\ TransferTypeOK /\ Beginning /\ Held /\ down # <<>> /\ down \in Seq(Tokens) /\ inside = FALSE
      /\ rpc \in {"start", "data", "eot", "last"} /\ proto \in {"xmodem", "ymodem"}
      /\ received' = (IF rpc = "eot" THEN Truncated ELSE received)
      /\ UNCHANGED <<proto, spc, blk, retries, stale, expected, declared>>
      /\ misread \in BOOLEAN
  BY DEF TInv, ReadByte, TransferTypeOK, sender
<1>2. TransferTypeOK' /\ Taken /\ SenderRests  BY <1>1, ReadByteTypes DEF SenderRests
<1>3. d \in Tokens /\ Head(down) = d /\ Tail(down) \in Seq(Tokens) /\ Len(down) \in Nat /\ Len(down) >= 1
  BY <1>1, LineEnds, TailLine
<1>4. \/ /\ d.t = "EOT" \/ control
         /\ EndOfFile /\ misread' = (misread \/ control) /\ inside' = FALSE
         /\ down' = Remains(d) \o Tail(down)
      \/ /\ control /\ Cancelled /\ misread' = TRUE /\ inside' = FALSE
         /\ down' = Remains(d) \o Tail(down)
      \/ /\ control /\ TakesBlocks /\ inside' = TRUE /\ misread' = TRUE
         /\ down' = Remains(d) \o Tail(down) /\ UNCHANGED <<rpc, starts, up>>
      \/ /\ d.t \in {"noise", "rest"}
         /\ OtherByte /\ down' = Tail(down) /\ inside' = FALSE /\ misread' = misread
      \/ rpc = "eot" /\ OtherByte /\ misread' = misread
  BY <1>1, <1>3 DEF ReadByte
<1>5. misread => misread'  BY <1>4
<1>6. CASE rpc \in {"eot", "last"}
  <2>1. rpc' \in {"last", "ok"}
    <3>1. EndOfFile => rpc' \in {"last", "ok"}  BY <1>6 DEF EndOfFile
    <3>2. OtherByte => rpc' \in {"last", "ok"}  BY <1>6 DEF OtherByte
    <3>3. Cancelled => rpc' \in {"last", "ok"}  BY <1>6, <3>2 DEF Cancelled
    <3>4. TakesBlocks /\ UNCHANGED rpc => rpc' \in {"last", "ok"}  BY <1>6 DEF TakesBlocks
    <3>5. QED  BY <1>4, <3>1, <3>2, <3>3, <3>4
  <2>2. received' \in {received, Truncated}  BY <1>1
  <2>3. QED  BY <1>1, <1>2, <1>5, <1>6, <2>1, <2>2, ClosingKeeps
<1>7. CASE rpc \in {"start", "data"}
  <2>1. received' = received /\ UNCHANGED <<expected, declared>>  BY <1>1, <1>7
  <2>2. ASSUME inside' = FALSE, d.t \in {"EOT", "noise", "rest"},
               down' = Tail(down) \/ down' = Remains(d) \o Tail(down)
        PROVE  Load(inside', down') <= Load(inside, down) /\ inside' = inside
    BY <1>1, <2>2, ByteLoad
  \* Another start character, or none left.
  <2>3. ASSUME rpc = "start", TryAgain, inside' = FALSE, d.t \in {"EOT", "noise", "rest"},
               down' = Tail(down) \/ down' = Remains(d) \o Tail(down)
        PROVE  TInv'
    <3>1. \/ rpc' = "start" /\ starts' = starts + 1 /\ up' = up \o <<"C">>
          \/ rpc' = "err" /\ UNCHANGED <<starts, up>>
      BY <1>1, <2>3, TriesAgain
    <3>2. Load(inside', down') <= Load(inside, down) /\ inside' = inside  BY <2>2, <2>3
    <3>3. QED  BY <1>2, <1>5, <2>1, <2>3, <3>1, <3>2, AsksKeeps
  \* A byte that the data loop passes over.
  <2>4. ASSUME rpc = "data", UNCHANGED <<rpc, starts, up>>, inside' = FALSE, d.t \in {"EOT", "noise", "rest"},
               \/ down' = Tail(down)
               \/ down' = Remains(d) \o Tail(down) /\ misread' /\ control
        PROVE  TInv'
    <3>1. Load(inside', down') <= Load(inside, down) /\ inside' = inside  BY <2>2, <2>4
    <3>2. ASSUME Sane', \A k \in 1 .. Len(down) : Quiet(down[k]), NEW k \in 1 .. Len(down') PROVE Quiet(down'[k])
      <4>1. CASE down' = Tail(down)
        <5>1. /\ Len(Tail(down)) = Len(down) - 1
              /\ \A i \in 1 .. Len(Tail(down)) : Tail(down)[i] = down[i + 1] /\ i + 1 \in 2 .. Len(down)
          BY <1>1, TailLine
        <5>2. k + 1 \in 1 .. Len(down) /\ down'[k] = down[k + 1]  BY <1>3, <3>2, <4>1, <5>1
        <5>3. QED  BY <3>2, <5>2
      <4>2. CASE misread' /\ control
        <5>1. 1 \in 1 .. Len(down)  BY <1>3
        <5>2. Quiet(d)  BY <3>2, <5>1
        <5>3. RestMax > 2  BY <4>2, <5>2 DEF Quiet
        <5>4. QED  BY <3>2, <4>2, <5>3 DEF Sane, AnsweredTwice
      <4>3. QED  BY <2>4, <4>1, <4>2
    <3>3. QED  BY <1>1, <1>2, <1>5, <2>1, <2>4, <3>1, <3>2, StaysKeeps
  \* The end of the file.
  <2>5. CASE /\ d.t = "EOT" \/ control
             /\ EndOfFile /\ misread' = (misread \/ control) /\ inside' = FALSE
             /\ down' = Remains(d) \o Tail(down)
    <3>1. d.t \in {"EOT", "noise", "rest"}  BY <2>5
    <3>2. d.t = "EOT" => down' = Tail(down)  BY <1>3, <2>5, RemainsShape
    <3>3. misread' \/ d.t = "EOT"  BY <2>5
    <3>4. control => down' # <<>>
      <4> SUFFICES ASSUME control PROVE down' # <<>>  OBVIOUS
      <4> DEFINE q == Tail(down)
      <4>1. \/ Remains(d) \o q = q /\ (d.t \in {"EOT", "noise"} \/ (d.t = "rest" /\ d.n = 0))
            \/ \E k \in 0 .. RestMax : /\ Remains(d) \o q = <<Rest(k)>> \o q
                                       /\ d.t \notin {"EOT", "noise"} /\ (d.t = "rest" => d.n = k + 1)
        <5> HIDE DEF d, q, control
        <5>1. d \in Tokens /\ q \in Seq(Tokens)  BY <1>3 DEF q
        <5>2. QED  BY <5>1, RemainsShape
      <4>5. d.t = "rest" /\ d.n # 0
        <5>1. d.n \in Nat  BY <1>3, TokenShape
        <5>2. QED  BY <5>1
      <4>6. \E k \in 0 .. RestMax : Remains(d) \o q = <<Rest(k)>> \o q  BY <4>1, <4>5
      <4>2. PICK k \in 0 .. RestMax : down' = <<Rest(k)>> \o Tail(down)  BY <2>5, <4>6
      <4>3. Len(down') = Len(down) /\ down' \in Seq(Tokens)  BY <1>1, <4>2, WholeTokens, FrontLine
      <4>4. QED  BY <1>3, <4>3, LineEnds
    <3>5. CASE proto = "xmodem"
      <4>1. up' = up \o <<"ACK">> /\ rpc' = "ok" /\ UNCHANGED starts  BY <1>7, <2>5, <3>5 DEF EndOfFile, Says
      <4>2. QED  BY <1>1, <1>2, <1>5, <1>7, <2>1, <2>5, <3>2, <3>3, <3>5, <4>1, XmodemEndKeeps
    <3>6. CASE proto = "ymodem" /\ rpc = "start"
      <4>1. TryAgain  BY <2>5, <3>6 DEF EndOfFile
      <4>2. QED  BY <2>3, <2>5, <3>1, <3>6, <4>1
    <3>7. CASE proto = "ymodem" /\ rpc = "data"
      <4>1. rpc' = "eot" /\ UNCHANGED starts  BY <2>5, <3>7 DEF EndOfFile
      <4>2. QED  BY <1>2, <1>5, <2>1, <2>5, <3>3, <3>4, <3>7, <4>1, YmodemEndKeeps
    <3>8. QED  BY <1>1, <1>7, <3>5, <3>6, <3>7
  \* The sender seems to cancel.
  <2>6. CASE /\ control /\ Cancelled /\ misread' = TRUE /\ inside' = FALSE
             /\ down' = Remains(d) \o Tail(down)
    <3>1. d.t \in {"EOT", "noise", "rest"}  BY <2>6
    <3>2. CASE proto = "xmodem"
      <4>1. rpc' = "err" /\ UNCHANGED <<starts, up>>  BY <1>7, <2>6, <3>2 DEF Cancelled
      <4>2. Load(inside', down') <= Load(inside, down) /\ inside' = inside  BY <2>2, <2>6, <3>1
      <4>3. QED  BY <1>2, <1>5, <1>7, <2>1, <3>2, <4>1, <4>2, GivesUpKeeps
    <3>3. CASE proto = "ymodem"
      <4>1. OtherByte  BY <2>6, <3>3 DEF Cancelled
      <4>2. CASE rpc = "start"
        <5>1. TryAgain  BY <4>1, <4>2 DEF OtherByte
        <5>2. QED  BY <2>3, <2>6, <3>1, <4>2, <5>1
      <4>3. CASE rpc = "data"
        <5>1. UNCHANGED <<rpc, starts, up>>  BY <4>1, <4>3 DEF OtherByte
        <5>2. QED  BY <2>4, <2>6, <3>1, <4>3, <5>1
      <4>4. QED  BY <1>7, <4>2, <4>3
    <3>4. QED  BY <1>1, <3>2, <3>3
  \* A block seems to start.
  <2>7. CASE /\ control /\ inside' = TRUE /\ misread' = TRUE
             /\ down' = Remains(d) \o Tail(down) /\ UNCHANGED <<rpc, starts, up>>
    <3>1. Sane' => RestMax <= 2  BY <2>7 DEF Sane, AnsweredTwice
    <3>2. Sane' => Load(inside', down') <= Load(inside, down)  BY <1>1, <2>7, <3>1, StartLoad
    <3>3. Sane' => ~Quiet(d) /\ 1 \in 1 .. Len(down)  BY <1>3, <2>7, <3>1 DEF Quiet
    <3>4. rpc # "eot"  BY <1>7
    <3>5. QED  BY <1>2, <1>5, <2>1, <2>7, <3>2, <3>3, <3>4, StaysKeeps
  <2>8. CASE /\ d.t \in {"noise", "rest"}
             /\ OtherByte /\ down' = Tail(down) /\ inside' = FALSE /\ misread' = misread
    <3>1. CASE rpc = "start"
      <4>1. TryAgain  BY <2>8, <3>1 DEF OtherByte
      <4>2. QED  BY <2>3, <2>8, <3>1, <4>1
    <3>2. CASE rpc = "data"
      <4>1. UNCHANGED <<rpc, starts, up>>  BY <2>8, <3>2 DEF OtherByte
      <4>2. QED  BY <2>4, <2>8, <3>2, <4>1
    <3>3. QED  BY <1>7, <3>1, <3>2
  <2>9. QED  BY <1>4, <1>7, <2>5, <2>6, <2>7, <2>8
<1>8. QED  BY <1>1, <1>6, <1>7

-----------------------------------------------------------------------------
\* The invariant holds before a transfer.
LEMMA TInvInit == TransferInit => TInv
<1> SUFFICES ASSUME TransferInit PROVE TInv  OBVIOUS
<1>1. TransferTypeOK
  <2>1. <<>> \in Seq(0 .. Blocks) /\ <<>> \in Seq(Tokens) /\ <<>> \in Seq(AnswerBytes)  OBVIOUS
  <2>2. 1 \in 1 .. Blocks /\ 0 \in 0 .. MaxRetries - 1 /\ 1 \in 0 .. Wrap - 1 /\ Unknown \in 0 .. Unknown
    BY DEF Unknown
  <2>3. /\ proto \in Protocols /\ spc = "idle" /\ rpc = "idle"
        /\ stale \in BOOLEAN /\ inside \in BOOLEAN /\ misread \in BOOLEAN
    BY DEF TransferInit
  <2>4. /\ blk \in 1 .. Blocks /\ retries \in 0 .. MaxRetries - 1 /\ starts \in 0 .. MaxRetries
        /\ expected \in 0 .. Wrap - 1 /\ declared \in 0 .. Unknown
    BY <2>2 DEF TransferInit
  <2>5. received \in Seq(0 .. Blocks) /\ down \in Seq(Tokens) /\ up \in Seq(AnswerBytes)
    BY <2>1 DEF TransferInit
  <2>6. QED  BY <2>3, <2>4, <2>5 DEF TransferTypeOK
<1>2. Len(down) = 0 /\ Len(up) = 0 /\ Len(received) = 0  BY DEF TransferInit
<1>3. Beginning  BY <1>2 DEF TransferInit, Beginning, StartsOnly, Without
<1>4. Ending  BY <1>2 DEF TransferInit, Ending, Without, Late
<1>5. Held  BY <1>2 DEF TransferInit, Held, Followers
<1>6. Ahead
  <2>1. 1 = (0 + 1) % Wrap
    <3>1. 1 \in 0 .. Wrap - 1 /\ 1 = Wrap * 0 + 1  OBVIOUS
    <3>2. QED  BY <3>1, ModOf
  <2>2. Room \in Nat \ {0}  BY <1>1, Lengths
  <2>3. QED  BY <1>2, <2>1, <2>2 DEF TransferInit, Ahead, Ordered
<1>7. Load(inside, down) = 0  BY DEF TransferInit, Load
<1>8. Credit  BY <1>2, <1>7 DEF TransferInit, Credit
<1>9. Told  BY DEF TransferInit, Told
<1>10. QED  BY <1>1, <1>3, <1>4, <1>5, <1>6, <1>8, <1>9 DEF TInv

LEMMA TInvStutters == TInv /\ UNCHANGED transferVars => TInv'
BY DEF TInv, transferVars, sender, receiver, TransferTypeOK, Beginning, Ending, Held, Ahead, Credit, Told,
       Sane, AnsweredTwice, Clear, Steady, Room

\* Every step of a transfer keeps the invariant.
LEMMA TInvKept == TInv /\ TransferNext => TInv'
BY SendStartKeeps, CapturedKeeps, AnswerKeeps, SenderTimesOutKeeps, ReceiveStartKeeps, ReceiverTimesOutKeeps,
   ReadBlockKeeps, ReadShortKeeps, ReadOnKeeps, ReadByteKeeps, LineFaultKeeps DEF TransferNext

-----------------------------------------------------------------------------
(***************************************************************************)
(* What success of the receiver says, and that the two sides keep the      *)
(* promise of Delivery.  TInv speaks of the receiver while it takes        *)
(* blocks.  Arrived adds that an end of file is on the line only when all  *)
(* blocks were taken, so that a receiver which was not misled has them all *)
(* from its first end of file on.                                          *)
(***************************************************************************)

\* Nothing on the line, or in the state of the receiver, ends the file too early.
Arrived ==
  /\ rpc \in {"idle", "start"} => declared = Unknown
  /\ ~Misled => /\ rpc \in {"eot", "last", "ok"} => Len(received) = Blocks
                /\ Without("EOT", down) \/ Len(received) = Blocks

TransferInv == TInv /\ Arrived

\* What a step of the sender, or of the line, does to what was promised.
SenderMoves ==
  /\ ReceiverRests
  /\ stale => stale'
  /\ (Without("EOT", down) => Without("EOT", down')) \/ spc' \in {"eot", "eot2"}
  /\ spc \in {"ok", "err"} => spc' = spc

\* What a step of the receiver does to it.
ReceiverMoves ==
  /\ SenderRests
  /\ misread => misread'
  /\ Without("EOT", down) => Without("EOT", down')
  /\ rpc' \in {"idle", "start"} => rpc \in {"idle", "start"} /\ declared' = declared
  /\ declared' = declared \/ (proto = "ymodem" /\ rpc = "start")
  /\ rpc' \in {"eot", "last", "ok"} => rpc \in {"eot", "last", "ok"} \/ ~Without("EOT", down) \/ Misled'
  /\ rpc \in {"ok", "err"} => UNCHANGED <<rpc, received>>
  /\ \/ received' = received
     \/ received' = Truncated /\ rpc = "eot" /\ rpc' \notin {"ok", "err"}
     \/ (\E i \in 0 .. Blocks : received' = Append(received, i)) /\ rpc' \notin {"ok", "err"}

\* Nothing undoes that a side was misled.
LEMMA MisledStays ==
  ASSUME TransferTypeOK, Arrived, SenderMoves \/ ReceiverMoves, Misled
  PROVE  Misled'
<1>1. CASE stale \/ misread  BY <1>1 DEF SenderMoves, ReceiverMoves, SenderRests, ReceiverRests, Misled
<1>2. CASE Resized
  <2>1. proto' = proto  BY DEF SenderMoves, ReceiverMoves, SenderRests, ReceiverRests
  <2>2. rpc # "start"  BY <1>2 DEF Resized, Arrived
  <2>3. declared' = declared  BY <2>2 DEF SenderMoves, ReceiverMoves, ReceiverRests
  <2>4. QED  BY <1>2, <2>1, <2>3 DEF Resized, Misled, Unknown
<1>3. QED  BY <1>1, <1>2 DEF Misled

\* Who was not misled never took a byte out of step.
LEMMA NotMisled ==
  ASSUME TInv, ~Misled
  PROVE  /\ Sane /\ Clear /\ Len(received) \in Nat /\ Len(received) <= Blocks
         /\ \A i \in 1 .. Len(received) : received[i] = i
         /\ proto = "ymodem" => Truncated = received
<1>1. ~stale /\ ~misread /\ ~Resized  BY DEF Misled
<1>2. TransferTypeOK /\ Held  BY DEF TInv
<1>3. Sane /\ Clear  BY <1>1 DEF Sane, AnsweredTwice, Clear
<1>4. /\ Len(received) \in Nat /\ Len(received) <= Blocks
      /\ \A i \in 1 .. Len(received) : received[i] = i
  BY <1>2, <1>3, Lengths DEF Held
<1>5. proto = "ymodem" => Truncated = received  BY <1>1, <1>2, <1>4, Cut DEF Resized
<1>6. QED  BY <1>3, <1>4, <1>5

LEMMA SenderArrives ==
  ASSUME TInv, TInv', Arrived, SenderMoves
  PROVE  Arrived'
<1>1. UNCHANGED <<proto, rpc, received, declared, misread>>  BY DEF SenderMoves, ReceiverRests
<1>2. rpc' \in {"idle", "start"} => declared' = Unknown  BY <1>1 DEF Arrived
<1>3. ASSUME ~Misled'
      PROVE  /\ rpc' \in {"eot", "last", "ok"} => Len(received') = Blocks
             /\ Without("EOT", down') \/ Len(received') = Blocks
  <2>1. ~Misled  BY <1>3, MisledStays DEF TInv
  <2>2. /\ rpc \in {"eot", "last", "ok"} => Len(received) = Blocks
        /\ Without("EOT", down) \/ Len(received) = Blocks
    BY <2>1 DEF Arrived
  <2>3. CASE spc' \in {"eot", "eot2"}
    <3>1. Clear' /\ Told' /\ ~Resized'  BY <1>3 DEF TInv, Clear, Misled
    <3>2. Len(received') = Blocks  BY <2>3, <3>1 DEF Told, Resized, Unknown
    <3>3. QED  BY <3>2
  <2>4. CASE Without("EOT", down) => Without("EOT", down')  BY <1>1, <2>2, <2>4
  <2>5. QED  BY <2>3, <2>4 DEF SenderMoves
<1>4. Unknown' = Unknown  BY DEF Unknown
<1>5. QED  BY <1>2, <1>3, <1>4 DEF Arrived, Without

LEMMA ReceiverArrives ==
  ASSUME TInv, TInv', Arrived, ReceiverMoves
  PROVE  Arrived'
<1>1. rpc' \in {"idle", "start"} => declared' = Unknown  BY DEF Arrived, ReceiverMoves
<1>2. ASSUME ~Misled'
      PROVE  /\ rpc' \in {"eot", "last", "ok"} => Len(received') = Blocks
             /\ Without("EOT", down') \/ Len(received') = Blocks
  <2>1. ~Misled  BY <1>2, MisledStays DEF TInv
  <2>2. /\ rpc \in {"eot", "last", "ok"} => Len(received) = Blocks
        /\ Without("EOT", down) \/ Len(received) = Blocks
    BY <2>1 DEF Arrived
  <2>3. Len(received) \in Nat /\ (proto = "ymodem" => Truncated = received)  BY <2>1, NotMisled
  <2>4. Len(received') \in Nat /\ Len(received') <= Blocks
    <3>1. Sane'  BY <1>2 DEF Misled, Sane, AnsweredTwice
    <3>2. Len(received') <= Blocks  BY <3>1 DEF TInv, Held
    <3>3. received' \in Seq(0 .. Blocks)  BY DEF TInv, TransferTypeOK
    <3>4. QED  BY <3>2, <3>3
  <2>5. Len(received') >= Len(received)
    <3>1. CASE received' = received  BY <2>3, <3>1
    <3>2. CASE received' = Truncated /\ rpc = "eot"
      <4>1. proto = "ymodem"  BY <3>2 DEF TInv, Beginning, TransferTypeOK
      <4>2. QED  BY <2>3, <3>2, <4>1
    <3>3. CASE \E i \in 0 .. Blocks : received' = Append(received, i)
      <4>1. received \in Seq(0 .. Blocks)  BY DEF TInv, TransferTypeOK
      <4>2. QED  BY <2>3, <3>3, <4>1
    <3>4. QED  BY <3>1, <3>2, <3>3 DEF ReceiverMoves
  <2>6. Len(received) = Blocks => Len(received') = Blocks  BY <2>3, <2>4, <2>5
  <2>7. QED  BY <1>2, <2>2, <2>6 DEF ReceiverMoves
<1>3. Unknown' = Unknown  BY DEF Unknown
<1>4. QED  BY <1>1, <1>2, <1>3 DEF Arrived, Without

\* The steps of the sender.
LEMMA AnswerMoves == TInv /\ Answer => SenderMoves
<1> SUFFICES ASSUME TInv, Answer PROVE SenderMoves  OBVIOUS
<1> DEFINE a == Head(up)
<1>1. /\ TransferTypeOK /\ Held /\ down \in Seq(Tokens)
      /\ UNCHANGED <<proto, rpc, inside, starts, expected, received, declared, misread>>
      /\ stale' = (stale \/ (a \in {"C", "oldC"} /\ spc \in {"header", "block", "eot", "eot2"}))
      /\ spc \notin {"idle", "ok", "err"}
  BY DEF TInv, TransferTypeOK, Answer, receiver
<1>2. stale => stale'  BY <1>1
<1> DEFINE Good == (Without("EOT", down) => Without("EOT", down')) \/ spc' \in {"eot", "eot2"}
<1>3. ASSUME NEW x \in Tokens, x.t \in WholeTypes \ {"EOT"}, down' = Append(down, x) PROVE Good
  <2>1. "EOT" \in WholeTypes  BY DEF WholeTypes
  <2>2. QED  BY <1>1, <1>3, <2>1, TokenWritten
<1>4. ASSUME NEW place, NEW b \in 1 .. Blocks, NEW c, NEW r, Writes(place, c, r, Block(b, TRUE)) PROVE Good
  <2>1. Block(b, TRUE) \in Tokens /\ Block(b, TRUE).t = "block"  BY WholeTokens
  <2>2. QED  BY <1>3, <1>4, <2>1 DEF Writes, WholeTypes
<1>5. ASSUME NEW place, NEW c, NEW r, Writes(place, c, r, Header(TRUE)) PROVE Good
  <2>1. Header(TRUE) \in Tokens /\ Header(TRUE).t = "header"  BY WholeTokens
  <2>2. QED  BY <1>3, <1>5, <2>1 DEF Writes, WholeTypes
<1>6. ASSUME NEW place, NEW c, NEW r, Writes(place, c, r, Control("null")) PROVE Good
  <2>1. Control("null") \in Tokens /\ Control("null").t = "null"  BY WholeTokens
  <2>2. QED  BY <1>3, <1>6, <2>1 DEF Writes, WholeTypes
<1>7. ASSUME NEW place \in {"eot", "eot2"}, NEW c, NEW r, NEW x, Writes(place, c, r, x) PROVE Good
  BY <1>7 DEF Writes
<1>8. ASSUME down' = down PROVE Good  BY <1>8
<1>9. 1 \in 1 .. Blocks /\ blk \in 1 .. Blocks /\ (blk < Blocks => blk + 1 \in 1 .. Blocks)
  BY <1>1 DEF TransferTypeOK
<1> HIDE DEF Good
<1>10. Fails => Good  BY <1>8 DEF Fails
<1>11. \A place \in {"ready", "next", "ok"} : Goes(place) => Good  BY <1>8 DEF Goes
<1>12. WaitForStart(a) => Good
  <2>1. CASE a = "C"  BY <1>4, <1>5, <1>9, <2>1 DEF WaitForStart
  <2>2. CASE a = "CAN"  BY <1>10, <2>2 DEF WaitForStart
  <2>3. CASE a # "C" /\ a # "CAN"  BY <1>8, <2>3 DEF WaitForStart
  <2>4. QED  BY <2>1, <2>2, <2>3
<1>13. HeaderAnswered(a) => Good  BY <1>8, <1>10 DEF HeaderAnswered
<1>14. DataRequested(a) => Good  BY <1>4, <1>9, <1>10 DEF DataRequested
<1>15. BlockAnswered(a) => Good
  <2> SUFFICES ASSUME BlockAnswered(a) PROVE Good  OBVIOUS
  <2>1. CASE blk < Blocks /\ Writes("block", blk + 1, 0, Block(blk + 1, TRUE))  BY <1>4, <1>9, <2>1
  <2>2. CASE Writes("eot", blk, 0, Control("EOT"))  BY <1>7, <2>2
  <2>3. CASE Writes("block", blk, retries + 1, Block(blk, TRUE))  BY <1>4, <1>9, <2>3
  <2>4. CASE Fails  BY <1>10, <2>4
  <2>5. QED  BY <2>1, <2>2, <2>3, <2>4 DEF BlockAnswered
<1>16. EotAnswered(a) => Good
  <2> SUFFICES ASSUME EotAnswered(a) PROVE Good  OBVIOUS
  <2>1. CASE Writes("eot", blk, retries + 1, Control("EOT"))  BY <1>7, <2>1
  <2>2. CASE Writes("eot2", blk, 0, Control("EOT"))  BY <1>7, <2>2
  <2>3. CASE Fails \/ Goes("ok") \/ Goes("next")  BY <1>10, <1>11, <2>3
  <2>4. QED  BY <2>1, <2>2, <2>3 DEF EotAnswered
<1>17. SecondEotAnswered(a) => Good  BY <1>10, <1>11 DEF SecondEotAnswered
<1>18. NextFile(a) => Good  BY <1>6, <1>11 DEF NextFile
<1>19. Good  BY <1>11, <1>12, <1>13, <1>14, <1>15, <1>16, <1>17, <1>18 DEF Answer
<1>20. QED  BY <1>1, <1>2, <1>19 DEF SenderMoves, ReceiverRests, Good

\* A sender that starts, gives up or is not there yet, and a line that damages its head.
LEMMA SenderRestMoves ==
  TInv /\ (SendStart \/ Captured \/ SenderTimesOut \/ LineFault) => SenderMoves
<1> SUFFICES ASSUME TInv, SendStart \/ Captured \/ SenderTimesOut \/ LineFault PROVE SenderMoves  OBVIOUS
<1>1. CASE SendStart  BY <1>1 DEF SendStart, SenderMoves, ReceiverRests, receiver
<1>2. CASE Captured  BY <1>2 DEF Captured, SenderMoves, ReceiverRests, sender, receiver
<1>3. CASE SenderTimesOut  BY <1>3 DEF SenderTimesOut, SenderMoves, ReceiverRests, receiver
<1>4. CASE LineFault
  <2>1. ReceiverRests /\ UNCHANGED <<spc, stale>>  BY <1>4 DEF LineFault, ReceiverRests, sender, receiver
  <2>2. CASE down' = down  BY <2>1, <2>2 DEF SenderMoves
  <2>3. CASE down # <<>> /\ \E d \in Damaged(Head(down)) : down' = d \o Tail(down)
    <3>1. ASSUME Without("EOT", down) PROVE Without("EOT", down')
      BY <2>3, <3>1, HitLineEnds DEF TInv
    <3>2. QED  BY <2>1, <3>1 DEF SenderMoves
  <2>4. QED  BY <1>4, <2>2, <2>3 DEF LineFault
<1>5. QED  BY <1>1, <1>2, <1>3, <1>4


\* The receiver starts, or nothing came in time.
LEMMA ReceiverRestMoves == TInv /\ Arrived /\ (ReceiveStart \/ ReceiverTimesOut) => ReceiverMoves
<1> SUFFICES ASSUME TInv, Arrived, ReceiveStart \/ ReceiverTimesOut PROVE ReceiverMoves  OBVIOUS
<1>1. CASE ReceiveStart  BY <1>1 DEF ReceiveStart, ReceiverMoves, SenderRests, sender
<1>2. CASE ReceiverTimesOut
  <2>1. /\ SenderRests /\ down' = down /\ received' = received /\ declared' = declared /\ misread' = misread
        /\ rpc \in {"start", "data", "eot", "last"}
    BY <1>2 DEF ReceiverTimesOut, SenderRests, sender
  <2>2. rpc' \in {"start", "err", "ok"} /\ (rpc' = "ok" => rpc = "last") /\ (rpc' = "start" => rpc = "start")
    BY <1>2 DEF ReceiverTimesOut, TryAgain
  <2>3. QED  BY <2>1, <2>2 DEF ReceiverMoves
<1>3. QED  BY <1>1, <1>2

\* A block read to its last byte: it is kept, or a header is read, or the session ends.
LEMMA WholeBlockMoves ==
  ASSUME TransferTypeOK, TransferTypeOK', SenderRests, misread' = misread, rpc \notin {"idle", "ok", "err"},
         Without("EOT", down) => Without("EOT", down'),
         NEW b, b.n \in 0 .. Blocks, WholeBlock(b)
  PROVE  ReceiverMoves
<1>1. CASE rpc = "last" /\ NullHeader  BY <1>1 DEF NullHeader, Keeps, ReceiverMoves
<1>2. CASE proto = "ymodem" /\ rpc = "start" /\ HeaderBlock(b)
  <2>1. received' = received /\ rpc' \in {"data", "ok", "err"}  BY <1>2 DEF HeaderBlock, Keeps
  <2>2. rpc' = "ok" => declared' = 0  BY <1>2 DEF HeaderBlock
  <2>3. rpc' = "ok" => Misled'
    <3>1. 0 # Blocks /\ 0 # Unknown  BY DEF Unknown
    <3>2. proto' = "ymodem"  BY <1>2 DEF SenderRests
    <3>3. declared' = 0 => Resized'  BY <3>1, <3>2 DEF Resized, Unknown
    <3>4. QED  BY <2>2, <3>3 DEF Misled
  <2>4. QED  BY <1>2, <2>1, <2>3 DEF ReceiverMoves
<1>3. CASE proto = "ymodem" /\ rpc = "data" /\ YmodemBlock(b)
  <2>1. rpc' = "data" /\ declared' = declared  BY <1>3 DEF YmodemBlock
  <2>2. received' = received \/ received' = Append(received, b.n)
    BY <1>3 DEF YmodemBlock, Appends, Keeps
  <2>3. QED  BY <2>1, <2>2 DEF ReceiverMoves
<1>4. CASE proto = "xmodem" /\ rpc \in {"start", "data"} /\ XmodemBlock(b)
  <2>1. rpc' \in {"data", "err"} /\ declared' = declared  BY <1>4 DEF XmodemBlock
  <2>2. received' = received \/ (received' = Append(received, b.n) /\ b.good /\ Number(b.n) = expected)
    BY <1>4 DEF XmodemBlock, Appends, Keeps
  <2>3. b.good /\ Number(b.n) = expected => rpc' = "data"  BY <1>4 DEF XmodemBlock
  <2>4. QED  BY <2>1, <2>2, <2>3 DEF ReceiverMoves
<1>5. QED  BY <1>1, <1>2, <1>3, <1>4 DEF WholeBlock

LEMMA ReadBlockMoves == TInv /\ TInv' /\ ReadBlock => ReceiverMoves
<1> SUFFICES ASSUME TInv, TInv', ReadBlock PROVE ReceiverMoves  OBVIOUS
<1> DEFINE b == down[1]
<1>1. /\ TransferTypeOK /\ TransferTypeOK' /\ Held /\ down # <<>> /\ down' = Tail(down)
      /\ SenderRests /\ misread' = misread /\ rpc \notin {"idle", "ok", "err"}
      /\ down \in Seq(Tokens) /\ Head(down).t \in {"block", "header", "null"}
      /\ WholeBlock(Head(down))
  BY DEF TInv, TransferTypeOK, ReadBlock, SenderRests, sender, TakesBlocks
<1>2. "EOT" \in WholeTypes /\ Taken  BY <1>1 DEF WholeTypes, Taken
<1>3. Without("EOT", down) => Without("EOT", down')  BY <1>1, <1>2, TakenReduced DEF Reduced
<1>4. b \in Tokens /\ Head(down) = b  BY <1>1, LineEnds
<1> HIDE DEF b
<1>5. b.n \in 0 .. Blocks  BY <1>1, <1>4, WholeToken
<1>6. QED  BY <1>1, <1>3, <1>4, <1>5, WholeBlockMoves

LEMMA ReadShortMoves == TInv /\ ReadShort => ReceiverMoves
<1> SUFFICES ASSUME TInv, ReadShort PROVE ReceiverMoves  OBVIOUS
<1>1. /\ TransferTypeOK /\ Held /\ down # <<>> /\ down' = Tail(down) /\ SenderRests /\ TakesBlocks
      /\ UNCHANGED <<rpc, received, declared, misread>>
  BY DEF TInv, ReadShort, SenderRests, sender
<1>2. "EOT" \in WholeTypes /\ Taken  BY <1>1 DEF WholeTypes, Taken
<1>3. Without("EOT", down) => Without("EOT", down')  BY <1>1, <1>2, TakenReduced DEF Reduced
<1>4. QED  BY <1>1, <1>3 DEF ReceiverMoves, TakesBlocks

LEMMA ReadOnMoves == TInv /\ TInv' /\ ReadOn => ReceiverMoves
<1> SUFFICES ASSUME TInv, TInv', ReadOn PROVE ReceiverMoves  OBVIOUS
<1> DEFINE d == down[1]
           b == Block(1, FALSE)
<1>1. /\ TransferTypeOK /\ TransferTypeOK' /\ Held /\ down # <<>> /\ down \in Seq(Tokens)
      /\ SenderRests /\ misread' = misread
  BY DEF TInv, TransferTypeOK, ReadOn, SenderRests, sender
<1>2. d \in Tokens /\ Head(down) = d /\ Tail(down) \in Seq(Tokens)  BY <1>1, LineEnds, TailLine
<1>3. down' = Tail(down) \/ down' = Remains(d) \o Tail(down)  BY <1>2 DEF ReadOn
<1>4. Taken  BY <1>1, <1>2, <1>3, RemainsShape DEF Taken
<1>5. "EOT" \in WholeTypes  BY DEF WholeTypes
<1>6. Without("EOT", down) => Without("EOT", down')  BY <1>1, <1>4, <1>5, TakenReduced DEF Reduced
<1>7. b.n \in 0 .. Blocks  BY DEF Block
<1> HIDE DEF b, d
<1>8. CASE UNCHANGED <<rpc, received, declared>>
  BY <1>1, <1>6, <1>8 DEF ReceiverMoves
<1>9. CASE WholeBlock(b)
  <2>1. rpc \notin {"idle", "ok", "err"}  BY <1>9 DEF WholeBlock
  <2>2. QED  BY <1>1, <1>6, <1>7, <1>9, <2>1, WholeBlockMoves
<1>10. QED  BY <1>8, <1>9 DEF ReadOn, b

\* A byte where a block may start: only an end of file, or what was taken for one, ends the file.
LEMMA ReadByteMoves == TInv /\ ReadByte => ReceiverMoves
<1> SUFFICES ASSUME TInv, ReadByte PROVE ReceiverMoves  OBVIOUS
<1> DEFINE d == down[1]
           control == d.t = "rest" /\ d.n > 0
<1>1. /\ TransferTypeOK /\ Held /\ down # <<>> /\ down \in Seq(Tokens)
      /\ SenderRests /\ declared' = declared /\ misread \in BOOLEAN
      /\ rpc \in {"start", "data", "eot", "last"}
      /\ received' = (IF rpc = "eot" THEN Truncated ELSE received)
  BY DEF TInv, TransferTypeOK, ReadByte, SenderRests, sender
<1>2. "EOT" \in WholeTypes /\ Taken  BY <1>1, ReadByteTypes DEF WholeTypes
<1>3. Without("EOT", down) => Without("EOT", down')  BY <1>1, <1>2, TakenReduced DEF Reduced
<1>4. Head(down) = d /\ 1 \in 1 .. Len(down)  BY <1>1, LineEnds
<1>5. \/ (d.t = "EOT" \/ control) /\ EndOfFile /\ misread' = (misread \/ control)
      \/ control /\ (Cancelled \/ (TakesBlocks /\ UNCHANGED rpc)) /\ misread' = TRUE
      \/ OtherByte /\ misread' = misread
  BY <1>4 DEF ReadByte
<1>6. misread => misread'  BY <1>5
<1>7. misread' => Misled'  BY DEF Misled
<1>8. d.t = "EOT" => ~Without("EOT", down)  BY <1>4 DEF Without
<1>9. rpc \in {"start", "data", "last"} => received' = received  BY <1>1
<1>10. ASSUME EndOfFile
       PROVE  /\ rpc' # "idle" /\ (rpc' = "start" => rpc = "start")
              /\ rpc = "eot" => rpc' = "last"
    BY <1>1, <1>10 DEF EndOfFile, TryAgain
<1>11. ASSUME OtherByte
       PROVE  /\ rpc' # "idle" /\ (rpc' = "start" => rpc = "start")
              /\ rpc = "eot" => rpc' = "last"
              /\ rpc' \in {"eot", "last", "ok"} => rpc \in {"eot", "last", "ok"}
    BY <1>1, <1>11 DEF OtherByte, TryAgain
<1>12. ASSUME Cancelled
       PROVE  /\ rpc' # "idle" /\ (rpc' = "start" => rpc = "start")
              /\ rpc = "eot" => rpc' = "last"
    BY <1>11, <1>12 DEF Cancelled
<1>13. ASSUME TakesBlocks, UNCHANGED rpc
       PROVE  /\ rpc' # "idle" /\ (rpc' = "start" => rpc = "start")
              /\ rpc # "eot"
    BY <1>1, <1>13 DEF TakesBlocks
<1>14. /\ rpc' # "idle" /\ (rpc' = "start" => rpc = "start")
       /\ rpc = "eot" => rpc' = "last"
  BY <1>5, <1>10, <1>11, <1>12, <1>13
<1>15. rpc' \in {"eot", "last", "ok"} => rpc \in {"eot", "last", "ok"} \/ ~Without("EOT", down) \/ Misled'
  <2>1. CASE OtherByte  BY <1>11, <2>1
  <2>2. CASE d.t = "EOT"  BY <1>8, <2>2
  <2>3. CASE misread'  BY <1>7, <2>3
  <2>4. QED  BY <1>5, <2>1, <2>2, <2>3
<1>16. \/ received' = received
       \/ received' = Truncated /\ rpc = "eot" /\ rpc' \notin {"ok", "err"}
  BY <1>1, <1>14
<1>17. rpc' \in {"idle", "start"} => rpc \in {"idle", "start"} /\ declared' = declared  BY <1>1, <1>14
<1>18. QED  BY <1>1, <1>3, <1>6, <1>15, <1>16, <1>17 DEF ReceiverMoves

\* Every step is one of the two.
LEMMA StepMoves ==
  ASSUME TInv, TInv', Arrived, TransferNext
  PROVE  SenderMoves \/ ReceiverMoves
BY AnswerMoves, SenderRestMoves, ReceiverRestMoves, ReadBlockMoves, ReadShortMoves, ReadOnMoves, ReadByteMoves
   DEF TransferNext

LEMMA TransferInvInit == TransferInit => TransferInv
<1> SUFFICES ASSUME TransferInit PROVE TransferInv  OBVIOUS
<1>1. Arrived  BY DEF TransferInit, Arrived, Without
<1>2. QED  BY <1>1, TInvInit DEF TransferInv

\* Every step of a transfer keeps the invariant.
LEMMA TransferInvKept == TransferInv /\ TransferNext => TransferInv'
<1> SUFFICES ASSUME TransferInv, TransferNext PROVE TransferInv'  OBVIOUS
<1>1. TInv /\ TInv' /\ Arrived  BY TInvKept DEF TransferInv
<1>2. SenderMoves \/ ReceiverMoves  BY <1>1, StepMoves
<1>3. Arrived'  BY <1>1, <1>2, SenderArrives, ReceiverArrives
<1>4. QED  BY <1>1, <1>3 DEF TransferInv

LEMMA TransferInvStutters == TransferInv /\ UNCHANGED transferVars => TransferInv'
<1> SUFFICES ASSUME TransferInv, UNCHANGED transferVars PROVE TransferInv'  OBVIOUS
<1>1. TInv'  BY TInvStutters DEF TransferInv
<1>2. Arrived'
  BY DEF TransferInv, Arrived, Misled, Resized, Without, Unknown, transferVars, sender, receiver
<1>3. QED  BY <1>1, <1>2 DEF TransferInv

\* The invariant gives the property.
LEMMA TransferInvImplies == TransferInv => FileArrives
<1> SUFFICES ASSUME TransferInv PROVE FileArrives  OBVIOUS
<1>1. TransferTypeOK /\ Held /\ Told /\ Arrived /\ received \in Seq(0 .. Blocks) /\ Len(received) \in Nat
  BY Lengths DEF TransferInv, TInv
<1>2. Sane => Len(received) <= Blocks /\ \A i \in 1 .. Len(received) : received[i] = i  BY <1>1 DEF Held
<1>3. File \in Seq(1 .. Blocks) /\ Len(File) = Blocks /\ \A i \in 1 .. Blocks : File[i] = i
  BY DEF File
<1>4. InOrder
  <2>1. ASSUME Sane PROVE IsPrefix(received, File)
    <3>1. SubSeq(File, 1, Len(received)) = received  BY <1>1, <1>2, <1>3, <2>1, SubSeqProperties, SeqEqual
    <3>2. QED  BY <1>1, <1>2, <1>3, <2>1, <3>1 DEF IsPrefix
  <2>2. QED  BY <2>1 DEF InOrder, Sane
<1>5. SuccessMeansWhole
  <2> SUFFICES ASSUME spc = "ok" \/ rpc = "ok", ~Misled PROVE received = File
    BY DEF SuccessMeansWhole
  <2>1. Sane /\ Clear /\ ~Resized  BY NotMisled DEF TransferInv, Misled
  <2>2. Len(received) = Blocks
    <3>1. spc = "ok" => Len(received) = Blocks  BY <1>1, <2>1 DEF Told, Resized
    <3>2. rpc = "ok" => Len(received) = Blocks  BY <1>1 DEF Arrived
    <3>3. QED  BY <3>1, <3>2
  <2>3. QED  BY <1>1, <1>2, <1>3, <2>1, <2>2, SeqEqual
<1>6. QED  BY <1>1, <1>4, <1>5 DEF FileArrives

-----------------------------------------------------------------------------
(* XMODEM and YMODEM implement Delivery, with Blockwise as the mapping.    *)

LEMMA BlockwiseInit == TransferInit => Blockwise!Init
<1> SUFFICES ASSUME TransferInit PROVE Blockwise!Init  OBVIOUS
<1>1. InTheEnd(rpc) = "open" /\ InTheEnd(spc) = "open"  BY DEF TransferInit, InTheEnd
<1>2. ~Misled /\ ~AnsweredTwice  BY DEF TransferInit, Misled, Resized, AnsweredTwice
<1>3. Blocks \in Nat /\ received = <<>>  BY DEF TransferInit
<1>4. QED  BY <1>1, <1>2, <1>3 DEF Blockwise!Init

\* Once misled, always misled; and answers that once piled up do so for good.
LEMMA MarksStay ==
  ASSUME TransferTypeOK, TransferTypeOK', Arrived, SenderMoves \/ ReceiverMoves
  PROVE  /\ Misled' \in {Misled, TRUE}
         /\ AnsweredTwice' \in {AnsweredTwice, TRUE}
<1>1. Misled => Misled'  BY MisledStays
<1>2. misread => misread'  BY DEF SenderMoves, ReceiverMoves, ReceiverRests, TransferTypeOK
<1>3. AnsweredTwice => AnsweredTwice'  BY <1>2 DEF AnsweredTwice
<1>4. Misled \in BOOLEAN /\ Misled' \in BOOLEAN  BY DEF Misled
<1>5. AnsweredTwice \in BOOLEAN /\ AnsweredTwice' \in BOOLEAN  BY DEF AnsweredTwice
<1>6. Misled' \in {Misled, TRUE}  BY <1>1, <1>4
<1>7. AnsweredTwice' \in {AnsweredTwice, TRUE}  BY <1>3, <1>5
<1>8. QED  BY <1>6, <1>7

\* A step of the sender is an end of the giver, or nothing.
LEMMA SenderDelivers ==
  ASSUME SuccessMeansWhole', SenderMoves
  PROVE  Blockwise!GiverEnds \/ Blockwise!Waits
<1>1. received' = received /\ rpc' = rpc  BY DEF SenderMoves, ReceiverRests
<1>2. InTheEnd(rpc') = InTheEnd(rpc)  BY <1>1
<1>3. CASE InTheEnd(spc') = InTheEnd(spc)  BY <1>1, <1>2, <1>3 DEF Blockwise!Waits
<1>4. CASE InTheEnd(spc') # InTheEnd(spc)
  <2>1. spc \notin {"ok", "err"} /\ spc' \in {"ok", "err"}  BY <1>4 DEF InTheEnd, SenderMoves
  <2>2. InTheEnd(spc) = "open" /\ InTheEnd(spc') = spc'  BY <2>1 DEF InTheEnd
  <2>3. spc' = "ok" => received = File \/ Misled'  BY <1>1 DEF SuccessMeansWhole, File
  <2>4. QED  BY <1>1, <1>2, <2>1, <2>2, <2>3 DEF Blockwise!GiverEnds, Blockwise!Outcomes, Blockwise!Whole, File
<1>5. QED  BY <1>3, <1>4

\* What a step of the receiver does to what it has.
LEMMA ReceiverDelivers ==
  ASSUME TInv, TInv', SuccessMeansWhole', ReceiverMoves
  PROVE  \/ /\ InTheEnd(rpc) = "open"
            /\ Blockwise!Take \/ Blockwise!Cut \/ Blockwise!Jumble \/ Blockwise!TakerEnds
         \/ Blockwise!Waits
<1>1. InTheEnd(spc') = InTheEnd(spc)  BY DEF ReceiverMoves, SenderRests
<1>2. received \in Seq(0 .. Blocks) /\ Len(received) \in Nat /\ received' \in Seq(0 .. Blocks)
  BY DEF TInv, TransferTypeOK
<1>3. CASE rpc \in {"ok", "err"}
  <2>1. rpc' = rpc /\ received' = received  BY <1>3 DEF ReceiverMoves
  <2>2. InTheEnd(rpc') = InTheEnd(rpc)  BY <2>1
  <2>3. QED  BY <1>1, <2>1, <2>2 DEF Blockwise!Waits
<1>4. CASE rpc \notin {"ok", "err"} /\ received' = received
  <2>1. InTheEnd(rpc) = "open"  BY <1>4 DEF InTheEnd
  <2>2. CASE rpc' \in {"ok", "err"}
    <3>1. InTheEnd(rpc') = rpc'  BY <2>2 DEF InTheEnd
    <3>2. rpc' = "ok" => received = File \/ Misled'  BY <1>4 DEF SuccessMeansWhole, File
    <3>3. Blockwise!TakerEnds
      BY <1>1, <1>4, <2>2, <3>1, <3>2 DEF Blockwise!TakerEnds, Blockwise!Outcomes, Blockwise!Whole, File
    <3>4. QED  BY <2>1, <3>3
  <2>3. CASE rpc' \notin {"ok", "err"}
    <3>1. InTheEnd(rpc') = InTheEnd(rpc)  BY <2>1, <2>3 DEF InTheEnd
    <3>2. QED  BY <1>1, <1>4, <3>1 DEF Blockwise!Waits
  <2>4. QED  BY <2>2, <2>3
<1>5. CASE rpc \notin {"ok", "err"} /\ rpc' \notin {"ok", "err"} /\ received' = Truncated /\ rpc = "eot"
  <2>1. InTheEnd(rpc) = "open" /\ InTheEnd(rpc') = InTheEnd(rpc)  BY <1>5 DEF InTheEnd
  <2>2. proto = "ymodem"  BY <1>5 DEF TInv, Beginning, TransferTypeOK
  <2>3. CASE Misled
    <3>1. IsPrefix(Truncated, received)
      <4>1. /\ Truncated \in Seq(0 .. Blocks) /\ Len(Truncated) <= Len(received) /\ Len(Truncated) \in Nat
            /\ \A i \in 1 .. Len(Truncated) : Truncated[i] = received[i]
        BY Cut DEF TInv
      <4>2. SubSeq(received, 1, Len(Truncated)) = Truncated
        <5> DEFINE t == Truncated
        <5>1. t \in Seq(0 .. Blocks) /\ Len(t) <= Len(received) /\ Len(t) \in Nat
              /\ \A i \in 1 .. Len(t) : t[i] = received[i]
          BY <4>1
        <5> HIDE DEF t
        <5>2. /\ SubSeq(received, 1, Len(t)) \in Seq(0 .. Blocks)
              /\ Len(SubSeq(received, 1, Len(t))) = Len(t)
              /\ \A i \in 1 .. Len(t) : SubSeq(received, 1, Len(t))[i] = received[i]
          BY <1>2, <5>1, SubSeqProperties
        <5>3. SubSeq(received, 1, Len(t)) = t  BY <5>1, <5>2, SeqEqual
        <5>4. QED  BY <5>3 DEF t
      <4>3. QED  BY <1>2, <4>1, <4>2 DEF IsPrefix
    <3>2. IsPrefix(received', received)  BY <1>5, <3>1
    <3>3. Misled /\ UNCHANGED <<InTheEnd(rpc), InTheEnd(spc)>>  BY <1>1, <2>1, <2>3
    <3>4. Blockwise!Cut  BY <3>2, <3>3 DEF Blockwise!Cut, Blockwise!IsPrefix, IsPrefix
    <3>5. QED  BY <2>1, <3>4
  <2>4. CASE ~Misled
    <3>1. received' = received  BY <1>5, <2>2, <2>4, NotMisled
    <3>2. QED  BY <1>1, <2>1, <3>1 DEF Blockwise!Waits
  <2>5. QED  BY <2>3, <2>4
<1>6. CASE /\ rpc \notin {"ok", "err"} /\ rpc' \notin {"ok", "err"}
           /\ \E i \in 0 .. Blocks : received' = Append(received, i)
  <2>1. InTheEnd(rpc) = "open" /\ InTheEnd(rpc') = InTheEnd(rpc)  BY <1>6 DEF InTheEnd
  <2>2. PICK i \in 0 .. Blocks : received' = Append(received, i)  BY <1>6
  <2>3. /\ Len(received') = Len(received) + 1 /\ received'[Len(received) + 1] = i
    BY <1>2, <2>2
  <2>4. CASE AnsweredTwice'
    <3>1. Blockwise!Jumble  BY <1>1, <1>2, <2>1, <2>4 DEF Blockwise!Jumble
    <3>2. QED  BY <2>1, <3>1
  <2>5. CASE ~AnsweredTwice'
    <3>1. Len(received') <= Blocks /\ \A k \in 1 .. Len(received') : received'[k] = k
      BY <2>5 DEF TInv, Held, Sane
    <3>2. Len(received) < Blocks /\ i = Len(received) + 1  BY <1>2, <2>3, <3>1
    <3>3. Blockwise!Take  BY <1>1, <2>1, <2>2, <3>2 DEF Blockwise!Take
    <3>4. QED  BY <2>1, <3>3
  <2>6. QED  BY <2>4, <2>5
<1>7. QED  BY <1>3, <1>4, <1>5, <1>6 DEF ReceiverMoves

LEMMA BlockwiseNext ==
  ASSUME TransferInv, TransferInv', TransferNext
  PROVE  Blockwise!Next
<1>1. TInv /\ TInv' /\ Arrived /\ TransferTypeOK /\ TransferTypeOK'  BY DEF TransferInv, TInv
<1>2. SenderMoves \/ ReceiverMoves  BY <1>1, StepMoves
<1>3. Misled' \in {Misled, TRUE} /\ AnsweredTwice' \in {AnsweredTwice, TRUE}  BY <1>1, <1>2, MarksStay
<1>4. FileArrives'
  <2>1. TransferInv => FileArrives  BY TransferInvImplies
  <2>2. QED  BY <2>1, TransferInvImplies, PTL
<1>5. SuccessMeansWhole'  BY <1>4 DEF FileArrives
<1>6. CASE SenderMoves  BY <1>3, <1>5, <1>6, SenderDelivers DEF Blockwise!Next
<1>7. CASE ReceiverMoves  BY <1>1, <1>3, <1>5, <1>7, ReceiverDelivers DEF Blockwise!Next
<1>8. QED  BY <1>2, <1>6, <1>7

LEMMA BlockwiseStutters == UNCHANGED transferVars => UNCHANGED Blockwise!deliveryVars
BY DEF transferVars, sender, receiver, Blockwise!deliveryVars, Misled, Resized, AnsweredTwice, InTheEnd, Unknown

-----------------------------------------------------------------------------
(* ZMODEM implements Delivery, with Piecewise as the mapping.              *)

LEMMA PiecewiseInit == ZmodemInit => Piecewise!Init
<1> SUFFICES ASSUME ZmodemInit PROVE Piecewise!Init  OBVIOUS
<1>1. Known(receives) = "open" /\ Known(sends) = "open"  BY DEF ZmodemInit, Known, Ended
<1>2. pieces \in Nat /\ kept = <<>>  BY DEF ZmodemInit
<1>3. QED  BY <1>1, <1>2 DEF Piecewise!Init

\* The step has one of four shapes.
LEMMA PieceMoves ==
  ASSUME ZInv, ZmodemNext
  PROVE  /\ pieces' = pieces
         /\ \/ UNCHANGED <<receives, kept>> /\ (Ended(sends) => sends' = sends)
            \/ UNCHANGED <<sends, kept>> /\ ~Ended(receives)
            \/ /\ UNCHANGED sends /\ ~Ended(receives) /\ ~Ended(receives')
               /\ \E i \in Nat : kept' = Append(kept, i)
<1>1. CASE SenderSteps
  <2>1. pieces' = pieces /\ UNCHANGED <<receives, kept>>
    BY <1>1 DEF SenderSteps, SendFile, SenderReads, HeaderTimeout, Stream
  <2>2. ~Ended(sends)
    BY <1>1 DEF SenderSteps, SendFile, SenderReads, HeaderTimeout, Stream, SenderWaits, Ended
  <2>3. QED  BY <2>1, <2>2
<1>2. CASE Unheard \/ LineHit  BY <1>2 DEF Unheard, LineHit
<1>3. CASE ReceiveFile  BY <1>3 DEF ReceiveFile, Ended
<1>4. CASE ReadHeader \/ ReceiverTimeout
  <2>1. pieces' = pieces /\ UNCHANGED <<sends, kept>>  BY <1>4 DEF ReadHeader, ReceiverTimeout
  <2>2. ~Ended(receives)  BY <1>4 DEF ReadHeader, ReceiverTimeout, WaitsForHeader, Ended
  <2>3. QED  BY <2>1, <2>2
<1>5. CASE ReadSubpacket
  <2> DEFINE u == Head(toReceiver)
  <2>1. /\ pieces' = pieces /\ UNCHANGED sends /\ receives \in {"info", "pieces"} /\ toReceiver # <<>>
    BY <1>5 DEF ReadSubpacket
  <2>2. ~Ended(receives)  BY <2>1 DEF Ended
  <2>3. toReceiver \in Seq(Units) /\ u \in Units
    BY <2>1, EmptySeq, ElementOfSeq DEF ZInv, ZmodemTypes
  <2>4. CASE kept' = kept  BY <2>1, <2>2, <2>4
  <2>5. CASE Fits(u) /\ TakesSubpacket(u) /\ receives = "pieces"
    <3>1. u.hit = "no" /\ u.kind = "subpacket"  BY <2>5 DEF Fits, Checked
    <3>2. kept' = Append(kept, u.type)  BY <2>5, <3>1 DEF TakesSubpacket
    <3>3. receives' \in {"eof", "pieces"}  BY <2>5 DEF TakesSubpacket, ReceiverTo
    <3>4. ~Ended(receives')  BY <3>3 DEF Ended
    <3>5. u.type \in Nat
      <4>1. PICK c \in Nat : Script(c)  BY DEF ZInv
      <4>2. InPlace(u, c + 1, pieces)  BY <2>1, <4>1, FirstInPlace DEF ZInv, Script, ZmodemTypes
      <4>3. pieces \in Nat /\ Len(kept) \in Nat /\ "receiver" \notin astray
        BY <2>5 DEF ZInv, ZmodemTypes, Fits
      <4>4. c >= 4  BY <2>5, <4>1 DEF Script, TakenUpTo
      <4>5. c + 1 \in 5 .. (pieces + 4)  BY <3>1, <4>2, <4>3, <4>4 DEF InPlace, Is
      <4>6. u.type = (c + 1) - 4  BY <4>2, <4>5 DEF InPlace, Is
      <4>7. QED  BY <4>5, <4>6
    <3>6. QED  BY <2>1, <2>2, <3>2, <3>4, <3>5
  <2>6. CASE Fits(u) /\ TakesSubpacket(u) /\ receives = "info"
    <3>1. kept' = kept  BY <2>6 DEF TakesSubpacket
    <3>2. QED  BY <2>4, <3>1
  <2>7. \/ kept' = kept
        \/ Fits(u) /\ TakesSubpacket(u)
    BY <1>5 DEF ReadSubpacket
  <2>8. QED  BY <2>1, <2>4, <2>5, <2>6, <2>7
<1>6. QED  BY <1>1, <1>2, <1>3, <1>4, <1>5 DEF ZmodemNext

LEMMA PiecewiseNext ==
  ASSUME ZInv, ZInv', ZmodemNext
  PROVE  Piecewise!Next
<1> DEFINE file == [i \in 1 .. pieces |-> i]
<1>1. /\ pieces' = pieces
      /\ \/ UNCHANGED <<receives, kept>> /\ (Ended(sends) => sends' = sends)
         \/ UNCHANGED <<sends, kept>> /\ ~Ended(receives)
         \/ /\ UNCHANGED sends /\ ~Ended(receives) /\ ~Ended(receives')
            /\ \E i \in Nat : kept' = Append(kept, i)
  BY PieceMoves
<1>2. FALSE \in {FALSE, TRUE}  OBVIOUS
<1>3. ZmodemArrives'
  <2>1. ZInv => ZmodemArrives  BY ZInvImplies
  <2>2. QED  BY <2>1, ZInvImplies, PTL
<1>4. receives' = "ok" \/ sends' = "ok" => kept' = file  BY <1>1, <1>3 DEF ZmodemArrives
<1>5. CASE UNCHANGED <<receives, kept>> /\ (Ended(sends) => sends' = sends)
  <2>1. Known(receives') = Known(receives)  BY <1>5
  <2>2. CASE Known(sends') = Known(sends)
    <3>1. Piecewise!Waits  BY <1>5, <2>1, <2>2 DEF Piecewise!Waits
    <3>2. QED  BY <1>1, <1>2, <3>1 DEF Piecewise!Next
  <2>3. CASE Known(sends') # Known(sends)
    <3>1. ~Ended(sends) /\ Ended(sends')  BY <1>5, <2>3 DEF Known
    <3>2. Known(sends) = "open" /\ Known(sends') = sends' /\ sends' \in {"ok", "err"}
      BY <3>1 DEF Known, Ended
    <3>3. sends' = "ok" => kept = file  BY <1>4, <1>5
    <3>4. Piecewise!GiverEnds
      BY <1>5, <2>1, <3>2, <3>3 DEF Piecewise!GiverEnds, Piecewise!Outcomes, Piecewise!Whole
    <3>5. QED  BY <1>1, <1>2, <3>4 DEF Piecewise!Next
  <2>4. QED  BY <2>2, <2>3
<1>6. CASE UNCHANGED <<sends, kept>> /\ ~Ended(receives)
  <2>1. Known(sends') = Known(sends) /\ Known(receives) = "open"  BY <1>6 DEF Known
  <2>2. CASE ~Ended(receives')
    <3>1. Known(receives') = Known(receives)  BY <2>1, <2>2 DEF Known
    <3>2. Piecewise!Waits  BY <1>6, <2>1, <3>1 DEF Piecewise!Waits
    <3>3. QED  BY <1>1, <1>2, <3>2 DEF Piecewise!Next
  <2>3. CASE Ended(receives')
    <3>1. Known(receives') = receives' /\ receives' \in {"ok", "err"}  BY <2>3 DEF Known, Ended
    <3>2. receives' = "ok" => kept = file  BY <1>4, <1>6
    <3>3. Piecewise!TakerEnds
      BY <1>6, <2>1, <3>1, <3>2 DEF Piecewise!TakerEnds, Piecewise!Outcomes, Piecewise!Whole
    <3>4. QED  BY <1>1, <1>2, <2>1, <3>3 DEF Piecewise!Next
  <2>4. QED  BY <2>2, <2>3
<1>7. CASE /\ UNCHANGED sends /\ ~Ended(receives) /\ ~Ended(receives')
           /\ \E i \in Nat : kept' = Append(kept, i)
  <2>1. /\ Known(sends') = Known(sends) /\ Known(receives) = "open" /\ Known(receives') = "open"
    BY <1>7 DEF Known
  <2>2. PICK i \in Nat : kept' = Append(kept, i)  BY <1>7
  <2>3. /\ kept \in Seq(Nat) /\ Len(kept) \in Nat /\ pieces \in Nat
        /\ Len(kept') <= pieces /\ \A k \in 1 .. Len(kept') : kept'[k] = k
    BY <1>1 DEF ZInv, ZmodemTypes
  <2>4. Len(kept') = Len(kept) + 1 /\ kept'[Len(kept) + 1] = i  BY <2>2, <2>3
  <2>5. Len(kept) < pieces /\ i = Len(kept) + 1  BY <2>3, <2>4
  <2>6. Piecewise!Take  BY <2>1, <2>2, <2>5 DEF Piecewise!Take
  <2>7. QED  BY <1>1, <1>2, <2>1, <2>6 DEF Piecewise!Next
<1>8. QED  BY <1>1, <1>5, <1>6, <1>7

LEMMA PiecewiseStutters == UNCHANGED zmodemVars => UNCHANGED Piecewise!deliveryVars
BY DEF zmodemVars, Piecewise!deliveryVars, Known, Ended

-----------------------------------------------------------------------------
(* Theorems.                                                               *)

\* A file sent by XMODEM or YMODEM (modem/xmodem.rs, modem/ymodem.rs): what the receiver
\* keeps is a prefix of the file, unless a rest was answered twice, and when either side
\* reports success, neither having been misled, the receiver has the whole file.
THEOREM TransferDelivers == TransferSpec => []FileArrives
<1>1. TransferInit => TransferInv  BY TransferInvInit
<1>2. TransferInv /\ [TransferNext]_transferVars => TransferInv'  BY TransferInvKept, TransferInvStutters
<1>3. TransferInv => FileArrives  BY TransferInvImplies
<1>4. QED  BY <1>1, <1>2, <1>3, PTL DEF TransferSpec

\* XMODEM and YMODEM implement Delivery: pieces are taken in order, each side comes to one
\* outcome, and success of either means the whole file, unless one was misled.
THEOREM BlocksDeliver == TransferSpec => Blockwise!Spec
<1>1. TransferInit => TransferInv  BY TransferInvInit
<1>2. TransferInv /\ [TransferNext]_transferVars => TransferInv'  BY TransferInvKept, TransferInvStutters
<1>3. TransferInit => Blockwise!Init  BY BlockwiseInit
<1>4. TransferInv /\ TransferInv' /\ [TransferNext]_transferVars => [Blockwise!Next]_(Blockwise!deliveryVars)
  BY BlockwiseNext, BlockwiseStutters
<1>5. QED  BY <1>1, <1>2, <1>3, <1>4, PTL DEF TransferSpec, Blockwise!Spec

\* ZMODEM implements it too, and nothing the line does to a byte misleads a side (modem/zmodem.rs).
THEOREM SubpacketsDeliver == ZmodemSpec => Piecewise!Spec
<1>1. ZmodemInit => ZInv  BY ZInvInit
<1>2. ZInv /\ [ZmodemNext]_zmodemVars => ZInv'  BY ZInvKept, ZInvStutters
<1>3. ZmodemInit => Piecewise!Init  BY PiecewiseInit
<1>4. ZInv /\ ZInv' /\ [ZmodemNext]_zmodemVars => [Piecewise!Next]_(Piecewise!deliveryVars)
  BY PiecewiseNext, PiecewiseStutters
<1>5. QED  BY <1>1, <1>2, <1>3, <1>4, PTL DEF ZmodemSpec, Piecewise!Spec

-----------------------------------------------------------------------------
\* What both kinds of protocol keep, in any behaviour of the run of MC_Progress.
Files == TransferInv /\ ZInv
progressVars == <<side, vars, transferVars, clockVars, sessionVars, zmodemVars>>

LEMMA FilesInit == ProgressInit => Files
BY TransferInvInit, ZInvInit DEF ProgressInit, Files

\* A step is one of a protocol, and then the other stands still, or neither moves.
LEMMA OneMoves ==
  [ProgressNext]_progressVars =>
    \/ TransferNext /\ UNCHANGED zmodemVars
    \/ ZmodemNext /\ UNCHANGED transferVars
    \/ UNCHANGED <<transferVars, zmodemVars>>
BY DEF ProgressNext, progressVars

LEMMA FilesKept == Files /\ [ProgressNext]_progressVars => Files'
<1> SUFFICES ASSUME TransferInv, ZInv, [ProgressNext]_progressVars PROVE Files'  BY DEF Files
<1>1. CASE TransferNext /\ UNCHANGED zmodemVars  BY <1>1, TransferInvKept, ZInvStutters DEF Files
<1>2. CASE ZmodemNext /\ UNCHANGED transferVars  BY <1>2, ZInvKept, TransferInvStutters DEF Files
<1>3. CASE UNCHANGED <<transferVars, zmodemVars>>  BY <1>3, ZInvStutters, TransferInvStutters DEF Files
<1>4. QED  BY <1>1, <1>2, <1>3, OneMoves

\* Whatever a device takes or sends, by any of the three protocols (src/modem), the file that
\* arrives is the one that was sent; the behaviours are those of the run of MC_Progress.
THEOREM FilesAlwaysArrive == ProgressSpec => []FilesArrive
<1>1. ProgressInit => Files  BY FilesInit
<1>2. Files /\ [ProgressNext]_progressVars => Files'  BY FilesKept
<1>3. Files => FilesArrive  BY TransferInvImplies, ZInvImplies DEF FilesArrive, Files
<1>4. QED  BY <1>1, <1>2, <1>3, PTL DEF ProgressSpec, progressVars

\* Every one of the protocols, whatever else the program does meanwhile, implements Delivery.
THEOREM EveryProtocolDelivers == ProgressSpec => ImplementsDelivery
<1>1. ProgressInit => Files  BY FilesInit
<1>2. Files /\ [ProgressNext]_progressVars => Files'  BY FilesKept
<1>3. ProgressInit => Blockwise!Init /\ Piecewise!Init  BY BlockwiseInit, PiecewiseInit DEF ProgressInit
<1>4. Files /\ Files' /\ [ProgressNext]_progressVars
        => [Blockwise!Next]_(Blockwise!deliveryVars) /\ [Piecewise!Next]_(Piecewise!deliveryVars)
  <2> SUFFICES ASSUME Files, Files', [ProgressNext]_progressVars
               PROVE  [Blockwise!Next]_(Blockwise!deliveryVars) /\ [Piecewise!Next]_(Piecewise!deliveryVars)
    OBVIOUS
  <2>1. TransferInv /\ TransferInv' /\ ZInv /\ ZInv'  BY DEF Files
  <2>2. CASE TransferNext /\ UNCHANGED zmodemVars  BY <2>1, <2>2, BlockwiseNext, PiecewiseStutters
  <2>3. CASE ZmodemNext /\ UNCHANGED transferVars  BY <2>1, <2>3, PiecewiseNext, BlockwiseStutters
  <2>4. CASE UNCHANGED <<transferVars, zmodemVars>>  BY <2>4, BlockwiseStutters, PiecewiseStutters
  <2>5. QED  BY <2>2, <2>3, <2>4, OneMoves
<1>5. QED  BY <1>1, <1>2, <1>3, <1>4, PTL DEF ProgressSpec, ImplementsDelivery, progressVars, Blockwise!Spec, Piecewise!Spec
=============================================================================
