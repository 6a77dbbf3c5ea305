------------------------------ MODULE ReaderClock ------------------------------
(***************************************************************************)
(* The two clocks of the reader task of src/reader.rs: the interval after  *)
(* which a batch that is not full is written, and the backoff between two  *)
(* attempts to open a port that went away.                                 *)
(*                                                                         *)
(* Time advances in ticks.  Capture says what happens to every byte; here  *)
(* a batch is a number of lines, the channel always has room, and only the *)
(* times are kept.  The sleep of the select in reader_loop is created anew *)
(* on every turn of the loop, so every read starts it again, and the       *)
(* select is biased, so bytes that arrive as it expires come first.        *)
(*                                                                         *)
(* A definition whose name begins with Fault is a wrong variant of the one *)
(* that follows it, and is used by no behaviour of ClockSpec.              *)
(***************************************************************************)
EXTENDS Integers

CONSTANTS
  Interval,      \* flush_interval, in ticks
  BatchSize,     \* flush_batch_size
  LinesPerRead,  \* lines one read may complete
  Base,          \* reconnect_interval_ms, in ticks
  MaxBackoff,    \* reconnect_max_backoff_ms, in ticks
  AttemptCap,    \* attempts that still lengthen the backoff; 15 in the code
  MaxAttempts,   \* where the attempt counter saturates; u32::MAX in the code
  MaxBare        \* bound: reads without the end of a line, per batch

ASSUME ClockAssumption ==
  /\ Interval \in Nat /\ BatchSize \in Nat \ {0} /\ LinesPerRead \in Nat
  /\ Base \in Nat /\ MaxBackoff \in Nat
  /\ AttemptCap \in Nat \ {0} /\ MaxAttempts \in Nat \ {0}
  /\ MaxBare \in Nat

VARIABLES
  link,      \* the task reads ("up"), waits to reconnect ("down"), has ended ("off")
  armed,     \* ticks since the sleep of the select was created
  lines,     \* complete lines in the batch
  age,       \* ticks since the oldest of them was read
  bare,      \* reads since then that completed no line
  attempts,  \* reconnect attempts since the link was lost
  gap,       \* the backoff before the current attempt
  wait       \* what is left of it

batchVars == <<lines, age, bare>>
backoffVars == <<attempts, gap, wait>>
clockVars == <<link, armed, batchVars, backoffVars>>

Least(m, n) == IF m <= n THEN m ELSE n

\* The wait before attempt n.
Backoff(n) == Least(Base * Least(n, AttemptCap), MaxBackoff)

ClockInit ==
  /\ link = "up" /\ armed = 0
  /\ lines = 0 /\ age = 0 /\ bare = 0
  /\ attempts = 0 /\ gap = 0 /\ wait = 0

-----------------------------------------------------------------------------
EmptyBatch == lines' = 0 /\ age' = 0 /\ bare' = 0

\* The read arm of the select, with n lines completed by what was read.
Read ==
  /\ link = "up"
  /\ \E n \in 0 .. LinesPerRead :
       \/ lines + n >= BatchSize /\ EmptyBatch
       \/ /\ lines + n < BatchSize
          /\ n = 0 /\ lines > 0 => bare < MaxBare
          /\ lines' = lines + n
          /\ bare' = IF lines > 0 /\ n = 0 THEN bare + 1 ELSE bare
          /\ UNCHANGED age
  /\ armed' = 0
  /\ UNCHANGED <<link, backoffVars>>

\* One line is thought too few to bother the storage with.
FaultDue == lines > 1
\* What the timer writes: any batch that is not empty.
Due == lines > 0

\* The sleep of the select ends.
TimerFires ==
  /\ link = "up" /\ armed = Interval
  /\ IF Due THEN EmptyBatch ELSE UNCHANGED batchVars
  /\ armed' = 0
  /\ UNCHANGED <<link, backoffVars>>

\* The read fails or ends: the batch is written whatever the time, and unless
\* the port reconnects by itself the task is over.
LinkLost ==
  /\ link = "up"
  /\ EmptyBatch /\ armed' = 0
  /\ \/ link' = "off" /\ UNCHANGED backoffVars
     \/ /\ link' = "down" /\ attempts' = 1
        /\ gap' = Backoff(1) /\ wait' = gap'

\* The sleep of the reconnect loop is over and try_connect answers.
Retry ==
  /\ link = "down" /\ wait = 0
  /\ \/ /\ link' = "up" /\ armed' = 0
        /\ attempts' = 0 /\ gap' = 0 /\ wait' = 0
     \/ /\ attempts' = Least(attempts + 1, MaxAttempts)
        /\ gap' = Backoff(attempts') /\ wait' = gap'
        /\ UNCHANGED <<link, armed>>
  /\ UNCHANGED batchVars

\* The shutdown arm of either select.
ClockStop ==
  /\ link # "off" /\ link' = "off"
  /\ EmptyBatch /\ armed' = 0
  /\ UNCHANGED backoffVars

\* Time passes, except past the end of a sleep.
Tick ==
  /\ \/ /\ link = "up" /\ armed < Interval
        /\ armed' = armed + 1
        /\ age' = IF lines > 0 THEN age + 1 ELSE 0
        /\ UNCHANGED wait
     \/ /\ link = "down" /\ wait > 0
        /\ wait' = wait - 1
        /\ UNCHANGED <<armed, age>>
  /\ UNCHANGED <<link, lines, bare, attempts, gap>>

ClockNext == \/ Read \/ TimerFires \/ LinkLost \/ Retry \/ ClockStop \/ Tick

ClockSpec == ClockInit /\ [][ClockNext]_clockVars

-----------------------------------------------------------------------------
(* Properties.                                                             *)

\* Every variable has its type, and the batch is not full between two steps.
ClockTypeOK ==
  /\ link \in {"up", "down", "off"}
  /\ armed \in 0 .. Interval
  /\ lines \in 0 .. BatchSize - 1
  /\ age \in Nat /\ bare \in 0 .. MaxBare
  /\ attempts \in 0 .. MaxAttempts
  /\ gap \in 0 .. MaxBackoff /\ wait \in 0 .. gap

\* How late a line may be written: one interval for each line behind it in the
\* batch and one for each read without the end of a line, and not one interval
\* in all, because each read starts the sleep of reader_loop again.
LateByReads == lines > 0 => age <= Interval * (lines + bare)

\* While a device stays away the daemon asks for it at intervals that never
\* shrink and never exceed reconnect_max_backoff_ms (reader_with_reconnect).
GapsGrow == [][link = "down" /\ link' = "down" => gap' >= gap]_clockVars

=============================================================================
