---------------------------- MODULE MC_Progress ----------------------------
(***************************************************************************)
(* What must come to an end: a file transfer by either kind of protocol, a *)
(* wait of the reader task, the start of a daemon, here one of two, and    *)
(* what a surface has to learn of its device.  They have no state in       *)
(* common, so a behaviour is one of them, and the parts that do not move   *)
(* start in one state.                                                     *)
(***************************************************************************)
EXTENDS Endpoint, Transfer, ReaderClock, Session, Zmodem

VARIABLE side

BothProtocols == {"xmodem", "ymodem"}

ProgressInit ==
  /\ Init /\ TransferInit /\ ClockInit /\ ZmodemInit
  /\ side \in {"endpoint", "transfer", "clock", "session", "zmodem"}
  /\ SessionInit /\ (side # "session" =>
       /\ surface = "window" /\ pin = "low"
       /\ deviceLink = CHOOSE l \in Link : TRUE
       /\ settings = CHOOSE s \in Settings : TRUE)
  /\ (side # "transfer" => proto = "xmodem") /\ (side # "zmodem" => pieces = 0)

ProgressNext ==
  \/ side = "endpoint" /\ Next /\ UNCHANGED <<side, transferVars, clockVars, sessionVars, zmodemVars>>
  \/ side = "transfer" /\ TransferNext /\ UNCHANGED <<side, vars, clockVars, sessionVars, zmodemVars>>
  \/ side = "clock" /\ ClockNext /\ UNCHANGED <<side, vars, transferVars, sessionVars, zmodemVars>>
  \/ side = "session" /\ SessionNext /\ UNCHANGED <<side, vars, transferVars, clockVars, zmodemVars>>
  \/ side = "zmodem" /\ ZmodemNext /\ UNCHANGED <<side, vars, transferVars, clockVars, sessionVars>>

ProgressSpec ==
  /\ ProgressInit /\ [][ProgressNext]_<<side, vars, transferVars, clockVars, sessionVars, zmodemVars>>
  /\ Fairness /\ TransferFairness
  /\ WF_sessionVars(side = "session" /\ StatusPoll)
  /\ ZmodemFairness

\* By every protocol: the file that arrives is the one that was sent.
FilesArrive == FileArrives /\ ZmodemArrives

\* Each of them keeps the promise of Delivery (src/modem): pieces in their order, one
\* outcome for each side, and success of either only with the whole file.
ImplementsDelivery == Blockwise!Spec /\ Piecewise!Spec

\* By every protocol a send ends.
SendsEnd == SendEnds /\ ZmodemEnds
=============================================================================
