------------------------------- MODULE Streams -------------------------------
(***************************************************************************)
(* The event streams of the HTTP interface (src/rest.rs): a flash that     *)
(* runs as a job, whose output a client follows line by line until the     *)
(* outcome, and the capture of a port, which it follows without end.  A    *)
(* client that loses its connection resumes behind the last event it got.  *)
(*                                                                         *)
(* A line of a job or of the capture is its number.  The task that flashes,*)
(* the pump that moves the tool's lines into the log, and each stream are  *)
(* processes; the log of a job has a mutex, and its revision is raised     *)
(* after the mutex is released.                                            *)
(***************************************************************************)
EXTENDS Integers, Sequences, FiniteSetsExt

CONSTANTS
  NumJobs,   \* bound: jobs made
  Followers, \* clients with an event stream
  JobsKept,  \* how many jobs the registry keeps, sixteen
  MaxLines,  \* bound: lines that tools print and the port captures
  PageSize,  \* rows of one answer to a read
  MaxBreaks, \* bound: connections that break
  MaxReplaced \* bound: listeners that replace the one before

ASSUME StreamsAssumption ==
  /\ NumJobs \in Nat
  /\ JobsKept \in Nat \ {0} /\ PageSize \in Nat \ {0}
  /\ MaxLines \in Nat /\ MaxBreaks \in Nat /\ MaxReplaced \in Nat

\* Ids in the order in which the jobs are made.
Jobs == 1..NumJobs

VARIABLES
  job,       \* what every job has done and logged
  registry,  \* the jobs the listener knows, oldest first
  rows,      \* the rows of the port: the first kept, the last stored, and whether it is managed
  follower,  \* a client and the stream that serves it
  breaks, replaced

streamVars == <<job, registry, rows, follower, breaks, replaced>>

LinesSoFar == rows.last + FoldSet(LAMBDA j, n : n + job[j].printed, 0, Jobs)

-----------------------------------------------------------------------------
(* A job.  tool: the tool runs, has ended, or its end was seen; printed    *)
(* lines wait in a channel until the pump has pushed them to the log.      *)

NewJob == [tool |-> "none", printed |-> 0, log |-> 0, pump |-> "idle", outcome |-> "none", revision |-> 0]
Unfinished(j) == job[j].outcome = "none"

FaultRemember(known, j) ==
  LET all == Append(known, j) IN
  IF Len(all) > JobsKept THEN Tail(all) ELSE all

\* Dropping is for finished jobs at the front, until no more than JobsKept remain.
Remember(known, j) ==
  LET all == Append(known, j)
      May(n) == n = 0 \/ (n <= Len(all) - JobsKept /\ \A i \in 1..n : ~Unfinished(all[i]))
      drop == CHOOSE n \in 0..Len(all) : May(n) /\ ~May(n + 1)
  IN SubSeq(all, drop + 1, Len(all))

EspFlash(j) ==
  /\ job[j].tool = "none" /\ \A i \in 1..(j - 1) : job[i].tool # "none"
  /\ registry' = Remember(registry, j)
  /\ job' = [job EXCEPT ![j].tool = "runs"]
  /\ UNCHANGED <<rows, follower, breaks, replaced>>

ToolPrints(j) ==
  /\ job[j].tool = "runs" /\ LinesSoFar < MaxLines
  /\ job' = [job EXCEPT ![j].printed = @ + 1]
  /\ UNCHANGED <<registry, rows, follower, breaks, replaced>>

\* The tool ends and drops its end of the channel.
ToolEnds(j) ==
  /\ job[j].tool = "runs"
  /\ \E result \in {"ok", "failed"} : job' = [job EXCEPT ![j].tool = result]
  /\ UNCHANGED <<registry, rows, follower, breaks, replaced>>

\* The pump: Job.push writes under the mutex and raises the revision after it.
PumpWrites(j) ==
  /\ job[j].pump = "idle" /\ job[j].log < job[j].printed
  /\ job' = [job EXCEPT ![j].log = @ + 1, ![j].pump = "wrote"]
  /\ UNCHANGED <<registry, rows, follower, breaks, replaced>>

PumpSignals(j) ==
  /\ job[j].pump = "wrote"
  /\ job' = [job EXCEPT ![j].pump = "idle", ![j].revision = @ + 1]
  /\ UNCHANGED <<registry, rows, follower, breaks, replaced>>

\* recv answers None when the channel is empty and the tool's end is gone.
PumpEnds(j) ==
  /\ job[j].pump = "idle" /\ job[j].log = job[j].printed /\ job[j].tool \in {"ok", "failed"}
  /\ job' = [job EXCEPT ![j].pump = "ended"]
  /\ UNCHANGED <<registry, rows, follower, breaks, replaced>>

FaultMayFinish(j) == job[j].tool \in {"ok", "failed"}

MayFinish(j) == job[j].pump = "ended"
\* The task waits for the pump, and only then gives the log its outcome.
JobFinishes(j) ==
  /\ MayFinish(j) /\ job[j].outcome = "none"
  /\ job' = [job EXCEPT ![j].outcome = job[j].tool]
  /\ UNCHANGED <<registry, rows, follower, breaks, replaced>>

JobSignals(j) ==
  /\ job[j].outcome # "none" /\ job[j].tool # "over"
  /\ job' = [job EXCEPT ![j].tool = "over", ![j].revision = @ + 1]
  /\ UNCHANGED <<registry, rows, follower, breaks, replaced>>

\* The registry belongs to the router: another listener begins with none.
ListenerReplaced ==
  /\ replaced < MaxReplaced
  /\ registry' = <<>> /\ replaced' = replaced + 1
  /\ UNCHANGED <<job, rows, follower, breaks>>

-----------------------------------------------------------------------------
(* The capture of the port, as far as a stream sees it.                    *)

RowStored ==
  /\ LinesSoFar < MaxLines /\ rows.open /\ rows' = [rows EXCEPT !.last = @ + 1]
  /\ UNCHANGED <<job, registry, follower, breaks, replaced>>

\* A trim, or a clear, takes rows from the front.
RowsTrimmed ==
  /\ \E first \in (rows.first + 1)..(rows.last + 1) : rows' = [rows EXCEPT !.first = first]
  /\ UNCHANGED <<job, registry, follower, breaks, replaced>>

PortToggles ==
  /\ breaks < MaxBreaks /\ breaks' = breaks + 1
  /\ rows' = [rows EXCEPT !.open = ~@]
  /\ UNCHANGED <<job, registry, follower, replaced>>

-----------------------------------------------------------------------------
(* A follower: of is the job or ThePort; got is the last line it received, *)
(* and events how many it received.  at is where its stream is, sent the   *)
(* server's count, page what is yet to be yielded, saw the revision it has *)
(* seen, and outcome the end it has read with the page.                    *)

Nobody == 0
ThePort == -1
NoFollower == [of |-> Nobody, at |-> "away", got |-> 0, events |-> 0, sent |-> 0,
               page |-> <<>>, saw |-> 0, outcome |-> "none", told |-> "none"]

\* What a job's log holds behind the lines already sent.
Since(j, sent) == [i \in 1..(IF job[j].log > sent THEN job[j].log - sent ELSE 0) |-> sent + i]

\* A client asks for a job it knows of.  The stream resumes behind the last
\* event, and subscribes to the revision before it reads the log.
FollowJob(f, j) ==
  /\ follower[f].at = "away" /\ follower[f].of \in {Nobody, j} /\ follower[f].told = "none"
  /\ job[j].tool # "none"
  /\ IF \E i \in 1..Len(registry) : registry[i] = j
     THEN follower' = [follower EXCEPT ![f] =
            [@ EXCEPT !.of = j, !.at = "read", !.sent = follower[f].got, !.saw = job[j].revision]]
     ELSE follower' = [follower EXCEPT ![f] = [@ EXCEPT !.of = j, !.told = "no such job"]]
  /\ UNCHANGED <<job, registry, rows, breaks, replaced>>

\* Lines and outcome come from one lock.
ReadLog(f, j) ==
  /\ follower[f].of = j /\ follower[f].at = "read"
  /\ follower' = [follower EXCEPT ![f] =
       [@ EXCEPT !.page = Since(j, follower[f].sent), !.outcome = job[j].outcome, !.at = "yield"]]
  /\ UNCHANGED <<job, registry, rows, breaks, replaced>>

\* One event, with its id; the client remembers it.
Yield(f) ==
  /\ follower[f].at = "yield" /\ follower[f].page # <<>>
  /\ LET id == Head(follower[f].page) IN
     follower' = [follower EXCEPT ![f] =
       [@ EXCEPT !.sent = id, !.got = id, !.page = Tail(follower[f].page),
                 !.events = follower[f].events + 1]]
  /\ UNCHANGED <<job, registry, rows, breaks, replaced>>

TellOutcome(f) ==
  /\ follower[f].at = "yield" /\ follower[f].page = <<>> /\ follower[f].outcome # "none"
  /\ follower' = [follower EXCEPT ![f] = [@ EXCEPT !.told = follower[f].outcome, !.at = "away"]]
  /\ UNCHANGED <<job, registry, rows, breaks, replaced>>

\* Subscribing only when there is nothing to yield: what was logged since the
\* read has raised a revision that counts as seen.
FaultWaitForChange(f, j) ==
  /\ follower[f].of = j
  /\ \/ /\ follower[f].at = "yield" /\ follower[f].page = <<>> /\ follower[f].outcome = "none"
        /\ follower' = [follower EXCEPT ![f] = [@ EXCEPT !.saw = job[j].revision, !.at = "waits"]]
     \/ /\ follower[f].at = "waits" /\ job[j].revision # follower[f].saw
        /\ follower' = [follower EXCEPT ![f] = [@ EXCEPT !.at = "read"]]
  /\ UNCHANGED <<job, registry, rows, breaks, replaced>>

\* Nothing to yield and no outcome: wait for a revision not yet seen.
WaitForChange(f, j) ==
  /\ follower[f].of = j /\ follower[f].at = "yield" /\ follower[f].page = <<>>
  /\ follower[f].outcome = "none" /\ job[j].revision # follower[f].saw
  /\ follower' = [follower EXCEPT ![f] = [@ EXCEPT !.saw = job[j].revision, !.at = "read"]]
  /\ UNCHANGED <<job, registry, rows, breaks, replaced>>

FollowPort(f) ==
  /\ follower[f].at = "away" /\ follower[f].of \in {Nobody, ThePort}
  /\ follower' = [follower EXCEPT ![f] = [@ EXCEPT !.of = ThePort, !.at = "read", !.sent = follower[f].got]]
  /\ UNCHANGED <<job, registry, rows, breaks, replaced>>

\* The cursor is the last row sent, and not the one behind it.
FaultPage(after) ==
  LET from == IF after > rows.first THEN after ELSE rows.first
      to == IF from + PageSize - 1 < rows.last THEN from + PageSize - 1 ELSE rows.last
  IN [i \in 1..(IF to >= from THEN to - from + 1 ELSE 0) |-> from + i - 1]

\* The page behind the last row sent, which may be empty when the wait is over.
\* A port that is no longer managed ends the stream.
Page(after) ==
  LET from == IF after + 1 > rows.first THEN after + 1 ELSE rows.first
      to == IF from + PageSize - 1 < rows.last THEN from + PageSize - 1 ELSE rows.last
  IN [i \in 1..(IF to >= from THEN to - from + 1 ELSE 0) |-> from + i - 1]

ReadRows(f) ==
  /\ follower[f].of = ThePort
  /\ follower[f].page = <<>> /\ follower[f].at \in {"read", "yield"}
  /\ follower' = [follower EXCEPT ![f] =
       IF rows.open THEN [@ EXCEPT !.page = Page(follower[f].sent), !.at = "yield"]
       ELSE [@ EXCEPT !.at = "away"]]
  /\ UNCHANGED <<job, registry, rows, breaks, replaced>>

\* The connection breaks, and the stream is dropped with all it had yet to yield.
StreamBreaks(f) ==
  /\ breaks < MaxBreaks /\ follower[f].at # "away"
  /\ follower' = [follower EXCEPT ![f] = [@ EXCEPT !.at = "away", !.page = <<>>]]
  /\ breaks' = breaks + 1
  /\ UNCHANGED <<job, registry, rows, replaced>>

StreamInit ==
  /\ job = [j \in Jobs |-> NewJob] /\ registry = <<>>
  /\ rows = [first |-> 1, last |-> 0, open |-> TRUE]
  /\ follower = [f \in Followers |-> NoFollower]
  /\ breaks = 0 /\ replaced = 0

JobStep(j) ==
  ToolEnds(j) \/ PumpWrites(j) \/ PumpSignals(j) \/ PumpEnds(j) \/ JobFinishes(j) \/ JobSignals(j)
StreamStep(f) ==
  \/ Yield(f) \/ TellOutcome(f) \/ ReadRows(f)
  \/ \E j \in Jobs : ReadLog(f, j) \/ WaitForChange(f, j)

StreamNext ==
  \/ ListenerReplaced \/ RowStored \/ RowsTrimmed \/ PortToggles
  \/ \E j \in Jobs : EspFlash(j) \/ ToolPrints(j) \/ JobStep(j)
  \/ \E f \in Followers : \/ StreamStep(f) \/ FollowPort(f) \/ StreamBreaks(f)
                        \/ \E j \in Jobs : FollowJob(f, j)

\* The runtime polls tasks that can go on; a tool ends, as esp.rs has it return.
StreamFairness ==
  /\ \A j \in Jobs : WF_streamVars(JobStep(j))
  /\ \A f \in Followers : WF_streamVars(StreamStep(f))

StreamSpec == StreamInit /\ [][StreamNext]_streamVars /\ StreamFairness

-----------------------------------------------------------------------------
(* Properties. *)

\* A follower of a job gets every line once, whatever breaks, and when it is told
\* the outcome it has all the tool printed.
JobTold(f, j) ==
  follower[f].of = j =>
    /\ follower[f].events = follower[f].got
    /\ follower[f].told \in {"ok", "failed"} => follower[f].got = job[j].printed
\* "A running job is somebody's stream": it is found as long as the listener
\* that made it was not replaced.
RunningFound ==
  replaced = 0 => \A j \in Jobs :
    job[j].tool # "none" /\ Unfinished(j) => \E i \in 1..Len(registry) : registry[i] = j
StreamsFaithful ==
  /\ RunningFound
  /\ \A f \in Followers, j \in Jobs : JobTold(f, j)

\* The streams implement Feeds: a job drops no line, the port has no outcome, and
\* a follower's place is the last line that it received.
Sources == Jobs \cup {ThePort}
Feed == INSTANCE Feeds WITH
  lines <- [s \in Sources |-> IF s = ThePort THEN rows.last ELSE job[s].printed],
  first <- [s \in Sources |-> IF s = ThePort THEN rows.first ELSE 1],
  ending <- [s \in Sources |-> IF s = ThePort THEN "none" ELSE job[s].outcome],
  of <- [f \in Followers |-> follower[f].of],
  got <- [f \in Followers |-> follower[f].got],
  events <- [f \in Followers |-> follower[f].events],
  told <- [f \in Followers |-> follower[f].told]
ImplementsFeeds == Feed!Spec

\* A stream of a job ends, with the outcome or with its connection: no change of
\* the log goes unnoticed between the read and the wait.
StreamEnds ==
  \A f \in Followers : (follower[f].of \in Jobs /\ follower[f].at # "away") ~> (follower[f].at = "away")
=============================================================================
