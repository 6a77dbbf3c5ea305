------------------------------ MODULE Lifecycle ------------------------------
(***************************************************************************)
(* When a daemon stops by itself: the idle timer and the leases            *)
(* (src/lifecycle.rs), the watcher that asks them every Check units of     *)
(* time (watch_idle in src/cli/daemon.rs, idle_expired in src/engine.rs)   *)
(* and the clients that hold a lease (LeaseKeeper in src/ipc.rs).          *)
(*                                                                         *)
(* Time is a count of units.  Steps take no time of their own; Tick lets a *)
(* unit pass when nothing is due.  Every function of Lifecycle takes the   *)
(* mutex once, so each is one step.                                        *)
(*                                                                         *)
(* A definition whose name begins with Fault is a wrong variant of the one *)
(* that follows it, and no behaviour of LifecycleSpec uses it.             *)
(***************************************************************************)
EXTENDS Integers, FiniteSets

CONSTANTS
  Holder,      \* threads that send requests one at a time; a LeaseKeeper has its own
  Periods,     \* idle periods somebody may set; 0 means never
  FirstPeriod, \* the idle period the daemon starts with
  Check,       \* how often the watcher looks, 5 seconds
  Renew,       \* how often a lease is renewed, a minute
  Ttl,         \* how long a lease lasts, three minutes
  MaxTime,     \* bound: units of time
  MaxData,     \* bound: times data arrives
  MaxTrims,    \* bound: times rows are trimmed, cleared or deleted
  MaxAsked     \* bound: requests, the renewals not counted

ASSUME LifecycleAssumption ==
  /\ IsFiniteSet(Holder)
  /\ Periods \subseteq Nat /\ FirstPeriod \in Periods
  /\ Check \in Nat \ {0} /\ Renew \in Nat \ {0}
  /\ Ttl \in Nat /\ 2 * Renew < Ttl
  /\ MaxTime \in Nat /\ MaxData \in Nat /\ MaxTrims \in Nat /\ MaxAsked \in Nat

NoCount == -1

AskedKind == {"work", "period", "renew", "release"}
\* A request that takes no time; only work does.
Short == {"period", "renew", "release"}

VARIABLES
  now,
  period, lastActivity, leases, lastLines, inFlight,   \* struct Inner
  lines,      \* rows there are, of all open ports
  watcher,    \* asleep, or between two steps of a round
  nextCheck,  \* when it wakes up
  listed,     \* the row count of this round
  stopping,   \* it has asked for the shutdown
  asked,    \* what a client has asked, or "none"
  stage,      \* "begun" or "handled", of that request
  keeper,     \* its LeaseKeeper: none yet, held or gone; an id is used once
  nextRenew,  \* when it renews
  missed,     \* renewals in a row that did not reach the daemon
  lastRequest, lastRenewal, lastChange,      \* history, times
  lastData,   \* history: the last round that found more rows than the one before
  fresh, shrunk, \* history: since the last round rows came, rows went
  data, trims, asks

inner == <<period, lastActivity, leases, lastLines, inFlight>>
watchVars == <<watcher, nextCheck, listed, stopping>>
holderVars == <<asked, stage, keeper, nextRenew, missed>>
idleHistory == <<lastRequest, lastRenewal, lastChange, lastData, fresh, shrunk>>
lifecycleBounds == <<data, trims, asks>>
lifecycleVars == <<now, inner, lines, watchVars, holderVars, idleHistory, lifecycleBounds>>

LifecycleInit ==
  /\ now = 0
  /\ period = FirstPeriod /\ lastActivity = 0 /\ leases = [c \in Holder |-> 0]
  /\ lastLines = NoCount /\ inFlight = 0
  /\ lines = 0
  /\ watcher = "asleep" /\ nextCheck = 0 /\ listed = 0 /\ stopping = FALSE
  /\ asked = [c \in Holder |-> "none"]
  /\ stage = [c \in Holder |-> "begun"]
  /\ keeper = [c \in Holder |-> "none"]
  /\ nextRenew = [c \in Holder |-> 0]
  /\ missed = [c \in Holder |-> 0]
  /\ lastRequest = 0 /\ lastRenewal = [c \in Holder |-> -Ttl]
  /\ lastChange = 0 /\ lastData = 0
  /\ fresh = FALSE /\ shrunk = FALSE
  /\ data = 0 /\ trims = 0 /\ asks = 0

-----------------------------------------------------------------------------
(* Requests.  execute holds a Serving guard from its first step to its     *)
(* last, whatever the request is.                                          *)

Serving == inFlight' = inFlight + 1 /\ lastActivity' = now
Served == inFlight' = inFlight - 1 /\ lastActivity' = now

Begin(c, kind) ==
  /\ asked[c] = "none"
  /\ asked' = [asked EXCEPT ![c] = kind]
  /\ stage' = [stage EXCEPT ![c] = "begun"]
  /\ Serving
  /\ lastRequest' = now

\* Any request that is not about the idle timer, or one that sets the period.
Send(c) ==
  /\ keeper[c] = "none" /\ asks < MaxAsked /\ ~stopping
  /\ \E kind \in {"work", "period"} : Begin(c, kind)
  /\ asks' = asks + 1
  /\ UNCHANGED <<now, period, leases, lastLines, lines, watchVars, keeper, nextRenew, missed,
                 lastRenewal, lastChange, lastData, fresh, shrunk, data, trims>>

FaultTtl == Renew
LeaseTtl == Ttl

HandleRequest(c) ==
  /\ asked[c] # "none" /\ stage[c] = "begun"
  /\ stage' = [stage EXCEPT ![c] = "handled"]
  /\ CASE asked[c] = "work" -> UNCHANGED <<period, leases, lastActivity, lastRenewal>>
     []   asked[c] = "period" -> /\ period' \in Periods
                                   /\ UNCHANGED <<leases, lastActivity, lastRenewal>>
     []   asked[c] = "renew" -> /\ leases' = [leases EXCEPT ![c] = now + LeaseTtl]
                                  /\ lastRenewal' = [lastRenewal EXCEPT ![c] = now]
                                  /\ UNCHANGED <<period, lastActivity>>
     []   asked[c] = "release" -> /\ leases' = [leases EXCEPT ![c] = 0]
                                    /\ lastRenewal' = [lastRenewal EXCEPT ![c] = -Ttl]
                                    /\ lastActivity' = now
                                    /\ UNCHANGED period
  /\ UNCHANGED <<now, lastLines, inFlight, lines, watchVars, asked, keeper, nextRenew,
                 missed, lastRequest, lastChange, lastData, fresh, shrunk, lifecycleBounds>>

\* The answer is on its way; a keeper waits from here to its next renewal.
Finish(c) ==
  /\ asked[c] # "none" /\ stage[c] = "handled"
  /\ asked' = [asked EXCEPT ![c] = "none"]
  /\ Served
  /\ lastRequest' = now
  /\ IF asked[c] = "renew"
     THEN /\ nextRenew' = [nextRenew EXCEPT ![c] = now + Renew]
          /\ missed' = [missed EXCEPT ![c] = 0]
     ELSE UNCHANGED <<nextRenew, missed>>
  /\ UNCHANGED <<now, period, leases, lastLines, lines, watchVars, stage, keeper,
                 lastRenewal, lastChange, lastData, fresh, shrunk, lifecycleBounds>>

-----------------------------------------------------------------------------
(* Clients that stay: a window, a monitor, an MCP session.                 *)

Attach(c) ==
  /\ keeper[c] = "none" /\ asked[c] = "none" /\ ~stopping /\ asks < MaxAsked
  /\ keeper' = [keeper EXCEPT ![c] = "held"]
  /\ nextRenew' = [nextRenew EXCEPT ![c] = now]
  /\ missed' = [missed EXCEPT ![c] = 0]
  /\ asks' = asks + 1
  /\ UNCHANGED <<now, inner, lines, watchVars, asked, stage, idleHistory, data, trims>>

RenewDue(c) == keeper[c] = "held" /\ asked[c] = "none" /\ nextRenew[c] = now /\ ~stopping

RenewLease(c) ==
  /\ RenewDue(c) /\ Begin(c, "renew")
  /\ UNCHANGED <<now, period, leases, lastLines, lines, watchVars, keeper, nextRenew, missed,
                 lastRenewal, lastChange, lastData, fresh, shrunk, lifecycleBounds>>

\* A renewal may fail, as on a daemon that is too busy to answer in time.
RenewalLost(c) ==
  /\ RenewDue(c)
  /\ nextRenew' = [nextRenew EXCEPT ![c] = now + Renew]
  /\ missed' = [missed EXCEPT ![c] = @ + 1]
  /\ UNCHANGED <<now, inner, lines, watchVars, asked, stage, keeper, idleHistory, lifecycleBounds>>

\* The LeaseKeeper is dropped and releases, or its process dies.
Detach(c) ==
  /\ keeper[c] = "held" /\ asked[c] = "none" /\ ~stopping
  /\ keeper' = [keeper EXCEPT ![c] = "gone"]
  /\ Begin(c, "release")
  /\ UNCHANGED <<now, period, leases, lastLines, lines, watchVars, nextRenew, missed,
                 lastRenewal, lastChange, lastData, fresh, shrunk, lifecycleBounds>>

ClientDies(c) ==
  /\ keeper[c] = "held" /\ asked[c] = "none"
  /\ keeper' = [keeper EXCEPT ![c] = "gone"]
  /\ UNCHANGED <<now, inner, lines, watchVars, asked, stage, nextRenew, missed, idleHistory,
                 lifecycleBounds>>

-----------------------------------------------------------------------------
(* What the ports receive, and what becomes of it.                         *)

\* A line arrives.  Bytes that end none change nothing the watcher looks at.
Arrive ==
  /\ data < MaxData
  /\ data' = data + 1
  /\ lines' = lines + 1 /\ lastChange' = now /\ fresh' = TRUE
  /\ UNCHANGED <<now, inner, watchVars, holderVars, lastRequest, lastRenewal, lastData, shrunk,
                 trims, asks>>

\* Rows go: trimmed by the writer, cleared or deleted, or their port is closed.
Trim ==
  /\ trims < MaxTrims /\ lines > 0
  /\ \E n \in 0 .. lines - 1 : lines' = n
  /\ lastChange' = now /\ shrunk' = TRUE
  /\ trims' = trims + 1
  /\ UNCHANGED <<now, inner, watchVars, holderVars, lastRequest, lastRenewal, lastData,
                 fresh, data, asks>>

-----------------------------------------------------------------------------
(* The watcher's round: the row counts of the ports, the comparison with   *)
(* those of the last round, the decision.                                  *)

CheckDue == watcher = "asleep" /\ nextCheck = now /\ ~stopping

ListLines ==
  /\ CheckDue
  /\ listed' = lines
  /\ nextCheck' = now + Check
  /\ watcher' = "listed"
  /\ lastData' = IF fresh /\ ~shrunk THEN now ELSE lastData
  /\ fresh' = FALSE /\ shrunk' = FALSE
  /\ UNCHANGED <<now, inner, lines, stopping, holderVars, lastRequest, lastRenewal, lastChange,
                 lifecycleBounds>>

FaultDataArrived == lastLines # NoCount
DataArrived == lastLines # NoCount /\ lastLines # listed

Counted == listed

ObserveLines ==
  /\ watcher = "listed"
  /\ lastActivity' = IF DataArrived THEN now ELSE lastActivity
  /\ lastLines' = Counted
  /\ watcher' = "observed"
  /\ UNCHANGED <<now, period, leases, inFlight, lines, nextCheck, listed, stopping, holderVars,
                 idleHistory, lifecycleBounds>>

Held == \E c \in Holder : leases[c] > now

IdleExpired ==
  /\ period > 0 /\ ~Held /\ inFlight = 0
  /\ now - lastActivity >= period

\* Lapsed leases are dropped on the way.
Decide ==
  /\ watcher = "observed"
  /\ leases' = [c \in Holder |-> IF leases[c] > now THEN leases[c] ELSE 0]
  /\ stopping' = IdleExpired
  /\ watcher' = "asleep"
  /\ UNCHANGED <<now, period, lastActivity, lastLines, inFlight, lines, nextCheck, listed,
                 holderVars, idleHistory, lifecycleBounds>>

-----------------------------------------------------------------------------
Tick ==
  /\ now < MaxTime /\ ~stopping
  /\ watcher = "asleep" /\ ~CheckDue
  /\ \A c \in Holder : /\ ~RenewDue(c)
                       /\ asked[c] \notin Short
                       /\ asked[c] = "work" => stage[c] = "begun"
  /\ now' = now + 1
  /\ UNCHANGED <<inner, lines, watchVars, holderVars, idleHistory, lifecycleBounds>>

LifecycleNext ==
  \/ \E c \in Holder : \/ Send(c) \/ HandleRequest(c) \/ Finish(c)
                       \/ Attach(c) \/ RenewLease(c) \/ RenewalLost(c)
                       \/ Detach(c) \/ ClientDies(c)
  \/ Arrive \/ Trim
  \/ ListLines \/ ObserveLines \/ Decide
  \/ Tick

LifecycleSpec == LifecycleInit /\ [][LifecycleNext]_lifecycleVars

-----------------------------------------------------------------------------
(* Properties.                                                             *)

\* Every variable has its type.
LifecycleTypeOK ==
  /\ now \in 0 .. MaxTime
  /\ period \in Periods /\ lastActivity \in 0 .. now
  /\ leases \in [Holder -> Nat] /\ lastLines \in Nat \cup {NoCount}
  /\ inFlight = Cardinality({c \in Holder : asked[c] # "none"})
  /\ lines \in Nat /\ listed \in Nat
  /\ watcher \in {"asleep", "listed", "observed"}
  /\ nextCheck \in Nat /\ stopping \in BOOLEAN
  /\ asked \in [Holder -> AskedKind \cup {"none"}]
  /\ stage \in [Holder -> {"begun", "handled"}]
  /\ keeper \in [Holder -> {"none", "held", "gone"}]
  /\ nextRenew \in [Holder -> Nat] /\ missed \in [Holder -> Nat]
  /\ lastRequest \in 0 .. now /\ lastRenewal \in [Holder -> Int]
  /\ lastChange \in 0 .. now /\ lastData \in 0 .. now
  /\ fresh \in BOOLEAN /\ shrunk \in BOOLEAN
  /\ data \in Nat /\ trims \in Nat /\ asks \in Nat

Stops == ~stopping /\ stopping'

\* The daemon does not stop while a request is being served, nor before a
\* whole idle period has passed since the last one began or ended, nor at all
\* when the period is 0.
ServedHolds ==
  [][Stops => /\ \A c \in Holder : asked[c] = "none"
              /\ period > 0 /\ now - lastRequest >= period]_lifecycleVars

\* It does not stop before a whole period has passed since a round of the
\* watcher found rows that the round before had not, none having gone.
LinesHold == [][Stops => now - lastData >= period]_lifecycleVars

\* It does not stop while a client is attached that has got through once,
\* although one renewal in a row is lost.
AttachedHolds ==
  [][Stops => \A c \in Holder : keeper[c] = "held" => lastRenewal[c] = -Ttl \/ missed[c] > 1]_lifecycleVars

\* The daemon does not stop under anybody: a request, data or a client.
NotUnderAnybody == ServedHolds /\ LinesHold /\ AttachedHolds

\* A client that died holds the daemon for Ttl after its last renewal at most,
\* and a daemon that nothing holds stops within two rounds of the watcher.
Quiet == \A c \in Holder : asked[c] = "none"
StopsInTime ==
  (period > 0 /\ Quiet /\ ~stopping) =>
    \/ \E c \in Holder : now <= lastRenewal[c] + Ttl + Check
    \/ now <= lastRequest + period + Check
    \/ now <= lastChange + period + 2 * Check

=============================================================================
