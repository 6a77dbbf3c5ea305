------------------------------ MODULE Commands ------------------------------
(***************************************************************************)
(* The command line and the tools of the MCP server as clients of the      *)
(* daemon (src/cli, src/server.rs, IpcClient in src/ipc.rs): what starts a *)
(* daemon and what does not, the one repetition, how long each front end   *)
(* waits, the note about a daemon of another build, and what a tool does   *)
(* against the hints it is announced with.                                 *)
(*                                                                         *)
(* Exchange has the connection of one request and the drain of the daemon; *)
(* here a request reaches a serving daemon at once, which acts on it and   *)
(* answers later.  Fault definitions are wrong variants.                   *)
(***************************************************************************)
EXTENDS Integers

CONSTANTS
  Processes,  \* devserial processes: commands and MCP servers
  Asks,       \* what they may be told to do: a subset of Command \cup Tool
  MaxEnds,   \* bound: daemons that stop
  MaxCalls    \* bound: commands and tool calls begun

-----------------------------------------------------------------------------
(* Commands and tools. *)

\* request_existing: these ask a running daemon and start none.
Questions == {"list", "daemon --status", "daemon --stop", "daemon --set-idle-timeout", "rest"}

\* request: these start one.
Instructions ==
  {"open", "close", "read", "read --follow", "write", "break", "signal", "search", "export",
   "clear", "delete", "stats", "rest --enable", "rest --disable", "flash"}
  \cup {"send", "recv", "macro"}

Command == Questions \cup Instructions

\* The tools, by what they are announced as.
ReadOnly == {"serial_read", "serial_status", "serial_search", "serial_list", "serial_esp_info"}
Destructive ==
  {"serial_export", "serial_clear", "serial_write", "serial_send_file", "serial_receive_file",
   "serial_macro", "serial_esp_flash", "serial_esp_erase", "serial_esp_write_bin"}
FaultIdempotent == {"serial_open", "serial_close", "serial_signal", "serial_break"}
Idempotent == {"serial_open", "serial_close", "serial_signal"}
McpTool == ReadOnly \cup Destructive \cup Idempotent \cup {"serial_break"}

Esp == {"flash", "serial_esp_flash", "serial_esp_info", "serial_esp_erase", "serial_esp_write_bin"}

\* Requests a daemon may work on for minutes.
Long ==
  Esp \cup {"send", "recv", "macro", "serial_send_file", "serial_receive_file", "serial_macro"}

ASSUME CommandsAssumption ==
  Asks \subseteq Command \cup McpTool /\ MaxEnds \in Nat /\ MaxCalls \in Nat

\* The port as the requests change it: whether it is open, the level of its
\* lines, the rows stored, what was sent to the device, how often the device was
\* reset, its program, and the files written (Ports has its settings, Capture the
\* rows the device's own lines become).  Counters stop at 2: "more".
More(n) == IF n < 2 THEN n + 1 ELSE n

\* log_to_buffer: a row that tells of the request, where there is a buffer and it
\* takes the row.
Marked(w) == IF w.open THEN {w, [w EXCEPT !.rows = More(@)]} ELSE {w}

\* esp_operation: the tool resets the device, unless told not to, and the port is
\* opened again if it was open, which may fail.
AfterTool(w) == {[w EXCEPT !.resets = r, !.open = o] : r \in {w.resets, More(w.resets)},
                                                      o \in {FALSE, w.open}}

\* The tool that writes to the chip has its row, if the port came back.
Flashed(w) == UNION {Marked([x EXCEPT !.program = More(@)]) : x \in AfterTool(w)}

\* A request that writes a file, and one that fails before or is asked not to.
Written(w) == {w, [w EXCEPT !.files = More(@)]}

\* receive_file: with its row if it has its file.
Received(w) == UNION {Marked(x) : x \in Written([w EXCEPT !.sent = More(@)])}

\* A deletion down to some of the lines, and a copy of them first.
Emptied(w, left) == UNION {Written([w EXCEPT !.rows = n]) : n \in left}

\* delete_lines: some are gone, and a row says so.
Deleted(w) == UNION {Marked(x) : x \in Emptied(w, 0..w.rows)}

\* What a request that is carried out, or fails half way, leaves.
Effects(ask, w) ==
  CASE ask \in {"open", "serial_open"} ->
         IF w.open THEN Marked(w) ELSE {[w EXCEPT !.open = TRUE]}
    [] ask \in {"close", "serial_close"} -> {[w EXCEPT !.open = FALSE]}
    [] ask \in {"signal", "serial_signal"} -> {[w EXCEPT !.levels = "set"]}
    [] ask \in {"clear", "serial_clear"} -> Emptied(w, {0, w.rows})
    [] ask = "delete" -> Deleted(w)
    [] ask \in {"export", "serial_export"} -> Written(w)
    [] ask \in {"recv", "serial_receive_file"} -> Received(w)
    [] ask \in {"write", "serial_write"} -> {[w EXCEPT !.sent = More(@)]}
    [] ask \in {"break", "serial_break", "send", "serial_send_file"} ->
         Marked([w EXCEPT !.sent = More(@)])
    [] ask \in {"macro", "serial_macro"} ->
         Marked([w EXCEPT !.sent = More(@), !.levels = "set"])
    [] ask = "serial_esp_info" -> AfterTool(w)
    [] ask \in Esp \ {"serial_esp_info"} -> Flashed(w)
    [] OTHER -> {w}

\* A request that is refused, or fails at once, leaves all as it was; most need an
\* open port.
Does(ask, w) ==
  IF w.open \/ ask \in {"open", "serial_open"} \cup Esp THEN {w} \cup Effects(ask, w) ELSE {w}

-----------------------------------------------------------------------------
VARIABLES
  daemon,   \* "none", "starting", "serving"
  build,    \* its build: "this" or "other"
  world,
  where,       \* "out", "check", "wait", "send", "served", "warn", "follows", "ready", "done"
  mcp,      \* processes that are MCP servers
  ask,      \* what each is doing
  again,    \* whether its request was refused once
  notice,   \* the note an MCP server has yet to pass on
  told,     \* how often its user was told of another build
  ended,   \* how the last command or call ended
  gone,  \* history: daemons that stopped during it
  completed,\* history: results of tools an MCP server has given
  differed, \* history: an MCP server met another build when it started
  calls, ends

daemonVars == <<daemon, build, world>>
noteVars == <<notice, told, completed, differed>>
processVars == <<where, mcp, ask, again, ended, noteVars>>
bounds == <<calls, ends>>
commandsVars == <<daemonVars, processVars, gone, bounds>>

CommandsInit ==
  /\ daemon = "none" /\ build = "this"
  /\ world = [open |-> FALSE, levels |-> "free", rows |-> 1, files |-> 0, sent |-> 0,
              resets |-> 0, program |-> 0]
  /\ where = [p \in Processes |-> "out"] /\ mcp = {}
  /\ ask = [p \in Processes |-> "none"] /\ again = [p \in Processes |-> FALSE]
  /\ notice = again /\ told = [p \in Processes |-> 0] /\ ended = ask
  /\ gone = told /\ completed = told /\ differed = {}
  /\ calls = 0 /\ ends = 0

To(p, label) == where' = [where EXCEPT ![p] = label]

-----------------------------------------------------------------------------
(* Beginning. *)

\* request_existing sends at once; request looks for a daemon first.
FaultStartsWith(a) == "check"
StartsWith(a) == IF a \in Questions THEN "send" ELSE "check"

Asking(p, a) ==
  /\ calls < MaxCalls /\ calls' = calls + 1
  /\ To(p, StartsWith(a))
  /\ ask' = [ask EXCEPT ![p] = a]
  /\ again' = [again EXCEPT ![p] = FALSE]
  /\ ended' = [ended EXCEPT ![p] = "none"]
  /\ gone' = [gone EXCEPT ![p] = 0]

\* A command, one to a process; a configuration that does not load ends it here.
RunCommand(p) ==
  /\ where[p] = "out"
  /\ \E a \in Asks \cap Command : Asking(p, a)
  /\ UNCHANGED <<daemonVars, mcp, noteVars, ends>>

BadConfig(p) ==
  /\ where[p] = "out" /\ calls < MaxCalls /\ calls' = calls + 1
  /\ To(p, "done") /\ ended' = [ended EXCEPT ![p] = "invalid"]
  /\ UNCHANGED <<daemonVars, mcp, ask, again, noteVars, gone, ends>>

\* devserial mcp: a daemon, a lease, and the build of the daemon.
RunMcp(p) ==
  /\ where[p] = "out" /\ Asks \cap McpTool # {}
  /\ Asking(p, "mcp")
  /\ mcp' = mcp \cup {p}
  /\ UNCHANGED <<daemonVars, noteVars, ends>>

McpReady(p) ==
  /\ where[p] = "send" /\ ask[p] = "mcp"
  /\ To(p, "ready")
  /\ notice' = [notice EXCEPT ![p] = daemon = "serving" /\ build = "other"]
  /\ differed' = IF daemon = "serving" /\ build = "other" THEN differed \cup {p} ELSE differed
  /\ UNCHANGED <<daemonVars, mcp, ask, again, told, ended, completed, gone, bounds>>

CallTool(p) ==
  /\ where[p] = "ready"
  /\ \E a \in Asks \cap McpTool : Asking(p, a)
  /\ UNCHANGED <<daemonVars, mcp, noteVars, ends>>

\* A call that names no tool is an error of the protocol, not a result.
UnknownTool(p) ==
  /\ where[p] = "ready"
  /\ ended' = [ended EXCEPT ![p] = "protocol"]
  /\ UNCHANGED <<daemonVars, where, mcp, ask, again, noteVars, gone, bounds>>

Disconnects(p) ==
  /\ where[p] = "ready" /\ To(p, "done")
  /\ UNCHANGED <<daemonVars, mcp, ask, again, noteVars, ended, gone, bounds>>

-----------------------------------------------------------------------------
(* Ending a request. *)

\* deliver_notice: with the next result, failed or not, and then dropped.
FaultNoticeLeft(p) == notice
NoticeLeft(p) == [notice EXCEPT ![p] = FALSE]

EndRequest(p, r) ==
  /\ ended' = [ended EXCEPT ![p] = r]
  /\ IF p \in mcp
     THEN /\ To(p, IF ask[p] = "mcp" THEN "done" ELSE "ready")
          /\ completed' = [completed EXCEPT ![p] = IF ask[p] = "mcp" THEN @ ELSE More(@)]
          /\ told' = [told EXCEPT ![p] = IF notice[p] /\ ask[p] # "mcp" THEN More(@) ELSE @]
          /\ notice' = IF ask[p] = "mcp" THEN notice ELSE NoticeLeft(p)
     ELSE To(p, "warn") /\ UNCHANGED <<completed, told, notice>>
  /\ UNCHANGED <<mcp, differed>>

\* warn_once, whether the request was answered or not; a daemon that does not
\* answer is not reported.
WarnOnce(p) ==
  /\ where[p] = "warn"
  /\ told' = [told EXCEPT ![p] = IF daemon = "serving" /\ build = "other" THEN More(@) ELSE @]
  /\ To(p, IF ask[p] = "read --follow" /\ ended[p] = "ok" THEN "follows" ELSE "done")
  /\ UNCHANGED <<daemonVars, mcp, ask, again, notice, ended, completed, differed, gone, bounds>>

-----------------------------------------------------------------------------
(* ensure_daemon and send_after. *)

DaemonAnswers(p) ==
  /\ where[p] \in {"check", "wait"} /\ daemon = "serving"
  /\ To(p, "send")
  /\ UNCHANGED <<daemonVars, mcp, ask, again, noteVars, ended, gone, bounds>>

SpawnDaemon(p) ==
  /\ where[p] = "check" /\ daemon # "serving"
  /\ To(p, "wait")
  /\ daemon' = "starting"
  /\ build' = IF daemon = "none" THEN "this" ELSE build
  /\ UNCHANGED <<world, mcp, ask, again, noteVars, ended, gone, bounds>>

\* No program to start, an endpoint that is not ours, or no answer in time.
NoDaemon(p) ==
  /\ \/ where[p] = "check" /\ daemon # "serving"
     \/ where[p] = "wait"
  /\ EndRequest(p, "spawn")
  /\ UNCHANGED <<daemonVars, ask, again, gone, bounds>>

Connect(p) ==
  /\ where[p] = "send" /\ ask[p] # "mcp" /\ daemon = "serving"
  /\ To(p, "served")
  /\ world' \in Does(ask[p], world)
  /\ UNCHANGED <<daemon, build, mcp, ask, again, noteVars, ended, gone, bounds>>

\* The request never left: once more, from the start of a daemon on.  A question
\* is answered by "not running".
FaultMayRepeat(p) == FALSE
MayRepeat(p) == ask[p] \notin Questions /\ ~again[p]

Refused(p) ==
  /\ where[p] = "send" /\ ask[p] # "mcp" /\ daemon # "serving"
  /\ IF MayRepeat(p)
     THEN /\ again' = [again EXCEPT ![p] = TRUE] /\ To(p, "check")
          /\ UNCHANGED <<mcp, noteVars, ended>>
     ELSE EndRequest(p, "unreachable") /\ UNCHANGED again
  /\ UNCHANGED <<daemonVars, ask, gone, bounds>>

Answered(p) ==
  /\ where[p] = "served"
  /\ EndRequest(p, "ok")
  /\ UNCHANGED <<daemonVars, ask, again, gone, bounds>>

\* A command waits thirty seconds for anything; the engine of an MCP server as
\* long as the request may take (remote_timeout).
WaitsLong(p) == p \in mcp

TimedOut(p) ==
  /\ where[p] = "served" /\ ask[p] \in Long /\ ~WaitsLong(p)
  /\ EndRequest(p, "timeout")
  /\ UNCHANGED <<daemonVars, ask, again, gone, bounds>>

\* The connection ended without an answer; nothing is repeated.
Cut(p) ==
  /\ where[p] = "served" /\ daemon # "serving"
  /\ EndRequest(p, "cut")
  /\ UNCHANGED <<daemonVars, ask, again, gone, bounds>>

\* read --follow polls without starting a daemon: its end is the end of it.
FollowEnds(p) ==
  /\ where[p] = "follows"
  /\ To(p, "done")
  /\ ended' = [ended EXCEPT ![p] = IF daemon = "serving" THEN "ok" ELSE "unreachable"]
  /\ UNCHANGED <<daemonVars, mcp, ask, again, noteVars, gone, bounds>>

-----------------------------------------------------------------------------
(* Daemons. *)

Serves ==
  /\ daemon = "starting" /\ daemon' = "serving"
  /\ UNCHANGED <<build, world, processVars, gone, bounds>>

\* Idle, told to by somebody, or killed; one that was starting may not come up.
Stops ==
  /\ daemon # "none" /\ ends < MaxEnds
  /\ daemon' = "none" /\ ends' = ends + 1
  /\ gone' = [p \in Processes |-> gone[p] + 1]
  /\ UNCHANGED <<build, world, processVars, calls>>

\* Another devserial starts one.
OtherBuild ==
  /\ daemon = "none" /\ daemon' = "serving" /\ build' = "other"
  /\ UNCHANGED <<world, processVars, gone, bounds>>

ProcessStep(p) ==
  \/ RunCommand(p) \/ BadConfig(p) \/ RunMcp(p) \/ McpReady(p) \/ CallTool(p)
  \/ UnknownTool(p) \/ Disconnects(p) \/ WarnOnce(p) \/ DaemonAnswers(p) \/ SpawnDaemon(p)
  \/ NoDaemon(p) \/ Connect(p) \/ Refused(p) \/ Answered(p) \/ TimedOut(p)
  \/ Cut(p) \/ FollowEnds(p)

CommandsNext == (\E p \in Processes : ProcessStep(p)) \/ Serves \/ Stops \/ OtherBuild

CommandsSpec == CommandsInit /\ [][CommandsNext]_commandsVars

-----------------------------------------------------------------------------
(* Properties. *)

\* A question leaves the machine without a daemon when it found none: what
\* waits for a daemon of its own was an instruction, and a daemon is there only
\* because an instruction or somebody else wanted one (handlers.rs rest_control
\* and daemon_control, against the spawn in ensure_daemon).
QuestionsStartNothing ==
  \A p \in Processes :
    where[p] \in {"check", "wait"} \/ ended[p] = "spawn" => ask[p] \notin Questions

\* One repetition is enough: an instruction ends with nobody at the endpoint only
\* if two daemons stopped while it ran (send_after and ensure_daemon against the
\* idle stop, --stop, and daemons that fail to come up).
RetryIsEnough ==
  \A p \in Processes :
    ended[p] = "unreachable" /\ ask[p] \notin Questions \cup {"read --follow"} => gone[p] >= 2

\* The user of an MCP server that met a daemon of another build is told with the
\* first result, and once; calls that are no result do not use the note up
\* (deliver_notice, call_tool).
NoticeReachesOnce ==
  \A p \in mcp : told[p] = IF p \in differed /\ completed[p] > 0 THEN 1 ELSE 0

\* What a tool does to a port is what it is announced as, though the rows that tell
\* of requests are stored too (annotations in server.rs, against what the engine
\* does).  One that only reads changes nothing; serial_esp_info, announced as that,
\* may reset the device and leave the port closed, and no more (esp_operation).  One
\* not announced as destructive takes away no row and leaves files and the device's
\* program alone, and only serial_break sends.  One announced as idempotent comes,
\* the second time, to nothing the first could not have come to, but for such rows.
HintsKept ==
  \A p \in Processes :
    LET a == ask[p] IN
      Connect(p) /\ a \in McpTool =>
        /\ a \in ReadOnly =>
             \/ world' = world
             \/ a = "serial_esp_info" /\ world' \in AfterTool(world)
        /\ a \notin Destructive =>
             /\ world'.rows >= world.rows
             /\ world'.files = world.files /\ world'.program = world.program
             /\ a # "serial_break" => world'.sent = world.sent
        /\ a \in Idempotent =>
             \A x \in Does(a, world') : \E y \in Does(a, world) : x = [y EXCEPT !.rows = x.rows]

HintsTrue == [][HintsKept]_commandsVars

\* What a person at the command line or behind an MCP server can rely on: nothing
\* is started behind their back, and they learn what the daemon is.
CommandsTrue == QuestionsStartNothing /\ RetryIsEnough /\ NoticeReachesOnce

=============================================================================
