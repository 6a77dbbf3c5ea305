# devserial in TLA+

devserial captures serial ports into a log per port and offers them to several
clients at once. One daemon owns the ports; the command line, the terminal and
desktop monitors, the REST listener and the MCP server all send it the same
requests. This directory models the parts of that program whose correctness
depends on the order of things: tasks, channels, locks, files, processes, lines
that lose bytes, people who press a key at the wrong moment, and crashes.

Paths below are those of the repository, `src/reader.rs` and so on.

1. [The system](#1-the-system)
2. [Modules and what they model](#2-modules-and-what-they-model)
3. [Runs, bounds and what they show](#3-runs-bounds-and-what-they-show)
4. [Fairness](#4-fairness)
5. [What is proved](#5-what-is-proved)
6. [Where code and words disagree](#6-where-code-and-words-disagree)
7. [Not modelled](#7-not-modelled)
8. [Plan](#8-plan)

## 1. The system

| component | state it keeps | operations | talks to | what is hard | what makes it correct |
|---|---|---|---|---|---|
| capture of a port, `src/reader.rs` | partial line, batch, channel of 100 batches, connection state, attempt counter | read, split, batch, flush on a timer, reconnect with backoff, store, trim, shut down | device, log | two tasks, a bounded channel, a biased `select!`, a device that goes away, inserts that fail | every byte in one row at most, in order, none lost without a failed insert or a crash; a line is cut only where the link was; tasks end when told to |
| storage, `src/storage.rs` | rows of a log | insert, trim, read, count, search, clear, delete below, copy | capture, engine, windows | one mutex in the daemon but other handles on the same file | cursors stay right under trims and deletions; a search says what it left out |
| port manager, `src/port_manager.rs` | table of open ports, one mutex per open file | an actor: open, close, reconfigure, write, signals, release for a tool | capture, engine | commands queue behind one port's mutex; a reader outlives its close | one reader per port; settings in the table are those on the wire |
| engine, `src/engine.rs` | none of its own | the handlers of all requests | everything | a handler is several round trips to the actor and interleaves with others | the record of open ports follows the table |
| state database, `src/state.rs` | ports to open again | remember, forget, list | engine, start of the daemon | written after the table, in a second step | a restart opens what was open |
| endpoint, `src/transport.rs`, `src/ipc.rs`, `src/cli/daemon.rs` | socket, lock file, PID file | bind, serve, drain, clean up; restart | other daemons, clients | files are named by path, locks are judged by age | starts exclude each other; the PID file names who serves |
| exchange, `src/ipc.rs` | connections, tasks that serve them | connect, send, repeat once, time out, drain | clients, engine | a daemon stops or dies under a request, and the request is repeated | nothing is done twice, nothing lost by an orderly stop |
| lifecycle, `src/lifecycle.rs` | leases, requests in flight, last activity, row counts | renew, release, begin, end, the watcher's rounds | engine, daemon | counts, comparison and decision are three steps | the daemon stops when nobody needs it, and only then |
| readers of a log: `src/monitor.rs`, `src/tui.rs`, `read --follow` in `src/cli/handlers.rs` | a cursor, the lines on the screen, a filter, a question that is open | refresh, filter, clear, delete below, export, follow | storage, engine | the log changes between any two of their queries, and places in the display move | nothing missed, nothing deleted but what was counted, the filter shows what it says |
| file transfer, `src/modem/` | block number, retries, data received | XMODEM, YMODEM and ZMODEM, sender and receiver | the device | a line that loses and changes bytes, answers matched by order | a success means the file arrived, and a send ends |
| REST listener, `src/rest.rs` | listener, table of jobs | enable, disable, guards, routes, jobs, event streams | engine | a replaced listener lives on for a moment; jobs are followed while they run | the reported state is that of the socket; nothing is served on a network without a token; a stream tells all |
| MCP server, `src/server.rs` | windows it opened, heartbeat, a note about the daemon's build | tools | exchange | a window may be closed by its user; hints promise what a tool leaves alone | one window per port; hints are true |
| window and terminal on a port, `src/monitor.rs`, `src/tui.rs`, `src/standalone.rs` | is it connected, is a flash running, modes, one input line, history | connect, settings, signals, macros, flash, quit | engine, ESP tools, other clients | the surface waits for answers while a tool, a poller and other clients go on | its flag is the daemon's state as long as every answer arrives; no key stops a daemon nobody meant to stop |
| window socket, `src/gui_ipc.rs`, windows of a process | socket, list of ports shown | show a port in a running window, quit | other windows | the socket is removed by its path | one window per port; quitting asks |
| ESP tools, `src/esp.rs` | none | release the port, run the tool, open again | port manager | the port is nobody's meanwhile | the port is given back |
| command line, `src/cli/` | none | one request each, restart, follow | exchange | which command may start a daemon, and which may repeat | a question starts nothing |
| agent skill, `src/agent_skill.rs` | copies at the places of tools, what a person decided | offer, install, decline, remove, update | the file system, a crate | the same question stands on several screens | a copy stands only where somebody agreed |
| settings, `src/config.rs` | the configuration file | read, change, write beside, rename | surfaces, daemon | a crash, an editor or another surface in between | the file is whole and says what was saved |
| text, `src/hex.rs`, `src/serial_params.rs`, `src/export.rs` | none | decode, add an ending, quote | surfaces, engine | a line is decoded by the surface, the daemon or both | what is typed arrives; what is exported reads back |
| data: `src/color.rs`, `src/protocol.rs`, `src/surface.rs`, `src/paths.rs`, `src/platform.rs`, `src/identity.rs` | none | parse, format, select | everything | – | conversions |

A client sends a frame to the socket of the daemon (`exchange`), which hands it
to a handler of the `engine`; the handler asks the actor of the `port manager`,
which owns the table and starts a pair of tasks per port (`capture`). Those
write the log; the engine, windows and terminals read it. Handlers write the
`state database` so that the next daemon (`endpoint`) opens the same ports. The
watcher of `lifecycle` counts rows, requests and leases and stops the daemon.

## 2. Modules and what they model

Each model has one action per step that others can tell apart: a system call, a
turn of a `select!`, a round trip to an actor, a statement of the database, the
time under one mutex, one key. Texts, times of lines and the layout of messages
are left out. `PROJECT.json` names, for every definition, the lines it stands for.

A definition whose name begins with `Fault` is a wrong variant of the one after
it, a slip this code could have had. No behaviour uses it. Put in place of the
right one it breaks a property, which shows that the property sees that code.

The daemon and its ports:

| module | code | state and actions |
|---|---|---|
| `Capture` | `src/reader.rs`, insert and trim of `src/storage.rs` | The reader task is `pc`, `buf`, `lineFrom`, `batch`, `outbox`; the channel is `chan`; the writer is `writing`, `stored`, `sinceTrim`. A line is the range of byte positions it was made of. Actions: a read and each byte of it, the timer, a failing read, backoff and reconnect, the two ends of the channel, insert and trim in one transaction with its failure, shutdown, unplug, plug, crash, restart. |
| `CaptureLog` | the promise of the above | A log that takes the byte stream batch by batch: `Capture` implements it with the stored rows and the last settled byte. |
| `ReaderClock` | `src/reader.rs` | The same loop with only its clocks: the sleep that every turn starts anew, and the backoff. |
| `Ports` | `src/port_manager.rs`, `src/engine.rs`, `src/state.rs`, `restore_ports` | Handlers of clients (open, reconfigure, close, write, transfer, flash) as program counters; the actor's commands as single steps; handles with their reader, open file and mutex, which outlive the close; the table, the record, whose change may fail, and the wire. A transfer may read from a silent device for good. |
| `Endpoint` | `src/transport.rs`, `src/ipc.rs`, `src/cli/daemon.rs`, `restart` in `src/cli/handlers.rs` | Daemons as program counters over the system calls of bind and clean-up; socket, lock and PID file as names of whoever made them; a lock that gets old; one restart by a client. |
| `Exchange` | `src/ipc.rs` | Both sides of one request per client: check, start of a daemon, connection, frame, reply, the one repetition, the time limit; a daemon that drains, closes its listener, aborts what is left, or dies. |
| `Requests` | the promise of the above | To its sender a request takes effect once or not at all, and what it is told is the last word: `Exchange` implements it with what a daemon began to act on and how the client's call returned. |
| `Lifecycle` | `src/lifecycle.rs`, `watch_idle`, `idle_expired`, `LeaseKeeper` | Time in units; the watcher's round in three steps; clients with requests and leases. |
| `Store` | `src/storage.rs` and its readers | Rows as ids; the daemon's mutex as `handle`; the capture's batches and trims; a window or terminal with its cursor, question and screen, which keeps the last lines only; requests that fail, or that a surface stops waiting for; a follower; a writer of the opening before, which goes on with a handle of its own. |
| `Order` | `ORDER BY id` of `src/storage.rs`, the scans of a list in `src/monitor.rs` | No state: a set of numbers in order, the members of a list at some places, those that pass a test. `Store`, `Reading`, `Display` and `Text` use it. |
| `Reading` | reads, search and export in `src/engine.rs`, `src/storage.rs`, `src/export.rs` | The log as a sequence of ids; windows of a read resolved one parameter after the other; a search page by page while rows come and go. |
| `Rest` | `src/rest.rs`, the switch in `src/engine.rs` | Listeners from bind to the end of their task, with the failures of each step; the reported state; every route as what it asks of a caller, serves, and is described as; a request past the guards. |
| `Streams` | jobs and event streams of `src/rest.rs` | The registry and its limit; the tool, the pump of its lines, the log of a job with its revision; a client that reads, waits, breaks off and resumes. |
| `Feeds` | the promise of the event streams | Sources that print, drop and end; followers that get the next line their source still has, and its end behind the last: `Streams` implements it, with a job as a source that drops nothing and the port as one that never ends. |
| `Transfer` | `src/modem/xmodem.rs`, `src/modem/ymodem.rs` | A sender, a receiver and the bytes between them; the line loses or changes any byte, and a block that lost one makes the receiver read out of step. |
| `Delivery` | the promise of a transfer | The receiver takes pieces in their order, each side comes to one outcome, and success of either means the whole file, unless a side was misled: `Transfer` implements it with the blocks it keeps, `Zmodem` with the subpackets. |
| `Zmodem` | `src/modem/zmodem.rs` | Headers and subpackets both ways, the handshakes at both ends, a header whose mark is hit, whose checksum is, or that makes its reader run into the next. |

What people and programs have before them:

| module | code | state and actions |
|---|---|---|
| `Session` | `src/monitor.rs`, `src/tui.rs`, `src/standalone.rs` | One surface as frames of one thread: connect, disconnect, settings, signals, macros, a flash with its two channels, the link poller; in between other clients, refusals, and answers that are lost or late. |
| `Display` | the same | The lines of a surface, its filter as a list of places, the mark, clear, delete, export. |
| `Prompt` | the same | Every mode of a terminal with the keys that enter and leave it, the input line all of them share, the history and its draft, the question on quit. |
| `RestPanel` | the same | The panel of the HTTP interface: a thread per request of a window, the one receiver it listens to, answers in any order; a terminal that waits. |
| `Desktop` | `src/monitor.rs`, `src/gui_ipc.rs` | The windows of a process, commands from other invocations, every way to close, and the question that goes with the last window. |
| `Windows` | `src/gui_ipc.rs`, `src/standalone.rs`, `src/server.rs` | Processes that try a socket, unlink it, bind it, show a port or hand it over; the map of windows an MCP server has started. |
| `Commands` | `src/cli/`, `src/server.rs`, `IpcClient` of `src/ipc.rs` | Every command and tool as the request it sends and what that changes; who starts a daemon; the repetition; the time each waits; the note about another build. |
| `Text` | `src/hex.rs`, `src/export.rs`, the ways of a typed line | Characters as codes; five ways to a device with their trimming, endings and decoding; CSV records. |
| `Content` | `Reading` and `Text` together | No state of its own: `ContentTrue`, what a client is given and what it gives. |
| `Skills` | `src/agent_skill.rs` and the offers of the surfaces | What is at each place, what was decided, what each screen asks; the crate is external. |
| `Settings` | `src/config.rs`, `src/lifecycle.rs` | The file, the staging file, savers between their four steps, an editor, a daemon that starts. |

The eight `*Proofs` modules hold the theorems: one for each of `Capture`,
`Exchange` and `Store`, and one each for the daemon (`Ports` and `Lifecycle`), its
clients with what they are given and give (`Endpoint`, `Commands`, `Content` and
`Display`), the listener (`Rest` and `Streams`), what has
to arrive (`ReaderClock`, `Transfer` and `Zmodem`) and the surfaces. An `MC_` module instantiates models for
TLC. Models that share no state are put side by side in one run: a variable
(`side` or `part`) says at the start which of them moves, and the others keep one
initial state, so the states are added and not multiplied. `MC_Daemon` has
`Ports` and `Lifecycle`, `MC_Clients` `Endpoint`, `Commands` and the two parts of
`Content`, `MC_Progress` `Endpoint`, `Transfer`, `ReaderClock`, `Session` and
`Zmodem`, `MC_Rest` `Rest` and `Streams`, `MC_Surfaces` the eight surfaces.

How they fit together: `Ports` takes the capture of a port to be a reader that
runs or not, and has `auto_reconnect` on; `Capture` has both cases. `Exchange`
takes for granted that a start leads to one daemon, which is `Endpoint`'s
subject, and `Commands` that a request reaches a daemon that serves, which is
`Exchange`'s. `Store` has the writer of `Capture` as batches of rows, and
`Display` has a deletion, whose race with the writer is in `Store`, as one step.
`Lifecycle` sees of the ports that rows come and go. `RestPanel` has the listener
of `Rest` as a state that changes, and `Session` the daemon of `Ports` as one
that holds the port or does not. They are not composed into one module: their
product is out of a model checker's reach, and they share only these interfaces.

## 3. Runs, bounds and what they show

| run | bounds | states | checks |
|---|---|---|---|
| `capture` | 4 bytes, batches of 2, channel of 1, reads of 2, trim every 2 batches, one each of unplug, crash, failing insert | 370 000 | `LogFaithful`, `EndsCleanly`, `ImplementsLog`, `EveryLineSettled`, `ShutdownEnds`, `Reconnects` |
| `daemon` | 1 port, 2 clients, 2 values; 3 requests of 6 kinds, one unplug and one restart, but 4 of these at most; 2 clients with leases, 5 units of time, periods 0 and 2, lease of 3 | 6.5 million | `OneReader`, `RecordTrue`, `SettingsTrue`, `NeverStuck`, `StopsInTime`, `NotUnderAnybody` |
| `clients` | 3 daemons, a kill or a stop, a restart, locks that may be judged old; 2 processes with 3 calls of 6 commands and tools, 2 daemons that stop, but 4 of these at most; 5 lines, pages of 2, scans of 4, 2 removals; lines of 3 characters after the prefix | 1.2 million | `StartsExclude`, `ServerKnown`, `CommandsTrue`, `ContentTrue`, `HintsTrue` |
| `store` | 4 rows, trim to 2 every 2 batches, screens of 2 lines; a terminal with a marker row and a follower, or a window and a writer left from an earlier opening | 8.5 million | `FollowerFaithful`, `DeletionTrue`, `ScreenFollowsLog` |
| `exchange` | 2 clients with quick, long and shutdown requests, 3 daemons, a crash | 520 000 | `NotLost`, `ImplementsRequests`, `RequestsSettle` |
| `rest` | 3 kinds of address, 2 ports, 2 tokens, 2 listeners, every route; 2 jobs of which 1 is kept, 2 lines, a follower, a break, a replacement | 1.1 million | `GuardsHold`, `StreamsFaithful`, `SwitchTrue`, `ImplementsFeeds`, `StreamEnds` |
| `progress` | 2 daemons, a kill, 2 stops; 6 blocks, 3 retries, block numbers modulo 5; ZMODEM files of 0 to 3 subpackets; interval 3, batch 4, backoff to 2; a session of 3 uses | 350 000 | `FilesArrive`, `ImplementsDelivery`, `LateByReads`, `StartSettles`, `SendsEnd`, `LinkSettles` |
| `surfaces` | a session of 4 uses, 3 printed lines of which 2 are kept; 3 rows, 2 texts; 8 keys; 4 requests of a panel, 3 changes; 2 ports, 2 commands, 3 clicks; 3 processes; 2 places, 3 events; 2 savers, 2 saves, an edit | 3.8 million | `FlashTold`, `FlagTrue`, `FilterTrue`, `RestPanelFresh`, `WindowsAccounted`, `AnswersHold` |
| `ports_effective` | 1 client | – | `TableIsEffective` is violated, see section 6 |
| `endpoint_lock` | 3 daemons, no kill, no old lock | – | `LiveSocketKept` is violated, see section 6 |
| `session_flash` | a flash of 1 line | – | `FlashPortReturns` is violated, see section 6 |
| `typed` | digits, `x` and a letter, 4 characters | – | `SameBytes` is violated, see section 6 |

What each says, in a sentence; the comment at each definition says it in full.

* `LogFaithful`: rows are in the order of the bytes, no byte in two of them, no
  gap without a failed insert or a crash, a cut only where the link broke.
  `EndsCleanly`: two tasks that have ended leave nothing in the channel
  (`NothingLeftBehind`), and no "connected" (`NeverSilentlyDead`).
  `ImplementsLog`: refinement of `CaptureLog`. `EveryLineSettled`,
  `ShutdownEnds`, `Reconnects`: liveness.
* `OneReader`, `RecordTrue`, `SettingsTrue`, `NeverStuck`: a port has one reader;
  record, table and wire agree when no request is under way, but for a record that
  the state database did not take; no requests wait for each other in a circle, and
  who waits for good waits for a transfer that reads from a silent device. `StopsInTime` and `NotUnderAnybody`: a daemon stops two
  rounds after the last need of it, and not before.
* `StartsExclude`: no two daemons between check and bind, and one that serves is
  the one clients reach. `ServerKnown`: the PID file, and the answer to a restart,
  name who serves. `CommandsTrue`: a question starts no daemon, one repetition is
  enough unless two daemons stop, the note about another build comes once.
  `HintsTrue`: a tool leaves alone what its annotations say, marker rows included,
  but for `serial_esp_info`. `ContentTrue`: a
  search that is not full and not truncated missed no line; windows of a read are
  the lines asked for (`ReadsTrue`); what was typed reaches the device; CSV reads back
  (`TextTrue`).
* `FollowerFaithful`, `DeletionTrue`, `ScreenFollowsLog`: a follower passes over
  nothing that is there; a deletion takes what was counted and copied; a
  screen is the last of the log that was read, in order and without a gap, cut at the
  front only when it is full, and without what a request of its own removed once that
  was answered.
* `ImplementsRequests`: refinement of `Requests`, so that a request is acted on once
  at most (`AtMostOnce`) and what its client is told is true (`ResultIsTrue`).
  `NotLost`: see section 5. `RequestsSettle`: a stop ends and so does a request.
* `GuardsHold`: nothing is carried out from a network without a token, nor for
  another host name, and every answer is one the description announces.
  `SwitchTrue`: the reported state is that of the socket, and a failed
  replacement stops nothing, both unless the runtime refused the new socket. `StreamsFaithful`: a follower of a job has every line
  when it is told the outcome, and a running job is found. `ImplementsFeeds`:
  refinement of `Feeds`, so that over broken connections every line comes once and
  in order and a follower of the port passes over no row that is there.
  `StreamEnds`: a stream of a job gets to an end.
* `FilesArrive`, `SendsEnd`: by all three protocols only the file arrives, success of
  either side means that it did but for named causes, and a send ends.
  `ImplementsDelivery`: refinement of `Delivery`, which adds that an outcome is final
  and that nothing received is taken back. `LateByReads`: how
  long a line waits. `StartSettles`: a start ends in a daemon or an error.
  `LinkSettles`: the link a window shows becomes the one there is.
* `FlashTold`: an outcome stands under the last lines of the tool, and under the error
  of one that failed. `FlagTrue`: a surface knows whether the port is held,
  from its last request that was answered with a yes until an answer is lost or late or
  another client opens or closes the port. `FilterTrue`:
  the list of places points at the lines that match. `RestPanelFresh`: no older
  answer hides a newer one. `WindowsAccounted`: one window per port in
  a process, and none orphaned but by two calls for one port at once. `AnswersHold`: a
  process ends with a question where one is due, and stops the daemon only as the
  setting or the answer says; a skill is installed and a setting saved only as somebody
  chose.

A type invariant stands in every module with data that is more than flags; it is
proved (section 5), or a conjunct of a property of the run that covers its module
(`ServerKnown`, `DeletionTrue`, `FileArrives`, `SwitchTrue`).

Why the bounds are enough, and where they are not:

* `capture`: a batch that fills up, one that the timer takes, a full channel
  that blocks the reader, two trims, and a line cut by each kind of break all
  occur within four bytes. `EveryLineSettled` is a statement about a device that
  falls silent, since the bytes are bounded; `ReaderClock` says how long a line
  waits when it does not, and the proofs need no bound on the bytes.
* `daemon`: three requests are an operation, one that overlaps it and one that
  meets what they left. `MaxOpens` is never reached, so no behaviour is cut off by it.
  The sum of four leaves out three requests with both an unplug and a restart.
  One port is enough for all but the actor that stands still, which needs only
  a second client. The lease outlasts two renewals, as three minutes outlast two
  of one minute; the five units hold two periods, or an expired lease and the period after it.
* `clients`: two daemons race for a lock and a third finds what they left. The
  six calls are one of each kind: a question, one that follows, one that takes
  long, and tools with three different sets of hints. What a call does to the port
  depends on that call alone, so the other tools would only add states;
  `HintsHold` proves it for all of them. A search takes
  two pages and stops at its limit. A line holds digits that spell `0x` again
  when decoded, and an odd digit.
* `store`: a log of four rows is trimmed to two, cleared and deleted from below, so
  that a cursor stands before, within and behind what went. A fetch takes two rows,
  and a screen holds two: one row more and the cap takes one off.
* `exchange`: a request is sent twice at most, so three daemons are needed and
  enough to serve, to refuse and to serve again. The last daemon does not stop,
  or the bound would look like a daemon that nobody can start. The two clients
  are interchangeable; the run takes their kinds in one order only.
* `rest`: two listeners are one that is replaced and its replacement; a third
  changes nothing for either. One job is kept so that the second pushes it out.
* `progress`: `Wrap > MaxRetries + 1` as 256 > 11, and the file is longer than
  `Wrap`. What is left of a block read out of step holds at most `RestMax` bytes
  that look like control bytes, two in the run; with three it may be answered twice
  and `InOrder` has to except it (`AnsweredTwice`). A changed byte does not turn into another control
  byte, and a changed block fails its check: beyond that these protocols promise
  nothing. A line that loses a whole ZMODEM subpacket is left out: frames carry no
  number within the file.
* `surfaces`: eight keys enter a screen, type, change screens and quit. Three rows
  are one more than a fetch and as many as the display keeps.

`CHECK_DEADLOCK FALSE` is set in every run: the system rests when every client
has its answer, every daemon has ended or a bound is used up. `Ports` states
what a deadlock would be, `NeverStuck`, as an invariant. Symmetry is used for
daemons in `clients` and for clients and holders in `daemon`, neither of which
checks liveness.

## 4. Fairness

* `Capture`: the runtime polls a task that can go on, and timers run out (weak
  fairness of each step of the reader and the writer). Nothing is assumed of
  the device, of shutdowns or of crashes; a port may stay unplugged.
* `Endpoint`: processes run.
* `Exchange`: clients and serving tasks go on, and a daemon told to stop takes
  the next step of its drain, each of which has a time limit in the code. A long
  request is never assumed to end, nobody has to ask, and nothing has to crash.
* `Transfer`: the sender reads a byte that has arrived, or its read times out.
  Nothing is assumed of the line or of the receiver.
* `Zmodem`: the sender reads a header that has come, or its wait times out, or it
  sends the next subpacket. A header that is too short excuses it, as the bytes of
  one are read without a time limit.
* `Streams`: tasks of jobs and of streams go on; a follower that is connected
  reads. No tool is assumed to print, but it ends.
* `Session`: the poller takes its next round (`StatusPoll`) for `LinkSettles`; in
  `session_flash` the tool ends and the surface draws its next frame as well.

`Lifecycle`, `Ports`, `Store`, `ReaderClock` and the other surfaces have safety
properties only. `StopsInTime` is one as well, as time is a variable.

## 5. What is proved

The theorems hold for every value of the constants that the named assumptions
allow: any batch size, channel capacity, number of clients and so on. The
bounds of TLC's instances are among these constants, so they hold for runs of
any length.

| module | theorem | says |
|---|---|---|
| `CaptureProofs` | `TypeCorrect` | `TypeOK`; the channel keeps to its capacity |
| | `LogIsFaithful` | `LogFaithful`: order, no byte twice, no gap without a failed insert or a crash, cuts only where the link broke |
| | `EndLeavesNothing`, `NeverDeadInSilence`, `EndIsClean` | `NothingLeftBehind`, `NeverSilentlyDead`, both as `EndsCleanly` |
| | `CaptureImplementsLog` | every behaviour of `Capture` is one of `CaptureLog` |
| `ProgressProofs` | `ClockTypeCorrect`, `LatenessBounded`, `WaitsNeverShrink` | the clocks' ranges; `LateByReads`; the backoff grows (`GapsGrow`) |
| | `ZmodemDelivers`, `TransferDelivers` | `ZmodemArrives`; `FileArrives` of XMODEM and YMODEM |
| | `BlocksDeliver`, `SubpacketsDeliver` | every behaviour of `Transfer`, or of `Zmodem`, is one of `Delivery` |
| | `FilesAlwaysArrive`, `EveryProtocolDelivers` | `FilesArrive` and `ImplementsDelivery` of the composition |
| `ExchangeProofs` | `TypeCorrect`, `ActedOnce`, `ResultHolds`, `StopsLoseNothing` | `TypeOK`, `AtMostOnce`, `ResultIsTrue`, `NotLost` |
| | `ExchangeImplementsRequests` | every behaviour of `Exchange` is one of `Requests` |
| `DaemonProofs` | `PortsTypes`, `ReadersUnique`, `RecordIsTrue`, `SettingsAreTrue` | `TypeOK`, `OneReader`, `RecordTrue`, `SettingsTrue` of `Ports` |
| | `NobodyStuck` | `NeverStuck` |
| | `LifecycleTypes`, `StopsSoon`, `StopsUnderNobody` | `LifecycleTypeOK`; `StopsInTime`; `NotUnderAnybody` |
| `ClientsProofs` | `TypeCorrect`, `StartsApart`, `ServerIsKnown` | `TypeOK`, `StartsExclude`, `ServerKnown` of `Endpoint` |
| | `CommandsHold`, `HintsHold` | `CommandsTrue`; `HintsTrue` |
| | `ReadsHold`, `TextHolds`, `ContentHolds` | `ReadsTrue` of `Reading`; `TextTrue` of `Text`; `ContentTrue` |
| | `FilterHolds` | `FilterTrue` of `Display` |
| `StoreProofs` | `TypeCorrect`, `FollowerIsFaithful`, `DeletionIsTrue`, `ScreensFollow` | `TypeOK`, `FollowerFaithful`, `DeletionTrue`; `ScreenFollowsLog` |
| `RestProofs` | `SwitchIsTrue`, `GuardsAlwaysHold` | `SwitchTrue`; `GuardsHold` |
| | `StreamsAreFaithful` | `StreamsFaithful` |
| | `StreamsImplementFeeds` | every behaviour of `Streams` is one of `Feeds` |
| `SurfacesProofs` | `FlagHolds`, `FlashIsTold` | `FlagTrue`, `FlashTold` of `Session` |
| | `PanelFresh`, `CopiesAgreed` | `RestPanelFresh`; `SkillsAgreed` |
| | `WindowsAreAccounted`, `AnswersAlwaysHold` | `WindowsAccounted`, `AnswersHold` of the composition |

The assumptions are the ones the modules name next to their constants. Beside
the ranges of bounds they say: that a value which stands for nothing (`None`) is no
member of the set it completes, that a batch, a page, a channel or an interval is
not empty, that `Ttl` is more than twice `Renew` (in `src/lifecycle.rs` it is three
times), that ports and clients' leases are finitely many where something is counted, that
addresses, tokens and statuses of a listener are apart (`RestAssumption`), and that
a typed period is a number with a unit (`SettingsAssumption`).

**Capture.** `LogFaithful` is not inductive: it speaks of the stored rows, and
whether the next batch fits behind them depends on what the channel holds. The
invariant `PipelineInv` says that what was read is one chain of touching lines:
the rows end at `settled`, the batch being written begins there (when no insert
failed), each batch of the channel begins where the one before it ended, then
the outbox, the batch, the partial line, and the bytes of the buffer not yet
looked at. `ReaderInv` is the part before the channel, `ChannelInv` the channel
and the writer, `LogInv` the rows. Every action moves lines from one link of
the chain to the next, so lemmas about chains (`TightConcat`, `OrderedConcat`,
`OrderedNewest` for a trim) carry the induction. `CutsInv` adds that each line
without a delimiter, wherever it is, ends at a byte after which a link or a
task ended. With both tasks ended the chain is empty but for the rows, which is
`NothingLeftBehind`. The same invariant gives the step simulation: an insert is
`CaptureLog`'s write, all else stutters.

**ReaderClock.** `LateByReads` needs that the age of the batch exceeds what
`lines` and `bare` intervals allow by no more than what `armed` says has passed
of the current one. `WaitsNeverShrink` follows from the backoff being monotone
in the attempts.

**Exchange.** `AtMostOnce` needs to know where a client is when it repeats: only
after a connection that was refused, before anything was written. The invariant
relates the client's program counter, its frame, its connection and what the
serving task has done; that a daemon drops only connections it never took gives
`StopsLoseNothing`. The same invariant gives the step simulation: the begin of an
execution is the effect of `Requests`, the four ways in which a call returns are what
the client is told. An effect behind a refusal or a cut connection would need a task
that still reads from a connection whose client was told so, which `ClientInv` and
`CutInv` exclude.

**Ports.** `OneReader` says that a reader nobody told to stop is the one the table
knows. `Readers` adds what makes it inductive, that whatever the table names is a
handle of that port (`TablePorts`). The release by an ESP tool and the restart are
the steps where it is not plain: one empties a place of the table, the other makes
new handles for the recorded ports. `Carries` says which handlers carry settings,
without which the types are not inductive.

`RecordTrue` and `SettingsTrue` compare the record, the table and the wire, which a
handler changes one after the other, with awaits between. `Account(p)` says of a
port what the record and the table may differ by: nothing, or what one handler that
is between its two changes is about to write (`Intent`). A port whose record the state
database did not take is set aside until the next change that it takes (`unsaved`). `Sole` says that it is one,
unless two changes of the port overlapped, which the properties excuse. A handler
keeps the handle the table knows while it waits for it (`Waits`), and `Wires` ties
what is on the wire of a handle to its settings. Each handler is one lemma about
its own port, and one about all others.

`NeverStuck` is about who waits for whom: for the actor, for the one mutex of an open
file, or for a device in a read without a time limit (`AtDevice`). It states the guards
of a handler (`GoesOn`) instead of `ENABLED`, which the prover does not reason about.
`MutexHeld` says that a mutex is held by a transfer in progress and by nobody else, so
its holder waits for nobody but its device. Only a handler the actor is at waits for a
mutex on the actor's behalf, and there is one of these. So whoever waits for the actor
waits for the one it is at, that one at most for a holder, and the chain ends
(`WaitsEnd`), with any number of clients and ports: in a handler that goes on, or in a
transfer whose device is there and silent. The latter holds the actor for as long as it
likes, and the property does not claim otherwise.

**Endpoint.** `StartsExclude` excuses what follows the theft of a lock, so the
invariant speaks of histories without one: who is between check and bind made
the lock file that is there (`LockHeld`), and who is between bind and clean-up has
the socket (`SocketKept`). A socket is removed as stale only after a probe, and
`SocketKept` has to say that between the probe and the removal nobody begins to
accept. `Untroubled` follows a daemon that starts alone from step to step, which
is `ServerReachable`. For `ServerKnown`, `PidLeft` and `Restarted` say that the
daemon that was stopped neither comes back nor is the one that answers.

**Commands.** `RetryIsEnough` needs where the daemons that stopped are to be counted:
one stop explains a request that found nobody, a second one a repetition that did
(`Excused`, with a process at "send"). `NoteKept` follows the note about another
build from the connection of an MCP server to its first result.

**Store.** Ids are given in order, so no view and no follower has seen a row that is
still to come (`Seen`, `RowsFresh`). A deletion counts, copies and removes in steps
of its own: `Asked` says that before the removal it would take no more than was
counted and copied, whatever the writer or another handle did meanwhile, `Removed`
that afterwards nothing of the kind is left, and `Handles` who holds the handle of
the daemon between two statements. A screen is compared with the log from the last row
the cap took off it (`dropped`); a view whose request failed behind the removal, or that
gave up waiting, is `adrift` and keeps its lines. `Following` relates the cursor of a follower to
what it printed, notes passed over included.

**Rest and Streams.** Who accepts is the listener the daemon runs and nobody else
(`OnlyRunning`), also while one replaces another, and the state a client is told
is that listener's (`Reported`); with `Guarded`, that who can be reached from
elsewhere has a token, every answer is what the layers make of some request. Of a
job, `JobSound` says in which order its tool, the pump of its lines and its
outcome end, and `Later` that each step only lengthens its log: a page that was
read before it is then still a page of it. That the oldest finished job makes room
for a new one rests on a least element (`NatMin`). The refinement of `Feeds` needs
more than `StreamsFaithful` says: that the outcome a stream read is that of its job
(`OfJob`), and that a page of the port begins right behind the last row sent, or at
the first row there was when it was read, and ends within what was stored (`OfPort`).
A trim between the read and an event only raises the first row, so what the event
passes over is gone by then.

**Surfaces.** `WindowsAreAccounted` and `AnswersAlwaysHold` are about the composition
`MC_Surfaces`: a step of it is a step of one part and stutters in the others
(`PartsMove`), so the parts' invariants together are its invariant. `DesktopInv` is
the types and that no two windows of a process are of one port, through every way to
open and close one. `QuitAsked` and `StopMeant` speak of the step with which a process
begins to end: each of these steps has a lemma (`MenuAsks`, `LastCloseAsks`,
`LastWindowAsks`), which `DesktopAsks` puts together. In `WindowsInv` a
call that found no entry in the map of windows still finds none when it inserts
its own, unless two calls for one port overlap. `SettingsInv` says of every saver
of the file that the document it works on is the file with its own change.

**Lifecycle.** Time is a variable, and `Idle` relates times. A lease ends `Ttl`
after its last renewal (`Leases`). A keeper renews no later than `Renew` after
the last renewal that got through, or twice that after one that did not
(`Keepers`), which is before the lease ends. The timer knows of every request and
of new rows by the time of the decision (`Noted`, `DataSeen`), so a decision to
stop finds a whole period behind each; and it knows of nothing later than a
request or a round after a change (`Accounted`), so that a decision not to stop
has one of four reasons (`Excused`), of which none lasts longer than
`StopsInTime` says. `Counts` is where the finiteness of `Holder` is used: the
number of requests in flight is zero only if there is none.

**RestPanel.** An answer carries the number of the change it saw. A start or stop
that is listened to is the last one, and no status request of its generation is in
flight beside it (`LastAction`); one that nobody listens to is of an earlier
generation or was answered (`Heeded`); and an answer to a status request of this
generation is no older than the last start or stop that was acted on (`Current`).

**Session.** `FlagInv` adds to `FlagTrue` that a frame is drawn only by a surface that
is open: the end of a flash, which asks for the port again, is a part of a frame
that a close of the surface cannot cut. `doubt` is set by the steps with which the flag and
the daemon may part: a lost answer, a late one (`unheard` until the daemon has done it)
and another client. A request that is answered with a yes clears it when none is
unheard, so a request that is unheard leaves the surface in doubt. `FlashTold` is about the log when there is
an outcome; the invariant is that during a run the log, followed by what is still in
the channel, ends with the last lines printed (`EndsWith`). Trimming the front of a
log keeps that, which is where the arithmetic is (`TrimmedEnds`); so does the error
text a failure adds, as it is added to both sides (`EndStands`).

**Zmodem.** The sender follows one script of `pieces + 6` units whatever it is
answered, and nothing is lost as a whole. `Script` says that the receiver was given
the first `c` units and that the line holds the next, each in its place (`InPlace`)
and perhaps hit; `SentUpTo` and `TakenUpTo` read the states of both sides off
the script. So a subpacket is kept only in its place. `Apace` relates the sides by the
answers on the way: no data leave before the receiver asked for them, and neither
side is done before the other has got, or sent, the end of the file.

**Transfer.** Answers are matched to blocks by their order alone and a block number
is one byte, so `InOrder` rests on how far the sender may run ahead. `Load` counts the
answers that the line may still cause. Each answer moves the sender on by one block
at most, and each is paid for (`Credit`): in XMODEM by a start character, of which
there are at most `MaxRetries`, in YMODEM by the one token that is under way. So the
sender is at most `Room` blocks ahead, fewer than a wrap (`Ahead`), the blocks on the
line are in order (`Ordered`), and a number that is expected belongs to the block that
is (`ModUnique`). What is left of a block read out of step is paid for as long as
it holds at most two control bytes: one takes the place of the block in the count and
the other starts a block. `Beginning` and `Ending` say where both sides may be before
the first and after the last block, `Told` what an ACK says to a sender that mistook
nothing, which gives the sender's half of `SuccessMeansWhole`. For the receiver's half, `Arrived`
says that an end of file is on the line only when every block was taken, unless a side
was misled, so that a receiver has them all from the first end it reads. `Wrap > MaxRetries + 1` is what the argument needs of
the protocol's numbers, 256 and 10.

**Delivery.** Every step is one of the sender and the line (`SenderMoves`) or one of the
receiver (`ReceiverMoves`), in terms of what the abstract specification knows: what
was kept, where either side is, which marks were set. The invariant then decides which
step of `Delivery` it is: a block that is appended is the next one, a file is cut short
only by a size that is not the file's, and an outcome is a success only with the whole
file. Nothing of it mentions a number or a checksum, which the invariants have used up.

**Display and Reading.** Both rest on lists in their order. `AscendingTheorem` says what
`Ascending` returns: each rank of a finite set of numbers is taken, since ranks are
an injection of the set into as many numbers. `BuiltTheorem` has the places of a
filter from it, and every action that changes the list either rebuilds them or
leaves nothing that is stored. For `Reading`, rows are known by which they are
(`SameRows`), so a window of a read is right when its set of ids is (`TailRead` for the
offset from the end, whatever the gaps). Of a scan `SearchHolds` says that it has
found every match below its cursor that was there throughout: the next page is
the first rows from the cursor on, so what it leaves out lies behind it.

**Text.** `LineInv` says which text is where: at the writer and the engine what the
surface made of the line, there perhaps written as digits. Three lemmas carry it. An
ending is blanks, so it changes neither a prefix nor the digits behind it
(`BlanksBehind`); bytes written as digits have no prefix and decode to themselves
(`EncodeKeeps`); digits that are well formed decode and are all there (`DecodeKeeps`).
`TwiceRead` is where it does not hold, bytes that begin with `0x` themselves. For
`RecordsSurvive`, `Joined` and `ReadOn` are functions defined by recursion over a
length, so `Recursion` shows first that there is one, from the least length that has
none, and every induction that follows is `Reached`. A text in two parts is read one
after the other (`ReadOnConcat`); if each piece takes a reader from one state to the
next, all of them take it from the first to the last (`JoinedRead`). It is used for
the characters of a payload, whose quotes are doubled, and for the rows of a file.

**Skills.** `Standing` says where a copy may stand; every surface asks the crate for
the places anew when the answer is given, so an offer that is out of date changes
nothing but what came up meanwhile.

Left to TLC:

* Liveness under fairness, which the prover does not reason about: `EveryLineSettled`,
  `ShutdownEnds`, `Reconnects`, `RequestsSettle`, `StartSettles`, `SendsEnd`, `StreamEnds`
  and `LinkSettles`. Every other property of a passing run is a theorem.

No module has a `RECURSIVE` operator. Where an order was all that mattered the model has
a function in its place (`ForgetWindows`); where a least or a greatest element was, the
well-ordering of the naturals did instead; where a text is built or read piece by
piece, it is a recursive function over a length. The library's induction theorems
take an operator, which no prover here can instantiate, so inductions are over sets
of numbers (`Reached`). `SelectSeq` is built into TLC, so the prover cannot look into
it; `Chosen` of `Order` says what it does.

## 6. Where code and words disagree

Four of these have a run of their own, which must find the violation:

* `ports_effective`: the reconnect factory keeps the configuration of the open
  (`SerialReconnectFactory`). After a reconfiguration and an unplug the device
  gets the old line settings back while the table, "the effective
  configuration", goes on showing the new ones.
* `endpoint_lock`: the clean-up of a stopping daemon removes the lock file by its
  path, also when it is another daemon's. A third start then meets the second
  between its lock and its `listen`, takes its socket for stale and removes it.
* `session_flash`: the result of a flash is looked for where the dialog is drawn.
  The Flash button of the toolbar hides the dialog during a run, and then nobody
  asks for the released port again.
* `typed`: a window decodes hexadecimal and hands the bytes on as text, which the
  daemon decodes again when they spell `0x`. The same line does not always leave
  a window and a terminal as the same bytes.

The others were met while modelling. Where a property is near one of them it is
stated so that it holds with this exception, and names it.

Ports and the daemon:

* Two opens of one port at once: the second is told "already managed" where an
  open is otherwise repeatable.
* Two reconfigurations of one port at once lose one of the changes
  (`SettingsTrue` excuses overlapping changes).
* The record of a close may overtake that of an open; the port is open and not
  in the state database (`RecordTrue` allows for requests in progress).
* A state database that does not take a change is only warned of, and the request
  succeeds (`src/engine.rs:449-464`): record and table differ until the next change of
  the port (`RecordTrue` excepts it by `unsaved`). A PID file that cannot be written is
  only warned of as well (`PidFileTrue` excepts it by `misnamed`).
* A transfer that reads without a time limit holds the mutex of its port, and the actor
  waits for that mutex with every later command of every port behind it
  (`src/modem/xmodem.rs:222-225`, `src/modem/ymodem.rs:200-203`; `NeverStuck` says so).
* An ESP tool starts while the reader of the port has not yet let go of it.
* A stopping daemon may remove the PID file a new one has just written
  (`PidFileTrue`).
* After a restart the new daemon tries to open ports the old one still holds; it
  logs this and leaves them closed. Ports are restored before the endpoint is
  bound (`src/cli/bootstrap.rs`), so a start that loses the race has opened them.
* The idle watcher compares counts of rows. Bytes without a delimiter do not
  count, nor do rows that came while as many went (`NotUnderAnybody`).
* A request longer than the five seconds of the drain is cut off by a stop; what it
  runs as blocking work goes on until it ends or the process does.
* The flush interval starts again with every read, so a line may wait longer
  than one interval (`LateByReads` gives the bound).
* `flash`, `send`, `recv`, `macro` and `read --wait-ms` of the command line use the
  client's default limit of 30 seconds and report a failure while the daemon goes
  on; the MCP server waits up to an hour for the same requests (`remote_timeout`).
* `read --follow` does not look at `--from`, `--after` and `--since`.
* `serial_esp_info` is announced as read-only, although it resets the chip and
  opens the port again, or cannot and leaves it closed (`HintsTrue` allows it what a
  tool does to a port, and nothing else); `serial_close` as idempotent, although the
  second call is an error (`HintsTrue` is about what is changed).

Logs and their readers:

* Copy and deletion are two statements. A marker row another handle wrote
  between them is deleted and not in the copy (`CopyHoldsCapture`).
* A window that opens takes the number of rows for the id to begin after. On a
  log that was trimmed it begins earlier than meant. Its export of a range counts
  lines where ids have gaps and goes past the last one asked for.
* Clearing and deleting end with a `VACUUM` behind the committed removal
  (`src/storage.rs:435`, `516`). When that fails the request is an error, and the window
  or terminal keeps lines on its screen that are no longer in the log
  (`ScreenFollowsLog` is about requests that were answered).
* A terminal shows its own marker a second time when it reads it from the log.
* The first page of a follower, when empty, takes its cursor from a second query
  and may pass over a row that came in between; so may any page, when another
  handle stores rows.
* A search that has looked at exactly as many rows as its limit says that it was
  truncated, also when these were all.
* A filter changed by the menu of its field is not applied until a key is pressed.

Transfers:

* Either side of XMODEM or YMODEM may report success for a file that did not arrive in
  three cases, which `Misled` names: a start character that was left
  on the line is taken for an answer, a block is read out of step, or the header
  of YMODEM, whose checksum is not looked at, was changed.
* The rest of a block is read without the time limit that `src/modem/mod.rs`
  announces per byte, and so are all bytes behind the mark of a ZMODEM header,
  though the comment says that the timed read is shared by all three protocols.
  A receiver that lost a byte waits for good once the sender gave up, and holds
  the mutex of its port.
* What is left of a block that is read out of step may hold any bytes. With three
  control bytes in it an XMODEM receiver answers twice to one block, the answers pile
  up, and a sender that ran ahead by 256 blocks has block `n + 256` kept in place of
  block `n` (`InOrder` excepts this by `AnsweredTwice`; with `RestMax` 3, 18 blocks and
  `Wrap` 5 the model does it).
* An empty file never arrives between two devserials by ZMODEM: the receiver takes
  the end of it for data.
* Neither a YMODEM nor a ZMODEM receiver compares what it got with the size that
  was announced.

REST listener:

* A listener that is to replace one on the same address finds it in use, by the
  one it replaces; enabling right after disabling may fail for the same reason.
* The registry keeps more than its sixteen jobs when the oldest one still runs.
* "A failed replacement does not stop the listener already answering requests"
  (`src/rest.rs:192-193`): the old listener is stopped before the runtime is offered the
  new socket (226-231). If the runtime refuses it, nothing listens and the state goes on
  saying "listening" (`SwitchTrue` excepts it by `mislaid`).
* If the task of a listener ends by itself, the state goes on saying "listening".

Windows, terminal and MCP server:

* A file transfer never starts in a window that has a session: `send_event` has no
  route for it. `README.md` also promises chip information from the toolbar, which
  has no button for it.
* A terminal closed during a flash leaves the port released, as does a window.
* Settings that were edited and cancelled are what the next connect uses.
* A failed press of DTR or RTS is shown as set in a window; a macro that fails
  keeps the old levels in a terminal.
* The socket of the windows is removed by its path by any instance that starts
  or ends (`Windows` has it). A display-only window writes its events to standard
  output of the process that runs it, so an MCP server does not learn that one it
  handed over was closed; two calls to open one at once leave a process nobody
  closes (`NothingOrphaned` excuses them).
* "The flag is not moved on failure: the port did not change hands"
  (`src/tui.rs:951`): a request whose answer is lost or too late is a failure to
  `daemon_toggle` (`src/standalone.rs:747-765`) although the daemon did what was asked,
  or does it later. The surface then shows the wrong state until a request of its own is answered
  with a yes (`FlagTrue` excepts it by `doubt`).
* `QuitQuestion` and `ClosePort` name a window by its index, which another close
  shifts.
* "A last window closed some other way than its close button still gets the question"
  (`src/monitor.rs:2668-2669`), but not when the last window shown has no session and
  one that was shut before had one: the close counts as decided
  (`src/monitor.rs:2855-2859`) and the daemon stays (`QuitAsked` excepts it). Windows that
  a command opens after quitting was decided end without a question too.
* Escape in a terminal leaves the screen before the mode of it gets the key, a
  function key leaves a screen's text in the input line, and a draft is lost when
  the history is left by Escape.
* An idle period is saved as default also when the daemon refused it.
* A place for the agent skill that comes up while the question is on the screen is
  decided with it, unseen, although a tool installed later is to be asked about on
  its own (`SkillsAgreed`).
* Two surfaces that save settings at once share one staging file: an update may be
  lost, or a half-written file renamed (`SettingsSaved` excuses it).
* The hexadecimal decoder takes a sign for a digit where its comment calls any
  such character an error (`TypedArrives`). A window trims a line and a terminal
  does not.

## 7. Not modelled

* Windows, the operating system: named pipes in place of the socket. The models
  are of the POSIX branch.
* Frames: a frame is whole; size limits and malformed frames are left out, and so
  are several requests on one connection, which no client here sends.
* The padding that the XMODEM receiver trims: it takes any trailing `0x1A` of the
  file with it. YMODEM file names longer than a header. A ZMODEM line that loses a
  whole subpacket. The size above which a ZMODEM receiver refuses an announced file.
* Drawing, scrolling, zoom, colours, the clipboard, hexadecimal and time views,
  tooltips: layout, with no state another part depends on. Resources, wording and
  schemas of the MCP server and the REST listener: data.
* The event pump and the notifier of a display-only window of the MCP server.
* Parsing of arguments, port filters, configuration sections and serial parameters:
  tables of words, which unit tests cover.
* `src/platform.rs`, `src/paths.rs`, `src/identity.rs`, `build.rs`: names of files,
  calls of the operating system, texts fixed at build time. `src/assets.rs` and
  `src/testutil/`: embedded images and helpers of tests.
* Hardware: a device is present or not, and its bytes are delimiters or others. What
  espflash does to a chip is another library's.

## 8. Plan

Done, the most important behaviour first: `Capture` with `CaptureLog`; `Ports`;
`Endpoint` and `Exchange`; `Lifecycle` and `Store`; `ReaderClock` and `Transfer`;
`Rest` and `Streams`; `Session`, `Display`, `Prompt`, `RestPanel`, `Desktop` and
`Windows`; `Commands` and `Reading`; `Zmodem` and `Text`; `Skills` and `Settings`.

What is left, in this order:

1. An abstract specification of `Ports`, a map from ports to settings, with its
   refinement.
2. Compositions where an interface is taken for granted: `Session` over `Ports`,
   `Commands` over `Exchange` and `Endpoint`.
3. The event pump and the notifier of a display-only window.
