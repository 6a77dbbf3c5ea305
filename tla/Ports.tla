-------------------------------- MODULE Ports --------------------------------
(***************************************************************************)
(* The open ports of a daemon: the handlers of the engine that open,       *)
(* reconfigure, close, write, transfer and flash (src/engine.rs), the      *)
(* actor that owns the port table (src/port_manager.rs), and the record of *)
(* the open ports that survives a restart (src/state.rs).                  *)
(*                                                                         *)
(* A handler is a task of its own and talks to the actor several times, so *)
(* the requests of different clients interleave between its steps.  A      *)
(* handle is one opening of a port: its reader, its open file and the      *)
(* mutex around that file.  It outlives the close that ends it, until its  *)
(* reader has noticed.                                                     *)
(*                                                                         *)
(* Ports have auto_reconnect on, as by default; Capture has both cases.    *)
(* A definition whose name begins with Fault is a wrong variant of the one *)
(* that follows it, and no behaviour of Spec uses it.                      *)
(***************************************************************************)
EXTENDS Integers, Sequences, FiniteSets

CONSTANTS
  Port,          \* names of serial devices
  Client,        \* clients, each with one request at a time
  Value,         \* values of one line setting
  Default,       \* the value the configuration file gives every setting
  None,          \* no client, no configuration
  Kinds,         \* the requests the clients make, of RequestKind
  Exclusive,     \* the operating system lets a device be opened once only
  MaxOpens,      \* bound: handles ever opened
  MaxRequests,   \* bound: requests the clients make
  MaxUnplugs,    \* bound: times a device goes away
  MaxRestarts    \* bound: times the daemon dies and a new one starts

RequestKind == {"open", "reconfigure", "close", "write", "transfer", "esp"}

ASSUME PortsAssumption ==
  /\ Default \in Value
  /\ None \notin Client
  /\ Kinds \subseteq RequestKind /\ Kinds # {}
  /\ IsFiniteSet(Port) /\ Port # {}
  /\ Exclusive \in BOOLEAN
  /\ MaxOpens \in Nat /\ MaxRequests \in Nat
  /\ MaxUnplugs \in Nat /\ MaxRestarts \in Nat

\* Two settings stand for baud rate, data bits, parity, stop bits and flow
\* control: enough to change one and keep another.
Setting == {"speed", "framing"}
Config == [Setting -> Value]
NoConfig == [s \in {} |-> Default]

\* A request gives some settings and leaves the others out; a bad baud rate
\* is refused.
Change == UNION {[S -> Value] : S \in SUBSET Setting}
Request == [kind : Kinds, port : Port, change : Change, valid : BOOLEAN]

Handle == [port : Port, config : Config,   \* what the table says
           wire : Config,                  \* what the open file is set to
           factory : Config,               \* what a reconnect opens with
           reader : {"running", "stopping", "ended"},
           linked : BOOLEAN,               \* the file belongs to a device that is there
           relinked : BOOLEAN,             \* reconnected since it was opened
           holder : Client \cup {None}]    \* who holds the mutex for longer

ClientPc == {"idle", "open.serial", "open.remember",
             "reconfigure.get", "reconfigure.set", "reconfigure.remember",
             "close.forget", "transfer.lock", "transfer.run", "transfer.stall",
             "esp.release", "esp.tool", "esp.run", "esp.reopen",
             "open", "reconfigure", "close", "write", "transfer", "esp"}

Answer == {"none", "ok", "AlreadyManaged", "NotOpen", "Serial", "Invalid",
           "Tool", "NotReopened", "Lost"}

VARIABLES
  handles,     \* every handle opened, in order
  current,     \* the port table: the handle of a port, or 0
  actor,       \* the client whose command the actor waits with, or None
  recorded,    \* the state database: the configuration of a port, or NoConfig
  plugged,     \* the device of a port is there
  pc,          \* where the handler of a client's request is
  request,     \* the request
  config,      \* the configuration a handler carries, or NoConfig
  using,       \* the handle a handler holds a reference to, or 0
  answer,      \* the answer to a client's last request, or "none" yet
  inForce,     \* history: configurations a port was ever given
  wanted,      \* history: the last value asked for, of every setting
  excused,     \* history: ports whose record and table may differ, see below
  unsaved,     \* history: ports whose last change the state database did not take
  requests, unplugs, restarts

clientVars == <<pc, request, config, using, answer>>
historyVars == <<inForce, wanted, excused, unsaved>>
boundVars == <<requests, unplugs, restarts>>
vars == <<handles, current, actor, recorded, plugged, clientVars, historyVars, boundVars>>

Managed(p) == current[p] # 0
TableConfig(p) == handles[current[p]].config
HandleIds == 1 .. Len(handles)

\* The requested settings over a base; the rest of the base stays.
Merge(base, change) ==
  [s \in Setting |-> IF s \in DOMAIN change THEN change[s] ELSE base[s]]

FromFile == [s \in Setting |-> Default]

\* An open file keeps the device: the reader's, or that of a handler that
\* still works with the handle, or the external tool's.
Occupied(p) ==
  \/ \E h \in HandleIds : /\ handles[h].port = p /\ handles[h].linked
                          /\ \/ handles[h].reader # "ended"
                             \/ \E c \in Client : using[c] = h
  \/ \E c \in Client : pc[c] = "esp.run" /\ request[c].port = p

CanOpen(p) == plugged[p] /\ (Exclusive => ~Occupied(p))

NewHandle(p, cfg) ==
  [port |-> p, config |-> cfg, wire |-> cfg, factory |-> cfg, reader |-> "running",
   linked |-> TRUE, relinked |-> FALSE, holder |-> None]

-----------------------------------------------------------------------------
Init ==
  /\ handles = <<>>
  /\ current = [p \in Port |-> 0]
  /\ actor = None
  /\ recorded = [p \in Port |-> NoConfig]
  /\ plugged = [p \in Port |-> TRUE]
  /\ pc = [c \in Client |-> "idle"]
  /\ request = [c \in Client |-> CHOOSE r \in Request : TRUE]
  /\ config = [c \in Client |-> NoConfig]
  /\ using = [c \in Client |-> 0]
  /\ answer = [c \in Client |-> "none"]
  /\ inForce = [p \in Port |-> {}]
  /\ wanted = [p \in Port |-> FromFile]
  /\ excused = {} /\ unsaved = {}
  /\ requests = 0 /\ unplugs = 0 /\ restarts = 0

-----------------------------------------------------------------------------
(* Steps the handlers share. *)

Goto(c, place) == pc' = [pc EXCEPT ![c] = place]

Reply(c, what) ==
  /\ pc' = [pc EXCEPT ![c] = "idle"]
  /\ answer' = [answer EXCEPT ![c] = what]
  /\ config' = [config EXCEPT ![c] = NoConfig]
  /\ using' = [using EXCEPT ![c] = 0]

\* The actor takes one command at a time and has none under way.
ActorFree == actor = None

Changes(r) == r.kind \in {"open", "reconfigure", "close", "esp"}

\* A client makes a request.  Two changes of one port at a time excuse it.
Ask(c) ==
  /\ pc[c] = "idle" /\ requests < MaxRequests
  /\ \E r \in Request :
       /\ r.kind \notin {"open", "reconfigure"} => r.change = NoConfig /\ r.valid
       /\ r.valid \/ r.change = NoConfig
       /\ request' = [request EXCEPT ![c] = r]
       /\ Goto(c, r.kind)
       /\ excused' = IF Changes(r) /\ \E d \in Client : /\ pc[d] # "idle"
                                                       /\ request[d].port = r.port
                                                       /\ Changes(request[d])
                     THEN excused \cup {r.port}
                     ELSE excused
  /\ answer' = [answer EXCEPT ![c] = "none"] /\ requests' = requests + 1
  /\ UNCHANGED <<handles, current, actor, recorded, plugged, config, using,
                 inForce, wanted, unsaved, unplugs, restarts>>

-----------------------------------------------------------------------------
(* Opening.  open_port asks whether the port is managed first. *)

OpenPort(c) ==
  /\ pc[c] = "open" /\ ActorFree
  /\ LET r == request[c]
     IN  CASE Managed(r.port) -> Goto(c, "reconfigure.get") /\ UNCHANGED <<config, using, answer>>
         []   ~Managed(r.port) /\ r.valid ->
                /\ Goto(c, "open.serial")
                /\ config' = [config EXCEPT ![c] = Merge(FromFile, r.change)]
                /\ UNCHANGED <<using, answer>>
         []   ~Managed(r.port) /\ ~r.valid -> Reply(c, "Invalid")
  /\ UNCHANGED <<handles, current, actor, recorded, plugged, request, historyVars, boundVars>>

\* PortCommand::OpenReal: what the actor makes of a port and a configuration.
FaultRefused(p) == FALSE
Refused(p) == Managed(p)

OpenReal(p, cfg) ==
  /\ handles' = Append(handles, NewHandle(p, cfg))
  /\ current' = [current EXCEPT ![p] = Len(handles) + 1]
  /\ inForce' = [inForce EXCEPT ![p] = @ \cup {cfg}]
  /\ wanted' = [wanted EXCEPT ![p] = cfg]

OpenSerial(c) ==
  /\ pc[c] = "open.serial" /\ ActorFree
  /\ LET p == request[c].port
     IN  \/ /\ Refused(p) /\ Reply(c, "AlreadyManaged")
            /\ UNCHANGED <<handles, current, inForce, wanted>>
         \/ /\ ~Refused(p) /\ ~CanOpen(p) /\ Reply(c, "Serial")
            /\ UNCHANGED <<handles, current, inForce, wanted>>
         \/ /\ ~Refused(p) /\ CanOpen(p) /\ Len(handles) < MaxOpens
            /\ OpenReal(p, config[c])
            /\ Goto(c, "open.remember") /\ UNCHANGED <<config, using, answer>>
  /\ UNCHANGED <<actor, recorded, plugged, request, excused, unsaved, boundVars>>

\* The state database takes the new record of a port, or fails, which is only
\* warned of: the request has succeeded either way.
Save(p, record) ==
  \/ recorded' = record /\ unsaved' = unsaved \ {p}
  \/ recorded' = recorded /\ unsaved' = unsaved \cup {p}

\* remember_open_port, for an open and a reconfigure alike.
Remember(c) ==
  /\ pc[c] \in {"open.remember", "reconfigure.remember"}
  /\ Save(request[c].port, [recorded EXCEPT ![request[c].port] = config[c]])
  /\ Reply(c, "ok")
  /\ UNCHANGED <<handles, current, actor, plugged, request, inForce, wanted, excused, boundVars>>

-----------------------------------------------------------------------------
(* Reconfiguring: the settings in force are read, merged and set. *)

Base(p) == TableConfig(p)

ReconfigureGet(c) ==
  /\ pc[c] \in {"reconfigure", "reconfigure.get"} /\ ActorFree
  /\ LET r == request[c]
     IN  CASE ~Managed(r.port) -> Reply(c, "NotOpen")
         []   Managed(r.port) /\ ~r.valid -> Reply(c, "Invalid")
         []   Managed(r.port) /\ r.valid ->
                /\ config' = [config EXCEPT ![c] = Merge(Base(r.port), r.change)]
                /\ Goto(c, "reconfigure.set") /\ UNCHANGED <<using, answer>>
  /\ UNCHANGED <<handles, current, actor, recorded, plugged, request, historyVars, boundVars>>

\* PortCommand::Reconfigure and PortCommand::Write both make the actor wait
\* for the mutex of the port, with every other command behind it.
ActorWaits(c) ==
  /\ pc[c] \in {"reconfigure.set", "write"} /\ ActorFree
  /\ IF Managed(request[c].port)
     THEN /\ actor' = c
          /\ using' = [using EXCEPT ![c] = current[request[c].port]]
          /\ UNCHANGED <<pc, answer, config>>
     ELSE Reply(c, "NotOpen") /\ UNCHANGED actor
  /\ UNCHANGED <<handles, current, recorded, plugged, request, historyVars, boundVars>>

MutexFree(h) == handles[h].holder = None

\* reconfigure_managed: the table follows only when the device took it.
FaultReconfigured(h, cfg, ok) ==
  [handles[h] EXCEPT !.wire = IF ok THEN cfg ELSE @, !.config = cfg]
Reconfigured(h, cfg, ok) ==
  IF ok THEN [handles[h] EXCEPT !.wire = cfg, !.config = cfg] ELSE handles[h]

ReconfigureSet(c) ==
  /\ pc[c] = "reconfigure.set" /\ actor = c /\ MutexFree(using[c])
  /\ LET h == using[c]
         p == request[c].port
         ok == handles[h].linked
     IN  /\ handles' = [handles EXCEPT ![h] = Reconfigured(h, config[c], ok)]
         /\ IF ok
            THEN /\ inForce' = [inForce EXCEPT ![p] = @ \cup {config[c]}]
                 /\ wanted' = [wanted EXCEPT ![p] = Merge(@, request[c].change)]
                 /\ Goto(c, "reconfigure.remember")
                 /\ using' = [using EXCEPT ![c] = 0]
                 /\ UNCHANGED <<answer, config>>
            ELSE Reply(c, "Serial") /\ UNCHANGED <<inForce, wanted>>
  /\ actor' = None
  /\ UNCHANGED <<current, recorded, plugged, request, excused, unsaved, boundVars>>

Write(c) ==
  /\ pc[c] = "write" /\ actor = c /\ MutexFree(using[c])
  /\ Reply(c, IF handles[using[c]].linked THEN "ok" ELSE "Serial")
  /\ actor' = None
  /\ UNCHANGED <<handles, current, recorded, plugged, request, historyVars, boundVars>>

-----------------------------------------------------------------------------
(* Closing: the actor signals the reader and does not wait for it. *)

Release(p) ==
  /\ handles' = [handles EXCEPT ![current[p]].reader = "stopping"]
  /\ current' = [current EXCEPT ![p] = 0]

ClosePort(c) ==
  /\ pc[c] = "close" /\ ActorFree
  /\ IF Managed(request[c].port)
     THEN /\ Release(request[c].port)
          /\ Goto(c, "close.forget") /\ UNCHANGED <<config, using, answer>>
     ELSE Reply(c, "NotOpen") /\ UNCHANGED <<handles, current>>
  /\ UNCHANGED <<actor, recorded, plugged, request, historyVars, boundVars>>

FaultForgotten(p) == recorded
Forgotten(p) == [recorded EXCEPT ![p] = NoConfig]

CloseForget(c) ==
  /\ pc[c] = "close.forget"
  /\ Save(request[c].port, Forgotten(request[c].port))
  /\ Reply(c, "ok")
  /\ UNCHANGED <<handles, current, actor, plugged, request, inForce, wanted, excused, boundVars>>

-----------------------------------------------------------------------------
(* A file transfer holds the mutex from its first byte to its last; so do a *)
(* break and the steps of a macro, for less time.                           *)

TransferStart(c) ==
  /\ pc[c] = "transfer" /\ ActorFree
  /\ IF Managed(request[c].port)
     THEN /\ using' = [using EXCEPT ![c] = current[request[c].port]]
          /\ Goto(c, "transfer.lock") /\ UNCHANGED <<config, answer>>
     ELSE Reply(c, "NotOpen")
  /\ UNCHANGED <<handles, current, actor, recorded, plugged, request, historyVars, boundVars>>

TransferLock(c) ==
  /\ pc[c] = "transfer.lock" /\ MutexFree(using[c])
  /\ handles' = [handles EXCEPT ![using[c]].holder = c]
  /\ Goto(c, "transfer.run")
  /\ UNCHANGED <<current, actor, recorded, plugged, request, config, using, answer,
                 historyVars, boundVars>>

\* Some reads of the XMODEM and YMODEM receivers have no time limit.  A transfer in
\* one of them goes on when bytes come or the device is gone, and only then.
TransferStalls(c) ==
  /\ pc[c] = "transfer.run" /\ handles[using[c]].linked
  /\ Goto(c, "transfer.stall")
  /\ UNCHANGED <<handles, current, actor, recorded, plugged, request, config, using, answer,
                 historyVars, boundVars>>

TransferGoesOn(c) ==
  /\ pc[c] = "transfer.stall"
  /\ Goto(c, "transfer.run")
  /\ UNCHANGED <<handles, current, actor, recorded, plugged, request, config, using, answer,
                 historyVars, boundVars>>

\* Out of such a read a transfer ends, well or not, and lets go of the mutex.
FaultGuardKept(c) == c
GuardDropped(c) == None

TransferEnd(c) ==
  /\ pc[c] = "transfer.run"
  /\ handles' = [handles EXCEPT ![using[c]].holder = GuardDropped(c)]
  /\ Reply(c, IF handles[using[c]].linked THEN "ok" ELSE "Serial")
  /\ UNCHANGED <<current, actor, recorded, plugged, request, historyVars, boundVars>>

-----------------------------------------------------------------------------
(* An ESP operation: release the port, run the tool, open the port again.  *)

\* release_port: get_state first, then close_with_config.
EspState(c) ==
  /\ pc[c] = "esp" /\ ActorFree
  /\ Goto(c, IF Managed(request[c].port) THEN "esp.release" ELSE "esp.tool")
  /\ UNCHANGED <<handles, current, actor, recorded, plugged, request, config, using,
                 answer, historyVars, boundVars>>

EspRelease(c) ==
  /\ pc[c] = "esp.release" /\ ActorFree
  /\ LET p == request[c].port
     IN  IF Managed(p)
         THEN /\ config' = [config EXCEPT ![c] = TableConfig(p)]
              /\ Release(p)
         ELSE UNCHANGED <<config, handles, current>>
  /\ Goto(c, "esp.tool")
  /\ UNCHANGED <<actor, recorded, plugged, request, using, answer, historyVars, boundVars>>

EspTool(c) ==
  /\ pc[c] = "esp.tool"
  /\ Goto(c, IF CanOpen(request[c].port) THEN "esp.run" ELSE "esp.reopen")
  /\ UNCHANGED <<handles, current, actor, recorded, plugged, request, config, using,
                 answer, historyVars, boundVars>>

EspToolEnds(c) ==
  /\ pc[c] = "esp.run"
  /\ Goto(c, "esp.reopen")
  /\ UNCHANGED <<handles, current, actor, recorded, plugged, request, config, using,
                 answer, historyVars, boundVars>>

\* reopen_port, with the configuration of the release; the record is left.
EspReopen(c) ==
  /\ pc[c] = "esp.reopen" /\ ActorFree
  /\ LET p == request[c].port
     IN  \/ /\ config[c] = NoConfig
            /\ \E what \in {"ok", "Tool"} : Reply(c, what)
            /\ UNCHANGED <<handles, current, inForce, wanted, excused>>
         \/ /\ config[c] # NoConfig /\ ~Refused(p) /\ CanOpen(p) /\ Len(handles) < MaxOpens
            /\ OpenReal(p, config[c])
            /\ \E what \in {"ok", "Tool"} : Reply(c, what)
            /\ UNCHANGED excused
         \/ /\ config[c] # NoConfig /\ (Refused(p) \/ ~CanOpen(p))
            /\ Reply(c, "NotReopened")
            /\ excused' = excused \cup {p}
            /\ UNCHANGED <<handles, current, inForce, wanted>>
  /\ UNCHANGED <<actor, recorded, plugged, request, unsaved, boundVars>>

-----------------------------------------------------------------------------
(* Readers, devices and restarts. *)

\* The reader of a closed handle has seen the signal.
ReaderEnds(h) ==
  /\ h \in HandleIds /\ handles[h].reader = "stopping"
  /\ handles' = [handles EXCEPT ![h].reader = "ended"]
  /\ UNCHANGED <<current, actor, recorded, plugged, clientVars, historyVars, boundVars>>

\* SerialReconnectFactory::try_connect, with the configuration of the open;
\* the new file takes the place of the old one under the mutex.  The raw open
\* and the wait for the mutex are one step: whoever holds the mutex of a handle
\* that is not linked gets an error from its file next, and lets go.
Reconnect(h) ==
  /\ h \in HandleIds /\ ~handles[h].linked /\ handles[h].reader # "ended"
  /\ CanOpen(handles[h].port) /\ MutexFree(h)
  /\ handles' = [handles EXCEPT ![h].linked = TRUE, ![h].relinked = TRUE,
                                ![h].wire = handles[h].factory]
  /\ UNCHANGED <<current, actor, recorded, plugged, clientVars, historyVars, boundVars>>

Unplug(p) ==
  /\ plugged[p] /\ unplugs < MaxUnplugs
  /\ plugged' = [plugged EXCEPT ![p] = FALSE]
  /\ handles' = [h \in HandleIds |-> IF handles[h].port = p
                                     THEN [handles[h] EXCEPT !.linked = FALSE]
                                     ELSE handles[h]]
  /\ unplugs' = unplugs + 1
  /\ UNCHANGED <<current, actor, recorded, clientVars, historyVars, requests, restarts>>

Plug(p) ==
  /\ ~plugged[p]
  /\ plugged' = [plugged EXCEPT ![p] = TRUE]
  /\ UNCHANGED <<handles, current, actor, recorded, clientVars, historyVars, boundVars>>

\* The daemon dies in whatever it does; the next one opens what is recorded
\* (restore_ports) and serves nobody before it has.
Restored == {p \in Port : recorded[p] # NoConfig /\ plugged[p]}

Restart ==
  /\ restarts < MaxRestarts /\ Len(handles) + Cardinality(Restored) <= MaxOpens
  /\ \E order \in [Restored -> 1 .. Cardinality(Restored)] :
       /\ \A p, q \in Restored : order[p] = order[q] => p = q
       /\ \A i \in 1 .. Cardinality(Restored) : \E p \in Restored : order[p] = i
       /\ handles' = [h \in 1 .. Len(handles) + Cardinality(Restored) |->
                        IF h <= Len(handles)
                        THEN [handles[h] EXCEPT !.reader = "ended", !.linked = FALSE,
                                                !.holder = None]
                        ELSE LET p == CHOOSE p \in Restored : order[p] = h - Len(handles)
                             IN  NewHandle(p, recorded[p])]
       /\ current' = [p \in Port |-> IF p \in Restored THEN Len(handles) + order[p] ELSE 0]
  /\ actor' = None
  /\ pc' = [c \in Client |-> "idle"]
  /\ answer' = [c \in Client |-> IF pc[c] = "idle" THEN answer[c] ELSE "Lost"]
  /\ config' = [c \in Client |-> NoConfig]
  /\ using' = [c \in Client |-> 0]
  /\ wanted' = [p \in Port |-> IF p \in Restored THEN recorded[p] ELSE wanted[p]]
  /\ excused' = {p \in Port : recorded[p] # NoConfig /\ ~plugged[p]}
  /\ unsaved' = {}
  /\ restarts' = restarts + 1
  /\ UNCHANGED <<recorded, plugged, request, inForce, requests, unplugs>>

-----------------------------------------------------------------------------
Handler(c) ==
  \/ OpenPort(c) \/ OpenSerial(c) \/ Remember(c)
  \/ ReconfigureGet(c) \/ ActorWaits(c) \/ ReconfigureSet(c) \/ Write(c)
  \/ ClosePort(c) \/ CloseForget(c)
  \/ TransferStart(c) \/ TransferLock(c) \/ TransferStalls(c) \/ TransferGoesOn(c)
  \/ TransferEnd(c)
  \/ EspState(c) \/ EspRelease(c) \/ EspTool(c) \/ EspToolEnds(c) \/ EspReopen(c)

Next ==
  \/ \E c \in Client : Ask(c) \/ Handler(c)
  \/ \E h \in HandleIds : ReaderEnds(h) \/ Reconnect(h)
  \/ \E p \in Port : Unplug(p) \/ Plug(p)
  \/ Restart

Spec == Init /\ [][Next]_vars

-----------------------------------------------------------------------------
(* Properties. *)

\* Every variable has its type.
TypeOK ==
  /\ handles \in Seq(Handle) /\ Len(handles) <= MaxOpens
  /\ current \in [Port -> 0 .. Len(handles)]
  /\ actor \in Client \cup {None}
  /\ recorded \in [Port -> Config \cup {NoConfig}]
  /\ plugged \in [Port -> BOOLEAN]
  /\ pc \in [Client -> ClientPc]
  /\ request \in [Client -> Request]
  /\ config \in [Client -> Config \cup {NoConfig}]
  /\ using \in [Client -> 0 .. Len(handles)]
  /\ answer \in [Client -> Answer]
  /\ inForce \in [Port -> SUBSET Config]
  /\ wanted \in [Port -> Config]
  /\ excused \in SUBSET Port /\ unsaved \in SUBSET Port
  /\ requests \in Nat /\ unplugs \in Nat /\ restarts \in Nat

\* A reader that nobody told to stop is the one the table knows: no open, no
\* reopen after an ESP operation and no restart leaves a second one behind
\* that would take half of the bytes of the device.
OneReader ==
  \A h \in HandleIds : handles[h].reader = "running" <=> current[handles[h].port] = h

\* What the state database would reopen was once in force on that port.
RecordedWasInForce ==
  \A p \in Port : recorded[p] # NoConfig => recorded[p] \in inForce[p]

\* The settings on the wire are those of the table, or those the port was
\* opened with when a reconnect put them back.
WireKnown ==
  \A p \in Port : (Managed(p) /\ handles[current[p]].linked) =>
    LET h == handles[current[p]]
    IN  h.wire = h.config \/ (h.relinked /\ h.wire = h.factory)

Idle(p) == \A c \in Client : pc[c] # "idle" => request[c].port # p

\* Between requests the state database and the table agree, unless it did not take
\* the last change of the port, two changes of the port overlapped, an ESP
\* operation could not reopen it or a restart could not restore it.
RecordFollowsTable ==
  \A p \in Port : (Idle(p) /\ p \notin excused \cup unsaved) =>
    recorded[p] = IF Managed(p) THEN TableConfig(p) ELSE NoConfig

\* A setting has the last value anybody asked for, unless two changes of the
\* port overlapped: what a request leaves out keeps its value.
SettingsKept ==
  \A p \in Port : (Managed(p) /\ p \notin excused) => TableConfig(p) = wanted[p]

\* The state database is right about the port, for the restart that reads it: what
\* it would reopen was in force once, and between requests it is what is in force,
\* with the exceptions of RecordFollowsTable.
RecordTrue == RecordedWasInForce /\ RecordFollowsTable

\* The settings are those that were asked for, in the table and on the wire.
SettingsTrue == WireKnown /\ SettingsKept

\* Whom a handler waits for: the client whose command the actor is at, or the one
\* that holds the mutex of its handle.  The other handlers wait for nobody.
AtActor == {"open", "open.serial", "reconfigure", "reconfigure.get", "reconfigure.set",
            "write", "close", "transfer", "esp", "esp.release", "esp.reopen"}
AtMutex(c) == pc[c] = "transfer.lock" \/ actor = c

WaitsFor(c) ==
  {d \in Client : \/ pc[c] \in AtActor /\ actor = d /\ d # c
                  \/ AtMutex(c) /\ handles[using[c]].holder = d}

\* A transfer in a read without a time limit, from a device that is there.
AtDevice(c) == pc[c] = "transfer.stall" /\ handles[using[c]].linked

GoesOn(c) == pc[c] # "idle" /\ WaitsFor(c) = {} /\ ~AtDevice(c)

\* Nobody waits for good but for a device: who waits does so for a handler that
\* goes on, or for the one the actor is at, which waits for one that goes on; or at
\* the end of this chain is a transfer that reads from a device that is there and
\* silent.  So the actor may stand still, with every command behind it, until the
\* transfer of one port lets its mutex go.  The code sets that wait no limit; but
\* no handler waits for itself, in a circle, or for one that has answered.
Ends(c) == GoesOn(c) \/ AtDevice(c)
NeverStuck ==
  \A c \in Client : pc[c] # "idle" =>
    \/ Ends(c)
    \/ \E d \in WaitsFor(c) : Ends(d) \/ \E e \in WaitsFor(d) : Ends(e)

-----------------------------------------------------------------------------
(* What the documents say and the code does not keep to. *)

\* port_manager.rs calls the configuration in the table the effective one.
TableIsEffective ==
  \A p \in Port : (Managed(p) /\ handles[current[p]].linked) =>
    handles[current[p]].wire = TableConfig(p)

=============================================================================
