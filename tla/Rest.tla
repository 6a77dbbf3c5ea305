-------------------------------- MODULE Rest --------------------------------
(***************************************************************************)
(* The HTTP interface of a daemon (src/rest.rs): the switch that enables   *)
(* and disables its listener, the guards every request passes, and the     *)
(* routes with the description it publishes of them.  The switch is under  *)
(* one mutex and binds while it holds it (src/engine.rs), so each of its   *)
(* requests is one step.  The task of a listener that is told to stop lets *)
(* go of its address later, when the runtime gets to it.                   *)
(*                                                                         *)
(* A definition whose name begins with Fault is a wrong variant of the one *)
(* that follows it, and no behaviour of RestSpec uses it.                  *)
(***************************************************************************)
EXTENDS Integers, FiniteSets

CONSTANTS
  LoopbackIps,  \* addresses of the machine itself
  NetworkIps,   \* its addresses on a network
  WildcardIp,   \* every address of the machine
  NoIp,         \* a name, which is not an address
  PortNumbers,
  AnyPort,      \* zero: the operating system chooses
  Tokens,
  None,         \* no token, no reason, no listener
  ConfigPort,   \* what the configuration file says: a port and
  ConfigToken,  \* a token, or None
  MaxListeners  \* bound: listeners a daemon ever starts

Ips == LoopbackIps \cup NetworkIps \cup {WildcardIp}
Binds == Ips \cup {NoIp}
ListenerIds == 1..MaxListeners
Statuses == {200, 202, 400, 401, 404, 415, 421, 422, 500}

ASSUME RestAssumption ==
  /\ LoopbackIps \cap NetworkIps = {} /\ NoIp \notin Ips
  /\ WildcardIp \notin LoopbackIps \cup NetworkIps
  /\ PortNumbers # {} /\ AnyPort \notin PortNumbers
  /\ ConfigPort \in PortNumbers /\ "other.example" \notin Ips
  /\ None \notin Tokens /\ None \notin ListenerIds /\ None \notin Statuses
  /\ ConfigToken \in Tokens \cup {None}
  /\ MaxListeners \in Nat \ {0}

RestConfigs == [bind : Binds, port : PortNumbers \cup {AnyPort}, token : Tokens \cup {None}]
BindsLoopback(bind) == bind \in LoopbackIps
TokenRequired(config) == config.token # None \/ ~BindsLoopback(config.bind)

VARIABLES
  restState,  \* what the daemon reports of the interface
  token,      \* the token of the listener it runs
  running,    \* that listener, or None
  listener,   \* every listener started, with the phase of its task
  occupied,   \* addresses that other programs listen on
  answered,   \* the last request over HTTP and its status
  mislaid        \* history: the listener was stopped and its successor, bound, could
              \* not be handed to the runtime, while the state still says listening

restVars == <<restState, token, running, listener, occupied, answered, mislaid>>

-----------------------------------------------------------------------------
(* The switch. *)

Reasons == {None, "in use", "not available"}
Phases == {"unborn", "serving", "aborted", "gone"}
NotBorn == [ip |-> None, port |-> None, token |-> None, phase |-> "unborn"]
NoRequest == [route |-> None, status |-> None]

RestInit ==
  /\ \E ip \in LoopbackIps :
       restState = [listening |-> FALSE, bind |-> ip, port |-> ConfigPort, reason |-> None,
                    tokenRequired |-> ConfigToken # None]
  /\ token = ConfigToken /\ running = None
  /\ listener = [l \in ListenerIds |-> NotBorn]
  /\ occupied = {} /\ answered = NoRequest /\ mislaid = FALSE

\* An address is taken when it, or a wildcard that covers it, is listened on.
\* A listener that was told to stop still holds its own.
Holders == {[ip |-> listener[l].ip, port |-> listener[l].port] :
              l \in {k \in ListenerIds : listener[k].phase \in {"serving", "aborted"}}}
Taken(ip, port) ==
  \E h \in Holders \cup occupied :
    h.port = port /\ (h.ip = ip \/ WildcardIp \in {h.ip, ip})

ListenerRuns == running # None /\ listener[running].phase = "serving"
Stopped == IF running = None THEN listener
           ELSE [listener EXCEPT ![running].phase = "aborted"]

SameListener(config) ==
  /\ restState.listening /\ ListenerRuns
  /\ restState.port = config.port /\ restState.bind = config.bind
  /\ token = config.token

\* What enable refuses before it binds.
Refused(config) ==
  \/ config.bind = NoIp
  \/ ~BindsLoopback(config.bind) /\ config.token = None

BindFails(config, reason) ==
  \/ reason = "in use" /\ config.port # AnyPort /\ Taken(config.bind, config.port)
  \/ reason = "not available" /\ config.bind \in NetworkIps

StateFor(config, port, listening, reason) ==
  [listening |-> listening, bind |-> config.bind, port |-> port, reason |-> reason,
   tokenRequired |-> TokenRequired(config)]

FaultEnableFails(config, reason) ==
  /\ BindFails(config, reason)
  /\ restState' = StateFor(config, config.port, FALSE, reason)
  /\ UNCHANGED <<token, running, listener, mislaid>>

\* The bind failed: a listener that runs goes on, and the state is still its.
EnableFails(config, reason) ==
  /\ BindFails(config, reason)
  /\ IF ListenerRuns
     THEN restState' = [restState EXCEPT !.reason = reason]
          /\ UNCHANGED <<running, listener, mislaid>>
     ELSE restState' = StateFor(config, config.port, FALSE, reason)
          /\ running' = None /\ listener' = Stopped /\ mislaid' = FALSE
  /\ UNCHANGED token

\* The bind succeeded: the new listener takes the place of the one that runs.
EnableBinds(config) ==
  \E l \in ListenerIds, port \in PortNumbers :
    /\ listener[l].phase = "unborn" /\ \A k \in 1..(l - 1) : listener[k].phase # "unborn"
    /\ config.port \in {port, AnyPort} /\ ~Taken(config.bind, port)
    /\ listener' = [Stopped EXCEPT ![l] =
         [ip |-> config.bind, port |-> port, token |-> config.token, phase |-> "serving"]]
    /\ token' = config.token /\ running' = l
    /\ restState' = StateFor(config, port, TRUE, None) /\ mislaid' = FALSE

\* The address was bound, but its socket could not be handed to the runtime.  The
\* listener that ran is stopped by then, and the state is left as it was.  (An
\* error before that, of the socket's mode or address, leaves everything.)
EnableBreaks(config) ==
  /\ \E port \in PortNumbers : config.port \in {port, AnyPort} /\ ~Taken(config.bind, port)
  /\ listener' = Stopped /\ running' = None /\ mislaid' = restState.listening
  /\ UNCHANGED <<restState, token>>

Enable(config) ==
  /\ IF Refused(config) THEN UNCHANGED <<restState, token, running, listener, mislaid>>
     ELSE IF SameListener(config)
     THEN /\ restState' = [restState EXCEPT !.reason = None]
          /\ UNCHANGED <<token, running, listener, mislaid>>
     ELSE \/ EnableBinds(config) \/ EnableBreaks(config)
          \/ \E reason \in Reasons : EnableFails(config, reason)
  /\ answered = NoRequest /\ UNCHANGED <<occupied, answered>>

\* A request names what differs from the configuration file.
RestEnable ==
  \E bind \in Binds, port \in PortNumbers \cup {AnyPort}, t \in Tokens \cup {None} :
    Enable([bind |-> bind, port |-> port, token |-> IF t = None THEN ConfigToken ELSE t])

RestDisable ==
  /\ listener' = Stopped /\ running' = None /\ mislaid' = FALSE
  /\ restState' = [restState EXCEPT !.listening = FALSE, !.reason = None]
  /\ answered = NoRequest /\ UNCHANGED <<token, occupied, answered>>

\* The runtime drops the task that was aborted, and its socket with it.
ListenerEnds(l) ==
  /\ listener[l].phase = "aborted"
  /\ listener' = [listener EXCEPT ![l].phase = "gone"]
  /\ answered = NoRequest /\ UNCHANGED <<restState, token, running, occupied, answered, mislaid>>

OthersListen ==
  /\ \E ip \in LoopbackIps, port \in PortNumbers :
       LET a == [ip |-> ip, port |-> port] IN
       occupied' = (IF a \in occupied THEN occupied \ {a} ELSE occupied \cup {a})
       /\ (a \notin occupied => ~Taken(ip, port))
  /\ answered = NoRequest /\ UNCHANGED <<restState, token, running, listener, answered, mislaid>>

-----------------------------------------------------------------------------
(* The routes: what each asks of the engine, which answers it serves, and  *)
(* the query and body it decodes.  The flash answers with a job instead.   *)

Route(method, path, request, serves, query, body) ==
  [method |-> method, path |-> path, request |-> request, serves |-> serves,
   query |-> query, body |-> body]

OpenRoutes == {
  Route("GET", "/v1/health", {}, {}, FALSE, "none"),
  Route("GET", "/v1/version", {}, {}, FALSE, "none"),
  Route("GET", "/v1/openapi.json", {}, {}, FALSE, "none")}

PortRoutes == {
  Route("GET", "/v1/ports", {"ListPorts", "ListHardware"}, {"PortList", "HardwarePorts"}, TRUE, "none"),
  Route("PUT", "/v1/ports/{port}", {"OpenPort"}, {"PortOpened", "PortReconfigured"}, FALSE, "json"),
  Route("DELETE", "/v1/ports/{port}", {"ClosePort"}, {"PortClosed"}, FALSE, "none"),
  Route("GET", "/v1/ports/{port}", {"GetStatus"}, {"Status"}, FALSE, "none"),
  Route("GET", "/v1/ports/{port}/stats", {"GetStats"}, {"Stats"}, FALSE, "none")}

LogRoutes == {
  Route("GET", "/v1/ports/{port}/lines", {"ReadLines"}, {"Lines"}, TRUE, "none"),
  Route("DELETE", "/v1/ports/{port}/lines", {"Clear"}, {"ClearSuccess"}, TRUE, "none"),
  Route("GET", "/v1/ports/{port}/search", {"Search"}, {"SearchResults"}, TRUE, "none"),
  Route("POST", "/v1/ports/{port}/export", {"Export"}, {"ExportSuccess"}, FALSE, "json")}

StreamRoutes == {
  Route("GET", "/v1/ports/{port}/lines/stream", {"ReadLines"}, {"Lines"}, TRUE, "none"),
  Route("GET", "/v1/jobs/{job}/stream", {}, {}, TRUE, "none")}

DeviceRoutes == {
  Route("POST", "/v1/ports/{port}/write", {"WriteData"}, {"WriteSuccess"}, FALSE, "json"),
  Route("POST", "/v1/ports/{port}/break", {"SendBreak"}, {"BreakSuccess"}, FALSE, "json"),
  Route("POST", "/v1/ports/{port}/signals", {"SetSignal"}, {"SignalSuccess"}, FALSE, "json"),
  Route("POST", "/v1/ports/{port}/macros/{name}", {"ExecuteMacro"}, {"MacroSuccess"}, FALSE, "none"),
  Route("POST", "/v1/ports/{port}/transfers", {"SendFile", "ReceiveFile"}, {"TransferSuccess"}, FALSE, "json")}

EspRoutes == {
  Route("GET", "/v1/ports/{port}/esp", {"EspInfo"}, {"EspSuccess"}, TRUE, "none"),
  Route("POST", "/v1/ports/{port}/esp/erase", {"EspErase"}, {"EspSuccess"}, FALSE, "optional"),
  Route("POST", "/v1/ports/{port}/esp/write-bin", {"EspWriteBin"}, {"EspSuccess"}, FALSE, "json"),
  Route("POST", "/v1/ports/{port}/esp/flash", {}, {}, FALSE, "json")}

Routes == OpenRoutes \cup PortRoutes \cup LogRoutes \cup StreamRoutes \cup DeviceRoutes \cup EspRoutes

\* What execute of the engine may answer a request with when it succeeds.
EngineAnswers(request) ==
  CASE request = "ListPorts" -> {"PortList"} [] request = "ListHardware" -> {"HardwarePorts"}
    [] request = "OpenPort" -> {"PortOpened", "PortReconfigured"}
    [] request = "ClosePort" -> {"PortClosed"} [] request = "GetStatus" -> {"Status"}
    [] request = "GetStats" -> {"Stats"} [] request = "ReadLines" -> {"Lines"}
    [] request = "Search" -> {"SearchResults"} [] request = "Clear" -> {"ClearSuccess"}
    [] request = "Export" -> {"ExportSuccess"} [] request = "WriteData" -> {"WriteSuccess"}
    [] request = "SendBreak" -> {"BreakSuccess"} [] request = "SetSignal" -> {"SignalSuccess"}
    [] request = "ExecuteMacro" -> {"MacroSuccess"}
    [] request \in {"SendFile", "ReceiveFile"} -> {"TransferSuccess"}
    [] OTHER -> {"EspSuccess"}

IsHealth(r) == r.path = "/v1/health"
IsStream(r) == r \in StreamRoutes
IsFlash(r) == r.path = "/v1/ports/{port}/esp/flash"

\* The description of a route: what its success looks like, and what it needs.
Success(r) == [status |-> IF IsFlash(r) THEN 202 ELSE 200,
               content |-> IF IsStream(r) THEN "text/event-stream" ELSE "application/json"]
Shapes(r) == [query |-> r.query, body |-> r.body # "none"]
Describe(r, configured) ==
  [success |-> Success(r), shapes |-> Shapes(r),
   secured |-> configured # None /\ ~IsHealth(r)]

-----------------------------------------------------------------------------
(* The guards.  A request names a host and shows a token and the type of   *)
(* its body, or None.                                                      *)

\* The name in the Host header, without its port: a local name, an address,
\* or the name of something else.
HostNames == LoopbackIps \cup NetworkIps \cup {"localhost", "other.example", WildcardIp}
Hosts == [name : HostNames, port : PortNumbers \cup {None}]

HostIsLocal(host, port) ==
  host.port = port /\ host.name \in LoopbackIps \cup {"localhost"}

HostMatches(host, ip, port) ==
  IF BindsLoopback(ip) THEN HostIsLocal(host, port)
  ELSE /\ host.port = port
       /\ \/ ip = WildcardIp /\ (HostIsLocal(host, port) \/ host.name \in NetworkIps)
          \/ ip # WildcardIp /\ host.name = ip

CarriesBody(r) == r.method \in {"POST", "PUT"}
FaultTokenChecked(r) == ~IsHealth(r) /\ ~IsStream(r)

\* The router keeps health outside the check of the token.
TokenChecked(r) == ~IsHealth(r)
\* A handler decodes the query and the body, asks the engine, which may fail, and
\* serves the answers it knows.  A stream of a job has to find the job.
Handled(r) == UNION {
  {IF IsFlash(r) THEN 202 ELSE 200},
  IF r.query \/ r.body # "none" THEN {422} ELSE {},
  IF r.request # {} /\ ~IsStream(r) THEN {400} ELSE {},
  IF IsStream(r) /\ r.request = {} THEN {404} ELSE {},
  IF UNION {EngineAnswers(a) : a \in r.request} \subseteq r.serves THEN {} ELSE {500}}

\* The layers from the outside in: body, host, token; then the handler.
Status(l, r, q) ==
  IF CarriesBody(r) /\ ~q.json THEN {415}
  ELSE IF ~HostMatches(q.host, listener[l].ip, listener[l].port) THEN {421}
  ELSE IF TokenChecked(r) /\ listener[l].token \notin {None, q.shows} THEN {401}
  ELSE Handled(r)

Named(l, host) == host.port = listener[l].port /\ host.name # "other.example"

\* A response keeps of its request what the properties ask about: whether the
\* host was the listener's, whether the token was, and the type of the body.
Answers(l, r) ==
  /\ listener[l].phase = "serving" /\ answered = NoRequest
  /\ \E host \in Hosts, shows \in Tokens \cup {None}, json \in BOOLEAN :
       \E status \in Status(l, r, [host |-> host, shows |-> shows, json |-> json]) :
         answered' = [route |-> r, by |-> l, named |-> Named(l, host), status |-> status,
                      authorised |-> shows # None /\ shows = listener[l].token]
  /\ UNCHANGED <<restState, token, running, listener, occupied, mislaid>>

ResponseRead ==
  /\ answered # NoRequest /\ answered' = NoRequest
  /\ UNCHANGED <<restState, token, running, listener, occupied, mislaid>>

RestNext ==
  \/ RestEnable \/ RestDisable \/ OthersListen \/ ResponseRead
  \/ \E l \in ListenerIds : ListenerEnds(l) \/ \E r \in Routes : Answers(l, r)

RestSpec == RestInit /\ [][RestNext]_restVars

-----------------------------------------------------------------------------
(* Properties. *)

RestTypeOK ==
  /\ restState \in [listening : BOOLEAN, bind : Binds, port : PortNumbers \cup {AnyPort},
                    reason : Reasons, tokenRequired : BOOLEAN]
  /\ token \in Tokens \cup {None} /\ running \in ListenerIds \cup {None}
  /\ mislaid \in BOOLEAN
  /\ \A l \in ListenerIds : listener[l].phase \in Phases

Serving == {l \in ListenerIds : listener[l].phase = "serving"}

\* RestServer.state: the reported state is that of the socket.  Listening means
\* that exactly one listener accepts, at the reported address and with the
\* reported need of a token; not listening means that none does.  The one
\* exception: a socket that the runtime would not take leaves the state saying
\* "listening" with nobody there, until the interface is switched again.
StateIsSocket ==
  /\ restState.listening <=> Serving # {} \/ mislaid
  /\ mislaid => Serving = {}
  /\ Cardinality(Serving) <= 1
  /\ \A l \in Serving :
       /\ running = l /\ token = listener[l].token
       /\ restState.bind = listener[l].ip /\ restState.port = listener[l].port
       /\ restState.tokenRequired <=> (token # None \/ ~BindsLoopback(listener[l].ip))

\* "A failed replacement does not stop the listener already answering requests":
\* a listener that accepts stops only in a step that leaves no reason of a failure
\* behind.  The code keeps this but for the socket that the runtime would not
\* take, which it offers to the runtime after it stopped the old listener.
FailureKeepsListener ==
  \A l \in Serving : listener'[l] = listener[l] \/ restState'.reason = None \/ mislaid'

\* RestServer.enable, as one: whatever is enabled, disabled, refused or replaced,
\* the reported state is that of the socket, and a failure stops nothing, but
\* where the runtime refuses a socket that was bound.
StateTrue == RestTypeOK /\ StateIsSocket
SwitchTrue == [][FailureKeepsListener /\ StateTrue']_restVars

\* require_token, require_local_host and enable together: nothing is carried out
\* for a caller without a token on a listener that the network can reach, nor
\* for one whose Host header names another place.
Reached == answered.status \in {200, 202, 400, 404, 422, 500}
NetworkNeedsToken ==
  Reached /\ ~IsHealth(answered.route) /\ ~BindsLoopback(listener[answered.by].ip)
    => answered.authorised
NamesListener == Reached => answered.named
\* The description against the routes: a request that meets it is let through
\* (but for a macro, whose route has no body to describe and asks for its type),
\* a success is announced, and no route gets an answer it does not serve.
Described ==
  answered.route # None =>
    LET d == Describe(answered.route, listener[answered.by].token) IN
    /\ answered.status \in {200, 202} => answered.status = d.success.status
    /\ answered.status = 401 => d.secured /\ ~answered.authorised
    /\ answered.status = 415 /\ ~d.shapes.body => answered.route.request = {"ExecuteMacro"}
    /\ answered.status # 500
GuardsHold == NetworkNeedsToken /\ NamesListener /\ Described
=============================================================================
