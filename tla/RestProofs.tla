------------------------------ MODULE RestProofs ------------------------------
(***************************************************************************)
(* Proofs about Rest, for any addresses, ports and tokens and any number   *)
(* of listeners, and about Streams, for any jobs, followers and lines.     *)
(***************************************************************************)
EXTENDS MC_Rest, FiniteSetTheorems, SequenceTheorems, WellFoundedInduction, TLAPS

-----------------------------------------------------------------------------
(* The routes. *)

\* What the engine answers, request by request.
LEMMA EngineTable ==
  /\ EngineAnswers("ListPorts") = {"PortList"} /\ EngineAnswers("ListHardware") = {"HardwarePorts"}
  /\ EngineAnswers("OpenPort") = {"PortOpened", "PortReconfigured"}
  /\ EngineAnswers("ClosePort") = {"PortClosed"} /\ EngineAnswers("GetStatus") = {"Status"}
  /\ EngineAnswers("GetStats") = {"Stats"} /\ EngineAnswers("ReadLines") = {"Lines"}
  /\ EngineAnswers("Search") = {"SearchResults"} /\ EngineAnswers("Clear") = {"ClearSuccess"}
  /\ EngineAnswers("Export") = {"ExportSuccess"} /\ EngineAnswers("WriteData") = {"WriteSuccess"}
  /\ EngineAnswers("SendBreak") = {"BreakSuccess"} /\ EngineAnswers("SetSignal") = {"SignalSuccess"}
  /\ EngineAnswers("ExecuteMacro") = {"MacroSuccess"}
  /\ EngineAnswers("SendFile") = {"TransferSuccess"}
  /\ EngineAnswers("ReceiveFile") = {"TransferSuccess"}
  /\ EngineAnswers("EspInfo") = {"EspSuccess"} /\ EngineAnswers("EspErase") = {"EspSuccess"}
  /\ EngineAnswers("EspWriteBin") = {"EspSuccess"}
  BY DEF EngineAnswers

Served(r) ==
  /\ \A a \in r.request : EngineAnswers(a) \subseteq r.serves
  /\ CarriesBody(r) /\ r.body = "none" => r.request = {"ExecuteMacro"}

LEMMA RoutesServed == \A r \in Routes : Served(r)
<1> USE EngineTable DEF Route, Served, CarriesBody
<1>1. ASSUME NEW r \in OpenRoutes PROVE Served(r)
  <2>1. CASE r = Route("GET", "/v1/health", {}, {}, FALSE, "none")
    BY <2>1
  <2>2. CASE r = Route("GET", "/v1/version", {}, {}, FALSE, "none")
    BY <2>2
  <2>3. CASE r = Route("GET", "/v1/openapi.json", {}, {}, FALSE, "none")
    BY <2>3
  <2>4. QED
    BY <1>1, <2>1, <2>2, <2>3 DEF OpenRoutes
<1>2. ASSUME NEW r \in PortRoutes PROVE Served(r)
  <2>1. CASE r = Route("GET", "/v1/ports", {"ListPorts", "ListHardware"}, {"PortList", "HardwarePorts"}, TRUE, "none")
    BY <2>1
  <2>2. CASE r = Route("PUT", "/v1/ports/{port}", {"OpenPort"}, {"PortOpened", "PortReconfigured"}, FALSE, "json")
    BY <2>2
  <2>3. CASE r = Route("DELETE", "/v1/ports/{port}", {"ClosePort"}, {"PortClosed"}, FALSE, "none")
    BY <2>3
  <2>4. CASE r = Route("GET", "/v1/ports/{port}", {"GetStatus"}, {"Status"}, FALSE, "none")
    BY <2>4
  <2>5. CASE r = Route("GET", "/v1/ports/{port}/stats", {"GetStats"}, {"Stats"}, FALSE, "none")
    BY <2>5
  <2>6. QED
    BY <1>2, <2>1, <2>2, <2>3, <2>4, <2>5 DEF PortRoutes
<1>3. ASSUME NEW r \in LogRoutes PROVE Served(r)
  <2>1. CASE r = Route("GET", "/v1/ports/{port}/lines", {"ReadLines"}, {"Lines"}, TRUE, "none")
    BY <2>1
  <2>2. CASE r = Route("DELETE", "/v1/ports/{port}/lines", {"Clear"}, {"ClearSuccess"}, TRUE, "none")
    BY <2>2
  <2>3. CASE r = Route("GET", "/v1/ports/{port}/search", {"Search"}, {"SearchResults"}, TRUE, "none")
    BY <2>3
  <2>4. CASE r = Route("POST", "/v1/ports/{port}/export", {"Export"}, {"ExportSuccess"}, FALSE, "json")
    BY <2>4
  <2>5. QED
    BY <1>3, <2>1, <2>2, <2>3, <2>4 DEF LogRoutes
<1>4. ASSUME NEW r \in StreamRoutes PROVE Served(r)
  <2>1. CASE r = Route("GET", "/v1/ports/{port}/lines/stream", {"ReadLines"}, {"Lines"}, TRUE, "none")
    BY <2>1
  <2>2. CASE r = Route("GET", "/v1/jobs/{job}/stream", {}, {}, TRUE, "none")
    BY <2>2
  <2>3. QED
    BY <1>4, <2>1, <2>2 DEF StreamRoutes
<1>5. ASSUME NEW r \in DeviceRoutes PROVE Served(r)
  <2>1. CASE r = Route("POST", "/v1/ports/{port}/write", {"WriteData"}, {"WriteSuccess"}, FALSE, "json")
    BY <2>1
  <2>2. CASE r = Route("POST", "/v1/ports/{port}/break", {"SendBreak"}, {"BreakSuccess"}, FALSE, "json")
    BY <2>2
  <2>3. CASE r = Route("POST", "/v1/ports/{port}/signals", {"SetSignal"}, {"SignalSuccess"}, FALSE, "json")
    BY <2>3
  <2>4. CASE r = Route("POST", "/v1/ports/{port}/macros/{name}", {"ExecuteMacro"}, {"MacroSuccess"}, FALSE, "none")
    BY <2>4
  <2>5. CASE r = Route("POST", "/v1/ports/{port}/transfers", {"SendFile", "ReceiveFile"}, {"TransferSuccess"}, FALSE, "json")
    BY <2>5
  <2>6. QED
    BY <1>5, <2>1, <2>2, <2>3, <2>4, <2>5 DEF DeviceRoutes
<1>6. ASSUME NEW r \in EspRoutes PROVE Served(r)
  <2>1. CASE r = Route("GET", "/v1/ports/{port}/esp", {"EspInfo"}, {"EspSuccess"}, TRUE, "none")
    BY <2>1
  <2>2. CASE r = Route("POST", "/v1/ports/{port}/esp/erase", {"EspErase"}, {"EspSuccess"}, FALSE, "optional")
    BY <2>2
  <2>3. CASE r = Route("POST", "/v1/ports/{port}/esp/write-bin", {"EspWriteBin"}, {"EspSuccess"}, FALSE, "json")
    BY <2>3
  <2>4. CASE r = Route("POST", "/v1/ports/{port}/esp/flash", {}, {}, FALSE, "json")
    BY <2>4
  <2>5. QED
    BY <1>6, <2>1, <2>2, <2>3, <2>4 DEF EspRoutes
<1>7. QED
  BY <1>1, <1>2, <1>3, <1>4, <1>5, <1>6 DEF Routes

-----------------------------------------------------------------------------
(* The switch. *)

Listener == [ip : Ips \cup {None}, port : PortNumbers \cup {None},
             token : Tokens \cup {None}, phase : Phases]
RestStates == [listening : BOOLEAN, bind : Binds, port : PortNumbers \cup {AnyPort},
               reason : Reasons, tokenRequired : BOOLEAN]

SwitchTypes ==
  /\ restState \in RestStates
  /\ token \in Tokens \cup {None} /\ running \in ListenerIds \cup {None}
  /\ listener \in [ListenerIds -> Listener] /\ mislaid \in BOOLEAN

\* Who accepts is the listener the daemon runs, and nobody else.
OnlyRunning == \A l \in ListenerIds : listener[l].phase = "serving" <=> running = l

\* The reported state is that listener's, or that of one that was lost.
Reported ==
  /\ restState.listening <=> running # None \/ mislaid
  /\ mislaid => running = None
  /\ running # None =>
       /\ token = listener[running].token
       /\ restState.bind = listener[running].ip /\ restState.port = listener[running].port
       /\ restState.tokenRequired <=> (token # None \/ ~BindsLoopback(listener[running].ip))

\* Whoever was ever started has an address, and a token if others can reach that.
Guarded ==
  \A l \in ListenerIds : listener[l].phase # "unborn" =>
    /\ listener[l].ip \in Ips
    /\ listener[l].token # None \/ BindsLoopback(listener[l].ip)

\* A response is what the layers make of some request.
Answered ==
  \/ answered = NoRequest
  \/ \E l \in ListenerIds, r \in Routes, host \in Hosts, shows \in Tokens \cup {None},
        json \in BOOLEAN, status \in Statuses :
       /\ answered = [route |-> r, by |-> l, named |-> Named(l, host), status |-> status,
                      authorised |-> shows # None /\ shows = listener[l].token]
       /\ status \in Status(l, r, [host |-> host, shows |-> shows, json |-> json])
       /\ listener[l].phase = "serving"

SwitchInv == SwitchTypes /\ OnlyRunning /\ Reported /\ Guarded /\ Answered

\* What a step makes of the state and the listeners, while nothing is answered.
SwitchParts == SwitchTypes /\ OnlyRunning /\ Reported /\ Guarded

LEMMA StoppedTypes ==
  ASSUME SwitchParts
  PROVE  /\ Stopped \in [ListenerIds -> Listener]
         /\ \A l \in ListenerIds :
              /\ Stopped[l].ip = listener[l].ip /\ Stopped[l].token = listener[l].token
              /\ Stopped[l].port = listener[l].port
              /\ Stopped[l].phase = IF l = running THEN "aborted" ELSE listener[l].phase
<1>1. CASE running = None
  BY <1>1, RestAssumption DEF Stopped, SwitchParts, SwitchTypes, RestAssumption
<1>2. CASE running \in ListenerIds
  <2>1. listener[running] \in Listener /\ running # None
    BY <1>2, RestAssumption DEF SwitchParts, SwitchTypes, RestAssumption
  <2>2. [listener[running] EXCEPT !.phase = "aborted"] \in Listener
    BY <2>1 DEF Listener, Phases
  <2>3. Stopped = [listener EXCEPT ![running] = [listener[running] EXCEPT !.phase = "aborted"]]
    BY <2>1 DEF Stopped
  <2>4. Stopped \in [ListenerIds -> Listener]
    BY <2>2, <2>3 DEF SwitchParts, SwitchTypes
  <2>5. ASSUME NEW l \in ListenerIds
        PROVE  /\ Stopped[l].ip = listener[l].ip /\ Stopped[l].token = listener[l].token
               /\ Stopped[l].port = listener[l].port
               /\ Stopped[l].phase = IF l = running THEN "aborted" ELSE listener[l].phase
    <3>1. CASE l = running
      <4>1. Stopped[l] = [listener[l] EXCEPT !.phase = "aborted"]
        BY <2>3, <3>1 DEF SwitchParts, SwitchTypes
      <4>2. QED
        BY <2>1, <3>1, <4>1 DEF Listener
    <3>2. CASE l # running
      BY <2>3, <3>2 DEF SwitchParts, SwitchTypes
    <3>3. QED
      BY <3>1, <3>2
  <2>6. QED
    BY <2>4, <2>5
<1>3. QED
  BY <1>1, <1>2 DEF SwitchParts, SwitchTypes

\* Nobody is left that accepts when the listener that runs is stopped.
LEMMA SwitchedOff ==
  ASSUME SwitchParts, listener' = Stopped, running' = None, token' \in Tokens \cup {None},
         restState' \in RestStates, ~restState'.listening, mislaid' = FALSE
  PROVE  SwitchParts'
  BY StoppedTypes, RestAssumption
  DEF SwitchParts, SwitchTypes, OnlyRunning, Reported, Guarded, RestAssumption

RequestedConfigs == [bind : Binds, port : PortNumbers \cup {AnyPort}, token : Tokens \cup {None}]

LEMMA BindKeeps ==
  ASSUME SwitchParts, NEW config \in RequestedConfigs, ~Refused(config), EnableBinds(config)
  PROVE  SwitchParts' /\ restState'.reason = None
<1>1. /\ config.bind \in Ips /\ config.token \in Tokens \cup {None}
      /\ config.token # None \/ BindsLoopback(config.bind)
  BY DEF RequestedConfigs, Refused, Binds
<1>2. PICK l \in ListenerIds, port \in PortNumbers :
        /\ listener[l].phase = "unborn"
        /\ listener' = [Stopped EXCEPT ![l] =
             [ip |-> config.bind, port |-> port, token |-> config.token, phase |-> "serving"]]
        /\ token' = config.token /\ running' = l
        /\ restState' = StateFor(config, port, TRUE, None) /\ mislaid' = FALSE
  BY DEF EnableBinds
<1> DEFINE new == [ip |-> config.bind, port |-> port, token |-> config.token, phase |-> "serving"]
<1>3. new \in Listener
  BY <1>1 DEF Listener, Phases
<1>4. /\ listener' \in [ListenerIds -> Listener] /\ listener'[l] = new
      /\ \A k \in ListenerIds : k # l => listener'[k] = Stopped[k]
  BY <1>2, <1>3, StoppedTypes
<1>5. restState' \in RestStates
  BY <1>1, <1>2 DEF StateFor, RestStates, Reasons, TokenRequired, Binds
<1>6. SwitchTypes'
  BY <1>1, <1>2, <1>4, <1>5 DEF SwitchTypes
<1>7. OnlyRunning'
  BY <1>2, <1>4, StoppedTypes DEF OnlyRunning, SwitchParts
<1>8. Reported'
  BY <1>2, <1>4, RestAssumption DEF Reported, StateFor, TokenRequired, RestAssumption
<1>9. Guarded'
  <2>1. ASSUME NEW k \in ListenerIds, k # l, listener'[k].phase # "unborn"
        PROVE  /\ listener'[k].ip \in Ips
               /\ listener'[k].token # None \/ BindsLoopback(listener'[k].ip)
    <3>1. listener[k].phase # "unborn"
      BY <1>4, <2>1, StoppedTypes DEF SwitchParts, OnlyRunning
    <3>2. QED
      BY <1>4, <2>1, <3>1, StoppedTypes DEF Guarded, SwitchParts
  <2>2. listener'[l].ip \in Ips /\ (listener'[l].token # None \/ BindsLoopback(listener'[l].ip))
    BY <1>1, <1>4
  <2>3. QED
    BY <2>1, <2>2 DEF Guarded, BindsLoopback
<1>10. restState'.reason = None
  BY <1>2 DEF StateFor
<1>11. QED
  BY <1>6, <1>7, <1>8, <1>9, <1>10 DEF SwitchParts

LEMMA EnableFailsKeeps ==
  ASSUME SwitchParts, NEW config \in RequestedConfigs, NEW reason \in Reasons,
         EnableFails(config, reason)
  PROVE  SwitchParts' /\ (running # None => UNCHANGED listener)
<1>1. CASE ListenerRuns
  <2>1. /\ restState' = [restState EXCEPT !.reason = reason]
        /\ UNCHANGED <<running, listener, token, mislaid>>
    BY <1>1 DEF EnableFails
  <2>2. /\ restState' \in RestStates
        /\ restState'.listening = restState.listening /\ restState'.bind = restState.bind
        /\ restState'.port = restState.port /\ restState'.tokenRequired = restState.tokenRequired
    BY <2>1 DEF SwitchParts, SwitchTypes, RestStates
  <2>3. QED
    BY <2>1, <2>2 DEF SwitchParts, SwitchTypes, OnlyRunning, Reported, Guarded
<1>2. CASE ~ListenerRuns
  <2>1. restState' = StateFor(config, config.port, FALSE, reason)
        /\ running' = None /\ listener' = Stopped /\ UNCHANGED token /\ mislaid' = FALSE
    BY <1>2 DEF EnableFails
  <2>2. restState' \in RestStates /\ ~restState'.listening
    BY <2>1 DEF StateFor, RestStates, RequestedConfigs, TokenRequired
  <2>3. running = None
    BY <1>2 DEF ListenerRuns, SwitchParts, SwitchTypes, OnlyRunning
  <2>4. QED
    BY <2>1, <2>2, <2>3, SwitchedOff DEF SwitchParts, SwitchTypes
<1>3. QED
  BY <1>1, <1>2

\* The socket that the runtime would not take leaves nobody that accepts.
LEMMA EnableBreaksKeeps ==
  ASSUME SwitchParts, NEW config \in RequestedConfigs, EnableBreaks(config)
  PROVE  SwitchParts' /\ FailureKeepsListener
<1>1. /\ listener' = Stopped /\ running' = None /\ mislaid' = restState.listening
      /\ UNCHANGED <<restState, token>>
  BY DEF EnableBreaks
<1>2. restState \in RestStates /\ restState.listening \in BOOLEAN
  BY DEF SwitchParts, SwitchTypes, RestStates
<1>3. SwitchTypes'
  BY <1>1, <1>2, StoppedTypes DEF SwitchParts, SwitchTypes
<1>4. OnlyRunning' /\ Reported' /\ Guarded'
  BY <1>1, <1>2, StoppedTypes, RestAssumption
  DEF SwitchParts, OnlyRunning, Reported, Guarded, RestAssumption
<1>5. FailureKeepsListener
  <2>1. \A l \in Serving : running = l
    BY DEF Serving, SwitchParts, OnlyRunning
  <2>2. Serving # {} => running # None
    BY <2>1, RestAssumption DEF Serving, RestAssumption
  <2>3. QED
    BY <1>1, <2>2 DEF FailureKeepsListener, SwitchParts, Reported
<1>6. QED
  BY <1>3, <1>4, <1>5 DEF SwitchParts

LEMMA EnableKeeps ==
  ASSUME SwitchParts, RestEnable
  PROVE  SwitchParts' /\ FailureKeepsListener
<1>1. PICK config \in RequestedConfigs : Enable(config)
  <2>1. PICK bind \in Binds, port \in PortNumbers \cup {AnyPort}, t \in Tokens \cup {None} :
          Enable([bind |-> bind, port |-> port, token |-> IF t = None THEN ConfigToken ELSE t])
    BY DEF RestEnable
  <2>2. [bind |-> bind, port |-> port, token |-> IF t = None THEN ConfigToken ELSE t]
          \in RequestedConfigs
    BY RestAssumption DEF RequestedConfigs, RestAssumption
  <2>3. QED
    BY <2>1, <2>2
<1>2. Serving = {l \in ListenerIds : running = l}
  BY DEF Serving, SwitchParts, OnlyRunning
<1>3. CASE Refused(config)
  BY <1>1, <1>3 DEF Enable, SwitchParts, SwitchTypes, OnlyRunning, Reported, Guarded,
                    FailureKeepsListener, Serving
<1>4. CASE ~Refused(config) /\ SameListener(config)
  <2>1. /\ restState' = [restState EXCEPT !.reason = None]
        /\ UNCHANGED <<token, running, listener, mislaid>>
    BY <1>1, <1>4 DEF Enable
  <2>2. /\ restState' \in RestStates
        /\ restState'.listening = restState.listening /\ restState'.bind = restState.bind
        /\ restState'.port = restState.port /\ restState'.tokenRequired = restState.tokenRequired
    BY <2>1 DEF SwitchParts, SwitchTypes, RestStates, Reasons
  <2>3. QED
    BY <2>1, <2>2 DEF SwitchParts, SwitchTypes, OnlyRunning, Reported, Guarded,
                      FailureKeepsListener, Serving
<1>5. CASE ~Refused(config) /\ ~SameListener(config)
  <2>1. \/ EnableBinds(config) \/ EnableBreaks(config)
        \/ \E reason \in Reasons : EnableFails(config, reason)
    BY <1>1, <1>5 DEF Enable
  <2>2. CASE EnableBinds(config)
    BY <1>5, <2>2, BindKeeps DEF FailureKeepsListener
  <2>3. CASE \E reason \in Reasons : EnableFails(config, reason)
    BY <1>2, <2>3, EnableFailsKeeps, RestAssumption DEF FailureKeepsListener, RestAssumption
  <2>4. CASE EnableBreaks(config)
    BY <2>4, EnableBreaksKeeps
  <2>5. QED
    BY <2>1, <2>2, <2>3, <2>4
<1>6. QED
  BY <1>3, <1>4, <1>5

LEMMA DisableKeeps ==
  ASSUME SwitchParts, RestDisable
  PROVE  SwitchParts' /\ FailureKeepsListener
<1>1. /\ listener' = Stopped /\ running' = None /\ UNCHANGED token /\ mislaid' = FALSE
      /\ restState' = [restState EXCEPT !.listening = FALSE, !.reason = None]
  BY DEF RestDisable
<1>2. restState' \in RestStates /\ ~restState'.listening /\ restState'.reason = None
  BY <1>1 DEF SwitchParts, SwitchTypes, RestStates, Reasons
<1>3. QED
  BY <1>1, <1>2, SwitchedOff DEF SwitchParts, SwitchTypes, FailureKeepsListener

LEMMA ListenerEndsKeeps ==
  ASSUME SwitchParts, NEW l \in ListenerIds, ListenerEnds(l)
  PROVE  SwitchParts' /\ FailureKeepsListener
<1>1. /\ listener[l].phase = "aborted" /\ listener[l] \in Listener
      /\ listener' = [listener EXCEPT ![l] = [listener[l] EXCEPT !.phase = "gone"]]
      /\ UNCHANGED <<restState, token, running, mislaid>>
  BY DEF ListenerEnds, SwitchParts, SwitchTypes
<1> DEFINE new == [listener[l] EXCEPT !.phase = "gone"]
<1>2. /\ new \in Listener /\ new.ip = listener[l].ip /\ new.token = listener[l].token
      /\ new.port = listener[l].port /\ new.phase = "gone"
  BY <1>1 DEF Listener, Phases
<1>3. /\ listener' \in [ListenerIds -> Listener] /\ listener'[l] = new
      /\ \A k \in ListenerIds : k # l => listener'[k] = listener[k]
  BY <1>1, <1>2 DEF SwitchParts, SwitchTypes
<1>4. SwitchTypes'
  BY <1>1, <1>3 DEF SwitchParts, SwitchTypes
<1>5. running # l
  BY <1>1 DEF SwitchParts, OnlyRunning
<1>6. OnlyRunning'
  BY <1>1, <1>2, <1>3, <1>5 DEF SwitchParts, OnlyRunning
<1>7. Reported'
  BY <1>1, <1>2, <1>3, <1>5 DEF SwitchParts, SwitchTypes, Reported, BindsLoopback
<1>8. Guarded'
  BY <1>1, <1>2, <1>3 DEF SwitchParts, Guarded, BindsLoopback
<1>9. FailureKeepsListener
  BY <1>1, <1>3 DEF FailureKeepsListener, Serving
<1>10. QED
  BY <1>4, <1>6, <1>7, <1>8, <1>9 DEF SwitchParts

\* Neither another program nor a request moves the switch.
LEMMA SwitchStays ==
  ASSUME SwitchParts, UNCHANGED <<restState, token, running, listener, mislaid>>
  PROVE  SwitchParts' /\ FailureKeepsListener
  BY DEF SwitchParts, SwitchTypes, OnlyRunning, Reported, Guarded, FailureKeepsListener,
         Serving, BindsLoopback

-----------------------------------------------------------------------------
(* The guards. *)

LEMMA HandledRange ==
  ASSUME NEW r \in Routes
  PROVE  /\ Handled(r) \subseteq {Success(r).status, 422, 400, 404}
         /\ Success(r).status \in {200, 202}
<1>1. UNION {EngineAnswers(a) : a \in r.request} \subseteq r.serves
  BY RoutesServed DEF Served
<1>2. Success(r).status = IF IsFlash(r) THEN 202 ELSE 200
  BY DEF Success
<1>3. QED
  BY <1>1, <1>2 DEF Handled

LEMMA StatusRange ==
  ASSUME NEW l, NEW r \in Routes, NEW q, NEW status \in Status(l, r, q)
  PROVE  /\ status \in Statuses \ {500}
         /\ status \in {200, 202} => status = Success(r).status
         /\ status = 415 => CarriesBody(r)
         /\ status = 401 => ~IsHealth(r) /\ listener[l].token \notin {None, q.shows}
         /\ status \notin {401, 415, 421} =>
              /\ HostMatches(q.host, listener[l].ip, listener[l].port)
              /\ IsHealth(r) \/ listener[l].token \in {None, q.shows}
<1>1. CASE CarriesBody(r) /\ ~q.json
  BY <1>1 DEF Status, Statuses
<1>2. CASE /\ ~(CarriesBody(r) /\ ~q.json)
           /\ ~HostMatches(q.host, listener[l].ip, listener[l].port)
  BY <1>2 DEF Status, Statuses
<1>3. CASE /\ ~(CarriesBody(r) /\ ~q.json)
           /\ HostMatches(q.host, listener[l].ip, listener[l].port)
           /\ TokenChecked(r) /\ listener[l].token \notin {None, q.shows}
  BY <1>3 DEF Status, Statuses, TokenChecked
<1>4. CASE /\ ~(CarriesBody(r) /\ ~q.json)
           /\ HostMatches(q.host, listener[l].ip, listener[l].port)
           /\ ~(TokenChecked(r) /\ listener[l].token \notin {None, q.shows})
  <2>1. status \in Handled(r)
    BY <1>4 DEF Status
  <2>2. status \in {Success(r).status, 422, 400, 404} /\ Success(r).status \in {200, 202}
    BY <2>1, HandledRange
  <2>3. QED
    BY <1>4, <2>2 DEF Statuses, TokenChecked
<1>5. QED
  BY <1>1, <1>2, <1>3, <1>4

\* A host that matches a listener is one of its own.
LEMMA HostOwn ==
  ASSUME NEW host, NEW l \in ListenerIds, listener[l].ip \in Ips,
         HostMatches(host, listener[l].ip, listener[l].port)
  PROVE  Named(l, host)
  BY RestAssumption DEF RestAssumption, HostMatches, HostIsLocal, Named, Ips

LEMMA AnswersKeeps ==
  ASSUME SwitchInv, NEW l \in ListenerIds, NEW r \in Routes, Answers(l, r)
  PROVE  Answered'
<1>1. PICK host \in Hosts, shows \in Tokens \cup {None}, json \in BOOLEAN :
        \E status \in Status(l, r, [host |-> host, shows |-> shows, json |-> json]) :
          answered' = [route |-> r, by |-> l, named |-> Named(l, host), status |-> status,
                       authorised |-> shows # None /\ shows = listener[l].token]
  BY DEF Answers
<1>2. PICK status \in Status(l, r, [host |-> host, shows |-> shows, json |-> json]) :
        answered' = [route |-> r, by |-> l, named |-> Named(l, host), status |-> status,
                     authorised |-> shows # None /\ shows = listener[l].token]
  BY <1>1
<1>3. status \in Statuses
  BY <1>2, StatusRange
<1>4. listener' = listener /\ listener[l].phase = "serving"
  BY DEF Answers
<1>5. /\ Named(l, host)' = Named(l, host)
      /\ Status(l, r, [host |-> host, shows |-> shows, json |-> json])'
           = Status(l, r, [host |-> host, shows |-> shows, json |-> json])
  BY <1>4 DEF Named, Status
<1>6. /\ answered' = [route |-> r, by |-> l, named |-> Named(l, host)', status |-> status,
                      authorised |-> shows # None /\ shows = listener'[l].token]
      /\ status \in Status(l, r, [host |-> host, shows |-> shows, json |-> json])'
      /\ listener'[l].phase = "serving"
  BY <1>2, <1>4, <1>5
<1>7. QED
  BY <1>3, <1>6, Zenon DEF Answered

LEMMA GuardsRight == SwitchInv => GuardsHold
<1> SUFFICES ASSUME SwitchInv PROVE GuardsHold
  OBVIOUS
<1>1. CASE answered = NoRequest
  <2>1. ~Reached
    BY <1>1, RestAssumption DEF NoRequest, Reached, RestAssumption, Statuses
  <2>2. answered.route = None
    BY <1>1 DEF NoRequest
  <2>3. QED
    BY <2>1, <2>2 DEF GuardsHold, NetworkNeedsToken, NamesListener, Described
<1>2. CASE answered # NoRequest
  <2>1. PICK l \in ListenerIds, r \in Routes, host \in Hosts, shows \in Tokens \cup {None},
             json \in BOOLEAN, status \in Statuses :
       /\ answered = [route |-> r, by |-> l, named |-> Named(l, host), status |-> status,
                      authorised |-> shows # None /\ shows = listener[l].token]
       /\ status \in Status(l, r, [host |-> host, shows |-> shows, json |-> json])
       /\ listener[l].phase = "serving"
    BY <1>2 DEF SwitchInv, Answered
  <2> DEFINE q == [host |-> host, shows |-> shows, json |-> json]
  <2>2. /\ answered.route = r /\ answered.by = l /\ answered.status = status
        /\ answered.named = Named(l, host)
        /\ answered.authorised = (shows # None /\ shows = listener[l].token)
    BY <2>1
  <2>3. /\ listener[l].ip \in Ips
        /\ listener[l].token # None \/ BindsLoopback(listener[l].ip)
    BY <2>1 DEF SwitchInv, Guarded
  <2>4. /\ status \in Statuses \ {500}
        /\ status \in {200, 202} => status = Success(r).status
        /\ status = 415 => CarriesBody(r)
        /\ status = 401 => ~IsHealth(r) /\ listener[l].token \notin {None, shows}
        /\ status \notin {401, 415, 421} =>
              /\ HostMatches(host, listener[l].ip, listener[l].port)
              /\ IsHealth(r) \/ listener[l].token \in {None, shows}
    <3>1. q.host = host /\ q.shows = shows
      OBVIOUS
    <3>2. status \in Status(l, r, q)
      BY <2>1
    <3> HIDE DEF q
    <3>3. QED
      BY <3>1, <3>2, StatusRange
  <2>5. Reached => status \notin {401, 415, 421}
    BY <2>2 DEF Reached
  <2>6. NetworkNeedsToken
    BY <2>2, <2>3, <2>4, <2>5 DEF NetworkNeedsToken
  <2>7. NamesListener
    BY <2>2, <2>3, <2>4, <2>5, HostOwn DEF NamesListener
  <2>8. Described
    <3>1. /\ status = 415 /\ r.body = "none" => r.request = {"ExecuteMacro"}
      BY <2>4, RoutesServed DEF Served
    <3>2. QED
      BY <2>2, <2>4, <3>1 DEF Described, Describe, Shapes
  <2>9. QED
    BY <2>6, <2>7, <2>8 DEF GuardsHold
<1>3. QED
  BY <1>1, <1>2

-----------------------------------------------------------------------------
(* The theorems about the switch. *)

LEMMA SwitchInit == RestInit => SwitchInv
<1> SUFFICES ASSUME RestInit PROVE SwitchInv
  OBVIOUS
<1>1. NotBorn \in Listener
  BY DEF NotBorn, Listener, Phases
<1>0. mislaid \in BOOLEAN
  BY DEF RestInit
<1>2. SwitchTypes
  BY <1>0, <1>1, RestAssumption
  DEF RestInit, SwitchTypes, RestStates, RestAssumption, Reasons, Binds, Ips
<1>3. OnlyRunning /\ Reported /\ Guarded
  BY RestAssumption DEF RestInit, OnlyRunning, Reported, Guarded, NotBorn, RestAssumption
<1>4. QED
  BY <1>2, <1>3 DEF SwitchInv, Answered, RestInit

LEMMA SwitchStep == SwitchInv /\ [RestNext]_restVars => SwitchInv' /\ FailureKeepsListener
<1> SUFFICES ASSUME SwitchInv, [RestNext]_restVars PROVE SwitchInv' /\ FailureKeepsListener
  OBVIOUS
<1>1. SwitchParts /\ (SwitchParts' /\ Answered' => SwitchInv')
  BY DEF SwitchInv, SwitchParts
<1>2. answered' = NoRequest => Answered'
  BY DEF Answered
<1>3. CASE RestEnable
  BY <1>1, <1>2, <1>3, EnableKeeps DEF RestEnable, Enable
<1>4. CASE RestDisable
  BY <1>1, <1>2, <1>4, DisableKeeps DEF RestDisable
<1>5. CASE OthersListen \/ ResponseRead
  BY <1>1, <1>2, <1>5, SwitchStays DEF OthersListen, ResponseRead
<1>6. CASE \E l \in ListenerIds : ListenerEnds(l)
  BY <1>1, <1>2, <1>6, ListenerEndsKeeps DEF ListenerEnds
<1>7. CASE \E l \in ListenerIds, r \in Routes : Answers(l, r)
  BY <1>1, <1>7, AnswersKeeps, SwitchStays DEF Answers
<1>8. CASE UNCHANGED restVars
  <2>1. Answered'
    BY <1>8 DEF restVars, SwitchInv, Answered, Named, Status
  <2>2. QED
    BY <1>1, <1>8, <2>1, SwitchStays DEF restVars
<1>9. QED
  BY <1>3, <1>4, <1>5, <1>6, <1>7, <1>8 DEF RestNext

LEMMA SwitchRight == SwitchInv => StateTrue
<1> SUFFICES ASSUME SwitchInv PROVE StateTrue
  OBVIOUS
<1>1. RestTypeOK
  BY DEF SwitchInv, SwitchTypes, RestTypeOK, RestStates, Listener
<1>2. Serving = IF running = None THEN {} ELSE {running}
  BY RestAssumption DEF Serving, SwitchInv, OnlyRunning, SwitchTypes, RestAssumption
<1>3. Cardinality(Serving) <= 1
  BY <1>2, FS_EmptySet, FS_Singleton
<1>4. StateIsSocket
  BY <1>2, <1>3 DEF StateIsSocket, SwitchInv, Reported
<1>5. QED
  BY <1>1, <1>4 DEF StateTrue

\* Whatever is enabled, disabled, refused, replaced or left to end: what the
\* daemon reports is the state of its socket, one listener accepts at most, and
\* a replacement that fails stops none (RestServer.enable and disable), with one
\* exception: a bound socket that the runtime would not take.
THEOREM SwitchIsTrue == RestSpec => SwitchTrue
<1>1. SwitchInv /\ [RestNext]_restVars => SwitchInv' /\ [FailureKeepsListener]_restVars
  BY SwitchStep
<1>2. RestSpec => []StateTrue /\ [][FailureKeepsListener]_restVars
  BY <1>1, SwitchInit, SwitchRight, PTL DEF RestSpec
<1>3. []StateTrue /\ [][FailureKeepsListener]_restVars
        => [][FailureKeepsListener /\ StateTrue']_restVars
  BY PTL
<1>4. QED
  BY <1>2, <1>3 DEF SwitchTrue

\* A listener the network can reach carries nothing out for a caller without its
\* token, and none does for a caller whose Host header names another place; each
\* route answers as it is described (require_token, require_local_host, enable).
THEOREM GuardsAlwaysHold == RestSpec => []GuardsHold
<1>1. SwitchInv /\ [RestNext]_restVars => SwitchInv'
  BY SwitchStep
<1>2. QED
  BY <1>1, SwitchInit, GuardsRight, PTL DEF RestSpec

-----------------------------------------------------------------------------

LEMMA NatMin ==
  ASSUME NEW T \in SUBSET Nat, T # {}
  PROVE  \E m \in T : \A n \in T : m <= n
<1>1. PICK m \in T : \A n \in T : <<n, m>> \notin OpToRel(<, Nat)
  BY NatLessThanWellFounded, WFMin
<1>2. ASSUME NEW n \in T PROVE m <= n
  <2>1. <<n, m>> \notin OpToRel(<, Nat)
    BY <1>1
  <2>2. n \in Nat /\ m \in Nat
    OBVIOUS
  <2>3. ~(n < m)
    BY <2>1, <2>2 DEF OpToRel
  <2>4. QED
    BY <2>2, <2>3
<1>3. QED
  BY <1>2
-----------------------------------------------------------------------------
(* The streams. *)

Outcomes == {"ok", "failed"}
JobStates ==
  [tool : {"none", "runs", "over"} \cup Outcomes, printed : Nat, log : Nat,
   pump : {"idle", "wrote", "ended"}, outcome : {"none"} \cup Outcomes, revision : Nat]

\* The pump ends behind the last line of a tool that has ended, and the outcome
\* is known behind the pump.
JobSound(b) ==
  /\ b \in JobStates
  /\ b.log <= b.printed
  /\ b.pump = "ended" => b.log = b.printed /\ b.tool \in {"over"} \cup Outcomes
  /\ b.outcome # "none" => b.pump = "ended"
  /\ b.tool = "over" => b.outcome # "none"

\* What a job becomes: its log grows, and is complete from the outcome on.
Later(b, c) ==
  /\ b.log <= c.log
  /\ b.outcome # "none" => c.outcome = b.outcome /\ c.log = b.log /\ c.printed = b.printed

FollowerStates ==
  [of : Jobs \cup {Nobody, ThePort}, at : {"away", "read", "yield"}, got : Nat,
   events : Nat, sent : Nat, page : Seq(Nat), saw : Nat,
   outcome : {"none"} \cup Outcomes, told : {"none", "no such job"} \cup Outcomes]

Idle(g) ==
  g.at = "away" /\ g.got = 0 /\ g.events = 0 /\ g.told = "none" /\ g.outcome = "none"

\* The stream of a job: the page continues where the client is, never beyond the
\* log, and up to its end when the outcome was read with it.
OfJob(g, b) ==
  /\ g.events = g.got /\ g.got + Len(g.page) <= b.log
  /\ g.told # "none" => g.at = "away"
  /\ \A i \in 1..Len(g.page) : g.page[i] = g.got + i
  /\ g.at = "yield" /\ g.outcome # "none" => b.outcome = g.outcome /\ g.got + Len(g.page) = b.log
  /\ g.told \in Outcomes => b.outcome # "none" /\ g.at = "away" /\ g.got = b.printed

\* The stream of the capture: a page is a run of rows behind the last one sent,
\* which begins there or at the first row that there is, and it has no outcome.
OfPort(g, first, last) ==
  /\ \A i \in 1..Len(g.page) : g.page[i] = g.page[1] + i - 1
  /\ g.page # <<>> =>
       /\ g.page[1] = g.got + 1 \/ (g.page[1] > g.got /\ g.page[1] <= first)
       /\ g.page[1] + Len(g.page) - 1 <= last
  /\ g.told = "none" /\ g.outcome = "none"

FollowerSound(f) ==
  /\ follower[f] \in FollowerStates
  /\ follower[f].at # "yield" => follower[f].page = <<>>
  /\ follower[f].at # "away" => follower[f].sent = follower[f].got
  /\ follower[f].of = Nobody => Idle(follower[f])
  /\ \A j \in Jobs : follower[f].of = j => OfJob(follower[f], job[j])
  /\ follower[f].of = ThePort => OfPort(follower[f], rows.first, rows.last)

JobsSound == job \in [Jobs -> JobStates] /\ \A j \in Jobs : JobSound(job[j])
RowsTyped == rows \in [first : Nat, last : Nat, open : BOOLEAN]
Following == DOMAIN follower = Followers /\ \A f \in Followers : FollowerSound(f)
Registered == registry \in Seq(Jobs) /\ replaced \in Nat /\ RunningFound

StreamInv == JobsSound /\ RowsTyped /\ Following /\ Registered

\* What Remember drops is a front of finished jobs, and it leaves one at least.
LEMMA RememberDrops ==
  ASSUME NEW known \in Seq(Jobs), NEW j \in Jobs
  PROVE  LET all == Append(known, j) IN
         \E drop \in 0..Len(all) :
           /\ \A i \in 1..drop : ~Unfinished(all[i])
           /\ Remember(known, j) = SubSeq(all, drop + 1, Len(all))
<1> DEFINE all == Append(known, j)
           May(n) == n = 0 \/ (n <= Len(all) - JobsKept /\ \A i \in 1..n : ~Unfinished(all[i]))
           T == {n \in Nat : ~May(n)}
<1>1. all \in Seq(Jobs) /\ Len(all) \in Nat \ {0} /\ JobsKept \in Nat \ {0}
  BY StreamsAssumption DEF StreamsAssumption
<1>2. Len(all) \in T
  <2> HIDE DEF all
  <2>1. ~May(Len(all))
    BY <1>1
  <2>2. QED
    BY <1>1, <2>1
<1>3. PICK m \in T : \A n \in T : m <= n
  <2> HIDE DEF T
  <2>1. T \subseteq Nat
    BY DEF T
  <2>2. QED
    BY <1>2, <2>1, NatMin
<1>4. m \in Nat \ {0} /\ m <= Len(all) /\ ~May(m)
  <2>1. May(0)
    OBVIOUS
  <2>2. m \in Nat /\ ~May(m)
    OBVIOUS
  <2> HIDE DEF May, all
  <2>3. QED
    BY <1>2, <1>3, <2>1, <2>2
<1>5. May(m - 1)
  <2>1. m - 1 \in Nat /\ ~(m <= m - 1)
    BY <1>4
  <2>2. m - 1 \notin T
    BY <1>3, <2>1
  <2>3. QED
    BY <2>1, <2>2
<1>6. m - 1 \in 0..Len(all) /\ ~May((m - 1) + 1)
  <2> HIDE DEF May, all
  <2>1. (m - 1) + 1 = m
    BY <1>4
  <2>2. QED
    BY <1>1, <1>4, <2>1
<1> DEFINE drop == CHOOSE n \in 0..Len(all) : May(n) /\ ~May(n + 1)
<1>7. drop \in 0..Len(all) /\ May(drop)
  <2> HIDE DEF May, all
  <2>1. QED
    BY <1>5, <1>6
<1>8. \A i \in 1..drop : ~Unfinished(all[i])
  <2>1. CASE drop = 0
    <3> HIDE DEF drop
    <3>1. QED
      BY <2>1
  <2>2. CASE drop # 0
    <3> HIDE DEF drop
    <3>1. QED
      BY <1>7, <2>2
  <2>3. QED
    BY <2>1, <2>2
<1>9. Remember(known, j) = SubSeq(all, drop + 1, Len(all))
  BY DEF Remember
<1>10. QED
  <2> HIDE DEF drop
  <2>1. QED
    BY <1>7, <1>8, <1>9

\* So a job that is known and has no outcome stays known, and the new one is.
LEMMA RememberKeeps ==
  ASSUME NEW known \in Seq(Jobs), NEW j \in Jobs
  PROVE  /\ Remember(known, j) \in Seq(Jobs)
         /\ \A k \in Jobs :
              Unfinished(k) /\ (k = j \/ \E i \in 1..Len(known) : known[i] = k)
                => \E i \in 1..Len(Remember(known, j)) : Remember(known, j)[i] = k
<1> DEFINE all == Append(known, j)
<1>1. PICK drop \in 0..Len(all) :
        /\ \A i \in 1..drop : ~Unfinished(all[i])
        /\ Remember(known, j) = SubSeq(all, drop + 1, Len(all))
  BY RememberDrops
<1>2. all \in Seq(Jobs) /\ Len(all) = Len(known) + 1 /\ all[Len(all)] = j
  OBVIOUS
<1>3. \A i \in 1..Len(known) : all[i] = known[i]
  OBVIOUS
<1> HIDE DEF all
<1>4. /\ SubSeq(all, drop + 1, Len(all)) \in Seq(Jobs)
      /\ Len(SubSeq(all, drop + 1, Len(all))) = Len(all) - drop
      /\ \A i \in 1..(Len(all) - drop) : SubSeq(all, drop + 1, Len(all))[i] = all[drop + i]
  BY <1>2
<1>5. ASSUME NEW i \in 1..Len(all), Unfinished(all[i])
      PROVE  \E n \in 1..Len(Remember(known, j)) : Remember(known, j)[n] = all[i]
  <2>1. i - drop \in 1..(Len(all) - drop) /\ drop + (i - drop) = i
    BY <1>1, <1>2, <1>5
  <2>2. QED
    BY <1>1, <1>4, <2>1
<1>6. Unfinished(j) => \E i \in 1..Len(Remember(known, j)) : Remember(known, j)[i] = j
  BY <1>2, <1>5
<1>7. ASSUME NEW k \in Jobs, Unfinished(k), NEW i \in 1..Len(known), known[i] = k
      PROVE  \E n \in 1..Len(Remember(known, j)) : Remember(known, j)[n] = k
  BY <1>2, <1>3, <1>5, <1>7
<1>8. QED
  BY <1>1, <1>4, <1>6, <1>7

LEMMA RememberFinds ==
  ASSUME NEW known \in Seq(Jobs), NEW j \in Jobs, NEW k \in Jobs, Unfinished(k),
         k = j \/ \E i \in 1..Len(known) : known[i] = k
  PROVE  \E i \in 1..Len(Remember(known, j)) : Remember(known, j)[i] = k
BY RememberKeeps, Zenon

-----------------------------------------------------------------------------
(* The steps of a job. *)

LEMMA JobKeeps ==
  ASSUME JobsSound, NEW j \in Jobs, ToolPrints(j) \/ JobStep(j)
  PROVE  /\ job' = [job EXCEPT ![j] = job'[j]]
         /\ JobSound(job'[j]) /\ Later(job[j], job'[j])
         /\ (job'[j].tool # "none" /\ job'[j].outcome = "none")
              => (job[j].tool # "none" /\ job[j].outcome = "none")
         /\ UNCHANGED <<registry, rows, follower, breaks, replaced>>
<1> PICK b \in JobStates : b = job[j]
  BY DEF JobsSound
<1>1. JobSound(b) /\ DOMAIN job = Jobs
  BY DEF JobsSound
<1>2. CASE ToolPrints(j)
  BY <1>1, <1>2 DEF ToolPrints, JobSound, JobStates, Later, Outcomes
<1>3. CASE ToolEnds(j)
  BY <1>1, <1>3 DEF ToolEnds, JobSound, JobStates, Later, Outcomes
<1>4. CASE PumpWrites(j)
  BY <1>1, <1>4 DEF PumpWrites, JobSound, JobStates, Later, Outcomes
<1>5. CASE PumpSignals(j)
  BY <1>1, <1>5 DEF PumpSignals, JobSound, JobStates, Later, Outcomes
<1>6. CASE PumpEnds(j)
  BY <1>1, <1>6 DEF PumpEnds, JobSound, JobStates, Later, Outcomes
<1>7. CASE JobFinishes(j)
  BY <1>1, <1>7 DEF JobFinishes, MayFinish, JobSound, JobStates, Later, Outcomes
<1>8. CASE JobSignals(j)
  BY <1>1, <1>8 DEF JobSignals, JobSound, JobStates, Later, Outcomes
<1>9. QED
  BY <1>2, <1>3, <1>4, <1>5, <1>6, <1>7, <1>8 DEF JobStep

\* A client that follows a job is right about it whatever the job becomes.
LEMMA OfJobKeeps ==
  ASSUME NEW g \in FollowerStates, NEW b \in JobStates, NEW c \in JobStates,
         OfJob(g, b), Later(b, c)
  PROVE  OfJob(g, c)
<1>1. g.got \in Nat /\ b.log \in Nat /\ c.log \in Nat /\ g.page \in Seq(Nat)
  BY DEF FollowerStates, JobStates
<1>2. Len(g.page) \in Nat
  BY <1>1
<1>3. QED
  BY <1>1, <1>2 DEF OfJob, Later

LEMMA OthersKeep ==
  ASSUME StreamInv, NEW j \in Jobs, job' = [job EXCEPT ![j] = job'[j]], JobSound(job'[j]),
         Later(job[j], job'[j]), UNCHANGED <<rows, follower>>
  PROVE  JobsSound' /\ RowsTyped' /\ Following'
<1>1. job'[j] \in JobStates /\ DOMAIN job = Jobs
  BY DEF JobSound, StreamInv, JobsSound
<1>2. \A k \in Jobs : job'[k] = IF k = j THEN job'[j] ELSE job[k]
  BY <1>1
<1>3. JobsSound'
  BY <1>1, <1>2 DEF StreamInv, JobsSound
<1>4. ASSUME NEW f \in Followers PROVE FollowerSound(f)'
  <2>1. FollowerSound(f) /\ follower'[f] = follower[f] /\ rows' = rows
    BY DEF StreamInv, Following
  <2>2. ASSUME NEW k \in Jobs, follower[f].of = k PROVE OfJob(follower[f], job'[k])
    <3>1. OfJob(follower[f], job[k]) /\ follower[f] \in FollowerStates
      BY <2>1, <2>2 DEF FollowerSound
    <3>2. job[k] \in JobStates /\ job'[k] \in JobStates
      BY <1>3 DEF StreamInv, JobsSound
    <3>3. CASE k = j
      BY <3>1, <3>2, <3>3, OfJobKeeps
    <3>4. CASE k # j
      BY <1>2, <3>1, <3>4
    <3>5. QED
      BY <3>3, <3>4
  <2>3. QED
    BY <2>1, <2>2 DEF FollowerSound
<1>5. QED
  BY <1>3, <1>4 DEF StreamInv, Following, RowsTyped

LEMMA JobStays ==
  ASSUME StreamInv, NEW j \in Jobs, ToolPrints(j) \/ JobStep(j)
  PROVE  StreamInv'
<1>1. /\ job' = [job EXCEPT ![j] = job'[j]] /\ JobSound(job'[j]) /\ Later(job[j], job'[j])
      /\ (job'[j].tool # "none" /\ job'[j].outcome = "none")
           => (job[j].tool # "none" /\ job[j].outcome = "none")
      /\ UNCHANGED <<registry, rows, follower, breaks, replaced>>
  BY JobKeeps DEF StreamInv
<1>2. JobsSound' /\ RowsTyped' /\ Following'
  BY <1>1, OthersKeep
<1>3. DOMAIN job = Jobs
  BY DEF StreamInv, JobsSound
<1>4. Registered'
  <2>1. \A k \in Jobs : (job'[k].tool # "none" /\ job'[k].outcome = "none")
                          => (job[k].tool # "none" /\ job[k].outcome = "none")
    BY <1>1, <1>3
  <2>2. QED
    BY <1>1, <2>1 DEF StreamInv, Registered, RunningFound, Unfinished
<1>5. QED
  BY <1>2, <1>4 DEF StreamInv

LEMMA JobBegins ==
  ASSUME StreamInv, NEW j \in Jobs, EspFlash(j)
  PROVE  StreamInv'
<1> PICK b \in JobStates : b = job[j]
  BY DEF StreamInv, JobsSound
<1>1. JobSound(b) /\ DOMAIN job = Jobs /\ b.tool = "none" /\ registry \in Seq(Jobs)
  BY DEF StreamInv, JobsSound, EspFlash, Registered
<1>2. job'[j] = [b EXCEPT !.tool = "runs"] /\ job' = [job EXCEPT ![j] = job'[j]]
  BY <1>1 DEF EspFlash
<1>3. JobSound(job'[j]) /\ Later(b, job'[j]) /\ job'[j].outcome = "none" /\ b.outcome = "none"
  BY <1>1, <1>2 DEF JobSound, JobStates, Later, Outcomes
<1>4. JobsSound' /\ RowsTyped' /\ Following'
  BY <1>2, <1>3, OthersKeep DEF EspFlash
<1>5. Registered'
  <2>1. registry' = Remember(registry, j) /\ UNCHANGED replaced /\ Unfinished(j)
    BY <1>3 DEF EspFlash, Unfinished
  <2>2. registry' \in Seq(Jobs)
    BY <1>1, <2>1, RememberKeeps
  <2>3. \E i \in 1..Len(registry') : registry'[i] = j
    BY <1>1, <2>1, RememberFinds
  <2>4. \A k \in Jobs : Unfinished(k) /\ (\E i \in 1..Len(registry) : registry[i] = k)
          => \E i \in 1..Len(registry') : registry'[i] = k
    <3>1. \A k \in Jobs : Unfinished(k) /\ (\E i \in 1..Len(registry) : registry[i] = k)
            => \E i \in 1..Len(Remember(registry, j)) : Remember(registry, j)[i] = k
      <4>1. registry \in Seq(Jobs) /\ Unfinished(j)
        BY <1>1, <2>1
      <4>2. ASSUME NEW k \in Jobs, Unfinished(k), \E i \in 1..Len(registry) : registry[i] = k
            PROVE  \E i \in 1..Len(Remember(registry, j)) : Remember(registry, j)[i] = k
        BY <4>1, <4>2, RememberFinds
      <4>3. QED
        BY <4>2
    <3>2. QED
      BY <2>1, <3>1, Zenon
  <2>5. \A k \in Jobs : k # j => job'[k] = job[k]
    BY <1>1, <1>2
  <2>6. RunningFound'
    BY <2>1, <2>3, <2>4, <2>5 DEF StreamInv, Registered, RunningFound, Unfinished
  <2>7. QED
    BY <2>1, <2>2, <2>6 DEF StreamInv, Registered
<1>6. QED
  BY <1>4, <1>5 DEF StreamInv

-----------------------------------------------------------------------------
(* The steps of a follower. *)

\* Only the follower that takes a step has to be looked at.
LEMMA OneFollower ==
  ASSUME StreamInv, NEW f \in Followers, NEW g,
         follower' = [follower EXCEPT ![f] = g], g \in FollowerStates,
         g.at # "yield" => g.page = <<>>, g.at # "away" => g.sent = g.got,
         g.of = Nobody => Idle(g), \A j \in Jobs : g.of = j => OfJob(g, job[j]),
         g.of = ThePort => OfPort(g, rows.first, rows.last),
         UNCHANGED <<job, registry, rows, replaced>>
  PROVE  StreamInv'
<1>1. DOMAIN follower = Followers
  BY DEF StreamInv, Following
<1>2. ASSUME NEW h \in Followers PROVE FollowerSound(h)'
  <2>1. CASE h = f
    BY <1>1, <2>1 DEF FollowerSound
  <2>2. CASE h # f
    BY <1>1, <2>2 DEF StreamInv, Following, FollowerSound
  <2>3. QED
    BY <2>1, <2>2
<1>3. JobsSound' /\ RowsTyped' /\ Registered'
  BY DEF StreamInv, JobsSound, RowsTyped, Registered, RunningFound, Unfinished
<1>4. QED
  BY <1>1, <1>2, <1>3 DEF StreamInv, Following

LEMMA FollowJobKeeps ==
  ASSUME StreamInv, NEW f \in Followers, NEW j \in Jobs, FollowJob(f, j)
  PROVE  StreamInv'
<1> PICK g \in FollowerStates : g = follower[f]
  BY DEF StreamInv, Following, FollowerSound
<1> PICK b \in JobStates : b = job[j]
  BY DEF StreamInv, JobsSound
<1>1. FollowerSound(f) /\ JobSound(b) /\ j # Nobody /\ j # ThePort
  BY DEF StreamInv, Following, JobsSound, Jobs, Nobody, ThePort
<1>2. /\ g.at = "away" /\ g.of \in {Nobody, j} /\ g.told = "none" /\ g.page = <<>>
      /\ g.got \in Nat /\ b.log \in Nat /\ b.revision \in Nat
  BY <1>1 DEF FollowJob, FollowerSound, FollowerStates, JobStates
<1>3. OfJob(g, b)
  <2>1. CASE g.of = j
    BY <1>1, <2>1 DEF FollowerSound
  <2>2. CASE g.of = Nobody
    <3>1. g.got = 0 /\ g.events = 0 /\ Len(g.page) = 0
      BY <1>1, <1>2, <2>2 DEF FollowerSound, Idle
    <3>2. QED
      BY <1>2, <3>1 DEF OfJob, Outcomes
  <2>3. QED
    BY <1>2, <2>1, <2>2
<1>4. CASE \E i \in 1..Len(registry) : registry[i] = j
  <2> DEFINE h == [g EXCEPT !.of = j, !.at = "read", !.sent = g.got, !.saw = b.revision]
  <2>1. follower' = [follower EXCEPT ![f] = h]
    BY <1>4 DEF FollowJob
  <2>2. h \in FollowerStates /\ h.of = j /\ h.at = "read" /\ h.sent = h.got /\ h.page = <<>>
    BY <1>2 DEF FollowerStates
  <2>3. OfJob(h, b)
    BY <1>2, <1>3 DEF OfJob, FollowerStates, Outcomes
  <2> HIDE DEF h
  <2>4. QED
    BY <1>1, <2>1, <2>2, <2>3, OneFollower DEF FollowJob
<1>5. CASE ~\E i \in 1..Len(registry) : registry[i] = j
  <2> DEFINE h == [g EXCEPT !.of = j, !.told = "no such job"]
  <2>1. follower' = [follower EXCEPT ![f] = h]
    BY <1>5 DEF FollowJob
  <2>2. h \in FollowerStates /\ h.of = j /\ h.at = "away" /\ h.page = <<>>
    BY <1>2 DEF FollowerStates
  <2>3. OfJob(h, b)
    BY <1>2, <1>3 DEF OfJob, FollowerStates, Outcomes
  <2> HIDE DEF h
  <2>4. QED
    BY <1>1, <2>1, <2>2, <2>3, OneFollower DEF FollowJob
<1>6. QED
  BY <1>4, <1>5

\* What the invariant says of one follower, at hand for its steps.
LEMMA FollowerFacts ==
  ASSUME StreamInv, NEW f \in Followers
  PROVE  /\ FollowerSound(f)
         /\ follower[f].got \in Nat /\ follower[f].sent \in Nat /\ follower[f].events \in Nat
         /\ follower[f].page \in Seq(Nat)
BY DEF StreamInv, Following, FollowerSound, FollowerStates

LEMMA ReadLogKeeps ==
  ASSUME StreamInv, NEW f \in Followers, NEW j \in Jobs, ReadLog(f, j)
  PROVE  StreamInv'
<1> PICK g \in FollowerStates : g = follower[f]
  BY DEF StreamInv, Following, FollowerSound
<1> PICK b \in JobStates : b = job[j]
  BY DEF StreamInv, JobsSound
<1>1. FollowerSound(f) /\ JobSound(b) /\ j # Nobody /\ j # ThePort
  BY DEF StreamInv, Following, JobsSound, Jobs, Nobody, ThePort
<1>2. /\ g.at = "read" /\ g.of = j /\ g.sent = g.got /\ g.page = <<>>
      /\ g.got \in Nat /\ b.log \in Nat /\ b.outcome \in {"none"} \cup Outcomes
  BY <1>1 DEF ReadLog, FollowerSound, FollowerStates, JobStates
<1>3. OfJob(g, b) /\ Len(g.page) = 0
  BY <1>1, <1>2 DEF FollowerSound
<1> DEFINE new == [i \in 1..(b.log - g.got) |-> g.got + i]
<1>4. g.got <= b.log /\ b.log - g.got \in Nat
  BY <1>2, <1>3 DEF OfJob
<1>5. Since(j, g.sent) = new
  BY <1>2, <1>4 DEF Since
<1>6. new \in Seq(Nat) /\ Len(new) = b.log - g.got /\ \A i \in 1..Len(new) : new[i] = g.got + i
  <2>1. \A i \in 1..(b.log - g.got) : g.got + i \in Nat
    BY <1>2
  <2>2. QED
    BY <1>4, <2>1
<1> HIDE DEF new
<1> DEFINE h == [g EXCEPT !.page = new, !.outcome = b.outcome, !.at = "yield"]
<1>7. follower' = [follower EXCEPT ![f] = h]
  BY <1>5 DEF ReadLog
<1>8. /\ h \in FollowerStates /\ h.of = j /\ h.at = "yield" /\ h.sent = h.got /\ h.got = g.got
      /\ h.page = new /\ h.outcome = b.outcome /\ h.events = g.events /\ h.told = g.told
  BY <1>2, <1>6 DEF FollowerStates
<1> HIDE DEF h
<1>9. OfJob(h, b)
  BY <1>2, <1>3, <1>4, <1>6, <1>8 DEF OfJob
<1>10. UNCHANGED <<job, registry, rows, replaced>>
  BY DEF ReadLog
<1>11. \A k \in Jobs : h.of = k => OfJob(h, job[k])
  BY <1>8, <1>9
<1>12. QED
  BY <1>1, <1>7, <1>8, <1>10, <1>11, OneFollower

LEMMA YieldKeeps ==
  ASSUME StreamInv, NEW f \in Followers, Yield(f)
  PROVE  StreamInv'
<1> PICK g \in FollowerStates : g = follower[f]
  BY DEF StreamInv, Following, FollowerSound
<1>1. FollowerSound(f) /\ g.at = "yield" /\ g.page # <<>> /\ g.sent = g.got
  BY DEF StreamInv, Following, FollowerSound, Yield
<1>2. g.got \in Nat /\ g.page \in Seq(Nat) /\ g.events \in Nat
  BY DEF FollowerStates
<1> DEFINE id == Head(g.page)
           rest == Tail(g.page)
<1>3. id \in Nat /\ id = g.page[1] /\ rest \in Seq(Nat) /\ Len(rest) = Len(g.page) - 1
  BY <1>1, <1>2
<1>4. Len(rest) \in Nat /\ \A i \in 1..Len(rest) : rest[i] = g.page[i + 1] /\ i + 1 \in 1..Len(g.page)
  BY <1>1, <1>2
<1>5. 1 \in 1..Len(g.page)
  BY <1>1, <1>2
<1> HIDE DEF id, rest
<1> DEFINE h == [g EXCEPT !.sent = id, !.got = id, !.page = rest, !.events = g.events + 1]
<1>6. follower' = [follower EXCEPT ![f] = h]
  <2>1. follower' = [follower EXCEPT ![f] =
          [g EXCEPT !.sent = Head(g.page), !.got = Head(g.page), !.page = Tail(g.page),
                    !.events = g.events + 1]]
    BY DEF Yield
  <2>2. QED
    BY <2>1 DEF id, rest
<1>7. PICK count \in Nat : count = g.events + 1
  BY <1>2
<1>8. /\ h \in FollowerStates /\ h.of = g.of /\ h.at = "yield" /\ h.sent = id /\ h.got = id
      /\ h.page = rest /\ h.outcome = g.outcome /\ h.events = count /\ h.told = g.told
  <2>1. h = [g EXCEPT !.sent = id, !.got = id, !.page = rest, !.events = count]
    BY <1>7
  <2>2. QED
    BY <1>1, <1>3, <2>1 DEF FollowerStates
<1> HIDE DEF h
<1>9. g.of # Nobody
  BY <1>1 DEF FollowerSound, Idle
<1>10. ASSUME NEW j \in Jobs, g.of = j PROVE OfJob(h, job[j])
  <2>1. OfJob(g, job[j]) /\ g.events = g.got
    BY <1>1, <1>10 DEF FollowerSound, OfJob
  <2>2. id = g.got + 1 /\ \A i \in 1..Len(g.page) : g.page[i] = g.got + i
    BY <1>3, <1>5, <2>1 DEF OfJob
  <2>3. h.events = h.got /\ g.told = "none"
    BY <1>1, <1>2, <1>7, <1>8, <2>1, <2>2 DEF OfJob
  <2>4. \A i \in 1..Len(rest) : rest[i] = id + i
    <3>1. \A i \in 1..Len(rest) : rest[i] = g.got + (i + 1)
      BY <1>4, <2>2
    <3>2. PICK n \in Nat : n = g.got
      BY <1>2
    <3>3. PICK m \in Nat : m = Len(rest)
      BY <1>4
    <3>4. \A i \in 1..m : n + (i + 1) = (n + 1) + i
      OBVIOUS
    <3>5. QED
      BY <2>2, <3>1, <3>2, <3>3, <3>4
  <2>5. id + Len(rest) = g.got + Len(g.page)
    <3>1. Len(g.page) \in Nat /\ id = g.got + 1 /\ g.got \in Nat
      BY <1>2, <2>2
    <3>2. PICK n \in Nat : n = Len(g.page)
      BY <3>1
    <3>3. Len(rest) = n - 1
      BY <1>3, <3>2
    <3>4. QED
      BY <3>1, <3>2, <3>3
  <2>6. QED
    BY <1>1, <1>8, <2>1, <2>3, <2>4, <2>5 DEF OfJob, Outcomes
<1>11. ASSUME g.of = ThePort PROVE OfPort(h, rows.first, rows.last)
  <2>1. OfPort(g, rows.first, rows.last) /\ rows.first \in Nat
    BY <1>1, <1>11 DEF FollowerSound, StreamInv, RowsTyped
  <2>2. \A i \in 1..Len(g.page) : g.page[i] = id + i - 1
    BY <1>3, <2>1 DEF OfPort
  <2>3. id + Len(g.page) - 1 <= rows.last /\ g.told = "none" /\ g.outcome = "none"
    BY <1>1, <1>3, <2>1 DEF OfPort
  <2>4. \A i \in 1..Len(rest) : rest[i] = id + i
    <3>1. \A i \in 1..Len(rest) : rest[i] = id + (i + 1) - 1
      BY <1>4, <2>2
    <3>2. PICK n \in Nat : n = Len(rest)
      BY <1>4
    <3>3. \A i \in 1..n : id + (i + 1) - 1 = id + i
      BY <1>3
    <3>4. QED
      BY <3>1, <3>2, <3>3
  <2>5. rest # <<>> => rest[1] = id + 1
    BY <1>3, <1>4, <2>4
  <2>6. \A i \in 1..Len(rest) : rest[i] = rest[1] + i - 1
    <3>1. ASSUME NEW i \in 1..Len(rest) PROVE rest[i] = rest[1] + i - 1
      <4>1. rest # <<>>
        BY <1>4, <3>1
      <4>2. QED
        BY <1>3, <2>4, <2>5, <4>1
    <3>2. QED
      BY <3>1
  <2>7. rest # <<>> => rest[1] = id + 1 /\ rest[1] + Len(rest) - 1 <= rows.last
    <3>1. PICK n \in Nat : n = Len(g.page)
      BY <1>2
    <3>2. Len(rest) = n - 1 /\ rows.last \in Nat /\ id + n - 1 <= rows.last
      BY <1>3, <2>3, <3>1 DEF StreamInv, RowsTyped
    <3>3. ASSUME rest # <<>> PROVE rest[1] = id + 1 /\ rest[1] + Len(rest) - 1 <= rows.last
      <4>1. PICK v \in Nat : v = rest[1]
        BY <1>3, <2>5, <3>3
      <4>2. v = id + 1
        BY <2>5, <3>3, <4>1
      <4>3. v + (n - 1) - 1 <= rows.last
        BY <1>3, <3>2, <4>2
      <4>4. QED
        BY <3>2, <4>1, <4>2, <4>3
    <3>4. QED
      BY <3>3
  <2>8. QED
    BY <1>3, <1>8, <2>3, <2>6, <2>7 DEF OfPort
<1>12. QED
  BY <1>6, <1>8, <1>9, <1>10, <1>11, OneFollower DEF Yield

LEMMA TellKeeps ==
  ASSUME StreamInv, NEW f \in Followers, TellOutcome(f)
  PROVE  StreamInv'
<1> PICK g \in FollowerStates : g = follower[f]
  BY DEF StreamInv, Following, FollowerSound
<1>1. /\ FollowerSound(f) /\ g.at = "yield" /\ g.page = <<>> /\ Len(g.page) = 0 /\ g.got \in Nat
      /\ g.outcome \in Outcomes
  BY DEF StreamInv, Following, FollowerSound, TellOutcome, FollowerStates
<1> DEFINE h == [g EXCEPT !.told = g.outcome, !.at = "away"]
<1>2. follower' = [follower EXCEPT ![f] = h]
  BY DEF TellOutcome
<1>3. /\ h \in FollowerStates /\ h.of = g.of /\ h.at = "away" /\ h.got = g.got /\ h.page = <<>>
      /\ Len(h.page) = 0 /\ h.events = g.events /\ h.told = g.outcome
  BY <1>1 DEF FollowerStates
<1> HIDE DEF h
<1>4. g.of # Nobody
  BY <1>1 DEF FollowerSound, Idle
<1>5. ASSUME NEW j \in Jobs, g.of = j PROVE OfJob(h, job[j])
  <2>1. OfJob(g, job[j]) /\ JobSound(job[j]) /\ g.outcome # "none" /\ job[j].log \in Nat
    BY <1>1, <1>5 DEF FollowerSound, StreamInv, JobsSound, Outcomes, JobStates
  <2>2. job[j].outcome # "none" /\ g.got = job[j].log /\ g.events = g.got
    BY <1>1, <2>1 DEF OfJob
  <2>3. job[j].log = job[j].printed
    BY <2>1, <2>2 DEF JobSound
  <2>4. QED
    BY <1>1, <1>3, <2>1, <2>2, <2>3 DEF OfJob
<1>6. g.of # ThePort
  BY <1>1 DEF FollowerSound, OfPort, Outcomes
<1>7. QED
  BY <1>2, <1>3, <1>4, <1>5, <1>6, OneFollower DEF TellOutcome

LEMMA WaitKeeps ==
  ASSUME StreamInv, NEW f \in Followers, NEW j \in Jobs, WaitForChange(f, j)
  PROVE  StreamInv'
<1> PICK g \in FollowerStates : g = follower[f]
  BY DEF StreamInv, Following, FollowerSound
<1> PICK b \in JobStates : b = job[j]
  BY DEF StreamInv, JobsSound
<1>1. /\ FollowerSound(f) /\ g.at = "yield" /\ g.page = <<>> /\ g.sent = g.got /\ g.of = j
      /\ j # Nobody /\ j # ThePort /\ b.revision \in Nat
  BY DEF StreamInv, Following, FollowerSound, WaitForChange, Jobs, Nobody, ThePort, JobStates
<1> DEFINE h == [g EXCEPT !.saw = b.revision, !.at = "read"]
<1>2. follower' = [follower EXCEPT ![f] = h]
  BY DEF WaitForChange
<1>3. /\ h \in FollowerStates /\ h.of = j /\ h.at = "read" /\ h.got = g.got /\ h.sent = h.got
      /\ h.page = g.page /\ h.events = g.events /\ h.told = g.told
  BY <1>1 DEF FollowerStates
<1> HIDE DEF h
<1>4. OfJob(h, b)
  BY <1>1, <1>3 DEF FollowerSound, OfJob
<1>5. UNCHANGED <<job, registry, rows, replaced>>
  BY DEF WaitForChange
<1>6. \A k \in Jobs : h.of = k => OfJob(h, job[k])
  BY <1>3, <1>4
<1>7. QED
  BY <1>1, <1>2, <1>3, <1>5, <1>6, OneFollower

LEMMA FollowPortKeeps ==
  ASSUME StreamInv, NEW f \in Followers, FollowPort(f)
  PROVE  StreamInv'
<1> PICK g \in FollowerStates : g = follower[f]
  BY DEF StreamInv, Following, FollowerSound
<1>1. FollowerSound(f) /\ g.at = "away" /\ g.page = <<>> /\ g.of \in {Nobody, ThePort}
  BY DEF StreamInv, Following, FollowerSound, FollowPort
<1> DEFINE h == [g EXCEPT !.of = ThePort, !.at = "read", !.sent = g.got]
<1>2. follower' = [follower EXCEPT ![f] = h]
  BY DEF FollowPort
<1>3. /\ h \in FollowerStates /\ h.of = ThePort /\ h.at = "read" /\ h.got = g.got /\ h.sent = h.got
      /\ h.page = <<>> /\ Len(h.page) = 0 /\ h.told = g.told /\ h.outcome = g.outcome
  BY <1>1 DEF FollowerStates
<1> HIDE DEF h
<1>4. OfPort(h, rows.first, rows.last)
  BY <1>1, <1>3 DEF FollowerSound, OfPort, Idle
<1>5. h.of # Nobody /\ h.of \notin Jobs
  BY <1>3 DEF Nobody, ThePort, Jobs
<1>6. UNCHANGED <<job, registry, rows, replaced>>
  BY DEF FollowPort
<1>7. QED
  BY <1>2, <1>3, <1>4, <1>5, <1>6, OneFollower

\* A page begins behind the last row sent, or at the first row that there is.
LEMMA PageRuns ==
  ASSUME RowsTyped, NEW after \in Nat
  PROVE  /\ Page(after) \in Seq(Nat)
         /\ \A i \in 1..Len(Page(after)) : Page(after)[i] = Page(after)[1] + i - 1
         /\ Page(after) # <<>> =>
              /\ \/ Page(after)[1] = after + 1
                 \/ Page(after)[1] > after /\ Page(after)[1] <= rows.first
              /\ Page(after)[1] + Len(Page(after)) - 1 <= rows.last
<1> DEFINE from == IF after + 1 > rows.first THEN after + 1 ELSE rows.first
           to == IF from + PageSize - 1 < rows.last THEN from + PageSize - 1 ELSE rows.last
           n == IF to >= from THEN to - from + 1 ELSE 0
           page == [i \in 1..n |-> from + i - 1]
<1>1. from \in Nat /\ (from = after + 1 \/ (from > after /\ from <= rows.first))
  BY DEF RowsTyped
<1>2. to \in Int /\ to <= rows.last
  <2> HIDE DEF from
  <2>1. QED
    BY <1>1, StreamsAssumption DEF RowsTyped, StreamsAssumption
<1>3. n \in Nat /\ (n # 0 => from + n - 1 <= rows.last)
  <2> HIDE DEF from, to
  <2>1. QED
    BY <1>1, <1>2 DEF RowsTyped
<1>4. Page(after) = page
  BY DEF Page
<1> HIDE DEF from, to, n
<1>5. \A i \in 1..n : from + i - 1 \in Nat
  BY <1>1, <1>3
<1>6. page \in Seq(Nat) /\ Len(page) = n /\ \A i \in 1..n : page[i] = from + i - 1
  BY <1>3, <1>5
<1> HIDE DEF page
<1>7. n # 0 => page[1] = from
  BY <1>1, <1>3, <1>6
<1>8. QED
  BY <1>1, <1>3, <1>4, <1>6, <1>7

LEMMA ReadRowsKeeps ==
  ASSUME StreamInv, NEW f \in Followers, ReadRows(f)
  PROVE  StreamInv'
<1> PICK g \in FollowerStates : g = follower[f]
  BY DEF StreamInv, Following, FollowerSound
<1>1. /\ FollowerSound(f) /\ g.at \in {"read", "yield"} /\ g.page = <<>> /\ g.of = ThePort
      /\ g.sent = g.got /\ g.got \in Nat /\ rows.first \in Nat
  BY DEF StreamInv, Following, FollowerSound, ReadRows, FollowerStates, RowsTyped
<1>2. OfPort(g, rows.first, rows.last) /\ ThePort # Nobody /\ ThePort \notin Jobs
  BY <1>1 DEF FollowerSound, Nobody, ThePort, Jobs
<1>3. UNCHANGED <<job, registry, rows, replaced>>
  BY DEF ReadRows
<1>4. CASE rows.open
  <2>1. /\ Page(g.got) \in Seq(Nat)
        /\ \A i \in 1..Len(Page(g.got)) : Page(g.got)[i] = Page(g.got)[1] + i - 1
        /\ Page(g.got) # <<>> =>
             /\ \/ Page(g.got)[1] = g.got + 1
                \/ Page(g.got)[1] > g.got /\ Page(g.got)[1] <= rows.first
             /\ Page(g.got)[1] + Len(Page(g.got)) - 1 <= rows.last
    BY <1>1, PageRuns DEF StreamInv
  <2> DEFINE h == [g EXCEPT !.page = Page(g.got), !.at = "yield"]
  <2>2. follower' = [follower EXCEPT ![f] = h]
    BY <1>1, <1>4 DEF ReadRows
  <2>3. /\ h \in FollowerStates /\ h.of = ThePort /\ h.at = "yield" /\ h.got = g.got
        /\ h.sent = h.got /\ h.page = Page(g.got) /\ h.told = g.told /\ h.outcome = g.outcome
    BY <1>1, <2>1 DEF FollowerStates
  <2> HIDE DEF h
  <2>4. OfPort(h, rows.first, rows.last)
    BY <1>2, <2>1, <2>3 DEF OfPort
  <2>5. QED
    BY <1>2, <1>3, <2>2, <2>3, <2>4, OneFollower
<1>5. CASE ~rows.open
  <2> DEFINE h == [g EXCEPT !.at = "away"]
  <2>1. follower' = [follower EXCEPT ![f] = h]
    BY <1>5 DEF ReadRows
  <2>2. /\ h \in FollowerStates /\ h.of = ThePort /\ h.at = "away" /\ h.page = <<>>
        /\ Len(h.page) = 0 /\ h.told = g.told /\ h.outcome = g.outcome
    BY <1>1 DEF FollowerStates
  <2> HIDE DEF h
  <2>3. OfPort(h, rows.first, rows.last)
    BY <1>2, <2>2 DEF OfPort
  <2>4. QED
    BY <1>2, <1>3, <2>1, <2>2, <2>3, OneFollower
<1>6. QED
  BY <1>4, <1>5

LEMMA BreaksKeep ==
  ASSUME StreamInv, NEW f \in Followers, StreamBreaks(f)
  PROVE  StreamInv'
<1> PICK g \in FollowerStates : g = follower[f]
  BY DEF StreamInv, Following, FollowerSound
<1>1. FollowerSound(f) /\ g.at # "away" /\ g.got \in Nat /\ Len(g.page) \in Nat
  <2>1. FollowerSound(f) /\ g.at # "away" /\ g.got \in Nat /\ g.page \in Seq(Nat)
    BY FollowerFacts DEF StreamBreaks
  <2>2. QED
    BY <2>1
<1> DEFINE h == [g EXCEPT !.at = "away", !.page = <<>>]
<1>2. follower' = [follower EXCEPT ![f] = h]
  BY DEF StreamBreaks
<1>3. /\ h \in FollowerStates /\ h.of = g.of /\ h.at = "away" /\ h.got = g.got /\ h.page = <<>>
      /\ h.events = g.events /\ h.told = g.told /\ h.outcome = g.outcome
  <2>1. <<>> \in Seq(Nat)
    OBVIOUS
  <2>2. PICK e \in Seq(Nat) : e = <<>>
    BY <2>1
  <2>3. h = [g EXCEPT !.at = "away", !.page = e]
    BY <2>2
  <2>4. QED
    BY <2>2, <2>3 DEF FollowerStates
<1> HIDE DEF h
<1>4. Len(h.page) = 0
  BY <1>3
<1>5. g.of # Nobody
  BY <1>1 DEF FollowerSound, Idle
<1>6. ASSUME NEW j \in Jobs, g.of = j PROVE OfJob(h, job[j])
  <2>1. OfJob(g, job[j]) /\ job[j].log \in Nat
    BY <1>1, <1>6 DEF FollowerSound, StreamInv, JobsSound, JobStates
  <2>2. QED
    BY <1>1, <1>3, <1>4, <2>1 DEF OfJob
<1>7. ASSUME g.of = ThePort PROVE OfPort(h, rows.first, rows.last)
  BY <1>1, <1>3, <1>4, <1>7 DEF FollowerSound, OfPort
<1>8. QED
  BY <1>2, <1>3, <1>5, <1>6, <1>7, OneFollower DEF StreamBreaks

-----------------------------------------------------------------------------
(* The rows, and the whole. *)

LEMMA RowsKeep ==
  ASSUME StreamInv, RowStored \/ RowsTrimmed \/ PortToggles
  PROVE  StreamInv'
<1>1. rows \in [first : Nat, last : Nat, open : BOOLEAN]
  BY DEF StreamInv, RowsTyped
<1>2. RowsTyped' /\ rows.first <= rows'.first /\ rows.last <= rows'.last
  <2>1. CASE RowStored
    BY <1>1, <2>1 DEF RowStored, RowsTyped
  <2>2. CASE RowsTrimmed
    BY <1>1, <2>2 DEF RowsTrimmed, RowsTyped
  <2>3. CASE PortToggles
    <3>1. rows' = [rows EXCEPT !.open = ~rows.open]
      BY <2>3 DEF PortToggles
    <3>2. PICK v \in BOOLEAN : v = ~rows.open
      OBVIOUS
    <3>3. rows' = [rows EXCEPT !.open = v]
      BY <3>1, <3>2
    <3>4. QED
      BY <1>1, <3>3 DEF RowsTyped
  <2>4. QED
    BY <2>1, <2>2, <2>3
<1>3. UNCHANGED <<job, registry, follower, replaced>>
  BY DEF RowStored, RowsTrimmed, PortToggles
<1>4. rows.first \in Nat /\ rows'.first \in Nat /\ rows.last \in Nat /\ rows'.last \in Nat
  BY <1>1, <1>2 DEF RowsTyped
<1>5. ASSUME NEW f \in Followers PROVE FollowerSound(f)'
  <2>1. FollowerSound(f) /\ follower[f].got \in Nat /\ follower[f].page \in Seq(Nat)
    BY FollowerFacts
  <2>2. follower[f].page # <<>> => follower[f].page[1] \in Nat
    BY <2>1
  <2>3. OfPort(follower[f], rows.first, rows.last)
          => OfPort(follower[f], rows'.first, rows'.last)
    BY <1>2, <1>4, <2>1, <2>2 DEF OfPort
  <2>4. QED
    BY <1>3, <2>1, <2>3 DEF FollowerSound
<1>6. JobsSound' /\ Registered' /\ DOMAIN follower' = Followers
  BY <1>3 DEF StreamInv, JobsSound, Registered, RunningFound, Unfinished, Following
<1>7. QED
  BY <1>2, <1>5, <1>6 DEF StreamInv, Following

LEMMA ReplacedKeeps ==
  ASSUME StreamInv, ListenerReplaced
  PROVE  StreamInv'
<1>1. UNCHANGED <<job, rows, follower>> /\ registry' = <<>> /\ replaced' = replaced + 1
  BY DEF ListenerReplaced
<1>2. Registered'
  BY <1>1 DEF StreamInv, Registered, RunningFound
<1>3. QED
  BY <1>1, <1>2 DEF StreamInv, JobsSound, RowsTyped, Following, FollowerSound

LEMMA StreamStarts == StreamInit => StreamInv
<1> SUFFICES ASSUME StreamInit PROVE StreamInv
  OBVIOUS
<1>1. NewJob \in JobStates /\ JobSound(NewJob)
  BY DEF NewJob, JobStates, JobSound, Outcomes
<1>2. JobsSound /\ RowsTyped
  BY <1>1 DEF StreamInit, JobsSound, RowsTyped
<1>3. NoFollower \in FollowerStates /\ NoFollower.of = Nobody
  BY DEF NoFollower, FollowerStates, Nobody, ThePort
<1>4. Nobody # ThePort /\ Nobody \notin Jobs
  BY DEF Nobody, ThePort, Jobs
<1>5. Following
  BY <1>3, <1>4 DEF StreamInit, Following, FollowerSound, NoFollower, Idle
<1>6. Registered
  BY DEF StreamInit, Registered, RunningFound, NewJob
<1>7. QED
  BY <1>2, <1>5, <1>6 DEF StreamInv

LEMMA StreamKeeps == StreamInv /\ [StreamNext]_streamVars => StreamInv'
<1> SUFFICES ASSUME StreamInv, [StreamNext]_streamVars PROVE StreamInv'
  OBVIOUS
<1>1. CASE ListenerReplaced \/ RowStored \/ RowsTrimmed \/ PortToggles
  BY <1>1, ReplacedKeeps, RowsKeep
<1>2. ASSUME NEW j \in Jobs, EspFlash(j) \/ ToolPrints(j) \/ JobStep(j) PROVE StreamInv'
  BY <1>2, JobBegins, JobStays
<1>3. ASSUME NEW f \in Followers, StreamStep(f) \/ FollowPort(f) \/ StreamBreaks(f)
      PROVE  StreamInv'
  BY <1>3, YieldKeeps, TellKeeps, ReadRowsKeeps, ReadLogKeeps, WaitKeeps, FollowPortKeeps,
     BreaksKeep DEF StreamStep
<1>4. ASSUME NEW f \in Followers, NEW j \in Jobs, FollowJob(f, j) PROVE StreamInv'
  BY <1>4, FollowJobKeeps
<1>5. CASE UNCHANGED streamVars
  BY <1>5 DEF streamVars, StreamInv, JobsSound, RowsTyped, Following, FollowerSound, Registered,
     RunningFound, Unfinished
<1>6. QED
  BY <1>1, <1>2, <1>3, <1>4, <1>5 DEF StreamNext

LEMMA StreamRight == StreamInv => StreamsFaithful
<1> SUFFICES ASSUME StreamInv PROVE StreamsFaithful
  OBVIOUS
<1>1. ASSUME NEW f \in Followers PROVE \A j \in Jobs : JobTold(f, j)
  BY DEF StreamInv, Following, FollowerSound, JobTold, OfJob, Outcomes
<1>2. QED
  BY <1>1 DEF StreamsFaithful, StreamInv, Registered

\* Over any breaks and resumptions, a follower of a job receives each line once,
\* and all of them before the outcome; and a running job is found until its
\* listener is replaced (job_stream and JobRegistry.insert).
THEOREM StreamsAreFaithful == StreamSpec => []StreamsFaithful
BY StreamStarts, StreamKeeps, StreamRight, PTL DEF StreamSpec

-----------------------------------------------------------------------------
(* Refinement of Feeds. *)

FeedLines == [s \in Sources |-> IF s = ThePort THEN rows.last ELSE job[s].printed]
FeedFirst == [s \in Sources |-> IF s = ThePort THEN rows.first ELSE 1]
FeedEnding == [s \in Sources |-> IF s = ThePort THEN "none" ELSE job[s].outcome]
FeedOf == [f \in Followers |-> follower[f].of]
FeedGot == [f \in Followers |-> follower[f].got]
FeedEvents == [f \in Followers |-> follower[f].events]
FeedTold == [f \in Followers |-> follower[f].told]

FeedSources == <<FeedLines, FeedFirst, FeedEnding>>
FeedFollowers == <<FeedOf, FeedGot, FeedEvents, FeedTold>>

\* What Feeds sees when one follower moves.
LEMMA FollowerMoves ==
  ASSUME StreamInv, NEW f \in Followers, NEW g, follower' = [follower EXCEPT ![f] = g],
         UNCHANGED <<job, rows>>
  PROVE  /\ FeedOf' = [FeedOf EXCEPT ![f] = g.of]
         /\ FeedGot' = [FeedGot EXCEPT ![f] = g.got]
         /\ FeedEvents' = [FeedEvents EXCEPT ![f] = g.events]
         /\ FeedTold' = [FeedTold EXCEPT ![f] = g.told]
         /\ UNCHANGED FeedSources
<1>1. \A h \in Followers : follower'[h] = IF h = f THEN g ELSE follower[h]
  BY DEF StreamInv, Following
<1>2. FeedOf' = [FeedOf EXCEPT ![f] = g.of] /\ FeedGot' = [FeedGot EXCEPT ![f] = g.got]
  <2>1. /\ FeedOf' = [h \in Followers |-> IF h = f THEN g.of ELSE FeedOf[h]]
        /\ FeedGot' = [h \in Followers |-> IF h = f THEN g.got ELSE FeedGot[h]]
    BY <1>1 DEF FeedOf, FeedGot
  <2>2. DOMAIN FeedOf = Followers /\ DOMAIN FeedGot = Followers
    BY DEF FeedOf, FeedGot
  <2>3. QED
    BY <2>1, <2>2
<1>3. FeedEvents' = [FeedEvents EXCEPT ![f] = g.events] /\ FeedTold' = [FeedTold EXCEPT ![f] = g.told]
  <2>1. /\ FeedEvents' = [h \in Followers |-> IF h = f THEN g.events ELSE FeedEvents[h]]
        /\ FeedTold' = [h \in Followers |-> IF h = f THEN g.told ELSE FeedTold[h]]
    BY <1>1 DEF FeedEvents, FeedTold
  <2>2. DOMAIN FeedEvents = Followers /\ DOMAIN FeedTold = Followers
    BY DEF FeedEvents, FeedTold
  <2>3. QED
    BY <2>1, <2>2
<1>4. UNCHANGED FeedSources
  BY DEF FeedSources, FeedLines, FeedFirst, FeedEnding
<1>5. QED
  BY <1>2, <1>3, <1>4

\* A follower that keeps its source, its place and what it was told does not move.
LEMMA FollowerStays ==
  ASSUME StreamInv, NEW f \in Followers, NEW g, follower' = [follower EXCEPT ![f] = g],
         UNCHANGED <<job, rows>>, g.of = follower[f].of, g.got = follower[f].got,
         g.events = follower[f].events, g.told = follower[f].told
  PROVE  UNCHANGED <<FeedSources, FeedFollowers>>
<1>1. \A h \in Followers : follower'[h] = IF h = f THEN g ELSE follower[h]
  BY DEF StreamInv, Following
<1>2. UNCHANGED <<FeedOf, FeedGot>>
  BY <1>1 DEF FeedOf, FeedGot
<1>3. UNCHANGED <<FeedEvents, FeedTold>>
  BY <1>1 DEF FeedEvents, FeedTold
<1>4. QED
  BY <1>2, <1>3 DEF FeedFollowers, FeedSources, FeedLines, FeedFirst, FeedEnding

\* What Feeds sees when one job moves.
LEMMA SourceMoves ==
  ASSUME StreamInv, NEW j \in Jobs, NEW b, job' = [job EXCEPT ![j] = b], UNCHANGED <<rows, follower>>
  PROVE  /\ FeedLines' = [FeedLines EXCEPT ![j] = b.printed]
         /\ FeedEnding' = [FeedEnding EXCEPT ![j] = b.outcome]
         /\ UNCHANGED <<FeedFirst, FeedFollowers>>
<1>1. \A k \in Jobs : job'[k] = IF k = j THEN b ELSE job[k]
  BY DEF StreamInv, JobsSound
<1>2. j # ThePort
  BY DEF Jobs, ThePort
<1>3. FeedLines' = [FeedLines EXCEPT ![j] = b.printed]
  <2>1. FeedLines' = [s \in Sources |-> IF s = j THEN b.printed ELSE FeedLines[s]]
    BY <1>1, <1>2 DEF FeedLines, Sources
  <2>2. QED
    BY <2>1 DEF FeedLines
<1>4. FeedEnding' = [FeedEnding EXCEPT ![j] = b.outcome]
  <2>1. FeedEnding' = [s \in Sources |-> IF s = j THEN b.outcome ELSE FeedEnding[s]]
    BY <1>1, <1>2 DEF FeedEnding, Sources
  <2>2. QED
    BY <2>1 DEF FeedEnding
<1>5. QED
  BY <1>3, <1>4 DEF FeedFirst, FeedFollowers, FeedOf, FeedGot, FeedEvents, FeedTold

\* A tool prints before its end is known, and a job ends once.
LEMMA JobFeeds ==
  ASSUME StreamInv, NEW j \in Jobs, EspFlash(j) \/ ToolPrints(j) \/ JobStep(j)
  PROVE  Feed!Next \/ UNCHANGED Feed!feedVars
<1> PICK b \in JobStates : b = job[j]
  BY DEF StreamInv, JobsSound
<1>1. JobSound(b) /\ DOMAIN job = Jobs /\ j \in Sources /\ j # ThePort /\ b.printed \in Nat
  BY DEF StreamInv, JobsSound, Sources, Jobs, ThePort, JobStates
<1>2. FeedLines[j] = b.printed /\ FeedEnding[j] = b.outcome
  BY <1>1 DEF FeedLines, FeedEnding
<1>3. CASE ToolPrints(j)
  <2>1. b.outcome = "none" /\ job' = [job EXCEPT ![j] = [b EXCEPT !.printed = @ + 1]]
    BY <1>1, <1>3 DEF ToolPrints, JobSound, Outcomes
  <2>2. /\ FeedLines' = [FeedLines EXCEPT ![j] = b.printed + 1]
        /\ FeedEnding' = [FeedEnding EXCEPT ![j] = b.outcome]
        /\ UNCHANGED <<FeedFirst, FeedFollowers>>
    <3> DEFINE c == [b EXCEPT !.printed = b.printed + 1]
    <3>1. job' = [job EXCEPT ![j] = c]
      BY <2>1
    <3>2. c.printed = b.printed + 1 /\ c.outcome = b.outcome
      BY DEF JobStates
    <3> HIDE DEF c
    <3>3. UNCHANGED <<rows, follower>>
      BY <1>3 DEF ToolPrints
    <3>4. /\ FeedLines' = [FeedLines EXCEPT ![j] = c.printed]
          /\ FeedEnding' = [FeedEnding EXCEPT ![j] = c.outcome]
          /\ UNCHANGED <<FeedFirst, FeedFollowers>>
      BY <3>1, <3>3, SourceMoves
    <3>5. QED
      BY <3>2, <3>4
  <2>3. UNCHANGED FeedEnding
    BY <1>2, <2>2 DEF FeedEnding
  <2>4. Feed!Grow(j)
    BY <1>2, <2>1, <2>2, <2>3 DEF Feed!Grow, FeedLines, FeedFirst, FeedEnding, FeedOf, FeedGot,
       FeedEvents, FeedTold, FeedFollowers
  <2>5. QED
    BY <1>1, <2>4 DEF Feed!Next
<1>4. CASE JobFinishes(j)
  <2>1. b.outcome = "none" /\ b.tool \in Outcomes
    BY <1>1, <1>4 DEF JobFinishes, MayFinish, JobSound
  <2>2. /\ FeedLines' = [FeedLines EXCEPT ![j] = b.printed]
        /\ FeedEnding' = [FeedEnding EXCEPT ![j] = b.tool]
        /\ UNCHANGED <<FeedFirst, FeedFollowers>>
    <3> DEFINE c == [b EXCEPT !.outcome = b.tool]
    <3>1. job' = [job EXCEPT ![j] = c]
      BY <1>4 DEF JobFinishes
    <3>2. c.printed = b.printed /\ c.outcome = b.tool
      BY DEF JobStates
    <3> HIDE DEF c
    <3>3. UNCHANGED <<rows, follower>>
      BY <1>4 DEF JobFinishes
    <3>4. /\ FeedLines' = [FeedLines EXCEPT ![j] = c.printed]
          /\ FeedEnding' = [FeedEnding EXCEPT ![j] = c.outcome]
          /\ UNCHANGED <<FeedFirst, FeedFollowers>>
      BY <3>1, <3>3, SourceMoves
    <3>5. QED
      BY <3>2, <3>4
  <2>3. UNCHANGED FeedLines
    BY <1>2, <2>2 DEF FeedLines
  <2>4. Feed!End(j)
    BY <1>2, <2>1, <2>2, <2>3 DEF Feed!End, FeedLines, FeedFirst, FeedEnding, FeedOf, FeedGot,
       FeedEvents, FeedTold, FeedFollowers, Outcomes
  <2>5. QED
    BY <1>1, <2>4 DEF Feed!Next
<1>5. CASE EspFlash(j) \/ ToolEnds(j) \/ PumpWrites(j) \/ PumpSignals(j) \/ PumpEnds(j) \/ JobSignals(j)
  <2>1. \E c : /\ job' = [job EXCEPT ![j] = c] /\ c.printed = b.printed /\ c.outcome = b.outcome
    BY <1>1, <1>5 DEF EspFlash, ToolEnds, PumpWrites, PumpSignals, PumpEnds, JobSignals, JobStates
  <2>2. UNCHANGED <<rows, follower>>
    BY <1>5 DEF EspFlash, ToolEnds, PumpWrites, PumpSignals, PumpEnds, JobSignals
  <2>3. UNCHANGED <<FeedLines, FeedFirst, FeedEnding, FeedFollowers>>
    <3>1. PICK c : job' = [job EXCEPT ![j] = c] /\ c.printed = b.printed /\ c.outcome = b.outcome
      BY <2>1
    <3>2. /\ FeedLines' = [FeedLines EXCEPT ![j] = c.printed]
          /\ FeedEnding' = [FeedEnding EXCEPT ![j] = c.outcome]
          /\ UNCHANGED <<FeedFirst, FeedFollowers>>
      BY <2>2, <3>1, SourceMoves
    <3>3. QED
      BY <1>2, <3>1, <3>2 DEF FeedLines, FeedEnding
  <2>4. QED
    BY <2>3 DEF Feed!feedVars, Feed!sourceVars, FeedLines, FeedFirst, FeedEnding, FeedOf, FeedGot,
       FeedEvents, FeedTold, FeedFollowers
<1>6. QED
  BY <1>3, <1>4, <1>5 DEF JobStep

\* The port's rows come, go and are never at an end.
LEMMA RowsFeed ==
  ASSUME StreamInv, RowStored \/ RowsTrimmed \/ PortToggles
  PROVE  Feed!Next \/ UNCHANGED Feed!feedVars
<1> USE DEF FeedLines, FeedFirst, FeedEnding, FeedOf, FeedGot, FeedEvents, FeedTold, FeedFollowers
<1>1. /\ ThePort \in Sources /\ rows \in [first : Nat, last : Nat, open : BOOLEAN]
      /\ FeedLines[ThePort] = rows.last /\ FeedFirst[ThePort] = rows.first
      /\ FeedEnding[ThePort] = "none"
  BY DEF StreamInv, RowsTyped, Sources
<1>2. UNCHANGED <<job, follower>>
  BY DEF RowStored, RowsTrimmed, PortToggles
<1>3. UNCHANGED <<FeedEnding, FeedFollowers>>
  BY <1>2
<1>4. CASE RowStored
  <2>1. rows'.last = rows.last + 1 /\ rows'.first = rows.first
    BY <1>1, <1>4 DEF RowStored
  <2>2. UNCHANGED FeedFirst
    BY <2>1
  <2>3. FeedLines' = [FeedLines EXCEPT ![ThePort] = rows.last + 1]
    BY <1>1, <1>2, <2>1
  <2>4. Feed!Grow(ThePort)
    BY <1>1, <1>3, <2>2, <2>3 DEF Feed!Grow
  <2>5. QED
    BY <1>1, <2>4 DEF Feed!Next
<1>5. CASE RowsTrimmed
  <2>1. PICK n \in (rows.first + 1)..(rows.last + 1) : rows' = [rows EXCEPT !.first = n]
    BY <1>5 DEF RowsTrimmed
  <2>2. rows'.first = n /\ rows'.last = rows.last
    BY <1>1, <2>1
  <2>3. UNCHANGED FeedLines
    BY <1>2, <2>2
  <2>4. FeedFirst' = [FeedFirst EXCEPT ![ThePort] = n]
    BY <1>1, <2>2
  <2>5. Feed!Drop(ThePort)
    BY <1>1, <1>3, <2>1, <2>3, <2>4 DEF Feed!Drop
  <2>6. QED
    BY <1>1, <2>5 DEF Feed!Next
<1>6. CASE PortToggles
  <2>1. rows'.first = rows.first /\ rows'.last = rows.last
    BY <1>1, <1>6 DEF PortToggles
  <2>2. UNCHANGED <<FeedLines, FeedFirst>>
    BY <1>2, <2>1
  <2>3. QED
    BY <1>3, <2>2 DEF Feed!feedVars, Feed!sourceVars
<1>7. QED
  BY <1>4, <1>5, <1>6

\* A follower that begins, or resumes, is where it was.
LEMMA FollowFeeds ==
  ASSUME StreamInv, NEW f \in Followers,
         FollowPort(f) \/ \E j \in Jobs : FollowJob(f, j)
  PROVE  Feed!Next
<1> PICK g \in FollowerStates : g = follower[f]
  BY DEF StreamInv, Following, FollowerSound
<1>1. FollowerSound(f) /\ FeedOf[f] = g.of /\ FeedTold[f] = g.told
  BY DEF StreamInv, Following, FeedOf, FeedTold
<1>2. \E s \in Sources : \E h :
        /\ follower' = [follower EXCEPT ![f] = h] /\ UNCHANGED <<job, rows>>
        /\ g.of \in {Nobody, s} /\ g.told = "none"
        /\ h.of = s /\ h.got = g.got /\ h.events = g.events /\ h.told \in {g.told, "no such job"}
  <2>1. CASE FollowPort(f)
    <3> DEFINE h == [g EXCEPT !.of = ThePort, !.at = "read", !.sent = g.got]
    <3>1. follower' = [follower EXCEPT ![f] = h] /\ UNCHANGED <<job, rows>>
      BY <2>1 DEF FollowPort
    <3>2. g.of \in {Nobody, ThePort} /\ g.told = "none"
      BY <1>1, <2>1 DEF FollowPort, FollowerSound, OfPort, Idle
    <3>3. h.of = ThePort /\ h.got = g.got /\ h.events = g.events /\ h.told = g.told
      BY DEF FollowerStates
    <3> HIDE DEF h
    <3>4. QED
      BY <3>1, <3>2, <3>3 DEF Sources
  <2>2. ASSUME NEW j \in Jobs, FollowJob(f, j)
        PROVE  \E h :
                 /\ follower' = [follower EXCEPT ![f] = h] /\ UNCHANGED <<job, rows>>
                 /\ g.of \in {Nobody, j} /\ g.told = "none"
                 /\ h.of = j /\ h.got = g.got /\ h.events = g.events
                 /\ h.told \in {g.told, "no such job"}
    <3> DEFINE found == [g EXCEPT !.of = j, !.at = "read", !.sent = g.got, !.saw = job[j].revision]
               lost == [g EXCEPT !.of = j, !.told = "no such job"]
    <3>1. /\ \/ follower' = [follower EXCEPT ![f] = found]
             \/ follower' = [follower EXCEPT ![f] = lost]
          /\ UNCHANGED <<job, rows>> /\ g.of \in {Nobody, j} /\ g.told = "none"
      BY <2>2 DEF FollowJob
    <3>2. found.of = j /\ found.got = g.got /\ found.events = g.events /\ found.told = g.told
      BY DEF FollowerStates
    <3>3. lost.of = j /\ lost.got = g.got /\ lost.events = g.events /\ lost.told = "no such job"
      BY DEF FollowerStates
    <3> HIDE DEF found, lost
    <3>4. QED
      BY <3>1, <3>2, <3>3
  <2>3. QED
    BY <2>1, <2>2 DEF Sources
<1> PICK s \in Sources : \E h :
        /\ follower' = [follower EXCEPT ![f] = h] /\ UNCHANGED <<job, rows>>
        /\ g.of \in {Nobody, s} /\ g.told = "none"
        /\ h.of = s /\ h.got = g.got /\ h.events = g.events /\ h.told \in {g.told, "no such job"}
  BY <1>2
<1>3. PICK h :
        /\ follower' = [follower EXCEPT ![f] = h] /\ UNCHANGED <<job, rows>>
        /\ g.of \in {Nobody, s} /\ g.told = "none"
        /\ h.of = s /\ h.got = g.got /\ h.events = g.events /\ h.told \in {g.told, "no such job"}
  OBVIOUS
<1>4. /\ FeedOf' = [FeedOf EXCEPT ![f] = h.of] /\ FeedGot' = [FeedGot EXCEPT ![f] = h.got]
      /\ FeedEvents' = [FeedEvents EXCEPT ![f] = h.events]
      /\ FeedTold' = [FeedTold EXCEPT ![f] = h.told] /\ UNCHANGED FeedSources
  BY <1>3, FollowerMoves
<1>5. UNCHANGED <<FeedGot, FeedEvents>>
  <2>1. FeedGot[f] = g.got /\ FeedEvents[f] = g.events
    BY DEF FeedGot, FeedEvents
  <2>2. FeedGot' = [FeedGot EXCEPT ![f] = FeedGot[f]] /\ FeedEvents' = [FeedEvents EXCEPT ![f] = FeedEvents[f]]
    BY <1>3, <1>4, <2>1
  <2>3. QED
    BY <2>2 DEF FeedGot, FeedEvents
<1>6. FeedTold' = FeedTold \/ FeedTold' = [FeedTold EXCEPT ![f] = "no such job"]
  BY <1>1, <1>3, <1>4 DEF FeedTold
<1>7. FeedOf' = [FeedOf EXCEPT ![f] = s]
  BY <1>3, <1>4
<1>8. Feed!Follow(f, s)
  BY <1>1, <1>3, <1>4, <1>5, <1>6, <1>7 DEF Feed!Follow, Feed!sourceVars, FeedSources, FeedLines, FeedFirst,
     FeedEnding, FeedOf, FeedGot, FeedEvents, FeedTold
<1>9. QED
  BY <1>3, <1>8 DEF Feed!Next

\* An event carries the next line, or the next that the port still has.
LEMMA YieldFeeds ==
  ASSUME StreamInv, NEW f \in Followers, Yield(f)
  PROVE  Feed!Next
<1> PICK g \in FollowerStates : g = follower[f]
  BY DEF StreamInv, Following, FollowerSound
<1>1. FollowerSound(f) /\ g.at = "yield" /\ g.page # <<>>
  BY DEF StreamInv, Following, FollowerSound, Yield
<1>2. /\ g.got \in Nat /\ g.page \in Seq(Nat) /\ g.events \in Nat
      /\ g.of \in Sources \cup {Nobody} /\ rows.first \in Nat /\ rows.last \in Nat
  BY DEF FollowerStates, StreamInv, RowsTyped, Sources
<1> DEFINE s == g.of
           id == Head(g.page)
           h == [g EXCEPT !.sent = id, !.got = id, !.page = Tail(g.page), !.events = g.events + 1]
<1>3. follower' = [follower EXCEPT ![f] = h] /\ UNCHANGED <<job, rows>>
  BY DEF Yield
<1>4. h.of = g.of /\ h.got = id /\ h.events = g.events + 1 /\ h.told = g.told
  BY DEF FollowerStates
<1> HIDE DEF h
<1>5. id \in Nat /\ id = g.page[1] /\ Len(g.page) \in Nat /\ Len(g.page) >= 1
  BY <1>1, <1>2
<1> HIDE DEF id
<1>6. s \in Sources
  BY <1>1, <1>2 DEF FollowerSound, Idle
<1>7. /\ g.told = "none" /\ id \in (g.got + 1)..FeedLines[s]
      /\ \A r \in (g.got + 1)..(id - 1) : r < FeedFirst[s]
  <2>1. CASE s = ThePort
    <3>1. OfPort(g, rows.first, rows.last) /\ FeedLines[s] = rows.last /\ FeedFirst[s] = rows.first
      BY <1>1, <1>6, <2>1 DEF FollowerSound, FeedLines, FeedFirst
    <3>2. /\ id = g.got + 1 \/ (id > g.got /\ id <= rows.first)
          /\ id + Len(g.page) - 1 <= rows.last /\ g.told = "none"
      BY <1>1, <1>5, <3>1 DEF OfPort
    <3>3. id \in (g.got + 1)..rows.last
      BY <1>2, <1>5, <3>2
    <3>4. \A r \in (g.got + 1)..(id - 1) : r < rows.first
      BY <1>2, <1>5, <3>2
    <3>5. QED
      BY <3>1, <3>2, <3>3, <3>4
  <2>2. CASE s # ThePort
    <3>1. s \in Jobs
      BY <1>6, <2>2 DEF Sources
    <3>2. PICK b \in JobStates : b = job[s] /\ JobSound(b)
      BY <3>1 DEF StreamInv, JobsSound
    <3>3. /\ OfJob(g, b) /\ FeedLines[s] = b.printed /\ b.log <= b.printed
          /\ b.log \in Nat /\ b.printed \in Nat
      BY <1>1, <1>6, <2>2, <3>1, <3>2 DEF FollowerSound, FeedLines, JobSound, JobStates
    <3>4. g.told = "none" /\ g.got + Len(g.page) <= b.log /\ id = g.got + 1
      BY <1>1, <1>5, <3>3 DEF OfJob
    <3>5. id \in (g.got + 1)..b.printed
      BY <1>2, <1>5, <3>3, <3>4
    <3>6. (g.got + 1)..(id - 1) = {}
      BY <1>2, <3>4
    <3>7. QED
      BY <3>3, <3>4, <3>5, <3>6
  <2>3. QED
    BY <2>1, <2>2
<1>8. /\ FeedOf' = [FeedOf EXCEPT ![f] = h.of] /\ FeedGot' = [FeedGot EXCEPT ![f] = h.got]
      /\ FeedEvents' = [FeedEvents EXCEPT ![f] = h.events]
      /\ FeedTold' = [FeedTold EXCEPT ![f] = h.told] /\ UNCHANGED FeedSources
  BY <1>3, FollowerMoves
<1>9. FeedOf[f] = s /\ FeedGot[f] = g.got /\ FeedEvents[f] = g.events /\ FeedTold[f] = g.told
  BY DEF FeedOf, FeedGot, FeedEvents, FeedTold
<1> HIDE DEF s
<1>10. UNCHANGED <<FeedOf, FeedTold>>
  BY <1>4, <1>8, <1>9 DEF FeedOf, FeedTold, s
<1>11. FeedGot' = [FeedGot EXCEPT ![f] = id] /\ FeedEvents' = [FeedEvents EXCEPT ![f] = FeedEvents[f] + 1]
  BY <1>4, <1>8, <1>9
<1>12. Feed!Deliver(f, s)
  BY <1>7, <1>8, <1>9, <1>10, <1>11 DEF Feed!Deliver, Feed!sourceVars, FeedSources, FeedLines, FeedFirst,
     FeedEnding, FeedOf, FeedGot, FeedEvents, FeedTold
<1>13. QED
  BY <1>6, <1>12 DEF Feed!Next

\* The outcome is told behind the last line.
LEMMA TellFeeds ==
  ASSUME StreamInv, NEW f \in Followers, TellOutcome(f)
  PROVE  Feed!Next
<1> PICK g \in FollowerStates : g = follower[f]
  BY DEF StreamInv, Following, FollowerSound
<1>1. /\ FollowerSound(f) /\ g.at = "yield" /\ g.page = <<>> /\ Len(g.page) = 0 /\ g.got \in Nat
      /\ g.outcome # "none" /\ g.of \in Jobs \cup {Nobody, ThePort}
  BY DEF StreamInv, Following, FollowerSound, TellOutcome, FollowerStates
<1> PICK j \in Jobs : j = g.of
  BY <1>1 DEF FollowerSound, OfPort, Idle
<1> PICK b \in JobStates : b = job[j] /\ JobSound(b)
  BY DEF StreamInv, JobsSound
<1>2. j \in Sources /\ j # ThePort /\ b.log \in Nat
  BY DEF Sources, Jobs, ThePort, JobStates
<1> DEFINE h == [g EXCEPT !.told = g.outcome, !.at = "away"]
<1>3. follower' = [follower EXCEPT ![f] = h] /\ UNCHANGED <<job, rows>>
  BY DEF TellOutcome
<1>4. h.of = g.of /\ h.got = g.got /\ h.events = g.events /\ h.told = g.outcome
  BY DEF FollowerStates
<1> HIDE DEF h
<1>5. g.told = "none" /\ g.outcome = b.outcome /\ g.got = b.printed
  BY <1>1, <1>2 DEF FollowerSound, OfJob, JobSound
<1>6. /\ FeedOf' = [FeedOf EXCEPT ![f] = h.of] /\ FeedGot' = [FeedGot EXCEPT ![f] = h.got]
      /\ FeedEvents' = [FeedEvents EXCEPT ![f] = h.events]
      /\ FeedTold' = [FeedTold EXCEPT ![f] = h.told] /\ UNCHANGED FeedSources
  BY <1>3, FollowerMoves
<1>7. FeedOf[f] = j /\ FeedGot[f] = g.got /\ FeedEvents[f] = g.events /\ FeedTold[f] = g.told
  BY DEF FeedOf, FeedGot, FeedEvents, FeedTold
<1>8. FeedLines[j] = b.printed /\ FeedEnding[j] = b.outcome
  BY <1>2 DEF FeedLines, FeedEnding
<1>9. UNCHANGED <<FeedOf, FeedGot, FeedEvents>>
  <2>1. /\ FeedOf' = [FeedOf EXCEPT ![f] = FeedOf[f]] /\ FeedGot' = [FeedGot EXCEPT ![f] = FeedGot[f]]
        /\ FeedEvents' = [FeedEvents EXCEPT ![f] = FeedEvents[f]]
    BY <1>4, <1>6, <1>7
  <2>2. QED
    BY <2>1 DEF FeedOf, FeedGot, FeedEvents
<1>10. FeedTold' = [FeedTold EXCEPT ![f] = FeedEnding[j]]
  BY <1>4, <1>5, <1>6, <1>8
<1>11. FeedOf[f] = j /\ FeedTold[f] = "none" /\ FeedEnding[j] # "none" /\ FeedGot[f] = FeedLines[j]
  BY <1>1, <1>5, <1>7, <1>8
<1>12. Feed!Tell(f, j)
  BY <1>6, <1>9, <1>10, <1>11 DEF Feed!Tell, Feed!sourceVars, FeedSources, FeedLines, FeedFirst,
     FeedEnding, FeedOf, FeedGot, FeedEvents, FeedTold
<1>13. QED
  BY <1>2, <1>12 DEF Feed!Next

\* Reading, waiting and losing the connection are nothing to Feeds.
LEMMA QuietFeeds ==
  ASSUME StreamInv, NEW f \in Followers,
         ReadRows(f) \/ StreamBreaks(f) \/ \E j \in Jobs : ReadLog(f, j) \/ WaitForChange(f, j)
  PROVE  UNCHANGED Feed!feedVars
<1> PICK g \in FollowerStates : g = follower[f]
  BY DEF StreamInv, Following, FollowerSound
<1>1. UNCHANGED <<job, rows>>
  BY DEF ReadRows, StreamBreaks, ReadLog, WaitForChange
<1>2. \E h : /\ follower' = [follower EXCEPT ![f] = h]
             /\ h.of = g.of /\ h.got = g.got /\ h.events = g.events /\ h.told = g.told
  <2>1. CASE ReadRows(f)
    <3>1. \/ follower' = [follower EXCEPT ![f] = [g EXCEPT !.page = Page(g.sent), !.at = "yield"]]
          \/ follower' = [follower EXCEPT ![f] = [g EXCEPT !.at = "away"]]
      BY <2>1 DEF ReadRows
    <3>2. QED
      BY <3>1 DEF FollowerStates
  <2>2. CASE StreamBreaks(f)
    <3>1. PICK none : none = <<>>
      OBVIOUS
    <3> DEFINE h == [g EXCEPT !.at = "away", !.page = none]
    <3>2. follower' = [follower EXCEPT ![f] = h]
      BY <2>2, <3>1 DEF StreamBreaks
    <3>3. h.of = g.of /\ h.got = g.got /\ h.events = g.events /\ h.told = g.told
      BY DEF FollowerStates
    <3> HIDE DEF h
    <3>4. QED
      BY <3>2, <3>3
  <2>3. ASSUME NEW j \in Jobs, ReadLog(f, j)
        PROVE  \E h : /\ follower' = [follower EXCEPT ![f] = h]
                      /\ h.of = g.of /\ h.got = g.got /\ h.events = g.events /\ h.told = g.told
    <3>1. PICK page, outcome : page = Since(j, g.sent) /\ outcome = job[j].outcome
      OBVIOUS
    <3> DEFINE h == [g EXCEPT !.page = page, !.outcome = outcome, !.at = "yield"]
    <3>2. follower' = [follower EXCEPT ![f] = h]
      BY <2>3, <3>1 DEF ReadLog
    <3>3. h.of = g.of /\ h.got = g.got /\ h.events = g.events /\ h.told = g.told
      BY DEF FollowerStates
    <3> HIDE DEF h
    <3>4. QED
      BY <3>2, <3>3
  <2>4. ASSUME NEW j \in Jobs, WaitForChange(f, j)
        PROVE  \E h : /\ follower' = [follower EXCEPT ![f] = h]
                      /\ h.of = g.of /\ h.got = g.got /\ h.events = g.events /\ h.told = g.told
    <3>1. PICK revision : revision = job[j].revision
      OBVIOUS
    <3> DEFINE h == [g EXCEPT !.saw = revision, !.at = "read"]
    <3>2. follower' = [follower EXCEPT ![f] = h]
      BY <2>4, <3>1 DEF WaitForChange
    <3>3. h.of = g.of /\ h.got = g.got /\ h.events = g.events /\ h.told = g.told
      BY DEF FollowerStates
    <3> HIDE DEF h
    <3>4. QED
      BY <3>2, <3>3
  <2>5. QED
    BY <2>1, <2>2, <2>3, <2>4
<1>3. UNCHANGED <<FeedSources, FeedFollowers>>
  BY <1>1, <1>2, FollowerStays
<1>4. QED
  BY <1>3 DEF FeedSources, FeedFollowers, Feed!feedVars, Feed!sourceVars, FeedLines, FeedFirst,
     FeedEnding, FeedOf, FeedGot, FeedEvents, FeedTold

LEMMA StreamFeeds == StreamInv /\ [StreamNext]_streamVars => [Feed!Next]_(Feed!feedVars)
<1> SUFFICES ASSUME StreamInv, [StreamNext]_streamVars
             PROVE  Feed!Next \/ UNCHANGED Feed!feedVars
  OBVIOUS
<1>1. CASE RowStored \/ RowsTrimmed \/ PortToggles
  BY <1>1, RowsFeed
<1>2. ASSUME NEW j \in Jobs, EspFlash(j) \/ ToolPrints(j) \/ JobStep(j)
      PROVE  Feed!Next \/ UNCHANGED Feed!feedVars
  BY <1>2, JobFeeds
<1>3. ASSUME NEW f \in Followers,
             StreamStep(f) \/ FollowPort(f) \/ StreamBreaks(f) \/ \E j \in Jobs : FollowJob(f, j)
      PROVE  Feed!Next \/ UNCHANGED Feed!feedVars
  BY <1>3, YieldFeeds, TellFeeds, FollowFeeds, QuietFeeds DEF StreamStep
<1>4. CASE ListenerReplaced \/ UNCHANGED streamVars
  BY <1>4 DEF ListenerReplaced, streamVars, Feed!feedVars, Feed!sourceVars
<1>5. QED
  BY <1>1, <1>2, <1>3, <1>4 DEF StreamNext

\* Whatever tools, pumps, trims, broken connections and replaced listeners do, an
\* event stream is one of Feeds: each line once and in order, nothing passed over
\* that the source still has, and the outcome of the job behind its last line.
THEOREM StreamsImplementFeeds == StreamSpec => ImplementsFeeds
<1>1. StreamInit => Feed!Init
  <2> SUFFICES ASSUME StreamInit PROVE Feed!Init
    OBVIOUS
  <2>1. /\ \A j \in Jobs : job[j].printed = 0 /\ job[j].outcome = "none"
        /\ rows.first = 1 /\ rows.last = 0
    BY DEF StreamInit, NewJob
  <2>2. \A f \in Followers : /\ follower[f].of = Nobody /\ follower[f].got = 0
                             /\ follower[f].events = 0 /\ follower[f].told = "none"
    BY DEF StreamInit, NoFollower
  <2>3. QED
    BY <2>1, <2>2 DEF Feed!Init, Sources
<1>2. QED
  BY <1>1, StreamStarts, StreamKeeps, StreamFeeds, PTL DEF StreamSpec, ImplementsFeeds, Feed!Spec
=============================================================================
