----------------------------- MODULE DaemonProofs -----------------------------
(***************************************************************************)
(* Proofs about the parts of a daemon that MC_Daemon puts side by side:    *)
(* Ports, for every finite set of ports, any clients and any values of the *)
(* settings, and Lifecycle, for any holders, periods and times.            *)
(***************************************************************************)
EXTENDS MC_Daemon, FiniteSetTheorems, SequenceTheorems, TLAPS

\* A handler that opens or sets a configuration carries one.
Carries ==
  \A c \in Client :
    pc[c] \in {"open.serial", "open.remember", "reconfigure.set", "reconfigure.remember"}
      => config[c] \in Config

Typed == TypeOK /\ Carries

\* What the handlers make of configurations.
LEMMA ConfigTypes ==
  /\ NoConfig \in Change /\ FromFile \in Config
  /\ \A base \in Config, change \in Change : Merge(base, change) \in Config
  /\ \A p \in Port, cfg \in Config : NewHandle(p, cfg) \in Handle
<1>1. NoConfig \in Change
  <2>1. NoConfig \in [{} -> Value]
    BY DEF NoConfig
  <2>2. QED
    BY <2>1 DEF Change
<1>2. FromFile \in Config
  BY PortsAssumption DEF PortsAssumption, FromFile, Config
<1>3. ASSUME NEW base \in Config, NEW change \in Change PROVE Merge(base, change) \in Config
  <2>1. PICK S \in SUBSET Setting : change \in [S -> Value]
    BY DEF Change
  <2>2. \A s \in Setting : (IF s \in DOMAIN change THEN change[s] ELSE base[s]) \in Value
    BY <2>1 DEF Config
  <2>3. QED
    BY <2>2 DEF Merge, Config
<1>4. ASSUME NEW p \in Port, NEW cfg \in Config PROVE NewHandle(p, cfg) \in Handle
  BY DEF NewHandle, Handle
<1>5. QED
  BY <1>1, <1>2, <1>3, <1>4

\* A request there is.
LEMMA RequestExists == Request # {}
<1>1. PICK p \in Port, k \in Kinds : TRUE
  BY PortsAssumption DEF PortsAssumption
<1>2. [kind |-> k, port |-> p, change |-> NoConfig, valid |-> TRUE] \in Request
  BY <1>1, ConfigTypes DEF Request
<1>3. QED
  BY <1>2

\* Only fields of handles change: the table keeps its shape.
LEMMA HandlesKept ==
  ASSUME TypeOK, NEW h, NEW new, h \in HandleIds => new \in Handle,
         handles' = [handles EXCEPT ![h] = new]
  PROVE  handles' \in Seq(Handle) /\ Len(handles') = Len(handles)
<1>1. handles \in Seq(Handle)
  BY DEF TypeOK
<1>2. CASE h \in HandleIds
  BY <1>1, <1>2, ExceptSeq DEF HandleIds
<1>3. CASE h \notin HandleIds
  <2>1. handles' = handles
    BY <1>1, <1>3 DEF HandleIds
  <2>2. QED
    BY <1>1, <2>1
<1>4. QED
  BY <1>2, <1>3

-----------------------------------------------------------------------------
(* What the steps the handlers share do to the variables of the clients. *)

Carrying == {"open.serial", "open.remember", "reconfigure.set", "reconfigure.remember"}

LEMMA Went ==
  ASSUME Typed, NEW c \in Client, NEW place \in ClientPc, Goto(c, place),
         config' \in [Client -> Config \cup {NoConfig}],
         \A d \in Client \ {c} : config'[d] = config[d],
         place \in Carrying => config'[c] \in Config
  PROVE  pc' \in [Client -> ClientPc] /\ Carries'
<1>1. pc \in [Client -> ClientPc]
  BY DEF Typed, TypeOK
<1>2. pc' \in [Client -> ClientPc] /\ pc'[c] = place
  BY <1>1 DEF Goto
<1>3. ASSUME NEW d \in Client, pc'[d] \in Carrying PROVE config'[d] \in Config
  <2>1. CASE d = c
    BY <1>2, <1>3, <2>1
  <2>2. CASE d # c
    BY <1>1, <1>3, <2>2 DEF Goto, Typed, Carries, Carrying
  <2>3. QED
    BY <2>1, <2>2
<1>4. QED
  BY <1>2, <1>3 DEF Carries, Carrying

LEMMA Replied ==
  ASSUME Typed, NEW c \in Client, NEW what \in Answer, Reply(c, what),
         Len(handles') \in Nat, Len(handles') >= Len(handles)
  PROVE  /\ pc' \in [Client -> ClientPc] /\ Carries'
         /\ answer' \in [Client -> Answer]
         /\ config' \in [Client -> Config \cup {NoConfig}]
         /\ using' \in [Client -> 0 .. Len(handles')]
<1>1. /\ config \in [Client -> Config \cup {NoConfig}]
      /\ answer \in [Client -> Answer]
      /\ using \in [Client -> 0 .. Len(handles)]
      /\ Len(handles) \in Nat
  BY LenProperties DEF Typed, TypeOK
<1>2. config' \in [Client -> Config \cup {NoConfig}] /\ answer' \in [Client -> Answer]
  BY <1>1 DEF Reply
<1>3. using' \in [Client -> 0 .. Len(handles')]
  BY <1>1 DEF Reply
<1>4. \A d \in Client \ {c} : config'[d] = config[d]
  BY <1>1 DEF Reply
<1>5. Goto(c, "idle")
  BY DEF Reply, Goto
<1>6. "idle" \in ClientPc /\ "idle" \notin Carrying
  BY DEF ClientPc, Carrying
<1>7. pc' \in [Client -> ClientPc] /\ Carries'
  BY <1>2, <1>4, <1>5, <1>6, Went
<1>8. QED
  BY <1>2, <1>3, <1>7

-----------------------------------------------------------------------------
(* What a step does to the handles and to the table. *)

\* The table knows a handle under its own port.
TablePorts == \A p \in Port : Managed(p) => handles[current[p]].port = p

Readers == OneReader /\ TablePorts

\* The handles and the table have their types.
Tables ==
  /\ handles \in Seq(Handle) /\ Len(handles) <= MaxOpens
  /\ current \in [Port -> 0 .. Len(handles)]

\* A step that leaves ports, readers and the table alone.
LEMMA ReadersKept ==
  ASSUME Typed, Readers, current' = current,
         handles' \in Seq(Handle), Len(handles') = Len(handles),
         \A h \in HandleIds : /\ handles'[h].port = handles[h].port
                              /\ handles'[h].reader = "running" <=> handles[h].reader = "running"
  PROVE  Tables' /\ Readers'
<1>1. HandleIds' = HandleIds
  BY DEF HandleIds
<1>2. Tables'
  BY DEF Typed, TypeOK, Tables
<1>3. OneReader'
  BY <1>1 DEF Readers, OneReader
<1>4. \A p \in Port : current[p] # 0 => current[p] \in HandleIds
  BY LenProperties DEF Typed, TypeOK, HandleIds
<1>5. TablePorts'
  BY <1>4 DEF Readers, TablePorts, Managed
<1>6. QED
  BY <1>2, <1>3, <1>5 DEF Readers

LEMMA PortOfHandle ==
  ASSUME TypeOK, NEW h \in HandleIds
  PROVE  handles[h] \in Handle /\ handles[h].port \in Port
<1>1. handles[h] \in Handle
  BY ElementOfSeq DEF TypeOK, HandleIds
<1>2. QED
  BY <1>1 DEF Handle

\* Signalling the reader of a managed port and taking the port off the table.
LEMMA Released ==
  ASSUME Typed, Readers, NEW p \in Port, Managed(p), Release(p)
  PROVE  Tables' /\ Readers' /\ Len(handles') = Len(handles)
<1> DEFINE h == current[p]
           new == [handles[h] EXCEPT !.reader = "stopping"]
<1>1. h \in HandleIds /\ Len(handles) \in Nat
  BY LenProperties DEF Typed, TypeOK, HandleIds, Managed
<1>2. handles[h] \in Handle
  BY <1>1, ElementOfSeq DEF Typed, TypeOK, HandleIds
<1>3. new \in Handle
  BY <1>2 DEF Handle
<1>4. handles' = [handles EXCEPT ![h] = new]
  BY DEF Release
<1>5. handles' \in Seq(Handle) /\ Len(handles') = Len(handles)
  BY <1>3, <1>4, HandlesKept DEF Typed
<1>6. current' = [current EXCEPT ![p] = 0]
  BY DEF Release
<1>7. current' \in [Port -> 0 .. Len(handles')] /\ Len(handles) <= MaxOpens
  BY <1>1, <1>5, <1>6 DEF Typed, TypeOK
<1>8. Tables'
  BY <1>5, <1>7 DEF Tables, Typed, TypeOK
<1>9. HandleIds' = HandleIds
  BY <1>5 DEF HandleIds
<1>10. \A g \in HandleIds : handles'[g] = IF g = h THEN new ELSE handles[g]
  BY <1>4, LenProperties DEF Typed, TypeOK, HandleIds
<1>11. handles[h].port = p
  BY DEF Readers, TablePorts
<1>12. \A g \in HandleIds : handles[g].port \in Port
  BY PortOfHandle DEF Typed
<1>13. new.port = p /\ new.reader = "stopping"
  BY <1>2, <1>11 DEF Handle
<1>14. OneReader'
  <2>1. ASSUME NEW g \in HandleIds
        PROVE  handles'[g].reader = "running" <=> current'[handles'[g].port] = g
    <3>1. CASE g = h
      <4>1. handles'[g] = new
        BY <1>10, <3>1
      <4>2. current'[p] = 0
        BY <1>6 DEF Typed, TypeOK
      <4>3. g # 0
        BY <1>1 DEF HandleIds
      <4>4. handles'[g].port = p /\ handles'[g].reader # "running"
        BY <1>13, <4>1
      <4>5. QED
        BY <4>2, <4>3, <4>4
    <3>2. CASE g # h /\ handles[g].port = p
      BY <1>6, <1>10, <3>2 DEF Readers, OneReader, Typed, TypeOK, HandleIds
    <3>3. CASE g # h /\ handles[g].port # p
      BY <1>6, <1>10, <1>12, <3>3 DEF Readers, OneReader, Typed, TypeOK
    <3>4. QED
      BY <3>1, <3>2, <3>3
  <2>2. QED
    BY <1>9, <2>1 DEF OneReader
<1>15. TablePorts'
  <2>1. ASSUME NEW q \in Port, current'[q] # 0 PROVE handles'[current'[q]].port = q
    <3>1. q # p /\ current'[q] = current[q] /\ current[q] \in HandleIds
      BY <1>6, <1>1, <2>1 DEF Typed, TypeOK, HandleIds
    <3>2. handles[current[q]].port = q
      BY <2>1, <3>1 DEF Readers, TablePorts, Managed
    <3>3. QED
      BY <1>10, <1>11, <3>1, <3>2
  <2>2. QED
    BY <2>1 DEF TablePorts, Managed
<1>16. QED
  BY <1>5, <1>8, <1>14, <1>15 DEF Readers

\* A new handle for a port the table does not know.
LEMMA Opened ==
  ASSUME Typed, Readers, NEW p \in Port, NEW cfg \in Config, ~Managed(p),
         Len(handles) < MaxOpens, OpenReal(p, cfg)
  PROVE  /\ Tables' /\ Readers' /\ Len(handles') = Len(handles) + 1
         /\ inForce' \in [Port -> SUBSET Config] /\ wanted' \in [Port -> Config]
<1> DEFINE n == Len(handles) + 1
           new == NewHandle(p, cfg)
<1>1. handles \in Seq(Handle) /\ Len(handles) \in Nat /\ current \in [Port -> 0 .. Len(handles)]
  BY LenProperties DEF Typed, TypeOK
<1>2. new \in Handle /\ new.port = p /\ new.reader = "running"
  BY ConfigTypes DEF NewHandle
<1>3. handles' = Append(handles, new) /\ current' = [current EXCEPT ![p] = n]
  BY DEF OpenReal
<1>4. /\ handles' \in Seq(Handle) /\ Len(handles') = n
      /\ handles'[n] = new /\ \A g \in HandleIds : handles'[g] = handles[g]
  BY <1>1, <1>2, <1>3, AppendProperties DEF HandleIds
<1>5. Tables'
  BY <1>1, <1>3, <1>4, PortsAssumption DEF Tables, PortsAssumption
<1>6. HandleIds' = HandleIds \cup {n}
  BY <1>1, <1>4 DEF HandleIds
<1>7. \A g \in HandleIds : handles[g].port \in Port
  BY PortOfHandle DEF Typed
<1>8. OneReader'
  <2>1. ASSUME NEW g \in HandleIds
        PROVE  handles'[g].reader = "running" <=> current'[handles'[g].port] = g
    <3>1. CASE handles[g].port = p
      BY <1>1, <1>3, <1>4, <3>1 DEF Readers, OneReader, Managed, HandleIds
    <3>2. CASE handles[g].port # p
      BY <1>1, <1>3, <1>4, <1>7, <3>2 DEF Readers, OneReader
    <3>3. QED
      BY <3>1, <3>2
  <2>2. handles'[n].reader = "running" /\ current'[handles'[n].port] = n
    BY <1>1, <1>2, <1>3, <1>4
  <2>3. QED
    BY <1>6, <2>1, <2>2 DEF OneReader
<1>9. TablePorts'
  <2>1. ASSUME NEW q \in Port, current'[q] # 0 PROVE handles'[current'[q]].port = q
    <3>1. CASE q = p
      BY <1>1, <1>2, <1>3, <1>4, <3>1
    <3>2. CASE q # p
      <4>1. current'[q] = current[q] /\ current[q] \in HandleIds
        BY <1>1, <1>3, <2>1, <3>2 DEF HandleIds
      <4>2. QED
        BY <1>4, <2>1, <4>1 DEF Readers, TablePorts, Managed
    <3>3. QED
      BY <3>1, <3>2
  <2>2. QED
    BY <2>1 DEF TablePorts, Managed
<1>10. inForce' \in [Port -> SUBSET Config] /\ wanted' \in [Port -> Config]
  BY DEF OpenReal, Typed, TypeOK
<1>11. QED
  BY <1>4, <1>5, <1>8, <1>9, <1>10 DEF Readers

-----------------------------------------------------------------------------
(* The invariant, in the parts an action disturbs together. *)

Clients ==
  /\ pc \in [Client -> ClientPc] /\ Carries
  /\ config \in [Client -> Config \cup {NoConfig}]
  /\ using \in [Client -> 0 .. Len(handles)]
  /\ answer \in [Client -> Answer]

Others ==
  /\ actor \in Client \cup {None}
  /\ recorded \in [Port -> Config \cup {NoConfig}]
  /\ plugged \in [Port -> BOOLEAN]
  /\ request \in [Client -> Request]
  /\ inForce \in [Port -> SUBSET Config]
  /\ wanted \in [Port -> Config]
  /\ excused \in SUBSET Port /\ unsaved \in SUBSET Port
  /\ requests \in Nat /\ unplugs \in Nat /\ restarts \in Nat

Inv == Typed /\ Readers

LEMMA Parts ==
  /\ Typed <=> Tables /\ Clients /\ Others
  /\ Typed' <=> Tables' /\ Clients' /\ Others'
  BY DEF Typed, TypeOK, Tables, Clients, Others

LEMMA SameTables ==
  ASSUME Inv, UNCHANGED <<handles, current>>
  PROVE  Tables' /\ Readers' /\ Len(handles') = Len(handles)
<1>1. handles' \in Seq(Handle)
  BY DEF Inv, Typed, TypeOK
<1>2. QED
  BY <1>1, ReadersKept DEF Inv

\* A step that changes one handle, neither its port nor whether it runs.
LEMMA HandleSet ==
  ASSUME Inv, current' = current, NEW h, NEW new,
         handles' = [handles EXCEPT ![h] = new],
         h \in HandleIds => /\ new \in Handle /\ new.port = handles[h].port
                            /\ new.reader = "running" <=> handles[h].reader = "running"
  PROVE  Tables' /\ Readers' /\ Len(handles') = Len(handles)
<1>1. handles' \in Seq(Handle) /\ Len(handles') = Len(handles)
  BY HandlesKept DEF Inv, Typed
<1>2. ASSUME NEW g \in HandleIds
      PROVE  /\ handles'[g].port = handles[g].port
             /\ handles'[g].reader = "running" <=> handles[g].reader = "running"
  <2>1. CASE g = h
    <3>1. handles'[g] = new
      BY <2>1, LenProperties DEF HandleIds, Inv, Typed, TypeOK
    <3>2. QED
      BY <2>1, <3>1
  <2>2. CASE g # h
    <3>1. handles'[g] = handles[g]
      BY <2>2, LenProperties DEF HandleIds, Inv, Typed, TypeOK
    <3>2. QED
      BY <3>1
  <2>3. QED
    BY <2>1, <2>2
<1>3. QED
  BY <1>1, <1>2, ReadersKept DEF Inv

\* What a request is about.
LEMMA RequestTypes ==
  ASSUME Typed, NEW c \in Client
  PROVE  /\ request[c].port \in Port /\ request[c].change \in Change
         /\ request[c].kind \in RequestKind /\ Len(handles) \in Nat
<1>1. request[c] \in Request
  BY DEF Typed, TypeOK
<1>2. QED
  BY <1>1, LenProperties, PortsAssumption DEF Request, PortsAssumption, Typed, TypeOK

\* The configuration of the table.
LEMMA TableTypes ==
  ASSUME Typed, NEW p \in Port, Managed(p)
  PROVE  current[p] \in HandleIds /\ handles[current[p]] \in Handle /\ TableConfig(p) \in Config
<1>1. current[p] \in HandleIds
  BY LenProperties DEF Typed, TypeOK, HandleIds, Managed
<1>2. handles[current[p]] \in Handle
  BY <1>1, PortOfHandle DEF Typed
<1>3. QED
  BY <1>1, <1>2 DEF TableConfig, Handle

\* A handler that answers, the table as it was.
LEMMA ReplyKeeps ==
  ASSUME Inv, NEW c \in Client, NEW what \in Answer, Reply(c, what), Others',
         Tables', Readers', Len(handles') = Len(handles)
  PROVE  Inv'
<1>1. Len(handles') \in Nat /\ Len(handles') >= Len(handles)
  BY LenProperties DEF Tables
<1>2. Clients'
  BY <1>1, Replied DEF Inv, Clients
<1>3. QED
  BY <1>2, Parts DEF Inv

\* A handler that goes on, with the configuration it has or a new one.
LEMMA GotoKeeps ==
  ASSUME Inv, NEW c \in Client, NEW place \in ClientPc, Goto(c, place), Others',
         Tables', Readers', Len(handles') = Len(handles),
         config' \in [Client -> Config \cup {NoConfig}],
         \A d \in Client \ {c} : config'[d] = config[d],
         place \in Carrying => config'[c] \in Config,
         using' \in [Client -> 0 .. Len(handles)], answer' \in [Client -> Answer]
  PROVE  Inv'
<1>1. Clients'
  BY Went DEF Inv, Clients, Typed, TypeOK
<1>2. QED
  BY <1>1, Parts DEF Inv

LEMMA OthersKept ==
  ASSUME Inv, UNCHANGED <<actor, recorded, plugged, request, historyVars, boundVars>>
  PROVE  Others'
  BY DEF Inv, Typed, TypeOK, Others, historyVars, boundVars

-----------------------------------------------------------------------------
(* One lemma for each action. *)

LEMMA AskKeeps == ASSUME Inv, NEW c \in Client, Ask(c) PROVE Inv'
<1>1. Tables' /\ Readers' /\ Len(handles') = Len(handles)
  BY SameTables DEF Ask
<1>2. PICK r \in Request : Goto(c, r.kind) /\ request' = [request EXCEPT ![c] = r]
                          /\ excused' \in {excused, excused \cup {r.port}}
  BY DEF Ask
<1>3. r.port \in Port /\ r.kind \in ClientPc /\ r.kind \notin Carrying
  BY PortsAssumption DEF Request, PortsAssumption, RequestKind, ClientPc, Carrying
<1>4. Others'
  BY <1>2, <1>3 DEF Ask, Inv, Typed, TypeOK, Others
<1>5. config' = config /\ using' = using /\ answer' \in [Client -> Answer]
  BY DEF Ask, Answer, Inv, Typed, TypeOK
<1>6. QED
  BY <1>1, <1>2, <1>3, <1>4, <1>5, GotoKeeps DEF Inv, Typed, TypeOK

LEMMA OpenPortKeeps == ASSUME Inv, NEW c \in Client, OpenPort(c) PROVE Inv'
<1> DEFINE r == request[c]
<1>1. Tables' /\ Readers' /\ Len(handles') = Len(handles)
  BY SameTables DEF OpenPort
<1>2. Others'
  BY OthersKept DEF OpenPort
<1>3. CASE Managed(r.port)
  <2>1. Goto(c, "reconfigure.get") /\ UNCHANGED <<config, using, answer>>
    BY <1>3 DEF OpenPort
  <2>2. "reconfigure.get" \in ClientPc \ Carrying
    BY DEF ClientPc, Carrying
  <2>3. answer' \in [Client -> Answer]
    BY <2>1 DEF Inv, Typed, TypeOK
  <2>4. QED
    BY <1>1, <1>2, <2>1, <2>2, <2>3, GotoKeeps DEF Inv, Typed, TypeOK
<1>4. CASE ~Managed(r.port) /\ r.valid
  <2> DEFINE cfg == Merge(FromFile, r.change)
  <2>1. Goto(c, "open.serial") /\ config' = [config EXCEPT ![c] = cfg] /\ UNCHANGED <<using, answer>>
    BY <1>4 DEF OpenPort
  <2>2. cfg \in Config /\ "open.serial" \in ClientPc
    BY ConfigTypes, RequestTypes DEF Inv, ClientPc
  <2>3. /\ config' \in [Client -> Config \cup {NoConfig}] /\ config'[c] \in Config
        /\ \A d \in Client \ {c} : config'[d] = config[d]
    BY <2>1, <2>2 DEF Inv, Typed, TypeOK
  <2>4. using' \in [Client -> 0 .. Len(handles)] /\ answer' \in [Client -> Answer]
    BY <2>1 DEF Inv, Typed, TypeOK
  <2>5. QED
    BY <1>1, <1>2, <2>1, <2>2, <2>3, <2>4, GotoKeeps
<1>5. CASE ~Managed(r.port) /\ ~r.valid
  <2>1. Reply(c, "Invalid") /\ "Invalid" \in Answer
    BY <1>5 DEF OpenPort, Answer
  <2>2. QED
    BY <1>1, <1>2, <2>1, ReplyKeeps
<1>6. QED
  BY <1>3, <1>4, <1>5

LEMMA OpenSerialKeeps == ASSUME Inv, NEW c \in Client, OpenSerial(c) PROVE Inv'
<1> DEFINE p == request[c].port
<1>1. CASE UNCHANGED <<handles, current, inForce, wanted>>
  <2>1. Tables' /\ Readers' /\ Len(handles') = Len(handles)
    BY <1>1, SameTables
  <2>2. Others'
    BY <1>1, OthersKept DEF OpenSerial, historyVars
  <2>3. CASE \E what \in Answer : Reply(c, what)
    BY <2>1, <2>2, <2>3, ReplyKeeps
  <2>4. CASE OpenReal(p, config[c])
    <3>1. Len(handles') = Len(handles) + 1
      BY <2>4, AppendProperties, ConfigTypes, RequestTypes, <1>1 DEF OpenReal, Inv, Typed, TypeOK, OpenSerial, Carries
    <3>2. QED
      BY <2>1, <3>1, RequestTypes DEF Inv
  <2>5. "AlreadyManaged" \in Answer /\ "Serial" \in Answer
    BY DEF Answer
  <2>6. QED
    BY <2>3, <2>4, <2>5 DEF OpenSerial
<1>2. CASE /\ ~Refused(p) /\ Len(handles) < MaxOpens /\ OpenReal(p, config[c])
           /\ Goto(c, "open.remember") /\ UNCHANGED <<config, using, answer>>
  <2>1. config[c] \in Config /\ p \in Port /\ Len(handles) \in Nat
    BY RequestTypes DEF OpenSerial, Inv, Typed, Carries
  <2>2. /\ Tables' /\ Readers' /\ Len(handles') = Len(handles) + 1
        /\ inForce' \in [Port -> SUBSET Config] /\ wanted' \in [Port -> Config]
    BY <1>2, <2>1, Opened DEF Inv, Refused
  <2>3. Others'
    BY <2>2 DEF OpenSerial, boundVars, Inv, Typed, TypeOK, Others
  <2>4. "open.remember" \in ClientPc
    BY DEF ClientPc
  <2>5. pc' \in [Client -> ClientPc] /\ Carries'
    BY <1>2, <2>1, <2>4, Went DEF Inv, Typed, TypeOK
  <2>6. using' \in [Client -> 0 .. Len(handles')]
    BY <1>2, <2>1, <2>2 DEF Inv, Typed, TypeOK
  <2>7. Clients'
    BY <1>2, <2>5, <2>6 DEF Clients, Inv, Typed, TypeOK
  <2>8. QED
    BY <2>2, <2>3, <2>7, Parts DEF Inv
<1>3. QED
  BY <1>1, <1>2 DEF OpenSerial

LEMMA RememberKeeps == ASSUME Inv, NEW c \in Client, Remember(c) PROVE Inv'
<1>1. Tables' /\ Readers' /\ Len(handles') = Len(handles)
  BY SameTables DEF Remember
<1>2. config[c] \in Config
  BY DEF Remember, Inv, Typed, Carries
<1>3. Others'
  BY <1>2, RequestTypes DEF Remember, Save, boundVars, Inv, Typed, TypeOK, Others
<1>4. Reply(c, "ok") /\ "ok" \in Answer
  BY DEF Remember, Answer
<1>5. QED
  BY <1>1, <1>3, <1>4, ReplyKeeps

LEMMA ReconfigureGetKeeps == ASSUME Inv, NEW c \in Client, ReconfigureGet(c) PROVE Inv'
<1> DEFINE r == request[c]
<1>1. Tables' /\ Readers' /\ Len(handles') = Len(handles)
  BY SameTables DEF ReconfigureGet
<1>2. Others'
  BY OthersKept DEF ReconfigureGet
<1>3. CASE ~Managed(r.port) \/ ~r.valid
  <2>1. \E what \in {"NotOpen", "Invalid"} : Reply(c, what)
    BY <1>3 DEF ReconfigureGet
  <2>2. {"NotOpen", "Invalid"} \subseteq Answer
    BY DEF Answer
  <2>3. QED
    BY <1>1, <1>2, <2>1, <2>2, ReplyKeeps
<1>4. CASE Managed(r.port) /\ r.valid
  <2> DEFINE cfg == Merge(TableConfig(r.port), r.change)
  <2>1. Goto(c, "reconfigure.set") /\ config' = [config EXCEPT ![c] = cfg] /\ UNCHANGED <<using, answer>>
    BY <1>4 DEF ReconfigureGet, Base
  <2>2. cfg \in Config /\ "reconfigure.set" \in ClientPc
    BY <1>4, ConfigTypes, RequestTypes, TableTypes DEF Inv, ClientPc
  <2>3. /\ config' \in [Client -> Config \cup {NoConfig}] /\ config'[c] \in Config
        /\ \A d \in Client \ {c} : config'[d] = config[d]
    BY <2>1, <2>2 DEF Inv, Typed, TypeOK
  <2>4. using' \in [Client -> 0 .. Len(handles)] /\ answer' \in [Client -> Answer]
    BY <2>1 DEF Inv, Typed, TypeOK
  <2>5. QED
    BY <1>1, <1>2, <2>1, <2>2, <2>3, <2>4, GotoKeeps
<1>5. QED
  BY <1>3, <1>4

LEMMA ActorWaitsKeeps == ASSUME Inv, NEW c \in Client, ActorWaits(c) PROVE Inv'
<1> DEFINE p == request[c].port
<1>1. Tables' /\ Readers' /\ Len(handles') = Len(handles)
  BY SameTables DEF ActorWaits
<1>2. Others'
  BY DEF ActorWaits, historyVars, boundVars, Inv, Typed, TypeOK, Others
<1>3. CASE Managed(p)
  <2>1. using' = [using EXCEPT ![c] = current[p]] /\ UNCHANGED <<pc, answer, config>>
    BY <1>3 DEF ActorWaits
  <2>2. current[p] \in 0 .. Len(handles)
    BY RequestTypes DEF Inv, Typed, TypeOK
  <2>3. using' \in [Client -> 0 .. Len(handles')]
    BY <1>1, <2>1, <2>2 DEF Inv, Typed, TypeOK
  <2>4. Clients'
    BY <2>1, <2>3 DEF Clients, Inv, Typed, TypeOK, Carries
  <2>5. QED
    BY <1>1, <1>2, <2>4, Parts DEF Inv
<1>4. CASE ~Managed(p)
  <2>1. Reply(c, "NotOpen") /\ "NotOpen" \in Answer
    BY <1>4 DEF ActorWaits, Answer
  <2>2. QED
    BY <1>1, <1>2, <2>1, ReplyKeeps
<1>5. QED
  BY <1>3, <1>4

LEMMA ReconfigureSetKeeps == ASSUME Inv, NEW c \in Client, ReconfigureSet(c) PROVE Inv'
<1> DEFINE h == using[c]
           p == request[c].port
           ok == handles[h].linked
           new == Reconfigured(h, config[c], ok)
<1>1. config[c] \in Config /\ p \in Port /\ request[c].change \in Change
  BY RequestTypes DEF ReconfigureSet, Inv, Typed, Carries
<1>2. ASSUME h \in HandleIds
      PROVE  new \in Handle /\ new.port = handles[h].port /\ new.reader = handles[h].reader
  <2>1. handles[h] \in Handle
    BY <1>2, PortOfHandle DEF Inv, Typed
  <2>2. QED
    BY <1>1, <2>1 DEF Reconfigured, Handle
<1>3. handles' = [handles EXCEPT ![h] = new] /\ current' = current
  BY DEF ReconfigureSet
<1>4. Tables' /\ Readers' /\ Len(handles') = Len(handles)
  BY <1>2, <1>3, HandleSet
<1>5. inForce' \in [Port -> SUBSET Config] /\ wanted' \in [Port -> Config]
  <2>1. wanted[p] \in Config
    BY <1>1 DEF Inv, Typed, TypeOK
  <2>2. Merge(wanted[p], request[c].change) \in Config
    BY <1>1, <2>1, ConfigTypes
  <2>3. \/ UNCHANGED <<inForce, wanted>>
        \/ /\ inForce' = [inForce EXCEPT ![p] = @ \cup {config[c]}]
           /\ wanted' = [wanted EXCEPT ![p] = Merge(@, request[c].change)]
    BY DEF ReconfigureSet
  <2>4. inForce \in [Port -> SUBSET Config] /\ wanted \in [Port -> Config]
    BY DEF Inv, Typed, TypeOK
  <2>5. inForce[p] \cup {config[c]} \in SUBSET Config
    BY <1>1, <2>4
  <2>6. QED
    BY <1>1, <2>2, <2>3, <2>4, <2>5
<1>6. Others'
  BY <1>5 DEF ReconfigureSet, boundVars, Inv, Typed, TypeOK, Others
<1>7. CASE ok
  <2>1. /\ Goto(c, "reconfigure.remember") /\ using' = [using EXCEPT ![c] = 0]
        /\ UNCHANGED <<answer, config>>
    BY <1>7 DEF ReconfigureSet
  <2>2. using' \in [Client -> 0 .. Len(handles)] /\ "reconfigure.remember" \in ClientPc
    BY <2>1, RequestTypes DEF Inv, Typed, TypeOK, ClientPc
  <2>3. QED
    BY <1>1, <1>4, <1>6, <2>1, <2>2, GotoKeeps DEF Inv, Typed, TypeOK
<1>8. CASE ~ok
  <2>1. Reply(c, "Serial") /\ "Serial" \in Answer
    BY <1>8 DEF ReconfigureSet, Answer
  <2>2. QED
    BY <1>4, <1>6, <2>1, ReplyKeeps
<1>9. QED
  BY <1>7, <1>8

LEMMA WriteKeeps == ASSUME Inv, NEW c \in Client, Write(c) PROVE Inv'
<1>1. Tables' /\ Readers' /\ Len(handles') = Len(handles)
  BY SameTables DEF Write
<1>2. Others'
  BY DEF Write, historyVars, boundVars, Inv, Typed, TypeOK, Others
<1>3. \E what \in Answer : Reply(c, what)
  BY DEF Write, Answer
<1>4. QED
  BY <1>1, <1>2, <1>3, ReplyKeeps

LEMMA ClosePortKeeps == ASSUME Inv, NEW c \in Client, ClosePort(c) PROVE Inv'
<1> DEFINE p == request[c].port
<1>1. Others'
  BY OthersKept DEF ClosePort
<1>2. CASE Managed(p)
  <2>1. Release(p) /\ Goto(c, "close.forget") /\ UNCHANGED <<config, using, answer>>
    BY <1>2 DEF ClosePort
  <2>2. Tables' /\ Readers' /\ Len(handles') = Len(handles)
    BY <1>2, <2>1, Released, RequestTypes DEF Inv
  <2>3. "close.forget" \in ClientPc \ Carrying
    BY DEF ClientPc, Carrying
  <2>4. QED
    BY <1>1, <2>1, <2>2, <2>3, GotoKeeps DEF Inv, Typed, TypeOK
<1>3. CASE ~Managed(p)
  <2>1. Reply(c, "NotOpen") /\ UNCHANGED <<handles, current>> /\ "NotOpen" \in Answer
    BY <1>3 DEF ClosePort, Answer
  <2>2. QED
    BY <1>1, <2>1, SameTables, ReplyKeeps
<1>4. QED
  BY <1>2, <1>3

LEMMA CloseForgetKeeps == ASSUME Inv, NEW c \in Client, CloseForget(c) PROVE Inv'
<1>1. Tables' /\ Readers' /\ Len(handles') = Len(handles)
  BY SameTables DEF CloseForget
<1>2. Others'
  BY RequestTypes DEF CloseForget, Save, Forgotten, boundVars, Inv, Typed, TypeOK, Others
<1>3. Reply(c, "ok") /\ "ok" \in Answer
  BY DEF CloseForget, Answer
<1>4. QED
  BY <1>1, <1>2, <1>3, ReplyKeeps

LEMMA TransferStartKeeps == ASSUME Inv, NEW c \in Client, TransferStart(c) PROVE Inv'
<1> DEFINE p == request[c].port
<1>1. Tables' /\ Readers' /\ Len(handles') = Len(handles)
  BY SameTables DEF TransferStart
<1>2. Others'
  BY OthersKept DEF TransferStart
<1>3. CASE Managed(p)
  <2>1. /\ using' = [using EXCEPT ![c] = current[p]]
        /\ Goto(c, "transfer.lock") /\ UNCHANGED <<config, answer>>
    BY <1>3 DEF TransferStart
  <2>2. current[p] \in 0 .. Len(handles)
    BY RequestTypes DEF Inv, Typed, TypeOK
  <2>3. using' \in [Client -> 0 .. Len(handles)]
    BY <2>1, <2>2 DEF Inv, Typed, TypeOK
  <2>4. "transfer.lock" \in ClientPc \ Carrying
    BY DEF ClientPc, Carrying
  <2>5. QED
    BY <1>1, <1>2, <2>1, <2>3, <2>4, GotoKeeps DEF Inv, Typed, TypeOK
<1>4. CASE ~Managed(p)
  <2>1. Reply(c, "NotOpen") /\ "NotOpen" \in Answer
    BY <1>4 DEF TransferStart, Answer
  <2>2. QED
    BY <1>1, <1>2, <2>1, ReplyKeeps
<1>5. QED
  BY <1>3, <1>4

\* Taking and letting go of the mutex leave the rest of the handle.
LEMMA HolderSet ==
  ASSUME Inv, NEW h, NEW who \in Client \cup {None}, current' = current,
         handles' = [handles EXCEPT ![h].holder = who]
  PROVE  Tables' /\ Readers' /\ Len(handles') = Len(handles)
<1> DEFINE new == [handles[h] EXCEPT !.holder = who]
<1>1. ASSUME h \in HandleIds
      PROVE  new \in Handle /\ new.port = handles[h].port /\ new.reader = handles[h].reader
  <2>1. handles[h] \in Handle
    BY <1>1, PortOfHandle DEF Inv, Typed
  <2>2. QED
    BY <2>1 DEF Handle
<1>2. handles' = [handles EXCEPT ![h] = new]
  OBVIOUS
<1>3. QED
  BY <1>1, <1>2, HandleSet

LEMMA TransferLockKeeps == ASSUME Inv, NEW c \in Client, TransferLock(c) PROVE Inv'
<1>1. Tables' /\ Readers' /\ Len(handles') = Len(handles)
  BY HolderSet DEF TransferLock
<1>2. Others'
  BY OthersKept DEF TransferLock
<1>3. "transfer.run" \in ClientPc \ Carrying
  BY DEF ClientPc, Carrying
<1>4. Goto(c, "transfer.run") /\ UNCHANGED <<config, using, answer>>
  BY DEF TransferLock
<1>5. QED
  BY <1>1, <1>2, <1>3, <1>4, GotoKeeps DEF Inv, Typed, TypeOK

LEMMA TransferReadsKeeps ==
  ASSUME Inv, NEW c \in Client, TransferStalls(c) \/ TransferGoesOn(c)
  PROVE  Inv'
<1>1. Tables' /\ Readers' /\ Len(handles') = Len(handles)
  BY SameTables DEF TransferStalls, TransferGoesOn
<1>2. Others'
  BY OthersKept DEF TransferStalls, TransferGoesOn
<1>3. PICK place \in {"transfer.run", "transfer.stall"} : Goto(c, place)
  BY DEF TransferStalls, TransferGoesOn
<1>4. place \in ClientPc \ Carrying /\ UNCHANGED <<config, using, answer>>
  BY DEF TransferStalls, TransferGoesOn, ClientPc, Carrying
<1>5. QED
  BY <1>1, <1>2, <1>3, <1>4, GotoKeeps DEF Inv, Typed, TypeOK

LEMMA TransferEndKeeps == ASSUME Inv, NEW c \in Client, TransferEnd(c) PROVE Inv'
<1>1. Tables' /\ Readers' /\ Len(handles') = Len(handles)
  BY HolderSet DEF TransferEnd, GuardDropped
<1>2. Others'
  BY OthersKept DEF TransferEnd
<1>3. \E what \in Answer : Reply(c, what)
  BY DEF TransferEnd, Answer
<1>4. QED
  BY <1>1, <1>2, <1>3, ReplyKeeps

LEMMA EspStateKeeps == ASSUME Inv, NEW c \in Client, EspState(c) PROVE Inv'
<1>1. Tables' /\ Readers' /\ Len(handles') = Len(handles)
  BY SameTables DEF EspState
<1>2. Others'
  BY OthersKept DEF EspState
<1>3. PICK place \in {"esp.release", "esp.tool"} : Goto(c, place)
  BY DEF EspState
<1>4. place \in ClientPc \ Carrying /\ UNCHANGED <<config, using, answer>>
  BY DEF EspState, ClientPc, Carrying
<1>5. QED
  BY <1>1, <1>2, <1>3, <1>4, GotoKeeps DEF Inv, Typed, TypeOK

LEMMA EspReleaseKeeps == ASSUME Inv, NEW c \in Client, EspRelease(c) PROVE Inv'
<1> DEFINE p == request[c].port
<1>1. Others'
  BY OthersKept DEF EspRelease
<1>2. Goto(c, "esp.tool") /\ UNCHANGED <<using, answer>> /\ "esp.tool" \in ClientPc \ Carrying
  BY DEF EspRelease, ClientPc, Carrying
<1>3. CASE Managed(p)
  <2>1. config' = [config EXCEPT ![c] = TableConfig(p)] /\ Release(p)
    BY <1>3 DEF EspRelease
  <2>2. p \in Port /\ TableConfig(p) \in Config
    BY <1>3, RequestTypes, TableTypes DEF Inv
  <2>3. Tables' /\ Readers' /\ Len(handles') = Len(handles)
    BY <1>3, <2>1, <2>2, Released DEF Inv
  <2>4. /\ config' \in [Client -> Config \cup {NoConfig}]
        /\ \A d \in Client \ {c} : config'[d] = config[d]
    BY <2>1, <2>2 DEF Inv, Typed, TypeOK
  <2>5. QED
    BY <1>1, <1>2, <2>3, <2>4, GotoKeeps DEF Inv, Typed, TypeOK
<1>4. CASE ~Managed(p)
  <2>1. UNCHANGED <<config, handles, current>>
    BY <1>4 DEF EspRelease
  <2>2. QED
    BY <1>1, <1>2, <2>1, SameTables, GotoKeeps DEF Inv, Typed, TypeOK
<1>5. QED
  BY <1>3, <1>4

LEMMA EspToolKeeps == ASSUME Inv, NEW c \in Client, EspTool(c) \/ EspToolEnds(c) PROVE Inv'
<1>1. Tables' /\ Readers' /\ Len(handles') = Len(handles)
  BY SameTables DEF EspTool, EspToolEnds
<1>2. Others'
  BY OthersKept DEF EspTool, EspToolEnds
<1>3. PICK place \in {"esp.run", "esp.reopen"} : Goto(c, place)
  BY DEF EspTool, EspToolEnds
<1>4. place \in ClientPc \ Carrying /\ UNCHANGED <<config, using, answer>>
  BY DEF EspTool, EspToolEnds, ClientPc, Carrying
<1>5. QED
  BY <1>1, <1>2, <1>3, <1>4, GotoKeeps DEF Inv, Typed, TypeOK

LEMMA EspReopenKeeps == ASSUME Inv, NEW c \in Client, EspReopen(c) PROVE Inv'
<1> DEFINE p == request[c].port
<1>1. PICK what \in Answer : Reply(c, what)
  BY DEF EspReopen, Answer
<1>2. p \in Port /\ Len(handles) \in Nat
  BY RequestTypes DEF Inv
<1>3. CASE UNCHANGED <<handles, current, inForce, wanted>>
  <2>1. Tables' /\ Readers' /\ Len(handles') = Len(handles)
    BY <1>3, SameTables
  <2>2. excused' \in {excused, excused \cup {p}}
    BY DEF EspReopen, historyVars
  <2>3. Others'
    BY <1>2, <1>3, <2>2 DEF EspReopen, boundVars, Inv, Typed, TypeOK, Others
  <2>4. QED
    BY <1>1, <2>1, <2>3, ReplyKeeps
<1>4. CASE /\ config[c] # NoConfig /\ ~Refused(p) /\ Len(handles) < MaxOpens
           /\ OpenReal(p, config[c]) /\ UNCHANGED excused
  <2>1. config[c] \in Config
    BY <1>4 DEF Inv, Typed, TypeOK
  <2>2. /\ Tables' /\ Readers' /\ Len(handles') = Len(handles) + 1
        /\ inForce' \in [Port -> SUBSET Config] /\ wanted' \in [Port -> Config]
    BY <1>2, <1>4, <2>1, Opened DEF Inv, Refused
  <2>3. Others'
    BY <1>4, <2>2 DEF EspReopen, boundVars, Inv, Typed, TypeOK, Others
  <2>4. Clients'
    BY <1>1, <1>2, <2>2, Replied DEF Inv, Clients
  <2>5. QED
    BY <2>2, <2>3, <2>4, Parts DEF Inv
<1>5. QED
  BY <1>3, <1>4 DEF EspReopen, historyVars

LEMMA ClientsKept ==
  ASSUME Inv, UNCHANGED clientVars, Len(handles') = Len(handles)
  PROVE  Clients'
  BY DEF Inv, Typed, TypeOK, Carries, Clients, clientVars

LEMMA ReaderEndsKeeps == ASSUME Inv, NEW h, ReaderEnds(h) PROVE Inv'
<1> DEFINE new == [handles[h] EXCEPT !.reader = "ended"]
<1>1. handles[h] \in Handle /\ handles[h].reader = "stopping"
  BY PortOfHandle DEF ReaderEnds, Inv, Typed
<1>2. new \in Handle /\ new.port = handles[h].port /\ new.reader = "ended"
  BY <1>1 DEF Handle
<1>3. handles' = [handles EXCEPT ![h] = new] /\ current' = current
  BY DEF ReaderEnds
<1>4. Tables' /\ Readers' /\ Len(handles') = Len(handles)
  BY <1>1, <1>2, <1>3, HandleSet
<1>5. Clients' /\ Others'
  BY <1>4, ClientsKept, OthersKept DEF ReaderEnds, clientVars
<1>6. QED
  BY <1>4, <1>5, Parts DEF Inv

LEMMA ReconnectKeeps == ASSUME Inv, NEW h, Reconnect(h) PROVE Inv'
<1> DEFINE new == [handles[h] EXCEPT !.linked = TRUE, !.relinked = TRUE, !.wire = handles[h].factory]
<1>1. handles[h] \in Handle
  BY PortOfHandle DEF Reconnect, Inv, Typed
<1>2. new \in Handle /\ new.port = handles[h].port /\ new.reader = handles[h].reader
  BY <1>1 DEF Handle
<1>3. handles' = [handles EXCEPT ![h] = new] /\ current' = current
  BY DEF Reconnect
<1>4. Tables' /\ Readers' /\ Len(handles') = Len(handles)
  BY <1>2, <1>3, HandleSet
<1>5. Clients' /\ Others'
  BY <1>4, ClientsKept, OthersKept DEF Reconnect, clientVars
<1>6. QED
  BY <1>4, <1>5, Parts DEF Inv

LEMMA UnplugKeeps == ASSUME Inv, NEW p \in Port, Unplug(p) PROVE Inv'
<1> DEFINE off(h) == IF handles[h].port = p THEN [handles[h] EXCEPT !.linked = FALSE] ELSE handles[h]
<1>1. ASSUME NEW h \in HandleIds
      PROVE  /\ off(h) \in Handle /\ off(h).port = handles[h].port
             /\ off(h).reader = handles[h].reader
  <2>1. handles[h] \in Handle
    BY PortOfHandle DEF Inv, Typed
  <2>2. QED
    BY <2>1 DEF Handle
<1>2. Len(handles) \in Nat
  BY LenProperties DEF Inv, Typed, TypeOK
<1>3. handles' = [h \in 1 .. Len(handles) |-> off(h)]
  BY DEF Unplug, HandleIds
<1>4. handles' \in Seq(Handle) /\ Len(handles') = Len(handles)
  BY <1>1, <1>2, <1>3 DEF HandleIds
<1>5. \A h \in HandleIds : handles'[h] = off(h)
  BY <1>3 DEF HandleIds
<1>6. Tables' /\ Readers'
  BY <1>1, <1>4, <1>5, ReadersKept DEF Inv, Unplug
<1>7. Clients'
  BY <1>4, ClientsKept DEF Unplug
<1>8. Others'
  BY DEF Unplug, clientVars, historyVars, Inv, Typed, TypeOK, Others
<1>9. QED
  BY <1>6, <1>7, <1>8, Parts DEF Inv

LEMMA PlugKeeps == ASSUME Inv, NEW p \in Port, Plug(p) PROVE Inv'
<1>1. Tables' /\ Readers' /\ Len(handles') = Len(handles)
  BY SameTables DEF Plug
<1>2. Clients'
  BY <1>1, ClientsKept DEF Plug
<1>3. Others'
  BY DEF Plug, clientVars, historyVars, boundVars, Inv, Typed, TypeOK, Others
<1>4. QED
  BY <1>1, <1>2, <1>3, Parts DEF Inv

\* What the table has of a port.
InTable(p) == IF Managed(p) THEN TableConfig(p) ELSE NoConfig

LEMMA RestoredFinite == Restored \subseteq Port /\ Cardinality(Restored) \in Nat
<1>1. Restored \subseteq Port
  BY DEF Restored
<1>2. IsFiniteSet(Restored)
  BY <1>1, FS_Subset, PortsAssumption DEF PortsAssumption
<1>3. QED
  BY <1>1, <1>2, FS_CardinalityType

\* The next daemon: no old reader runs, and every restored port has one new one.
LEMMA RestartKeeps ==
  ASSUME Inv, Restart
  PROVE  /\ Inv'
         /\ \A p \in Port : InTable(p)' = IF p \in Restored THEN recorded[p] ELSE NoConfig
         /\ \A h \in HandleIds' :
              \/ \E p \in Restored : handles'[h] = NewHandle(p, recorded[p])
              \/ h \in HandleIds /\ handles'[h] = [handles[h] EXCEPT !.reader = "ended", !.linked = FALSE, !.holder = None]
<1> DEFINE n == Len(handles)
           old(h) == [handles[h] EXCEPT !.reader = "ended", !.linked = FALSE, !.holder = None]
<1>1. PICK k \in Nat : k = Cardinality(Restored)
  BY RestoredFinite
<1>2. PICK order \in [Restored -> 1 .. k] :
        /\ \A p, q \in Restored : order[p] = order[q] => p = q
        /\ \A i \in 1 .. k : \E p \in Restored : order[p] = i
        /\ handles' = [h \in 1 .. n + k |->
                        IF h <= n THEN old(h)
                        ELSE LET p == CHOOSE p \in Restored : order[p] = h - n
                             IN  NewHandle(p, recorded[p])]
        /\ current' = [p \in Port |-> IF p \in Restored THEN n + order[p] ELSE 0]
  BY <1>1 DEF Restart
<1>3. n \in Nat /\ Restored \subseteq Port
  BY RestoredFinite, LenProperties DEF Inv, Typed, TypeOK
<1>4. \A p \in Restored : order[p] \in Nat /\ 1 <= order[p] /\ order[p] <= k
  <2>1. \A p \in Restored : order[p] \in 1 .. k
    BY <1>2
  <2>2. QED
    BY <2>1
<1>5. /\ \A p \in Restored : current'[p] = n + order[p]
      /\ \A p \in Port : p \notin Restored => current'[p] = 0
  BY <1>2, <1>3
<1>6. ASSUME NEW h \in 1 .. n
      PROVE  /\ old(h) \in Handle /\ old(h).reader = "ended" /\ old(h).port \in Port
             /\ handles'[h] = old(h)
  <2>1. handles[h] \in Handle
    BY PortOfHandle DEF Inv, Typed, HandleIds
  <2>2. h \in 1 .. n + k /\ h <= n
    BY <1>3
  <2>3. handles'[h] = old(h)
    BY <1>2, <2>2
  <2>4. old(h) \in Handle /\ old(h).reader = "ended" /\ old(h).port \in Port
    BY <2>1 DEF Handle
  <2>5. QED
    BY <2>3, <2>4
<1>7. \A p \in Restored : /\ recorded[p] \in Config /\ NewHandle(p, recorded[p]) \in Handle
                          /\ NewHandle(p, recorded[p]).port = p
                          /\ NewHandle(p, recorded[p]).reader = "running"
  <2>1. \A p \in Restored : p \in Port /\ recorded[p] \in Config
    BY DEF Restored, Inv, Typed, TypeOK
  <2>2. QED
    BY <2>1, ConfigTypes DEF NewHandle
<1>8. ASSUME NEW h \in 1 .. n + k, ~(h <= n)
      PROVE  \E p \in Restored : order[p] = h - n /\ handles'[h] = NewHandle(p, recorded[p])
  <2>1. h - n \in 1 .. k
    BY <1>3, <1>8
  <2>2. \E p \in Restored : order[p] = h - n
    BY <1>2, <2>1
  <2>3. PICK p \in Restored : p = CHOOSE q \in Restored : order[q] = h - n
    BY <2>2
  <2>4. order[p] = h - n
    BY <2>2, <2>3
  <2>5. handles'[h] = NewHandle(p, recorded[p])
    BY <1>2, <1>8, <2>3
  <2>6. QED
    BY <2>4, <2>5
<1>9. handles' \in Seq(Handle) /\ Len(handles') = n + k
  <2>1. ASSUME NEW h \in 1 .. n + k PROVE handles'[h] \in Handle
    <3>1. CASE h <= n
      <4>1. h \in 1 .. n
        BY <3>1, <1>3
      <4>2. QED
        BY <1>6, <4>1
    <3>2. CASE ~(h <= n)
      BY <1>7, <1>8, <3>2
    <3>3. QED
      BY <3>1, <3>2
  <2>2. n + k \in Nat
    BY <1>3
  <2>3. DOMAIN handles' = 1 .. n + k /\ handles' = [h \in 1 .. n + k |-> handles'[h]]
    <3> DEFINE new(h) == IF h <= n THEN old(h)
                         ELSE LET p == CHOOSE p \in Restored : order[p] = h - n
                              IN  NewHandle(p, recorded[p])
    <3>1. handles' = [h \in 1 .. n + k |-> new(h)]
      BY <1>2
    <3> HIDE DEF new
    <3>2. QED
      BY <3>1
  <2>4. QED
    BY <2>1, <2>2, <2>3
<1>10. Tables'
  <2>1. n + k <= MaxOpens
    BY <1>1 DEF Restart
  <2>2. \A p \in Port : current'[p] \in 0 .. n + k
    BY <1>3, <1>4, <1>5
  <2>3. current' \in [Port -> 0 .. n + k]
    BY <1>2, <2>2
  <2>4. QED
    BY <1>9, <2>1, <2>3 DEF Tables
<1>11. ASSUME NEW p \in Restored
       PROVE  handles'[n + order[p]] = NewHandle(p, recorded[p])
  <2>1. n + order[p] \in 1 .. n + k /\ ~(n + order[p] <= n) /\ (n + order[p]) - n = order[p]
    BY <1>3, <1>4
  <2>2. PICK q \in Restored : /\ order[q] = (n + order[p]) - n
                             /\ handles'[n + order[p]] = NewHandle(q, recorded[q])
    BY <1>8, <2>1
  <2>3. q = p
    BY <1>2, <2>1, <2>2
  <2>4. QED
    BY <2>2, <2>3
<1>12. TablePorts'
  <2>1. ASSUME NEW p \in Port, current'[p] # 0 PROVE handles'[current'[p]].port = p
    <3>1. p \in Restored /\ current'[p] = n + order[p]
      BY <1>5, <2>1
    <3>2. QED
      BY <1>7, <1>11, <3>1
  <2>2. QED
    BY <2>1 DEF TablePorts, Managed
<1>13. OneReader'
  <2>1. ASSUME NEW h \in 1 .. n
        PROVE  handles'[h].reader # "running" /\ current'[handles'[h].port] # h
    <3>1. handles'[h].reader # "running" /\ handles'[h].port \in Port
      BY <1>6
    <3>2. \A p \in Port : current'[p] # h
      BY <1>3, <1>4, <1>5
    <3>3. QED
      BY <3>1, <3>2
  <2>2. ASSUME NEW h \in 1 .. n + k, ~(h <= n)
        PROVE  handles'[h].reader = "running" /\ current'[handles'[h].port] = h
    <3>1. PICK p \in Restored : order[p] = h - n /\ handles'[h] = NewHandle(p, recorded[p])
      BY <1>8, <2>2
    <3>2. current'[p] = n + order[p] /\ n + order[p] = h
      BY <1>3, <1>5, <3>1
    <3>3. QED
      BY <1>7, <3>1, <3>2
  <2>3. ASSUME NEW h \in 1 .. n + k
        PROVE  handles'[h].reader = "running" <=> current'[handles'[h].port] = h
    <3>1. CASE h <= n
      <4>1. h \in 1 .. n
        BY <3>1, <1>3
      <4>2. QED
        BY <2>1, <4>1
    <3>2. CASE ~(h <= n)
      BY <2>2, <3>2
    <3>3. QED
      BY <3>1, <3>2
  <2>4. QED
    BY <1>9, <2>3 DEF OneReader, HandleIds
<1>14. Clients'
  <2>1. pc' \in [Client -> ClientPc] /\ Carries'
    BY DEF Restart, ClientPc, Carries
  <2>2. using' = [c \in Client |-> 0] /\ 0 \in 0 .. Len(handles')
    <3>1. using' = [c \in Client |-> 0]
      BY DEF Restart
    <3>2. n + k \in Nat
      BY <1>3
    <3>3. QED
      BY <1>9, <3>1, <3>2
  <2>3. using' \in [Client -> 0 .. Len(handles')]
    BY <2>2
  <2>4. config' \in [Client -> Config \cup {NoConfig}] /\ answer' \in [Client -> Answer]
    BY DEF Restart, Inv, Typed, TypeOK, Answer
  <2>5. QED
    BY <2>1, <2>3, <2>4 DEF Clients
<1>15. Others'
  <2>1. wanted' \in [Port -> Config]
    BY <1>7 DEF Restart, Inv, Typed, TypeOK
  <2>2. excused' \in SUBSET Port /\ unsaved' = {} /\ actor' = None /\ restarts' = restarts + 1
    BY DEF Restart
  <2>3. UNCHANGED <<recorded, plugged, request, inForce, requests, unplugs>>
    BY DEF Restart
  <2>4. QED
    BY <2>1, <2>2, <2>3 DEF Inv, Typed, TypeOK, Others
<1>16. ASSUME NEW p \in Port
       PROVE  InTable(p)' = IF p \in Restored THEN recorded[p] ELSE NoConfig
  <2>1. CASE p \in Restored
    <3>1. current'[p] = n + order[p] /\ current'[p] # 0
      BY <1>3, <1>4, <1>5, <2>1
    <3>2. handles'[current'[p]] = NewHandle(p, recorded[p])
      BY <1>11, <2>1, <3>1
    <3>3. QED
      BY <2>1, <3>1, <3>2 DEF InTable, Managed, TableConfig, NewHandle
  <2>2. CASE p \notin Restored
    BY <1>5, <2>2 DEF InTable, Managed
  <2>3. QED
    BY <2>1, <2>2
<1>17. ASSUME NEW h \in HandleIds'
       PROVE  \/ \E p \in Restored : handles'[h] = NewHandle(p, recorded[p])
              \/ h \in HandleIds /\ handles'[h] = old(h)
  <2>1. h \in 1 .. n + k
    BY <1>9 DEF HandleIds
  <2>2. h <= n => h \in 1 .. n
    BY <1>3, <2>1
  <2>3. QED
    BY <1>6, <1>8, <2>1, <2>2 DEF HandleIds
<1>18. QED
  BY <1>10, <1>12, <1>13, <1>14, <1>15, <1>16, <1>17, Parts DEF Inv, Readers

-----------------------------------------------------------------------------
(* Every step keeps it. *)

LEMMA InvInit == Init => Inv
<1> SUFFICES ASSUME Init PROVE Inv
  OBVIOUS
<1>1. handles \in Seq(Handle) /\ Len(handles) = 0 /\ current \in [Port -> 0 .. Len(handles)]
  BY DEF Init
<1>2. Tables
  BY <1>1, PortsAssumption DEF Tables, PortsAssumption
<1>3. Clients
  BY <1>1 DEF Init, Clients, Carries, ClientPc, Answer
<1>4. request \in [Client -> Request]
  BY RequestExists DEF Init
<1>5. Others
  BY <1>4, ConfigTypes DEF Init, Others
<1>6. Readers
  BY <1>1 DEF Init, Readers, OneReader, TablePorts, Managed, HandleIds
<1>7. QED
  BY <1>2, <1>3, <1>5, <1>6, Parts DEF Inv

LEMMA InvStep == Inv /\ [Next]_vars => Inv'
<1> SUFFICES ASSUME Inv, [Next]_vars PROVE Inv'
  OBVIOUS
<1>1. CASE \E c \in Client : Ask(c) \/ Handler(c)
  BY <1>1, AskKeeps, OpenPortKeeps, OpenSerialKeeps, RememberKeeps, ReconfigureGetKeeps,
     ActorWaitsKeeps, ReconfigureSetKeeps, WriteKeeps, ClosePortKeeps, CloseForgetKeeps,
     TransferStartKeeps, TransferLockKeeps, TransferReadsKeeps, TransferEndKeeps, EspStateKeeps,
     EspReleaseKeeps, EspToolKeeps, EspReopenKeeps DEF Handler
<1>2. CASE \E h \in HandleIds : ReaderEnds(h) \/ Reconnect(h)
  BY <1>2, ReaderEndsKeeps, ReconnectKeeps
<1>3. CASE \E p \in Port : Unplug(p) \/ Plug(p)
  BY <1>3, UnplugKeeps, PlugKeeps
<1>4. CASE Restart
  BY <1>4, RestartKeeps
<1>5. CASE UNCHANGED vars
  <2>1. Tables' /\ Readers' /\ Len(handles') = Len(handles)
    BY <1>5, SameTables DEF vars
  <2>2. Clients' /\ Others'
    BY <1>5, <2>1, ClientsKept, OthersKept DEF vars, clientVars
  <2>3. QED
    BY <2>1, <2>2, Parts DEF Inv
<1>6. QED
  BY <1>1, <1>2, <1>3, <1>4, <1>5 DEF Next

-----------------------------------------------------------------------------
(* The record and the settings. *)

\* Where a handler is that may change what a port is opened with.
ChangePc ==
  ClientPc \ {"idle", "write", "transfer", "transfer.lock", "transfer.run", "transfer.stall"}
Remembering == {"open.remember", "reconfigure.remember"}
Holding == {"esp.tool", "esp.run", "esp.reopen"}

Changing(c) == pc[c] # "idle" /\ Changes(request[c])

\* Two changes of one port excuse it.
Sole ==
  \A c, d \in Client : Changing(c) /\ Changing(d) /\ request[c].port = request[d].port /\ c # d
    => request[c].port \in excused

KindTrue == \A c \in Client : pc[c] \in ChangePc => Changes(request[c])

Blank ==
  \A c \in Client : pc[c] \notin Carrying \cup Holding => config[c] = NoConfig

InForce ==
  /\ RecordedWasInForce
  /\ \A c \in Client : pc[c] \in Remembering => config[c] \in inForce[request[c].port]

\* A handler between its change of the table and that of the record.
Between(c, p) ==
  /\ request[c].port = p
  /\ \/ pc[c] \in Remembering \cup {"close.forget"}
     \/ pc[c] \in Holding /\ config[c] # NoConfig

\* The record of a port that the state database took last.
RecordIs(p, cfg) == p \in unsaved \/ recorded[p] = cfg

\* What such a handler is about to record, or to open again, or to set.
Intent(c, p) ==
  /\ pc[c] \in Remembering => InTable(p) = config[c]
  /\ pc[c] = "close.forget" => InTable(p) = NoConfig
  /\ pc[c] \in Holding /\ config[c] # NoConfig => InTable(p) = NoConfig /\ RecordIs(p, config[c])
  /\ pc[c] = "reconfigure.set" => config[c] = Merge(InTable(p), request[c].change)

Account(p) ==
  /\ (\A c \in Client : ~Between(c, p)) => RecordIs(p, InTable(p))
  /\ \A c \in Client : request[c].port = p => Intent(c, p)
  /\ Managed(p) => InTable(p) = wanted[p]

Accounts == \A p \in Port \ excused : Account(p)

Ledger == Sole /\ KindTrue /\ Blank /\ InForce /\ Accounts

\* The actor waits with the handle the table still knows.
Waits ==
  \A c \in Client : actor = c =>
    pc[c] \in {"reconfigure.set", "write"} /\ using[c] = current[request[c].port] /\ using[c] # 0

Wires ==
  \A h \in HandleIds : \/ handles[h].wire = handles[h].config
                       \/ handles[h].relinked /\ handles[h].wire = handles[h].factory

LEMMA NotAConfig == NoConfig \notin Config
<1>1. DOMAIN NoConfig = {}
  BY DEF NoConfig
<1>2. \A cfg \in Config : DOMAIN cfg = Setting
  BY DEF Config
<1>3. Setting # {}
  BY DEF Setting
<1>4. QED
  BY <1>1, <1>2, <1>3

LEMMA InTableType ==
  ASSUME Inv, NEW p \in Port
  PROVE  /\ Managed(p) => InTable(p) = TableConfig(p) /\ InTable(p) \in Config
         /\ ~Managed(p) => InTable(p) = NoConfig
         /\ Managed(p) <=> InTable(p) # NoConfig
  BY TableTypes, NotAConfig DEF InTable, Inv

LEMMA InTableThen ==
  ASSUME Inv', NEW p \in Port
  PROVE  /\ Managed(p)' <=> InTable(p)' # NoConfig
         /\ InTable(p)' # NoConfig => InTable(p)' \in Config
<1>1. handles' \in Seq(Handle) /\ current' \in [Port -> 0 .. Len(handles')] /\ Len(handles') \in Nat
  BY LenProperties DEF Inv, Typed, TypeOK
<1>2. CASE current'[p] # 0
  <2>1. current'[p] \in 1 .. Len(handles')
    BY <1>1, <1>2
  <2>2. handles'[current'[p]] \in Handle
    BY <1>1, <2>1, ElementOfSeq
  <2>3. handles'[current'[p]].config \in Config
    BY <2>2 DEF Handle
  <2>4. QED
    BY <1>2, <2>3, NotAConfig DEF InTable, Managed, TableConfig
<1>3. CASE current'[p] = 0
  BY <1>3 DEF InTable, Managed
<1>4. QED
  BY <1>2, <1>3

\* Only fields of handles change that the table does not show.
LEMMA TableStays ==
  ASSUME Inv, current' = current, \A h \in HandleIds : handles'[h].config = handles[h].config
  PROVE  \A p \in Port : InTable(p)' = InTable(p)
<1> SUFFICES ASSUME NEW p \in Port PROVE InTable(p)' = InTable(p)
  OBVIOUS
<1>1. CASE Managed(p)
  <2>1. current[p] \in HandleIds
    BY <1>1, TableTypes DEF Inv
  <2>2. QED
    BY <1>1, <2>1 DEF InTable, Managed, TableConfig
<1>2. CASE ~Managed(p)
  BY <1>2 DEF InTable, Managed
<1>3. QED
  BY <1>1, <1>2

LEMMA TableReleased ==
  ASSUME Inv, NEW p \in Port, Managed(p), Release(p)
  PROVE  \A q \in Port : InTable(q)' = IF q = p THEN NoConfig ELSE InTable(q)
<1>1. current \in [Port -> 0 .. Len(handles)] /\ current' = [current EXCEPT ![p] = 0]
  BY DEF Inv, Typed, TypeOK, Release
<1>2. ASSUME NEW q \in Port, q # p PROVE InTable(q)' = InTable(q)
  <2>1. current'[q] = current[q]
    BY <1>1, <1>2
  <2>2. CASE Managed(q)
    <3>1. current[q] \in HandleIds /\ current[p] \in HandleIds
      BY <2>2, TableTypes DEF Inv
    <3>2. current[q] # current[p]
      BY <1>2, <2>2 DEF Inv, Readers, TablePorts
    <3>3. handles'[current[q]] = handles[current[q]]
      BY <3>1, <3>2, LenProperties DEF Release, HandleIds, Inv, Typed, TypeOK
    <3>4. QED
      BY <2>1, <2>2, <3>3 DEF InTable, Managed, TableConfig
  <2>3. CASE ~Managed(q)
    BY <2>1, <2>3 DEF InTable, Managed
  <2>4. QED
    BY <2>2, <2>3
<1>3. InTable(p)' = NoConfig
  BY <1>1 DEF InTable, Managed
<1>4. QED
  BY <1>2, <1>3

LEMMA TableOpened ==
  ASSUME Inv, NEW p \in Port, NEW cfg \in Config, OpenReal(p, cfg)
  PROVE  \A q \in Port : InTable(q)' = IF q = p THEN cfg ELSE InTable(q)
<1> DEFINE new == NewHandle(p, cfg)
           n == Len(handles) + 1
<1>1. /\ current \in [Port -> 0 .. Len(handles)] /\ current' = [current EXCEPT ![p] = n]
      /\ Len(handles) \in Nat
  BY LenProperties DEF Inv, Typed, TypeOK, OpenReal
<1>2. new \in Handle /\ new.config = cfg
  BY ConfigTypes DEF NewHandle
<1>3. handles'[n] = new /\ \A h \in HandleIds : handles'[h] = handles[h]
  BY <1>2, AppendProperties DEF OpenReal, HandleIds, Inv, Typed, TypeOK
<1>4. ASSUME NEW q \in Port, q # p PROVE InTable(q)' = InTable(q)
  <2>1. current'[q] = current[q]
    BY <1>1, <1>4
  <2>2. Managed(q) => current[q] \in HandleIds
    BY TableTypes DEF Inv
  <2>3. QED
    BY <1>3, <2>1, <2>2 DEF InTable, Managed, TableConfig
<1>5. InTable(p)' = cfg
  <2>1. current'[p] = n /\ n # 0
    BY <1>1
  <2>2. QED
    BY <1>2, <1>3, <2>1 DEF InTable, Managed, TableConfig
<1>6. QED
  BY <1>4, <1>5

\* Nobody else changes a port that is not excused while one handler does.
LEMMA AloneOnPort ==
  ASSUME Inv, Ledger, NEW c \in Client, NEW d \in Client, c # d,
         pc[c] \in ChangePc, pc[d] \in ChangePc, request[d].port = request[c].port
  PROVE  request[c].port \in excused
  BY DEF Ledger, Sole, KindTrue, Changing, ChangePc

\* A step of a handler that may change the port of its request.
PortOf(c) == request[c].port

Moved(c) ==
  /\ pc' = [pc EXCEPT ![c] = pc'[c]] /\ config' = [config EXCEPT ![c] = config'[c]]
  /\ recorded' = [recorded EXCEPT ![PortOf(c)] = recorded'[PortOf(c)]]
  /\ UNCHANGED request /\ excused \subseteq excused'
  /\ \A p \in Port : p # PortOf(c) => (p \in unsaved' <=> p \in unsaved)
  /\ \A p \in Port : inForce[p] \subseteq inForce'[p]
  /\ \A p \in Port : p # PortOf(c) => InTable(p)' = InTable(p) /\ wanted'[p] = wanted[p]

\* What the record, the table and the handler say of its port.
Own(c) ==
  /\ ~Between(c, PortOf(c)) => RecordIs(PortOf(c), InTable(PortOf(c)))
  /\ Intent(c, PortOf(c))
  /\ Managed(PortOf(c)) => InTable(PortOf(c)) = wanted[PortOf(c)]

LEMMA HandlerStep ==
  ASSUME Inv, Inv', Ledger, NEW c \in Client, Moved(c),
         pc[c] \in ChangePc, pc'[c] \in ChangePc \cup {"idle"},
         pc'[c] \notin Carrying \cup Holding => config'[c] = NoConfig,
         pc'[c] \in Remembering => config'[c] \in inForce'[PortOf(c)],
         recorded'[PortOf(c)] # NoConfig => recorded'[PortOf(c)] \in inForce'[PortOf(c)],
         PortOf(c) \notin excused' => Own(c)'
  PROVE  Ledger'
<1> DEFINE q == PortOf(c)
<1>1. /\ q \in Port /\ request[c] \in Request
      /\ pc \in [Client -> ClientPc]
      /\ config \in [Client -> Config \cup {NoConfig}]
      /\ recorded \in [Port -> Config \cup {NoConfig}] /\ UNCHANGED request
  BY RequestTypes DEF Inv, Typed, TypeOK, Moved, PortOf
<1>2. /\ \A d \in Client : d # c => pc'[d] = pc[d] /\ config'[d] = config[d]
      /\ \A p \in Port : p # q => /\ recorded'[p] = recorded[p] /\ InTable(p)' = InTable(p)
                                  /\ wanted'[p] = wanted[p]
                                  /\ p \in unsaved' <=> p \in unsaved
      /\ \A p \in Port : inForce[p] \subseteq inForce'[p]
      /\ excused \subseteq excused' /\ PortOf(c)' = q
  BY <1>1 DEF Moved, PortOf
<1>3. \A d \in Client : Changing(d)' => Changing(d)
  <2>1. pc[c] # "idle" /\ \A d \in Client : (Changes(request[d]))' <=> Changes(request[d])
    BY <1>1 DEF ChangePc, Changes
  <2>2. QED
    BY <1>2, <2>1 DEF Changing
<1>4. Sole'
  BY <1>1, <1>2, <1>3 DEF Ledger, Sole
<1>5. KindTrue'
  BY <1>1, <1>2 DEF Ledger, KindTrue, Changes, ChangePc
<1>6. Blank'
  BY <1>2 DEF Ledger, Blank
<1>7. InForce'
  <2>1. RecordedWasInForce'
    BY <1>2 DEF Ledger, InForce, RecordedWasInForce
  <2>2. \A d \in Client : request[d].port \in Port
    BY RequestTypes DEF Inv
  <2>3. QED
    BY <1>1, <1>2, <2>1, <2>2 DEF Ledger, InForce, PortOf
<1>8. ASSUME NEW p \in Port, p \notin excused', p # q PROVE Account(p)'
  <2>1. Account(p) /\ InTable(p)' = InTable(p) /\ wanted'[p] = wanted[p]
        /\ recorded'[p] = recorded[p] /\ (p \in unsaved' <=> p \in unsaved)
    BY <1>2, <1>8 DEF Ledger, Accounts
  <2>2. \A d \in Client : Between(d, p)' <=> Between(d, p)
    BY <1>1, <1>2, <1>8 DEF Between, PortOf
  <2>3. ASSUME NEW d \in Client, request[d].port = p PROVE Intent(d, p)'
    BY <1>1, <1>2, <1>8, <2>1, <2>3 DEF Account, Intent, PortOf, RecordIs
  <2>4. Managed(p)' <=> Managed(p)
    BY <2>1, InTableType, InTableThen
  <2>5. QED
    BY <1>1, <2>1, <2>2, <2>3, <2>4 DEF Account, RecordIs
<1>9. ASSUME q \notin excused' PROVE Account(q)'
  <2>1. ASSUME NEW d \in Client, d # c, request[d].port = q
        PROVE  pc'[d] \notin ChangePc
    BY <1>2, <1>9, <2>1, AloneOnPort DEF PortOf
  <2>2. ASSUME NEW d \in Client, d # c, request[d].port = q
        PROVE  Intent(d, q)'
    BY <2>1, <2>2 DEF Intent, ChangePc, ClientPc, Remembering, Holding
  <2>3. ASSUME NEW d \in Client, d # c PROVE ~Between(d, q)'
    <3>1. Remembering \cup Holding \cup {"close.forget"} \subseteq ChangePc
      BY DEF Remembering, Holding, ChangePc, ClientPc
    <3>2. request'[d].port = q => pc'[d] \notin ChangePc
      BY <1>1, <2>1, <2>3
    <3>3. QED
      BY <1>1, <1>2, <3>1, <3>2 DEF Between
  <2>4. Own(c)' /\ PortOf(c)' = q
    BY <1>2, <1>9
  <2>5. QED
    BY <1>1, <2>2, <2>3, <2>4 DEF Account, Own, RecordIs
<1>10. ASSUME NEW p \in Port \ excused' PROVE Account(p)'
  <2>1. CASE p = q
    BY <1>2, <1>9, <1>10, <2>1
  <2>2. CASE p # q
    BY <1>8, <1>10, <2>2
  <2>3. QED
    BY <2>1, <2>2
<1>11. Accounts'
  BY <1>10 DEF Accounts
<1>12. QED
  BY <1>4, <1>5, <1>6, <1>7, <1>11 DEF Ledger

\* A step that changes no port: of a handler that only uses one, or of nobody.
LEMMA QuietStep ==
  ASSUME Inv, Inv', Ledger,
         UNCHANGED <<recorded, request, wanted, inForce, unsaved>>, excused \subseteq excused',
         \A p \in Port : InTable(p)' = InTable(p),
         \A c \in Client : \/ pc'[c] = pc[c] /\ config'[c] = config[c]
                           \/ /\ pc[c] \notin ChangePc \cup {"idle"} /\ pc'[c] \notin ChangePc
                              /\ config'[c] \in {config[c], NoConfig}
  PROVE  Ledger'
<1>1. \A c \in Client : pc[c] \in ClientPc /\ pc'[c] \in ClientPc
  BY DEF Inv, Typed, TypeOK
<1>2. \A c \in Client : pc'[c] \in ChangePc \/ pc[c] \in ChangePc => pc'[c] = pc[c] /\ config'[c] = config[c]
  OBVIOUS
<1>3. \A c \in Client : Changing(c)' => Changing(c)
  <2>1. \A c \in Client : (Changes(request[c]))' <=> Changes(request[c])
    BY DEF Changes
  <2>2. \A c \in Client : pc'[c] # "idle" => pc[c] # "idle"
    OBVIOUS
  <2>3. QED
    BY <2>1, <2>2 DEF Changing
<1>4. Sole'
  BY <1>3 DEF Ledger, Sole
<1>5. KindTrue'
  BY <1>2 DEF Ledger, KindTrue, Changes
<1>6. Blank'
  <2>1. \A c \in Client : pc[c] \notin ChangePc => config[c] = NoConfig
    BY <1>1 DEF Ledger, Blank, ChangePc, ClientPc, Carrying, Holding
  <2>2. QED
    BY <1>1, <1>2, <2>1 DEF Ledger, Blank
<1>7. Remembering \cup Holding \cup {"close.forget", "reconfigure.set"} \subseteq ChangePc
  BY DEF Remembering, Holding, ChangePc, ClientPc
<1>8. InForce'
  BY <1>2, <1>7 DEF Ledger, InForce, RecordedWasInForce
<1>9. ASSUME NEW p \in Port \ excused' PROVE Account(p)'
  <2>1. Account(p)
    BY DEF Ledger, Accounts
  <2>2. \A c \in Client : Between(c, p)' <=> Between(c, p)
    BY <1>2, <1>7 DEF Between
  <2>3. \A c \in Client : Intent(c, p) => Intent(c, p)'
    BY <1>2, <1>7 DEF Intent, RecordIs
  <2>4. Managed(p)' <=> Managed(p)
    BY InTableType, InTableThen
  <2>5. QED
    BY <2>1, <2>2, <2>3, <2>4 DEF Account, RecordIs
<1>10. QED
  BY <1>4, <1>5, <1>6, <1>8, <1>9 DEF Ledger, Accounts

\* What the handler knows of its port, unless that is excused.
LEMMA OwnAccount ==
  ASSUME Inv, Ledger, NEW c \in Client, pc[c] \in ChangePc, PortOf(c) \notin excused
  PROVE  Own(c)
<1>1. PortOf(c) \in Port
  BY RequestTypes DEF Inv, PortOf
<1>2. Account(PortOf(c))
  BY <1>1 DEF Ledger, Accounts
<1>3. \A d \in Client : d # c => ~Between(d, PortOf(c))
  BY AloneOnPort DEF Between, ChangePc, ClientPc, Remembering, Holding, PortOf
<1>4. QED
  BY <1>2, <1>3 DEF Account, Own, PortOf

\* A handler goes on, or answers, and neither table nor record move.
LEMMA HandlerWalks ==
  ASSUME Inv, Inv', Ledger, NEW c \in Client,
         pc' = [pc EXCEPT ![c] = pc'[c]], config' = [config EXCEPT ![c] = config'[c]],
         pc[c] \in ChangePc \ (Remembering \cup {"close.forget"}),
         pc'[c] \in (ChangePc \cup {"idle"}) \ (Remembering \cup {"close.forget"}),
         pc'[c] \notin Carrying \cup Holding => config'[c] = NoConfig,
         pc'[c] \in Holding => config'[c] = config[c] /\ (config[c] # NoConfig => pc[c] \in Holding),
         pc[c] \in Holding /\ config[c] # NoConfig => pc'[c] \in Holding \/ PortOf(c) \in excused',
         pc'[c] = "reconfigure.set" => config'[c] = Merge(InTable(PortOf(c)), request[c].change),
         UNCHANGED <<recorded, request, wanted, inForce, unsaved, handles, current>>,
         excused \subseteq excused'
  PROVE  Ledger'
<1> DEFINE q == PortOf(c)
<1>1. \A p \in Port : InTable(p)' = InTable(p)
  BY TableStays
<1>2. q \in Port /\ recorded \in [Port -> Config \cup {NoConfig}] /\ PortOf(c)' = q
  BY RequestTypes DEF Inv, Typed, TypeOK, PortOf
<1>3. Moved(c)
  BY <1>1, <1>2 DEF Moved
<1>4. recorded'[q] # NoConfig => recorded'[q] \in inForce'[q]
  BY <1>2 DEF Ledger, InForce, RecordedWasInForce
<1>5. ASSUME q \notin excused' PROVE Own(c)'
  <2>1. Own(c)
    BY <1>5, OwnAccount
  <2>2. ~Between(c, q)' => ~Between(c, q)
    BY <1>2, <1>5 DEF Between
  <2>3. Managed(q)' <=> Managed(q)
    BY <1>1, <1>2, InTableType, InTableThen
  <2>4. InTable(q)' = InTable(q)
    BY <1>1, <1>2
  <2>5. Intent(c, q)'
    <3>1. pc'[c] \notin Remembering /\ pc'[c] # "close.forget"
      OBVIOUS
    <3>2. ASSUME pc'[c] \in Holding, config'[c] # NoConfig
          PROVE  InTable(q)' = NoConfig /\ RecordIs(q, config[c])'
      <4>1. config'[c] = config[c] /\ pc[c] \in Holding
        BY <3>2
      <4>2. RecordIs(q, config[c]) /\ InTable(q) = NoConfig
        BY <2>1, <3>2, <4>1 DEF Intent, Own
      <4>3. recorded' = recorded /\ unsaved' = unsaved /\ q' = q
        BY <1>2
      <4>4. QED
        BY <2>4, <4>1, <4>2, <4>3 DEF RecordIs
    <3>3. pc'[c] = "reconfigure.set" => config'[c] = Merge(InTable(q)', request'[c].change)
      BY <2>4
    <3>4. (Merge(InTable(q), request[c].change))' = Merge(InTable(q)', request'[c].change)
      BY DEF Merge
    <3>5. QED
      BY <1>2, <3>1, <3>2, <3>3, <3>4 DEF Intent
  <2>6. QED
    BY <1>2, <2>1, <2>2, <2>3, <2>4, <2>5 DEF Own, RecordIs
<1>6. QED
  BY <1>2, <1>3, <1>4, <1>5, HandlerStep

LEMMA OpenPortLedger == ASSUME Inv, Inv', Ledger, NEW c \in Client, OpenPort(c) PROVE Ledger'
<1>1. /\ pc[c] = "open" /\ config[c] = NoConfig /\ config \in [Client -> Config \cup {NoConfig}]
      /\ pc \in [Client -> ClientPc]
      /\ UNCHANGED <<recorded, request, wanted, inForce, excused, unsaved, handles, current>>
  BY DEF OpenPort, historyVars, Ledger, Blank, Carrying, Holding, Inv, Typed, TypeOK
<1>2. \/ pc' = [pc EXCEPT ![c] = "reconfigure.get"] /\ config' = config
      \/ /\ pc' = [pc EXCEPT ![c] = "open.serial"]
         /\ config' = [config EXCEPT ![c] = Merge(FromFile, request[c].change)]
      \/ pc' = [pc EXCEPT ![c] = "idle"] /\ config' = [config EXCEPT ![c] = NoConfig]
  BY DEF OpenPort, Reply, Goto
<1>3. /\ pc' = [pc EXCEPT ![c] = pc'[c]] /\ config' = [config EXCEPT ![c] = config'[c]]
      /\ pc'[c] \in {"reconfigure.get", "open.serial", "idle"}
      /\ pc'[c] # "open.serial" => config'[c] = NoConfig
  BY <1>1, <1>2
<1>4. QED
  BY <1>1, <1>3, HandlerWalks DEF ChangePc, ClientPc, Carrying, Holding, Remembering

LEMMA ReconfigureGetLedger ==
  ASSUME Inv, Inv', Ledger, NEW c \in Client, ReconfigureGet(c) PROVE Ledger'
<1> DEFINE q == PortOf(c)
<1>1. /\ pc[c] \in {"reconfigure", "reconfigure.get"} /\ config[c] = NoConfig
      /\ config \in [Client -> Config \cup {NoConfig}] /\ pc \in [Client -> ClientPc]
      /\ UNCHANGED <<recorded, request, wanted, inForce, excused, unsaved, handles, current>>
  BY DEF ReconfigureGet, historyVars, Ledger, Blank, Carrying, Holding, Inv, Typed, TypeOK
<1>2. \/ /\ pc' = [pc EXCEPT ![c] = "reconfigure.set"]
         /\ config' = [config EXCEPT ![c] = Merge(InTable(q), request[c].change)]
      \/ pc' = [pc EXCEPT ![c] = "idle"] /\ config' = [config EXCEPT ![c] = NoConfig]
  BY DEF ReconfigureGet, Reply, Goto, Base, InTable, PortOf
<1>3. /\ pc' = [pc EXCEPT ![c] = pc'[c]] /\ config' = [config EXCEPT ![c] = config'[c]]
      /\ \/ pc'[c] = "reconfigure.set" /\ config'[c] = Merge(InTable(q), request[c].change)
         \/ pc'[c] = "idle" /\ config'[c] = NoConfig
  BY <1>1, <1>2
<1>4. QED
  BY <1>1, <1>3, HandlerWalks DEF ChangePc, ClientPc, Carrying, Holding, Remembering

\* A request under way: the second change of a port excuses it.
LEMMA AskLedger == ASSUME Inv, Inv', Ledger, NEW c \in Client, Ask(c) PROVE Ledger'
<1>1. PICK r \in Request :
        /\ request' = [request EXCEPT ![c] = r] /\ pc' = [pc EXCEPT ![c] = r.kind]
        /\ excused' = IF Changes(r) /\ \E d \in Client : /\ pc[d] # "idle"
                                                        /\ request[d].port = r.port
                                                        /\ Changes(request[d])
                      THEN excused \cup {r.port} ELSE excused
  BY DEF Ask, Goto
<1>2. /\ pc[c] = "idle" /\ config' = config
      /\ UNCHANGED <<handles, current, recorded, inForce, wanted, unsaved>>
      /\ pc \in [Client -> ClientPc] /\ request \in [Client -> Request]
  BY DEF Ask, Inv, Typed, TypeOK
<1>3. /\ pc'[c] = r.kind /\ request'[c] = r
      /\ \A d \in Client : d # c => pc'[d] = pc[d] /\ request'[d] = request[d]
      /\ r.kind \in {"open", "reconfigure", "close", "write", "transfer", "esp"}
      /\ excused \subseteq excused'
  BY <1>1, <1>2, PortsAssumption DEF Request, RequestKind, PortsAssumption
<1>4. \A p \in Port : InTable(p)' = InTable(p)
  BY <1>2, TableStays
<1>5. Sole'
  <2>1. \A d \in Client : d # c => (Changing(d)' <=> Changing(d))
    BY <1>3 DEF Changing, Changes
  <2>2. Changing(c)' => Changes(r)
    BY <1>3 DEF Changing, Changes
  <2>3. ASSUME NEW d \in Client, d # c, Changing(c)', Changing(d)', request[d].port = r.port
        PROVE  r.port \in excused'
    BY <1>1, <2>1, <2>2, <2>3 DEF Changing
  <2>4. QED
    BY <1>3, <2>1, <2>3 DEF Ledger, Sole
<1>6. KindTrue'
  BY <1>3 DEF Ledger, KindTrue, Changes, ChangePc
<1>7. Blank'
  BY <1>2, <1>3 DEF Ledger, Blank, Carrying, Holding
<1>8. InForce'
  BY <1>2, <1>3 DEF Ledger, InForce, RecordedWasInForce, Remembering
<1>9. ASSUME NEW p \in Port \ excused' PROVE Account(p)'
  <2>1. Account(p)
    BY <1>3 DEF Ledger, Accounts
  <2>2. \A d \in Client : Between(d, p)' <=> Between(d, p)
    BY <1>2, <1>3 DEF Between, Remembering, Holding
  <2>3. \A d \in Client : d # c => (Intent(d, p) => Intent(d, p)')
    BY <1>2, <1>3, <1>4 DEF Intent, Merge, RecordIs
  <2>4. Intent(c, p)'
    BY <1>3 DEF Intent, Remembering, Holding
  <2>5. Managed(p)' <=> Managed(p)
    BY <1>2 DEF Managed
  <2>6. QED
    BY <1>2, <1>3, <1>4, <2>1, <2>2, <2>3, <2>4, <2>5 DEF Account, RecordIs
<1>10. QED
  BY <1>5, <1>6, <1>7, <1>8, <1>9 DEF Ledger, Accounts

LEMMA OpenSerialLedger == ASSUME Inv, Inv', Ledger, NEW c \in Client, OpenSerial(c) PROVE Ledger'
<1> DEFINE q == PortOf(c)
           cfg == config[c]
<1>1. /\ pc[c] = "open.serial" /\ cfg \in Config /\ q \in Port
      /\ config \in [Client -> Config \cup {NoConfig}] /\ pc \in [Client -> ClientPc]
      /\ recorded \in [Port -> Config \cup {NoConfig}]
      /\ UNCHANGED <<recorded, request, excused, unsaved>>
  BY RequestTypes DEF OpenSerial, Inv, Typed, TypeOK, Carries, PortOf
<1>2. CASE UNCHANGED <<handles, current, inForce, wanted>> /\ \E what \in Answer : Reply(c, what)
  <2>1. pc'[c] = "idle" /\ config'[c] = NoConfig
        /\ pc' = [pc EXCEPT ![c] = pc'[c]] /\ config' = [config EXCEPT ![c] = config'[c]]
    BY <1>1, <1>2 DEF Reply
  <2>2. QED
    BY <1>1, <1>2, <2>1, HandlerWalks DEF ChangePc, ClientPc, Carrying, Holding, Remembering
<1>3. CASE OpenReal(q, cfg) /\ Goto(c, "open.remember") /\ UNCHANGED config
  <2>1. \A p \in Port : InTable(p)' = IF p = q THEN cfg ELSE InTable(p)
    BY <1>1, <1>3, TableOpened
  <2>2. /\ pc' = [pc EXCEPT ![c] = pc'[c]] /\ pc'[c] = "open.remember"
        /\ config' = [config EXCEPT ![c] = config'[c]] /\ config'[c] = cfg
        /\ recorded' = [recorded EXCEPT ![q] = recorded'[q]]
    BY <1>1, <1>3 DEF Goto
  <2>3. /\ wanted' = [wanted EXCEPT ![q] = cfg] /\ inForce' = [inForce EXCEPT ![q] = @ \cup {cfg}]
        /\ wanted \in [Port -> Config] /\ inForce \in [Port -> SUBSET Config]
    BY <1>3 DEF OpenReal, Inv, Typed, TypeOK
  <2>4. Moved(c)
    BY <1>1, <2>1, <2>2, <2>3 DEF Moved
  <2>5. cfg \in inForce'[q] /\ (recorded'[q] # NoConfig => recorded'[q] \in inForce'[q])
    BY <1>1, <2>3 DEF Ledger, InForce, RecordedWasInForce
  <2>6. PortOf(c)' = q
    BY <1>1 DEF PortOf
  <2>7. Own(c)'
    BY <1>1, <2>1, <2>2, <2>3, <2>6 DEF Own, RecordIs, Between, Intent, Remembering, Holding, PortOf
  <2>8. QED
    BY <1>1, <2>2, <2>4, <2>5, <2>7, HandlerStep DEF ChangePc, ClientPc, Carrying, Remembering
<1>4. QED
  BY <1>2, <1>3 DEF OpenSerial, PortOf, Answer

LEMMA RememberLedger == ASSUME Inv, Inv', Ledger, NEW c \in Client, Remember(c) PROVE Ledger'
<1> DEFINE q == PortOf(c)
           cfg == config[c]
<1>1. /\ pc[c] \in Remembering /\ cfg \in Config /\ q \in Port
      /\ config \in [Client -> Config \cup {NoConfig}] /\ pc \in [Client -> ClientPc]
      /\ recorded \in [Port -> Config \cup {NoConfig}]
      /\ UNCHANGED <<handles, current, request, inForce, wanted, excused>>
      /\ \/ recorded' = [recorded EXCEPT ![q] = cfg] /\ unsaved' = unsaved \ {q}
         \/ recorded' = recorded /\ unsaved' = unsaved \cup {q}
  BY RequestTypes DEF Remember, Inv, Typed, TypeOK, Carries, PortOf, Save, Remembering
<1>2. \A p \in Port : InTable(p)' = InTable(p)
  BY <1>1, TableStays
<1>3. /\ pc' = [pc EXCEPT ![c] = pc'[c]] /\ pc'[c] = "idle"
      /\ config' = [config EXCEPT ![c] = config'[c]] /\ config'[c] = NoConfig
      /\ recorded' = [recorded EXCEPT ![q] = recorded'[q]] /\ (q \in unsaved' \/ recorded'[q] = cfg)
      /\ recorded'[q] \in {cfg, recorded[q]}
  BY <1>1 DEF Remember, Reply
<1>4. Moved(c)
  BY <1>1, <1>2, <1>3 DEF Moved
<1>5. recorded'[q] # NoConfig => recorded'[q] \in inForce'[q]
  BY <1>1, <1>3 DEF Ledger, InForce, RecordedWasInForce, PortOf
<1>6. PortOf(c)' = q
  BY <1>1 DEF PortOf
<1>7. pc[c] \in ChangePc
  BY <1>1 DEF Remembering, ChangePc, ClientPc
<1>8. ASSUME q \notin excused' PROVE Own(c)'
  <2>1. Own(c)
    BY <1>1, <1>7, <1>8, OwnAccount
  <2>2. InTable(q)' = cfg
    BY <1>1, <1>2, <1>6, <2>1 DEF Own, Intent
  <2>3. (Managed(q)' <=> Managed(q)) /\ wanted'[q] = wanted[q]
    BY <1>1, <1>6 DEF Managed
  <2>4. Managed(q)' => InTable(q)' = wanted'[q]
    BY <1>1, <1>2, <1>6, <2>1, <2>3 DEF Own
  <2>5. Intent(c, q)'
    BY <1>3 DEF Intent, Remembering, Holding
  <2>6. QED
    BY <1>3, <1>6, <2>2, <2>4, <2>5 DEF Own, RecordIs
<1>9. QED
  BY <1>3, <1>4, <1>5, <1>7, <1>8, HandlerStep DEF Remembering, Carrying, Holding

\* One handle changes that the table knows.
LEMMA TableSet ==
  ASSUME Inv, NEW p \in Port, Managed(p), current' = current, NEW new,
         handles' = [handles EXCEPT ![current[p]] = new]
  PROVE  \A q \in Port : InTable(q)' = IF q = p THEN new.config ELSE InTable(q)
<1>1. current[p] \in HandleIds /\ handles \in Seq(Handle)
  BY TableTypes DEF Inv, Typed, TypeOK
<1>2. \A h \in HandleIds : handles'[h] = IF h = current[p] THEN new ELSE handles[h]
  BY <1>1, LenProperties DEF HandleIds
<1>3. ASSUME NEW q \in Port, q # p PROVE InTable(q)' = InTable(q)
  <2>1. CASE Managed(q)
    <3>1. current[q] \in HandleIds /\ current[q] # current[p]
      BY <1>3, <2>1, TableTypes DEF Inv, Readers, TablePorts
    <3>2. QED
      BY <1>2, <2>1, <3>1 DEF InTable, Managed, TableConfig
  <2>2. CASE ~Managed(q)
    BY <2>2 DEF InTable, Managed
  <2>3. QED
    BY <2>1, <2>2
<1>4. InTable(p)' = new.config
  BY <1>1, <1>2 DEF InTable, Managed, TableConfig
<1>5. QED
  BY <1>3, <1>4

LEMMA ReconfigureSetLedger ==
  ASSUME Inv, Inv', Ledger, Waits, NEW c \in Client, ReconfigureSet(c) PROVE Ledger'
<1>1. PICK q \in Port : q = PortOf(c) /\ q = request[c].port
  BY RequestTypes DEF Inv, PortOf
<1> DEFINE h == using[c]
           cfg == config[c]
           change == request[c].change
<1>2. /\ pc[c] = "reconfigure.set" /\ cfg \in Config /\ h = current[q] /\ Managed(q)
      /\ config \in [Client -> Config \cup {NoConfig}] /\ pc \in [Client -> ClientPc]
      /\ recorded \in [Port -> Config \cup {NoConfig}]
      /\ UNCHANGED <<current, recorded, request, excused, unsaved>> /\ PortOf(c)' = q
  BY <1>1, RequestTypes DEF ReconfigureSet, Inv, Typed, TypeOK, Carries, Waits, Managed, PortOf
<1>3. CASE handles[h].linked
  <2>1. handles' = [handles EXCEPT ![current[q]] = [handles[h] EXCEPT !.wire = cfg, !.config = cfg]]
    BY <1>2, <1>3 DEF ReconfigureSet, Reconfigured
  <2>2. handles[h] \in Handle
    BY <1>2, TableTypes DEF Inv
  <2>3. [handles[h] EXCEPT !.wire = cfg, !.config = cfg].config = cfg
    BY <2>2 DEF Handle
  <2>4. \A p \in Port : InTable(p)' = IF p = q THEN cfg ELSE InTable(p)
    BY <1>2, <2>1, <2>3, TableSet
  <2>5. /\ pc' = [pc EXCEPT ![c] = pc'[c]] /\ pc'[c] = "reconfigure.remember"
        /\ config' = [config EXCEPT ![c] = config'[c]] /\ config'[c] = cfg
        /\ recorded' = [recorded EXCEPT ![q] = recorded'[q]]
    BY <1>2, <1>3 DEF ReconfigureSet, Goto
  <2>6. /\ wanted' = [wanted EXCEPT ![q] = Merge(@, change)]
        /\ inForce' = [inForce EXCEPT ![q] = @ \cup {cfg}]
        /\ wanted \in [Port -> Config] /\ inForce \in [Port -> SUBSET Config]
    BY <1>1, <1>3 DEF ReconfigureSet, Inv, Typed, TypeOK
  <2>7. Moved(c)
    BY <1>1, <1>2, <2>4, <2>5, <2>6 DEF Moved
  <2>8. cfg \in inForce'[q] /\ (recorded'[q] # NoConfig => recorded'[q] \in inForce'[q])
    BY <1>2, <2>6 DEF Ledger, InForce, RecordedWasInForce
  <2>9. ASSUME q \notin excused' PROVE Own(c)'
    <3>1. Own(c)
      BY <1>1, <1>2, <2>9, OwnAccount DEF ChangePc, ClientPc
    <3>2. cfg = Merge(InTable(q), change) /\ InTable(q) = wanted[q]
      BY <1>1, <1>2, <3>1 DEF Own, Intent
    <3>3. InTable(q)' = cfg /\ wanted'[q] = Merge(wanted[q], change)
      BY <2>4, <2>6
    <3>4. QED
      BY <1>1, <1>2, <2>5, <3>2, <3>3 DEF Own, RecordIs, Between, Intent, Remembering, Holding, PortOf
  <2>10. QED
    BY <1>1, <1>2, <2>5, <2>7, <2>8, <2>9, HandlerStep DEF ChangePc, ClientPc, Carrying, Remembering
<1>4. CASE ~handles[h].linked
  <2>1. handles' = handles
    BY <1>2, <1>4, TableTypes DEF ReconfigureSet, Reconfigured, Inv, Typed, TypeOK
  <2>2. /\ pc' = [pc EXCEPT ![c] = pc'[c]] /\ pc'[c] = "idle"
        /\ config' = [config EXCEPT ![c] = config'[c]] /\ config'[c] = NoConfig
        /\ UNCHANGED <<inForce, wanted>>
    BY <1>2, <1>4 DEF ReconfigureSet, Reply
  <2>3. QED
    BY <1>2, <2>1, <2>2, HandlerWalks DEF ChangePc, ClientPc, Carrying, Holding, Remembering
<1>5. QED
  BY <1>3, <1>4

LEMMA ClosePortLedger == ASSUME Inv, Inv', Ledger, NEW c \in Client, ClosePort(c) PROVE Ledger'
<1>1. PICK q \in Port : q = PortOf(c) /\ q = request[c].port
  BY RequestTypes DEF Inv, PortOf
<1>2. /\ pc[c] = "close" /\ config[c] = NoConfig
      /\ config \in [Client -> Config \cup {NoConfig}] /\ pc \in [Client -> ClientPc]
      /\ recorded \in [Port -> Config \cup {NoConfig}]
      /\ UNCHANGED <<recorded, request, inForce, wanted, excused, unsaved>> /\ PortOf(c)' = q
  BY <1>1 DEF ClosePort, Inv, Typed, TypeOK, PortOf, historyVars, Ledger, Blank, Carrying, Holding
<1>3. CASE Managed(q)
  <2>1. Release(q) /\ Goto(c, "close.forget") /\ UNCHANGED config
    BY <1>1, <1>3 DEF ClosePort
  <2>2. \A p \in Port : InTable(p)' = IF p = q THEN NoConfig ELSE InTable(p)
    BY <1>3, <2>1, TableReleased
  <2>3. /\ pc' = [pc EXCEPT ![c] = pc'[c]] /\ pc'[c] = "close.forget"
        /\ config' = [config EXCEPT ![c] = config'[c]] /\ config'[c] = NoConfig
        /\ recorded' = [recorded EXCEPT ![q] = recorded'[q]]
    BY <1>2, <2>1 DEF Goto
  <2>4. Moved(c)
    BY <1>1, <1>2, <2>2, <2>3 DEF Moved
  <2>5. recorded'[q] # NoConfig => recorded'[q] \in inForce'[q]
    BY <1>2 DEF Ledger, InForce, RecordedWasInForce
  <2>6. ~Managed(q)'
    BY <2>2, InTableThen
  <2>7. Own(c)'
    BY <1>1, <1>2, <2>2, <2>3, <2>6 DEF Own, RecordIs, Between, Intent, Remembering, Holding, PortOf
  <2>8. QED
    BY <1>1, <1>2, <2>3, <2>4, <2>5, <2>7, HandlerStep DEF ChangePc, ClientPc, Remembering
<1>4. CASE ~Managed(q)
  <2>1. /\ pc' = [pc EXCEPT ![c] = pc'[c]] /\ pc'[c] = "idle"
        /\ config' = [config EXCEPT ![c] = config'[c]] /\ config'[c] = NoConfig
        /\ UNCHANGED <<handles, current>>
    BY <1>1, <1>2, <1>4 DEF ClosePort, Reply
  <2>2. QED
    BY <1>2, <2>1, HandlerWalks DEF ChangePc, ClientPc, Carrying, Holding, Remembering
<1>5. QED
  BY <1>3, <1>4

LEMMA CloseForgetLedger == ASSUME Inv, Inv', Ledger, NEW c \in Client, CloseForget(c) PROVE Ledger'
<1>1. PICK q \in Port : q = PortOf(c) /\ q = request[c].port
  BY RequestTypes DEF Inv, PortOf
<1>2. /\ pc[c] = "close.forget"
      /\ config \in [Client -> Config \cup {NoConfig}] /\ pc \in [Client -> ClientPc]
      /\ recorded \in [Port -> Config \cup {NoConfig}]
      /\ UNCHANGED <<handles, current, request, inForce, wanted, excused>> /\ PortOf(c)' = q
      /\ \/ recorded' = [recorded EXCEPT ![q] = NoConfig] /\ unsaved' = unsaved \ {q}
         \/ recorded' = recorded /\ unsaved' = unsaved \cup {q}
  BY <1>1 DEF CloseForget, Save, Forgotten, Inv, Typed, TypeOK, PortOf
<1>3. \A p \in Port : InTable(p)' = InTable(p)
  BY <1>2, TableStays
<1>4. /\ pc' = [pc EXCEPT ![c] = pc'[c]] /\ pc'[c] = "idle"
      /\ config' = [config EXCEPT ![c] = config'[c]] /\ config'[c] = NoConfig
      /\ recorded' = [recorded EXCEPT ![q] = recorded'[q]] /\ (q \in unsaved' \/ recorded'[q] = NoConfig)
      /\ recorded'[q] \in {NoConfig, recorded[q]}
  BY <1>2 DEF CloseForget, Reply
<1>5. Moved(c)
  BY <1>1, <1>2, <1>3, <1>4 DEF Moved
<1>6. ASSUME q \notin excused' PROVE Own(c)'
  <2>1. Own(c)
    BY <1>1, <1>2, <1>6, OwnAccount DEF ChangePc, ClientPc
  <2>2. InTable(q)' = NoConfig
    BY <1>1, <1>2, <1>3, <2>1 DEF Own, Intent
  <2>3. ~Managed(q)'
    BY <2>2, InTableThen
  <2>4. QED
    BY <1>1, <1>2, <1>4, <2>2, <2>3 DEF Own, RecordIs, Between, Intent, Remembering, Holding, PortOf
<1>7. recorded'[q] # NoConfig => recorded'[q] \in inForce'[q]
  BY <1>2, <1>4 DEF Ledger, InForce, RecordedWasInForce
<1>8. QED
  BY <1>1, <1>2, <1>4, <1>5, <1>6, <1>7, HandlerStep DEF ChangePc, ClientPc, Remembering

LEMMA EspWalksLedger ==
  ASSUME Inv, Inv', Ledger, NEW c \in Client, EspState(c) \/ EspTool(c) \/ EspToolEnds(c)
  PROVE  Ledger'
<1>1. /\ config \in [Client -> Config \cup {NoConfig}] /\ pc \in [Client -> ClientPc]
      /\ config' = config
      /\ UNCHANGED <<recorded, request, wanted, inForce, excused, unsaved, handles, current>>
  BY DEF EspState, EspTool, EspToolEnds, historyVars, Inv, Typed, TypeOK
<1>2. /\ pc' = [pc EXCEPT ![c] = pc'[c]] /\ config' = [config EXCEPT ![c] = config'[c]]
      /\ config'[c] = config[c]
      /\ \/ pc[c] = "esp" /\ pc'[c] \in {"esp.release", "esp.tool"}
         \/ pc[c] \in {"esp.tool", "esp.run"} /\ pc'[c] \in {"esp.run", "esp.reopen"}
  BY <1>1 DEF EspState, EspTool, EspToolEnds, Goto
<1>3. pc[c] = "esp" => config[c] = NoConfig
  BY DEF Ledger, Blank, Carrying, Holding
<1>4. QED
  BY <1>1, <1>2, <1>3, HandlerWalks DEF ChangePc, ClientPc, Carrying, Holding, Remembering

LEMMA EspReleaseLedger == ASSUME Inv, Inv', Ledger, NEW c \in Client, EspRelease(c) PROVE Ledger'
<1>1. PICK q \in Port : q = PortOf(c) /\ q = request[c].port
  BY RequestTypes DEF Inv, PortOf
<1>2. /\ pc[c] = "esp.release" /\ config[c] = NoConfig
      /\ config \in [Client -> Config \cup {NoConfig}] /\ pc \in [Client -> ClientPc]
      /\ recorded \in [Port -> Config \cup {NoConfig}]
      /\ UNCHANGED <<recorded, request, inForce, wanted, excused, unsaved>> /\ PortOf(c)' = q
      /\ pc' = [pc EXCEPT ![c] = pc'[c]] /\ pc'[c] = "esp.tool"
  BY <1>1 DEF EspRelease, Goto, Inv, Typed, TypeOK, PortOf, historyVars, Ledger, Blank,
              Carrying, Holding
<1>3. CASE Managed(q)
  <2>1. Release(q) /\ config' = [config EXCEPT ![c] = InTable(q)]
    BY <1>1, <1>3 DEF EspRelease, InTable
  <2>2. \A p \in Port : InTable(p)' = IF p = q THEN NoConfig ELSE InTable(p)
    BY <1>3, <2>1, TableReleased
  <2>3. /\ config' = [config EXCEPT ![c] = config'[c]] /\ config'[c] = InTable(q)
        /\ recorded' = [recorded EXCEPT ![q] = recorded'[q]]
    BY <1>2, <2>1
  <2>4. Moved(c)
    BY <1>1, <1>2, <2>2, <2>3 DEF Moved
  <2>5. recorded'[q] # NoConfig => recorded'[q] \in inForce'[q]
    BY <1>2 DEF Ledger, InForce, RecordedWasInForce
  <2>6. ~Managed(q)'
    BY <2>2, InTableThen
  <2>7. ASSUME q \notin excused' PROVE Own(c)'
    <3>1. Own(c)
      BY <1>1, <1>2, <2>7, OwnAccount DEF ChangePc, ClientPc
    <3>2. RecordIs(q, InTable(q))
      BY <1>1, <1>2, <3>1 DEF Own, Between, Remembering, Holding
    <3>3. InTable(q) # NoConfig
      BY <1>3, InTableType
    <3>4. QED
      BY <1>1, <1>2, <2>2, <2>3, <2>6, <3>2, <3>3
      DEF Own, RecordIs, Between, Intent, Remembering, Holding, PortOf
  <2>8. QED
    BY <1>1, <1>2, <2>3, <2>4, <2>5, <2>7, HandlerStep DEF ChangePc, ClientPc, Remembering, Holding
<1>4. CASE ~Managed(q)
  <2>1. config' = config /\ UNCHANGED <<handles, current>>
    BY <1>1, <1>4 DEF EspRelease
  <2>2. config' = [config EXCEPT ![c] = config'[c]] /\ config'[c] = NoConfig
    BY <1>2, <2>1
  <2>3. QED
    BY <1>2, <2>1, <2>2, HandlerWalks DEF ChangePc, ClientPc, Carrying, Holding, Remembering
<1>5. QED
  BY <1>3, <1>4

LEMMA EspReopenLedger == ASSUME Inv, Inv', Ledger, NEW c \in Client, EspReopen(c) PROVE Ledger'
<1>1. PICK q \in Port : q = PortOf(c) /\ q = request[c].port
  BY RequestTypes DEF Inv, PortOf
<1> DEFINE cfg == config[c]
<1>2. /\ pc[c] = "esp.reopen" /\ cfg \in Config \cup {NoConfig}
      /\ config \in [Client -> Config \cup {NoConfig}] /\ pc \in [Client -> ClientPc]
      /\ recorded \in [Port -> Config \cup {NoConfig}]
      /\ UNCHANGED <<recorded, request, unsaved>> /\ PortOf(c)' = q
  BY <1>1 DEF EspReopen, Inv, Typed, TypeOK, PortOf
<1>3. /\ pc' = [pc EXCEPT ![c] = pc'[c]] /\ pc'[c] = "idle"
      /\ config' = [config EXCEPT ![c] = config'[c]] /\ config'[c] = NoConfig
  BY <1>2 DEF EspReopen, Reply
<1>4. CASE /\ UNCHANGED <<handles, current, inForce, wanted>>
           /\ excused \subseteq excused' /\ (cfg # NoConfig => q \in excused')
  BY <1>1, <1>2, <1>3, <1>4, HandlerWalks DEF ChangePc, ClientPc, Carrying, Holding, Remembering
<1>5. CASE cfg # NoConfig /\ OpenReal(q, cfg) /\ UNCHANGED excused
  <2>1. cfg \in Config
    BY <1>2, <1>5
  <2>2. \A p \in Port : InTable(p)' = IF p = q THEN cfg ELSE InTable(p)
    BY <1>5, <2>1, TableOpened
  <2>3. recorded' = [recorded EXCEPT ![q] = recorded'[q]] /\ recorded'[q] = recorded[q]
    BY <1>2
  <2>4. /\ wanted' = [wanted EXCEPT ![q] = cfg] /\ inForce' = [inForce EXCEPT ![q] = @ \cup {cfg}]
        /\ wanted \in [Port -> Config] /\ inForce \in [Port -> SUBSET Config]
    BY <1>5 DEF OpenReal, Inv, Typed, TypeOK
  <2>5. Moved(c)
    BY <1>1, <1>2, <1>3, <1>5, <2>2, <2>3, <2>4 DEF Moved
  <2>6. recorded'[q] # NoConfig => recorded'[q] \in inForce'[q]
    BY <1>2, <2>4 DEF Ledger, InForce, RecordedWasInForce
  <2>7. ASSUME q \notin excused' PROVE Own(c)'
    <3>1. Own(c)
      BY <1>1, <1>2, <1>5, <2>7, OwnAccount DEF ChangePc, ClientPc
    <3>2. RecordIs(q, cfg)
      BY <1>1, <1>2, <1>5, <3>1 DEF Own, Intent, Holding
    <3>3. QED
      BY <1>1, <1>2, <1>3, <2>2, <2>3, <2>4, <3>2
      DEF Own, RecordIs, Between, Intent, Remembering, Holding, PortOf
  <2>8. QED
    BY <1>1, <1>2, <1>3, <2>5, <2>6, <2>7, HandlerStep DEF ChangePc, ClientPc, Remembering, Holding
<1>6. QED
  BY <1>1, <1>4, <1>5 DEF EspReopen, historyVars

\* The actor's wait, and what uses a port without changing it.
LEMMA ActorWaitsLedger == ASSUME Inv, Inv', Ledger, NEW c \in Client, ActorWaits(c) PROVE Ledger'
<1>1. /\ config \in [Client -> Config \cup {NoConfig}] /\ pc \in [Client -> ClientPc]
      /\ pc[c] \in {"reconfigure.set", "write"}
      /\ UNCHANGED <<recorded, request, wanted, inForce, excused, unsaved, handles, current>>
  BY DEF ActorWaits, historyVars, Inv, Typed, TypeOK
<1>2. \A p \in Port : InTable(p)' = InTable(p)
  BY <1>1, TableStays
<1>3. CASE UNCHANGED <<pc, config>>
  BY <1>1, <1>2, <1>3, QuietStep
<1>4. CASE Reply(c, "NotOpen")
  <2>1. /\ pc' = [pc EXCEPT ![c] = pc'[c]] /\ pc'[c] = "idle"
        /\ config' = [config EXCEPT ![c] = config'[c]] /\ config'[c] = NoConfig
    BY <1>1, <1>4 DEF Reply
  <2>2. CASE pc[c] = "reconfigure.set"
    BY <1>1, <2>1, <2>2, HandlerWalks DEF ChangePc, ClientPc, Carrying, Holding, Remembering
  <2>3. CASE pc[c] = "write"
    <3>1. pc[c] \notin ChangePc \cup {"idle"} /\ pc'[c] \notin ChangePc
      BY <2>1, <2>3 DEF ChangePc
    <3>2. \A d \in Client : d # c => pc'[d] = pc[d] /\ config'[d] = config[d]
      BY <1>1, <2>1
    <3>3. QED
      BY <1>1, <1>2, <2>1, <3>1, <3>2, QuietStep
  <2>4. QED
    BY <1>1, <2>2, <2>3
<1>5. QED
  BY <1>3, <1>4 DEF ActorWaits

LEMMA UsesLedger ==
  ASSUME Inv, Inv', Ledger, NEW c \in Client,
         \/ Write(c) \/ TransferStart(c) \/ TransferLock(c)
         \/ TransferStalls(c) \/ TransferGoesOn(c) \/ TransferEnd(c)
  PROVE  Ledger'
<1>1. /\ config \in [Client -> Config \cup {NoConfig}] /\ pc \in [Client -> ClientPc]
      /\ pc[c] \in {"write", "transfer", "transfer.lock", "transfer.run", "transfer.stall"}
      /\ UNCHANGED <<recorded, request, wanted, inForce, excused, unsaved, current>>
  BY DEF Write, TransferStart, TransferLock, TransferStalls, TransferGoesOn, TransferEnd, historyVars, Inv, Typed, TypeOK
<1>2. \A h \in HandleIds : handles'[h].config = handles[h].config
  <2>1. CASE UNCHANGED handles
    BY <2>1
  <2>2. ASSUME NEW holder, handles' = [handles EXCEPT ![using[c]].holder = holder]
        PROVE  \A h \in HandleIds : handles'[h].config = handles[h].config
    <3>1. \A h \in HandleIds : handles[h] \in Handle /\ h \in DOMAIN handles
      BY PortOfHandle, LenProperties DEF Inv, Typed, TypeOK, HandleIds
    <3>2. QED
      BY <2>2, <3>1 DEF Handle
  <2>3. QED
    BY <2>1, <2>2 DEF Write, TransferStart, TransferLock, TransferStalls, TransferGoesOn, TransferEnd
<1>3. \A p \in Port : InTable(p)' = InTable(p)
  BY <1>1, <1>2, TableStays
<1>4. /\ \A d \in Client : d # c => pc'[d] = pc[d] /\ config'[d] = config[d]
      /\ pc'[c] \in {"idle", "transfer.lock", "transfer.run", "transfer.stall"}
      /\ config'[c] \in {config[c], NoConfig}
  BY <1>1 DEF Write, TransferStart, TransferLock, TransferStalls, TransferGoesOn, TransferEnd, Reply, Goto
<1>5. pc[c] \notin ChangePc \cup {"idle"} /\ pc'[c] \notin ChangePc
  BY <1>1, <1>4 DEF ChangePc
<1>6. QED
  BY <1>1, <1>3, <1>4, <1>5, QuietStep

\* Readers and devices change nothing the table shows.
LEMMA DevicesLedger ==
  ASSUME Inv, Inv', Ledger,
         \/ \E h \in HandleIds : ReaderEnds(h) \/ Reconnect(h)
         \/ \E p \in Port : Unplug(p) \/ Plug(p)
         \/ UNCHANGED vars
  PROVE  Ledger'
<1>1. /\ UNCHANGED <<pc, config, recorded, request, wanted, inForce, excused, unsaved, current>>
  BY DEF ReaderEnds, Reconnect, Unplug, Plug, vars, clientVars, historyVars
<1>2. \A h \in HandleIds : handles[h] \in Handle /\ h \in DOMAIN handles
  BY PortOfHandle, LenProperties DEF Inv, Typed, TypeOK, HandleIds
<1>3. \A h \in HandleIds : handles'[h].config = handles[h].config
  <2>1. CASE UNCHANGED handles
    BY <2>1
  <2>2. CASE \E h \in HandleIds : ReaderEnds(h)
    BY <1>2, <2>2 DEF ReaderEnds, Handle
  <2>3. CASE \E h \in HandleIds : Reconnect(h)
    <3>1. PICK h \in HandleIds :
            handles' = [handles EXCEPT ![h] = [handles[h] EXCEPT
              !.linked = TRUE, !.relinked = TRUE, !.wire = handles[h].factory]]
      BY <1>2, <2>3 DEF Reconnect
    <3>2. [handles[h] EXCEPT !.linked = TRUE, !.relinked = TRUE,
                             !.wire = handles[h].factory].config = handles[h].config
      BY <1>2 DEF Handle
    <3>3. QED
      BY <1>2, <3>1, <3>2
  <2>4. CASE \E p \in Port : Unplug(p)
    BY <1>2, <2>4 DEF Unplug, Handle
  <2>5. QED
    BY <2>1, <2>2, <2>3, <2>4 DEF Plug, vars
<1>4. \A p \in Port : InTable(p)' = InTable(p)
  BY <1>1, <1>3, TableStays
<1>5. QED
  BY <1>1, <1>4, QuietStep

LEMMA RestartLedger == ASSUME Inv, Inv', Ledger, Restart PROVE Ledger'
<1>1. /\ pc' = [c \in Client |-> "idle"] /\ config' = [c \in Client |-> NoConfig]
      /\ UNCHANGED <<recorded, request, inForce, plugged>>
      /\ wanted' = [p \in Port |-> IF p \in Restored THEN recorded[p] ELSE wanted[p]]
      /\ excused' = {p \in Port : recorded[p] # NoConfig /\ ~plugged[p]}
  BY DEF Restart
<1>2. \A p \in Port : InTable(p)' = IF p \in Restored THEN recorded[p] ELSE NoConfig
  BY RestartKeeps
<1>3. Sole' /\ KindTrue' /\ Blank'
  BY <1>1 DEF Sole, KindTrue, Blank, Changing, ChangePc
<1>4. InForce'
  BY <1>1 DEF Ledger, InForce, RecordedWasInForce, Remembering
<1>5. ASSUME NEW p \in Port \ excused' PROVE Account(p)'
  <2>1. recorded[p] # NoConfig <=> p \in Restored
    BY <1>1 DEF Restored
  <2>2. recorded'[p] = InTable(p)'
    BY <1>1, <1>2, <2>1
  <2>3. Managed(p)' => InTable(p)' = wanted'[p]
    BY <1>1, <1>2, InTableThen
  <2>4. \A c \in Client : Intent(c, p)'
    BY <1>1 DEF Intent, Remembering, Holding
  <2>5. QED
    BY <2>2, <2>3, <2>4 DEF Account, RecordIs
<1>6. QED
  BY <1>3, <1>4, <1>5 DEF Ledger, Accounts

-----------------------------------------------------------------------------
(* Together, through every step. *)

LEMMA LedgerInit == Init => Ledger /\ Waits /\ Wires
<1> SUFFICES ASSUME Init PROVE Ledger /\ Waits /\ Wires
  OBVIOUS
<1>1. \A p \in Port : InTable(p) = NoConfig /\ ~Managed(p)
  BY DEF Init, InTable, Managed
<1>2. Sole /\ KindTrue /\ Blank /\ InForce
  BY DEF Init, Sole, KindTrue, Blank, Changing, ChangePc, InForce, RecordedWasInForce, Remembering
<1>3. Accounts
  BY <1>1 DEF Init, Accounts, Account, RecordIs, Intent, Remembering, Holding
<1>4. Waits
  BY PortsAssumption DEF Init, Waits, PortsAssumption
<1>5. Wires
  BY DEF Init, Wires, HandleIds
<1>6. QED
  BY <1>2, <1>3, <1>4, <1>5 DEF Ledger

LEMMA LedgerStep == ASSUME Inv, Inv', Ledger, Waits, [Next]_vars PROVE Ledger'
<1>1. CASE \E c \in Client : Ask(c) \/ Handler(c)
  BY <1>1, AskLedger, OpenPortLedger, OpenSerialLedger, RememberLedger, ReconfigureGetLedger,
     ActorWaitsLedger, ReconfigureSetLedger, ClosePortLedger, CloseForgetLedger, UsesLedger,
     EspWalksLedger, EspReleaseLedger, EspReopenLedger DEF Handler
<1>2. CASE \/ \E h \in HandleIds : ReaderEnds(h) \/ Reconnect(h)
           \/ \E p \in Port : Unplug(p) \/ Plug(p)
           \/ UNCHANGED vars
  BY <1>2, DevicesLedger
<1>3. QED
  BY <1>1, <1>2, RestartLedger DEF Next

LEMMA WaitsStep == ASSUME Inv, Waits, [Next]_vars PROVE Waits'
<1>1. \A c \in Client : c # None
  BY PortsAssumption DEF PortsAssumption
<1>2. /\ pc \in [Client -> ClientPc] /\ request \in [Client -> Request]
      /\ using \in [Client -> 0 .. Len(handles)]
  BY DEF Inv, Typed, TypeOK
<1>3. CASE actor' = None
  BY <1>1, <1>3 DEF Waits
<1>4. ASSUME NEW d \in Client, ActorWaits(d), actor' = d PROVE Waits'
  BY <1>1, <1>2, <1>4 DEF Waits, ActorWaits, Reply, ActorFree, Managed
<1>5. CASE /\ UNCHANGED <<actor, current>>
           /\ \A c \in Client : actor = c => /\ pc'[c] = pc[c] /\ using'[c] = using[c]
                                             /\ request'[c] = request[c]
  BY <1>5 DEF Waits
<1>6. ASSUME NEW d \in Client,
             \/ Ask(d) \/ Remember(d) \/ CloseForget(d)
             \/ TransferLock(d) \/ TransferStalls(d) \/ TransferGoesOn(d) \/ TransferEnd(d) \/ EspTool(d) \/ EspToolEnds(d)
      PROVE  Waits'
  <2>1. UNCHANGED <<actor, current>> /\ pc[d] \notin {"reconfigure.set", "write"}
    BY <1>6 DEF Ask, Remember, CloseForget, TransferLock, TransferStalls, TransferGoesOn,
                  TransferEnd, EspTool, EspToolEnds
  <2>2. \A c \in Client : c # d => /\ pc'[c] = pc[c] /\ using'[c] = using[c]
                                   /\ request'[c] = request[c]
    BY <1>2, <1>6 DEF Ask, Remember, CloseForget, TransferLock, TransferStalls, TransferGoesOn,
                  TransferEnd, EspTool, EspToolEnds,
                      Reply, Goto
  <2>3. actor # d
    BY <2>1 DEF Waits
  <2>4. QED
    BY <1>5, <2>1, <2>2, <2>3
<1>7. ASSUME NEW d \in Client, ~ActorWaits(d), ~Ask(d), ~Remember(d), ~CloseForget(d),
             ~TransferLock(d), ~TransferStalls(d), ~TransferGoesOn(d), ~TransferEnd(d),
             ~EspTool(d), ~EspToolEnds(d), Handler(d)
      PROVE  Waits'
  <2>1. actor' = None
    BY <1>7 DEF Handler, OpenPort, OpenSerial, ReconfigureGet, ReconfigureSet, Write, ClosePort,
                TransferStart, EspState, EspRelease, EspReopen, ActorFree
  <2>2. QED
    BY <1>3, <2>1
<1>8. ASSUME NEW d \in Client, ActorWaits(d) PROVE Waits'
  <2>1. actor' = d \/ actor' = None
    BY <1>8 DEF ActorWaits, ActorFree
  <2>2. QED
    BY <1>3, <1>4, <1>8, <2>1
<1>9. CASE \/ \E h \in HandleIds : ReaderEnds(h) \/ Reconnect(h)
           \/ \E p \in Port : Unplug(p) \/ Plug(p)
           \/ UNCHANGED vars
  BY <1>5, <1>9 DEF ReaderEnds, Reconnect, Unplug, Plug, vars, clientVars
<1>10. CASE Restart
  BY <1>3, <1>10 DEF Restart
<1>11. CASE \E c \in Client : Ask(c) \/ Handler(c)
  BY <1>6, <1>7, <1>8, <1>11
<1>12. QED
  BY <1>9, <1>10, <1>11 DEF Next

\* What is on the wire of a handle.
Wired(handle) == \/ handle.wire = handle.config
                 \/ handle.relinked /\ handle.wire = handle.factory

LEMMA WiredThen ==
  ASSUME NEW h \in Handle, Wired(h), NEW cfg \in Config, NEW c \in Client \cup {None}
  PROVE  /\ Wired([h EXCEPT !.reader = "stopping"]) /\ Wired([h EXCEPT !.reader = "ended"])
         /\ Wired([h EXCEPT !.linked = FALSE]) /\ Wired([h EXCEPT !.holder = c])
         /\ Wired([h EXCEPT !.wire = cfg, !.config = cfg])
         /\ Wired([h EXCEPT !.linked = TRUE, !.relinked = TRUE, !.wire = h.factory])
         /\ Wired([h EXCEPT !.reader = "ended", !.linked = FALSE, !.holder = None])
  BY DEF Wired, Handle

LEMMA WiresSet ==
  ASSUME Inv, Wires, NEW h, NEW new, handles' = [handles EXCEPT ![h] = new],
         h \in HandleIds => Wired(new)
  PROVE  Wires'
<1>1. handles \in Seq(Handle)
  BY DEF Inv, Typed, TypeOK
<1>2. HandleIds' = HandleIds /\ \A g \in HandleIds : g \in DOMAIN handles
  BY <1>1, LenProperties, HandlesKept DEF HandleIds
<1>3. \A g \in HandleIds : handles'[g] = IF g = h THEN new ELSE handles[g]
  BY <1>2
<1>4. QED
  BY <1>2, <1>3 DEF Wires, Wired

LEMMA WiresStep == ASSUME Inv, Wires, Waits, [Next]_vars PROVE Wires'
<1>1. \A h \in HandleIds : handles[h] \in Handle /\ Wired(handles[h])
  BY PortOfHandle DEF Inv, Typed, Wires, Wired
<1>2. CASE UNCHANGED handles
  BY <1>2 DEF Wires, HandleIds
<1>3. ASSUME NEW p \in Port, NEW cfg \in Config, OpenReal(p, cfg) PROVE Wires'
  <2>1. /\ Len(handles') = Len(handles) + 1 /\ handles'[Len(handles) + 1] = NewHandle(p, cfg)
        /\ \A h \in HandleIds : handles'[h] = handles[h]
    BY <1>3, ConfigTypes, AppendProperties DEF OpenReal, HandleIds, Inv, Typed, TypeOK
  <2>2. HandleIds' = HandleIds \cup {Len(handles) + 1}
    BY <2>1, LenProperties DEF HandleIds, Inv, Typed, TypeOK
  <2>3. QED
    BY <2>1, <2>2 DEF Wires, NewHandle
<1>4. ASSUME NEW p \in Port, Managed(p), Release(p) PROVE Wires'
  <2>1. current[p] \in HandleIds
    BY <1>4, TableTypes DEF Inv
  <2>2. handles' = [handles EXCEPT ![current[p]] = [handles[current[p]] EXCEPT !.reader = "stopping"]]
    BY <1>4 DEF Release
  <2>3. QED
    BY <1>1, <2>1, <2>2, ConfigTypes, WiredThen, WiresSet
<1>5. ASSUME NEW c \in Client, OpenSerial(c) \/ EspReopen(c) PROVE Wires'
  <2>1. UNCHANGED handles \/ OpenReal(request[c].port, config[c])
    BY <1>5 DEF OpenSerial, EspReopen
  <2>2. request[c].port \in Port
    BY RequestTypes DEF Inv
  <2>3. OpenReal(request[c].port, config[c]) => UNCHANGED handles \/ config[c] \in Config
    BY <1>5 DEF OpenSerial, EspReopen, Inv, Typed, Carries, TypeOK
  <2>4. QED
    BY <1>2, <1>3, <2>1, <2>2, <2>3
<1>6. ASSUME NEW c \in Client, ClosePort(c) \/ EspRelease(c) PROVE Wires'
  <2>1. UNCHANGED handles \/ (Managed(request[c].port) /\ Release(request[c].port))
    BY <1>6 DEF ClosePort, EspRelease
  <2>2. request[c].port \in Port
    BY RequestTypes DEF Inv
  <2>3. QED
    BY <1>2, <1>4, <2>1, <2>2
<1>7. ASSUME NEW c \in Client, ReconfigureSet(c) PROVE Wires'
  <2>1. config[c] \in Config /\ using[c] \in HandleIds
    <3>1. using[c] = current[request[c].port] /\ using[c] # 0
      BY <1>7 DEF ReconfigureSet, Waits
    <3>2. request[c].port \in Port
      BY RequestTypes DEF Inv
    <3>3. QED
      BY <1>7, <3>1, <3>2, TableTypes DEF ReconfigureSet, Inv, Typed, Carries, Managed
  <2>2. handles' = [handles EXCEPT ![using[c]] = Reconfigured(using[c], config[c], handles[using[c]].linked)]
    BY <1>7 DEF ReconfigureSet
  <2>3. Wired(Reconfigured(using[c], config[c], handles[using[c]].linked))
    BY <1>1, <2>1, WiredThen DEF Reconfigured
  <2>4. QED
    BY <2>2, <2>3, WiresSet
<1>8. ASSUME NEW c \in Client, TransferLock(c) \/ TransferEnd(c) PROVE Wires'
  <2>1. PICK d \in Client \cup {None} :
          handles' = [handles EXCEPT ![using[c]] = [handles[using[c]] EXCEPT !.holder = d]]
    BY <1>8 DEF TransferLock, TransferEnd, GuardDropped
  <2>2. QED
    BY <1>1, <2>1, ConfigTypes, WiredThen, WiresSet
<1>9. ASSUME NEW h \in HandleIds, ReaderEnds(h) \/ Reconnect(h) PROVE Wires'
  <2>1. PICK new : handles' = [handles EXCEPT ![h] = new] /\
          new \in {[handles[h] EXCEPT !.reader = "ended"],
                   [handles[h] EXCEPT !.linked = TRUE, !.relinked = TRUE, !.wire = handles[h].factory]}
    BY <1>9 DEF ReaderEnds, Reconnect
  <2>2. Wired(new)
    BY <1>1, <2>1, ConfigTypes, WiredThen
  <2>3. QED
    BY <2>1, <2>2, WiresSet
<1>10. ASSUME NEW p \in Port, Unplug(p) PROVE Wires'
  <2>1. HandleIds' = HandleIds
    BY <1>10, LenProperties DEF Unplug, HandleIds, Inv, Typed, TypeOK
  <2>2. \A h \in HandleIds : handles'[h] \in {handles[h], [handles[h] EXCEPT !.linked = FALSE]}
    BY <1>10 DEF Unplug
  <2>3. \A h \in HandleIds : Wired(handles'[h])
    BY <1>1, <2>2, ConfigTypes, WiredThen
  <2>4. QED
    BY <2>1, <2>3 DEF Wires, Wired
<1>11. CASE Restart
  <2>1. ASSUME NEW h \in HandleIds' PROVE Wired(handles'[h])
    <3>1. \/ \E p \in Restored : handles'[h] = NewHandle(p, recorded[p])
          \/ h \in HandleIds /\ handles'[h] = [handles[h] EXCEPT !.reader = "ended", !.linked = FALSE, !.holder = None]
      BY <1>11, RestartKeeps
    <3>2. \A p \in Port : \A cfg : Wired(NewHandle(p, cfg))
      BY DEF Wired, NewHandle
    <3>3. QED
      BY <1>1, <3>1, <3>2, ConfigTypes, WiredThen DEF Restored
  <2>2. QED
    BY <2>1 DEF Wires, Wired
<1>12. CASE \E c \in Client : Ask(c) \/ Handler(c)
  BY <1>2, <1>5, <1>6, <1>7, <1>8, <1>12
  DEF Handler, Ask, OpenPort, Remember, ReconfigureGet, ActorWaits, Write, CloseForget,
      TransferStart, TransferStalls, TransferGoesOn, EspState, EspTool, EspToolEnds
<1>13. QED
  BY <1>2, <1>9, <1>10, <1>11, <1>12 DEF Next, Plug, vars

Books == Inv /\ Ledger /\ Waits /\ Wires

LEMMA BooksStep == Books /\ [Next]_vars => Books'
<1> SUFFICES ASSUME Books, [Next]_vars PROVE Books'
  OBVIOUS
<1>1. Inv' /\ Waits' /\ Wires'
  BY InvStep, WaitsStep, WiresStep DEF Books
<1>2. QED
  BY <1>1, LedgerStep DEF Books

LEMMA BooksRight == Books => RecordTrue /\ SettingsTrue
<1> SUFFICES ASSUME Books PROVE RecordTrue /\ SettingsTrue
  OBVIOUS
<1>1. RecordFollowsTable
  <2>1. ASSUME NEW p \in Port, Idle(p), p \notin excused \cup unsaved
        PROVE  recorded[p] = IF Managed(p) THEN TableConfig(p) ELSE NoConfig
    <3>1. Account(p)
      BY <2>1 DEF Books, Ledger, Accounts
    <3>2. \A c \in Client : ~Between(c, p)
      BY <2>1 DEF Idle, Between, Remembering, Holding
    <3>3. QED
      BY <2>1, <3>1, <3>2 DEF Account, RecordIs, InTable
  <2>2. QED
    BY <2>1 DEF RecordFollowsTable
<1>2. SettingsKept
  BY DEF Books, Ledger, Accounts, Account, SettingsKept, InTable
<1>3. WireKnown
  BY TableTypes DEF Books, Wires, WireKnown, Inv
<1>4. QED
  BY <1>1, <1>2, <1>3 DEF RecordTrue, SettingsTrue, Books, Ledger, InForce

-----------------------------------------------------------------------------
(* Who waits for whom. *)

AtTransfer == {"transfer.lock", "transfer.run", "transfer.stall"}
Transferring == {"transfer.run", "transfer.stall"}

\* A mutex is held by a transfer that is under way, and by no other.
MutexHeld ==
  /\ \A c \in Client : pc[c] \in AtTransfer => using[c] # 0
  /\ \A h \in HandleIds, d \in Client :
       handles[h].holder = d => pc[d] \in Transferring /\ using[d] = h

\* A step that takes no mutex, and one that moves no transfer.
NoneTaken ==
  \A h \in HandleIds' : \/ handles'[h].holder = None
                        \/ h \in HandleIds /\ handles'[h].holder = handles[h].holder

TransfersStay ==
  \A c \in Client : pc[c] \in AtTransfer \/ pc'[c] \in AtTransfer =>
    pc'[c] = pc[c] /\ using'[c] = using[c]

LEMMA MutexStays == ASSUME MutexHeld, NoneTaken, TransfersStay PROVE MutexHeld'
<1>1. \A c \in Client : c # None
  BY PortsAssumption DEF PortsAssumption
<1>2. ASSUME NEW c \in Client, pc'[c] \in AtTransfer PROVE using'[c] # 0
  BY <1>2 DEF MutexHeld, TransfersStay
<1>3. ASSUME NEW h \in HandleIds', NEW d \in Client, handles'[h].holder = d
      PROVE  pc'[d] \in Transferring /\ using'[d] = h
  <2>1. h \in HandleIds /\ handles[h].holder = d
    BY <1>1, <1>3 DEF NoneTaken
  <2>2. pc[d] \in Transferring /\ using[d] = h
    BY <2>1 DEF MutexHeld
  <2>3. QED
    BY <2>2 DEF TransfersStay, AtTransfer, Transferring
<1>4. QED
  BY <1>2, <1>3 DEF MutexHeld

LEMMA HandleSetAgain ==
  ASSUME Inv, NEW h, NEW new, handles' = [handles EXCEPT ![h] = new]
  PROVE  /\ HandleIds' = HandleIds
         /\ \A g \in HandleIds : handles'[g] = IF g = h THEN new ELSE handles[g]
<1>1. handles \in Seq(Handle)
  BY DEF Inv, Typed, TypeOK
<1>2. DOMAIN handles' = DOMAIN handles /\ DOMAIN handles = HandleIds
  BY <1>1, LenProperties DEF HandleIds
<1>3. HandleIds' = HandleIds
  BY <1>1, <1>2, LenProperties, ExceptSeq DEF HandleIds
<1>4. QED
  BY <1>2, <1>3

LEMMA HolderKept ==
  ASSUME Inv, NEW h, NEW new, handles' = [handles EXCEPT ![h] = new],
         h \in HandleIds => new.holder = None \/ new.holder = handles[h].holder
  PROVE  NoneTaken
<1>1. /\ HandleIds' = HandleIds
      /\ \A g \in HandleIds : handles'[g] = IF g = h THEN new ELSE handles[g]
  BY HandleSetAgain
<1>2. ASSUME NEW g \in HandleIds
      PROVE  handles'[g].holder = None \/ handles'[g].holder = handles[g].holder
  BY <1>1, <1>2
<1>3. QED
  BY <1>1, <1>2 DEF NoneTaken

LEMMA NoneTakenBySame == UNCHANGED handles => NoneTaken
  BY DEF NoneTaken, HandleIds

LEMMA NoneTakenByOpening ==
  ASSUME Inv, NEW p, NEW cfg, OpenReal(p, cfg)
  PROVE  NoneTaken
<1>1. handles \in Seq(Handle) /\ Len(handles) \in Nat
  BY LenProperties DEF Inv, Typed, TypeOK
<1>2. handles' = Append(handles, NewHandle(p, cfg))
  BY DEF OpenReal
<1>3. Len(handles') = Len(handles) + 1
  BY <1>1, <1>2
<1>4. ASSUME NEW h \in HandleIds' PROVE handles'[h] = IF h \in HandleIds THEN handles[h] ELSE NewHandle(p, cfg)
  BY <1>1, <1>2, <1>3, <1>4 DEF HandleIds
<1>5. NewHandle(p, cfg).holder = None
  BY DEF NewHandle
<1>6. QED
  BY <1>4, <1>5 DEF NoneTaken

\* What the handlers do to the mutexes: nothing, but for those of a transfer.
LEMMA HandlersTakeNone ==
  ASSUME Inv, NEW c \in Client, Handler(c), ~TransferLock(c), ~TransferEnd(c)
  PROVE  NoneTaken
<1>1. ASSUME NEW p, Release(p) PROVE NoneTaken
  <2>1. handles' = [handles EXCEPT ![current[p]] = [handles[current[p]] EXCEPT !.reader = "stopping"]]
    BY <1>1 DEF Release
  <2>2. current[p] \in HandleIds => handles[current[p]] \in Handle
    BY PortOfHandle DEF Inv, Typed
  <2>3. current[p] \in HandleIds =>
          [handles[current[p]] EXCEPT !.reader = "stopping"].holder = handles[current[p]].holder
    BY <2>2 DEF Handle
  <2>4. QED
    BY <2>1, <2>3, HolderKept
<1>2. CASE ReconfigureSet(c)
  <2> DEFINE new == Reconfigured(using[c], config[c], handles[using[c]].linked)
  <2>1. handles' = [handles EXCEPT ![using[c]] = new]
    BY <1>2 DEF ReconfigureSet
  <2>2. using[c] \in HandleIds => handles[using[c]] \in Handle
    BY PortOfHandle DEF Inv, Typed
  <2>3. using[c] \in HandleIds => new.holder = handles[using[c]].holder
    BY <2>2 DEF Handle, Reconfigured
  <2>4. QED
    BY <2>1, <2>3, HolderKept
<1>3. CASE OpenSerial(c) \/ EspReopen(c)
  <2>1. UNCHANGED handles \/ OpenReal(request[c].port, config[c])
    BY <1>3 DEF OpenSerial, EspReopen
  <2>2. QED
    BY <2>1, NoneTakenBySame, NoneTakenByOpening
<1>4. CASE ClosePort(c) \/ EspRelease(c)
  <2>1. UNCHANGED handles \/ Release(request[c].port)
    BY <1>4 DEF ClosePort, EspRelease
  <2>2. QED
    BY <1>1, <2>1, NoneTakenBySame
<1>5. CASE UNCHANGED handles
  BY <1>5, NoneTakenBySame
<1>6. QED
  BY <1>2, <1>3, <1>4, <1>5
  DEF Handler, OpenPort, Remember, ReconfigureGet, ActorWaits, Write, CloseForget,
      TransferStart, TransferStalls, TransferGoesOn, EspState, EspTool, EspToolEnds

\* The handlers of other requests neither begin nor end a transfer.
LEMMA OthersTransferNothing ==
  ASSUME Inv, NEW c \in Client, Handler(c) \/ Ask(c),
         ~TransferStart(c), ~TransferLock(c), ~TransferEnd(c),
         ~TransferStalls(c), ~TransferGoesOn(c)
  PROVE  TransfersStay
<1>1. /\ pc \in [Client -> ClientPc] /\ pc' \in [Client -> ClientPc]
      /\ using \in [Client -> 0 .. Len(handles)]
  <2>1. Inv'
    BY InvStep DEF Next
  <2>2. QED
    BY <2>1 DEF Inv, Typed, TypeOK
<1>2. pc[c] \notin AtTransfer
  BY DEF AtTransfer, Ask, Handler, OpenPort, OpenSerial, Remember, ReconfigureGet, ActorWaits,
         ReconfigureSet, Write, ClosePort, CloseForget, EspState, EspRelease, EspTool,
         EspToolEnds, EspReopen
<1>3. PICK place : pc' = [pc EXCEPT ![c] = place] /\ place \notin AtTransfer
  <2>1. CASE Ask(c)
    <3>1. PICK r \in Request : Goto(c, r.kind)
      BY <2>1 DEF Ask
    <3>2. r.kind \in RequestKind
      BY PortsAssumption DEF PortsAssumption, Request
    <3>3. QED
      BY <3>1, <3>2 DEF Goto, AtTransfer, RequestKind
  <2>2. CASE Handler(c) /\ pc' = pc
    BY <1>1, <1>2, <2>2
  <2>3. CASE Handler(c) /\ pc' # pc
    BY <2>3 DEF AtTransfer, Reply, Goto, Handler, OpenPort, OpenSerial, Remember, ReconfigureGet,
         ActorWaits, ReconfigureSet, Write, ClosePort, CloseForget, EspState, EspRelease,
         EspTool, EspToolEnds, EspReopen
  <2>4. QED
    BY <2>1, <2>2, <2>3
<1>4. \A d \in Client : d # c => using'[d] = using[d]
  BY <1>1 DEF Ask, Reply, Handler, OpenPort, OpenSerial, Remember, ReconfigureGet, ActorWaits,
         ReconfigureSet, Write, ClosePort, CloseForget, EspState, EspRelease, EspTool,
         EspToolEnds, EspReopen
<1>5. QED
  BY <1>1, <1>2, <1>3, <1>4 DEF TransfersStay


LEMMA HeldStep == ASSUME Inv, Waits, MutexHeld, [Next]_vars PROVE MutexHeld'
<1>1. Inv'
  BY InvStep
<1>2. /\ pc \in [Client -> ClientPc] /\ using \in [Client -> 0 .. Len(handles)]
      /\ \A c \in Client : c # None
  BY PortsAssumption DEF Inv, Typed, TypeOK, PortsAssumption
<1>3. ASSUME NEW c \in Client, TransferStart(c) PROVE MutexHeld'
  <2>1. NoneTaken
    BY <1>3, NoneTakenBySame DEF TransferStart
  <2>2. HandleIds' = HandleIds /\ UNCHANGED handles
    BY <1>3 DEF TransferStart, HandleIds
  <2>3. ASSUME NEW d \in Client, pc'[d] \in AtTransfer PROVE using'[d] # 0
    BY <1>2, <1>3, <2>3 DEF TransferStart, Goto, Reply, MutexHeld, AtTransfer, Managed
  <2>4. ASSUME NEW h \in HandleIds, NEW d \in Client, handles[h].holder = d
        PROVE  pc'[d] \in Transferring /\ using'[d] = h
    <3>1. pc[d] \in Transferring /\ using[d] = h
      BY <2>4 DEF MutexHeld
    <3>2. d # c
      BY <1>3, <3>1 DEF TransferStart, Transferring
    <3>3. QED
      BY <1>2, <1>3, <3>1, <3>2 DEF TransferStart, Goto, Reply
  <2>5. QED
    BY <2>2, <2>3, <2>4 DEF MutexHeld
<1>4. ASSUME NEW c \in Client, TransferLock(c) PROVE MutexHeld'
  <2> DEFINE new == [handles[using[c]] EXCEPT !.holder = c]
  <2>1. /\ HandleIds' = HandleIds
        /\ \A g \in HandleIds : handles'[g] = IF g = using[c] THEN new ELSE handles[g]
    <3>1. handles' = [handles EXCEPT ![using[c]] = new]
      BY <1>4 DEF TransferLock
    <3> HIDE DEF new
    <3>2. QED
      BY <3>1, HandleSetAgain
  <2>2. /\ pc' = [pc EXCEPT ![c] = "transfer.run"] /\ using' = using
        /\ pc[c] = "transfer.lock" /\ handles[using[c]].holder = None
    BY <1>4 DEF TransferLock, Goto, MutexFree
  <2>3. ASSUME NEW d \in Client, pc'[d] \in AtTransfer PROVE using'[d] # 0
    BY <1>2, <2>2, <2>3 DEF MutexHeld, AtTransfer
  <2>4. ASSUME NEW h \in HandleIds, NEW d \in Client, handles'[h].holder = d
        PROVE  pc'[d] \in Transferring /\ using'[d] = h
    <3>1. CASE h = using[c]
      <4>1. handles[h] \in Handle
        BY PortOfHandle DEF Inv, Typed
      <4>2. handles'[h].holder = c
        BY <2>1, <3>1, <4>1 DEF Handle
      <4>3. QED
        BY <1>2, <2>2, <2>4, <3>1, <4>2 DEF Transferring
    <3>2. CASE h # using[c]
      <4>1. pc[d] \in Transferring /\ using[d] = h
        BY <2>1, <2>4, <3>2 DEF MutexHeld
      <4>2. QED
        BY <1>2, <2>2, <4>1 DEF Transferring
    <3>3. QED
      BY <3>1, <3>2
  <2>5. QED
    BY <2>1, <2>3, <2>4 DEF MutexHeld
<1>5. ASSUME NEW c \in Client, TransferEnd(c) PROVE MutexHeld'
  <2> DEFINE new == [handles[using[c]] EXCEPT !.holder = None]
  <2>1. /\ HandleIds' = HandleIds
        /\ \A g \in HandleIds : handles'[g] = IF g = using[c] THEN new ELSE handles[g]
    <3>1. handles' = [handles EXCEPT ![using[c]] = new]
      BY <1>5 DEF TransferEnd, GuardDropped
    <3> HIDE DEF new
    <3>2. QED
      BY <3>1, HandleSetAgain
  <2>2. /\ pc' = [pc EXCEPT ![c] = "idle"] /\ using' = [using EXCEPT ![c] = 0]
    BY <1>5 DEF TransferEnd, Reply
  <2>3. ASSUME NEW d \in Client, pc'[d] \in AtTransfer PROVE using'[d] # 0
    BY <1>2, <2>2, <2>3 DEF MutexHeld, AtTransfer
  <2>4. ASSUME NEW h \in HandleIds, NEW d \in Client, handles'[h].holder = d
        PROVE  pc'[d] \in Transferring /\ using'[d] = h
    <3>1. h # using[c]
      <4>1. ASSUME h = using[c] PROVE FALSE
        <5>1. handles[h] \in Handle
          BY PortOfHandle DEF Inv, Typed
        <5>2. handles'[h].holder = None
          BY <2>1, <4>1, <5>1 DEF Handle
        <5>3. QED
          BY <1>2, <2>4, <5>2
      <4>2. QED
        BY <4>1
    <3>2. pc[d] \in Transferring /\ using[d] = h
      BY <2>1, <2>4, <3>1 DEF MutexHeld
    <3>3. QED
      BY <1>2, <2>2, <3>1, <3>2
  <2>5. QED
    BY <2>1, <2>3, <2>4 DEF MutexHeld
<1>12. ASSUME NEW c \in Client, TransferStalls(c) \/ TransferGoesOn(c) PROVE MutexHeld'
  <2>1. /\ HandleIds' = HandleIds /\ UNCHANGED <<handles, using>> /\ pc[c] \in Transferring
        /\ pc' = [pc EXCEPT ![c] = pc'[c]] /\ pc'[c] \in Transferring
    BY <1>2, <1>12 DEF TransferStalls, TransferGoesOn, Goto, HandleIds, Transferring
  <2>2. ASSUME NEW d \in Client
        PROVE  /\ pc'[d] \in AtTransfer => pc[d] \in AtTransfer
               /\ pc[d] \in Transferring => pc'[d] \in Transferring
    BY <1>2, <2>1 DEF AtTransfer, Transferring
  <2>3. QED
    BY <2>1, <2>2 DEF MutexHeld
<1>6. ASSUME NEW c \in Client, Ask(c) \/ Handler(c) PROVE MutexHeld'
  <2>1. CASE /\ ~TransferStart(c) /\ ~TransferLock(c) /\ ~TransferEnd(c)
             /\ ~TransferStalls(c) /\ ~TransferGoesOn(c)
    <3>1. NoneTaken
      BY <1>6, <2>1, HandlersTakeNone, NoneTakenBySame DEF Ask
    <3>2. TransfersStay
      BY <1>6, <2>1, OthersTransferNothing
    <3>3. QED
      BY <3>1, <3>2, MutexStays
  <2>2. QED
    BY <1>3, <1>4, <1>5, <1>12, <2>1
<1>7. ASSUME NEW h \in HandleIds, ReaderEnds(h) \/ Reconnect(h) PROVE MutexHeld'
  <2>1. handles[h] \in Handle
    BY PortOfHandle DEF Inv, Typed
  <2>2. PICK new : handles' = [handles EXCEPT ![h] = new] /\
          new \in {[handles[h] EXCEPT !.reader = "ended"],
                   [handles[h] EXCEPT !.linked = TRUE, !.relinked = TRUE, !.wire = handles[h].factory]}
    BY <1>7 DEF ReaderEnds, Reconnect
  <2>3. new.holder = handles[h].holder
    BY <2>1, <2>2 DEF Handle
  <2>4. TransfersStay
    BY <1>7 DEF ReaderEnds, Reconnect, clientVars, TransfersStay
  <2>5. QED
    BY <2>2, <2>3, <2>4, HolderKept, MutexStays
<1>8. ASSUME NEW p \in Port, Unplug(p) \/ Plug(p) PROVE MutexHeld'
  <2>1. TransfersStay
    BY <1>8 DEF Unplug, Plug, clientVars, TransfersStay
  <2>2. CASE Unplug(p)
    <3>1. HandleIds' = HandleIds
      BY <2>2, LenProperties DEF Unplug, HandleIds, Inv, Typed, TypeOK
    <3>2. ASSUME NEW h \in HandleIds PROVE handles'[h].holder = handles[h].holder
      <4>1. handles[h] \in Handle
        BY PortOfHandle DEF Inv, Typed
      <4>2. handles'[h] \in {handles[h], [handles[h] EXCEPT !.linked = FALSE]}
        BY <2>2 DEF Unplug
      <4>3. QED
        BY <4>1, <4>2 DEF Handle
    <3>3. NoneTaken
      BY <3>1, <3>2 DEF NoneTaken
    <3>4. QED
      BY <2>1, <3>3, MutexStays
  <2>3. QED
    BY <1>8, <2>1, <2>2, NoneTakenBySame, MutexStays DEF Plug
<1>9. CASE Restart
  <2>1. \A c \in Client : pc'[c] = "idle"
    BY <1>9 DEF Restart
  <2>2. ASSUME NEW h \in HandleIds' PROVE handles'[h].holder = None
    <3>1. CASE \E p \in Restored : handles'[h] = NewHandle(p, recorded[p])
      BY <3>1 DEF NewHandle
    <3>2. CASE h \in HandleIds /\ handles'[h] = [handles[h] EXCEPT !.reader = "ended", !.linked = FALSE,
                                                                !.holder = None]
      <4>1. handles[h] \in Handle
        BY <3>2, PortOfHandle DEF Inv, Typed
      <4>2. QED
        BY <3>2, <4>1 DEF Handle
    <3>3. QED
      BY <1>9, <3>1, <3>2, RestartKeeps
  <2>3. QED
    BY <1>2, <2>1, <2>2 DEF MutexHeld, AtTransfer
<1>10. CASE UNCHANGED vars
  BY <1>10, NoneTakenBySame, MutexStays DEF vars, clientVars, TransfersStay
<1>11. QED
  BY <1>6, <1>7, <1>8, <1>9, <1>10 DEF Next

\* A transfer waits for nobody but its device, so who waits for one or for the actor
\* is in the end let go by it, or waits for that device.
LEMMA WaitsEnd == ASSUME Inv, Waits, MutexHeld PROVE NeverStuck
<1>1. ASSUME NEW c \in Client, NEW d \in Client, AtMutex(c), handles[using[c]].holder = d
      PROVE  Ends(d)
  <2>1. using[c] \in HandleIds
    <3>1. using[c] # 0
      BY <1>1 DEF AtMutex, MutexHeld, AtTransfer, Waits
    <3>2. using[c] \in 0 .. Len(handles) /\ Len(handles) \in Nat
      BY LenProperties DEF Inv, Typed, TypeOK
    <3>3. QED
      BY <3>1, <3>2 DEF HandleIds
  <2>2. pc[d] \in {"transfer.run", "transfer.stall"}
    BY <1>1, <2>1 DEF MutexHeld, Transferring
  <2>3. actor # d
    BY <2>2 DEF Waits
  <2>4. WaitsFor(d) = {}
    BY <2>2, <2>3 DEF WaitsFor, AtActor, AtMutex
  <2>5. QED
    BY <2>2, <2>4 DEF Ends, GoesOn
<1>2. ASSUME NEW c \in Client, NEW d \in WaitsFor(c), ~Ends(d)
      PROVE  \E e \in WaitsFor(d) : Ends(e)
  <2>1. d \in Client /\ actor = d
    BY <1>1, <1>2 DEF WaitsFor
  <2>2. pc[d] # "idle"
    BY <2>1 DEF Waits
  <2>3. PICK e \in WaitsFor(d) : TRUE
    BY <1>2, <2>2 DEF Ends, GoesOn
  <2>4. Ends(e)
    BY <1>1, <2>1, <2>3 DEF WaitsFor
  <2>5. QED
    BY <2>4
<1>3. QED
  BY <1>2 DEF NeverStuck, Ends, GoesOn

-----------------------------------------------------------------------------
(* The theorems. *)

\* Every variable of the port table keeps its type, whatever the requests,
\* the devices and the restarts do.
THEOREM PortsTypes == Spec => []TypeOK
<1>1. Inv => TypeOK
  BY DEF Inv, Typed
<1>2. QED
  BY <1>1, InvInit, InvStep, PTL DEF Spec

\* A reader nobody told to stop is the one the table knows, for any ports and
\* clients: no open, reopen or restart leaves a second reader behind.
THEOREM ReadersUnique == Spec => []OneReader
<1>1. Inv => OneReader
  BY DEF Inv, Readers
<1>2. QED
  BY <1>1, InvInit, InvStep, PTL DEF Spec

\* The state database is right about every port, whatever the requests of the
\* clients, the devices and the restarts do between its steps: what it would
\* reopen was once in force, and between requests it agrees with the table, unless
\* it did not take the last change, two changes of the port overlapped, a reopen
\* after an ESP operation failed, or a restart could not restore the port.
THEOREM RecordIsTrue == Spec => []RecordTrue
<1>1. Init => Books
  BY InvInit, LedgerInit DEF Books
<1>2. Books => RecordTrue
  BY BooksRight
<1>3. QED
  BY <1>1, <1>2, BooksStep, PTL DEF Spec

\* A setting has the last value anybody asked for, in the table and, but for
\* what a reconnect put back, on the wire, unless two changes of the port
\* overlapped, a reopen failed or a restart could not restore it: what a request
\* leaves out keeps the value that an earlier request gave it.
THEOREM SettingsAreTrue == Spec => []SettingsTrue
<1>1. Init => Books
  BY InvInit, LedgerInit DEF Books
<1>2. Books => SettingsTrue
  BY BooksRight
<1>3. QED
  BY <1>1, <1>2, BooksStep, PTL DEF Spec

\* Nobody waits for good but for a device, for any number of clients and ports: every
\* request that waits, for the actor or for the mutex of a port, waits for one that
\* goes on or reads from a device that is there, or for the actor's command, which
\* waits for such a one.  No set of requests waits for each other.
THEOREM NobodyStuck == Spec => []NeverStuck
<1> DEFINE WaitInv == Inv /\ Waits /\ MutexHeld
<1>1. Init => WaitInv
  BY InvInit, LedgerInit DEF Init, MutexHeld, AtTransfer, HandleIds
<1>2. WaitInv /\ [Next]_vars => WaitInv'
  BY InvStep, WaitsStep, HeldStep
<1>3. WaitInv => NeverStuck
  BY WaitsEnd
<1> HIDE DEF WaitInv
<1>4. QED
  BY <1>1, <1>2, <1>3, PTL DEF Spec

-----------------------------------------------------------------------------
(* The idle timer and the leases. *)

\* LifecycleTypeOK but for the count of requests in flight.
LifecycleTyped ==
  /\ now \in Nat /\ now <= MaxTime
  /\ period \in Periods /\ lastActivity \in Nat /\ lastActivity <= now
  /\ leases \in [Holder -> Nat] /\ lastLines \in Nat \cup {NoCount}
  /\ lines \in Nat /\ listed \in Nat
  /\ watcher \in {"asleep", "listed", "observed"}
  /\ nextCheck \in Nat /\ stopping \in BOOLEAN
  /\ asked \in [Holder -> AskedKind \cup {"none"}]
  /\ stage \in [Holder -> {"begun", "handled"}]
  /\ keeper \in [Holder -> {"none", "held", "gone"}]
  /\ nextRenew \in [Holder -> Nat] /\ missed \in [Holder -> Nat]
  /\ lastRequest \in Nat /\ lastRequest <= now /\ lastRenewal \in [Holder -> Int]
  /\ lastChange \in Nat /\ lastChange <= now /\ lastData \in Nat /\ lastData <= now
  /\ fresh \in BOOLEAN /\ shrunk \in BOOLEAN
  /\ data \in Nat /\ trims \in Nat /\ asks \in Nat

Asking == {c \in Holder : asked[c] # "none"}
Counts == inFlight = Cardinality(Asking)

\* A request that has begun or ended is known to the idle timer.
Noted == lastRequest <= lastActivity

-----------------------------------------------------------------------------
LEMMA Constants ==
  /\ Periods \subseteq Nat /\ FirstPeriod \in Nat /\ FirstPeriod \in Periods
  /\ Check \in Nat /\ Check > 0 /\ Renew \in Nat /\ Renew > 0 /\ Ttl \in Nat /\ 2 * Renew < Ttl
  /\ Ttl > 0 /\ MaxTime \in Nat /\ NoCount = -1
  BY LifecycleAssumption DEF LifecycleAssumption, NoCount

LEMMA TypedInit == LifecycleInit => LifecycleTyped
<1> SUFFICES ASSUME LifecycleInit PROVE LifecycleTyped
  OBVIOUS
<1>1. -Ttl \in Int /\ 0 <= MaxTime
  BY Constants
<1>2. lastRenewal \in [Holder -> Int]
  BY <1>1 DEF LifecycleInit
<1>3. /\ leases \in [Holder -> Nat] /\ asked \in [Holder -> AskedKind \cup {"none"}]
      /\ stage \in [Holder -> {"begun", "handled"}] /\ keeper \in [Holder -> {"none", "held", "gone"}]
      /\ nextRenew \in [Holder -> Nat] /\ missed \in [Holder -> Nat]
  BY DEF LifecycleInit
<1>4. /\ now = 0 /\ period = FirstPeriod /\ lastActivity = 0 /\ lastLines = NoCount /\ lines = 0
      /\ watcher = "asleep" /\ nextCheck = 0 /\ listed = 0 /\ stopping = FALSE
      /\ lastRequest = 0 /\ lastChange = 0 /\ lastData = 0 /\ fresh = FALSE /\ shrunk = FALSE
      /\ data = 0 /\ trims = 0 /\ asks = 0
  BY DEF LifecycleInit
<1>5. /\ period \in Periods /\ lastLines \in Nat \cup {NoCount} /\ now <= MaxTime
      /\ watcher \in {"asleep", "listed", "observed"} /\ stopping \in BOOLEAN
      /\ fresh \in BOOLEAN /\ shrunk \in BOOLEAN
  BY <1>1, <1>4, Constants
<1>6. QED
  BY <1>2, <1>3, <1>4, <1>5 DEF LifecycleTyped

LEMMA BeginTypes ==
  ASSUME LifecycleTyped, NEW c \in Holder, NEW kind \in AskedKind, Begin(c, kind)
  PROVE  /\ asked' \in [Holder -> AskedKind \cup {"none"}]
         /\ stage' \in [Holder -> {"begun", "handled"}]
         /\ lastActivity' = now /\ lastRequest' = now
  BY DEF Begin, Serving, LifecycleTyped

LEMMA TypedStep == LifecycleTyped /\ [LifecycleNext]_lifecycleVars => LifecycleTyped'
<1> SUFFICES ASSUME LifecycleTyped, [LifecycleNext]_lifecycleVars PROVE LifecycleTyped'
  OBVIOUS
<1>1. ASSUME NEW c \in Holder, Send(c) PROVE LifecycleTyped'
  <2>1. PICK kind \in {"work", "period"} : Begin(c, kind)
    BY <1>1 DEF Send
  <2>2. kind \in AskedKind
    BY DEF AskedKind
  <2>3. QED
    BY <1>1, <2>1, <2>2, BeginTypes DEF Send, LifecycleTyped, watchVars
<1>2. ASSUME NEW c \in Holder, HandleRequest(c) PROVE LifecycleTyped'
  <2>1. /\ period' \in Periods /\ lastActivity' \in {lastActivity, now}
        /\ \/ UNCHANGED <<leases, lastRenewal>>
           \/ \E lease \in {0, now + Ttl}, time \in {now, -Ttl} :
                leases' = [leases EXCEPT ![c] = lease] /\ lastRenewal' = [lastRenewal EXCEPT ![c] = time]
    BY <1>2 DEF HandleRequest, LifecycleTyped, AskedKind, LeaseTtl
  <2>2. now + Ttl \in Nat /\ -Ttl \in Int /\ now \in Int
    BY Constants DEF LifecycleTyped
  <2>3. leases' \in [Holder -> Nat] /\ lastRenewal' \in [Holder -> Int]
    BY <2>1, <2>2 DEF LifecycleTyped
  <2>4. /\ stage' = [stage EXCEPT ![c] = "handled"]
        /\ UNCHANGED <<now, lastLines, lines, watcher, nextCheck, listed, stopping, asked, keeper,
                       nextRenew, missed, lastRequest, lastChange, lastData, fresh, shrunk,
                       data, trims, asks>>
    BY <1>2 DEF HandleRequest, watchVars, lifecycleBounds
  <2>5. QED
    BY <2>1, <2>3, <2>4 DEF LifecycleTyped
<1>3. ASSUME NEW c \in Holder, Finish(c) PROVE LifecycleTyped'
  <2>1. now + Renew \in Nat
    BY Constants DEF LifecycleTyped
  <2>2. nextRenew' \in [Holder -> Nat] /\ missed' \in [Holder -> Nat]
    BY <1>3, <2>1 DEF Finish, LifecycleTyped
  <2>3. /\ asked' = [asked EXCEPT ![c] = "none"] /\ lastActivity' = now /\ lastRequest' = now
        /\ UNCHANGED <<now, period, leases, lastLines, lines, watcher, nextCheck, listed, stopping,
                       stage, keeper, lastRenewal, lastChange, lastData, fresh, shrunk,
                       data, trims, asks>>
    BY <1>3 DEF Finish, Served, watchVars, lifecycleBounds
  <2>4. QED
    BY <2>2, <2>3 DEF LifecycleTyped
<1>4. ASSUME NEW c \in Holder, Attach(c) PROVE LifecycleTyped'
  BY <1>4 DEF Attach, LifecycleTyped, inner, watchVars, idleHistory
<1>5. ASSUME NEW c \in Holder, RenewLease(c) PROVE LifecycleTyped'
  BY <1>5, BeginTypes DEF RenewLease, LifecycleTyped, AskedKind, watchVars, lifecycleBounds
<1>6. ASSUME NEW c \in Holder, RenewalLost(c) PROVE LifecycleTyped'
  <2>1. now + Renew \in Nat
    BY Constants DEF LifecycleTyped
  <2>2. QED
    BY <1>6, <2>1 DEF RenewalLost, LifecycleTyped, inner, watchVars, idleHistory, lifecycleBounds
<1>7. ASSUME NEW c \in Holder, Detach(c) PROVE LifecycleTyped'
  BY <1>7, BeginTypes DEF Detach, LifecycleTyped, AskedKind, watchVars, lifecycleBounds
<1>8. ASSUME NEW c \in Holder, ClientDies(c) PROVE LifecycleTyped'
  BY <1>8 DEF ClientDies, LifecycleTyped, inner, watchVars, idleHistory, lifecycleBounds
<1>9. CASE Arrive
  BY <1>9 DEF Arrive, LifecycleTyped, inner, watchVars, holderVars
<1>10. CASE Trim
  <2>1. lines' \in Nat
    BY <1>10 DEF Trim
  <2>2. QED
    BY <1>10, <2>1 DEF Trim, LifecycleTyped, inner, watchVars, holderVars
<1>11. CASE ListLines
  <2>1. /\ listed' = lines /\ nextCheck' = now + Check /\ watcher' = "listed"
        /\ lastData' \in {now, lastData} /\ fresh' = FALSE /\ shrunk' = FALSE
        /\ UNCHANGED <<now, period, lastActivity, leases, lastLines, lines, stopping, asked, stage,
                       keeper, nextRenew, missed, lastRequest, lastRenewal, lastChange,
                       data, trims, asks>>
    BY <1>11 DEF ListLines, inner, holderVars, lifecycleBounds
  <2>2. nextCheck' \in Nat /\ lastData' \in Nat /\ lastData' <= now
    BY <2>1, Constants DEF LifecycleTyped
  <2>3. listed' \in Nat /\ watcher' \in {"asleep", "listed", "observed"}
        /\ fresh' \in BOOLEAN /\ shrunk' \in BOOLEAN
    BY <2>1 DEF LifecycleTyped
  <2>4. QED
    BY <2>1, <2>2, <2>3 DEF LifecycleTyped
<1>12. CASE ObserveLines
  BY <1>12 DEF ObserveLines, Counted, LifecycleTyped, holderVars, idleHistory, lifecycleBounds
<1>13. CASE Decide
  <2>1. IdleExpired \in BOOLEAN
    BY DEF IdleExpired
  <2>2. leases' \in [Holder -> Nat]
    BY <1>13 DEF Decide, LifecycleTyped
  <2>3. QED
    BY <1>13, <2>1, <2>2 DEF Decide, LifecycleTyped, holderVars, idleHistory, lifecycleBounds
<1>14. CASE Tick
  BY <1>14, Constants DEF Tick, LifecycleTyped, inner, watchVars, holderVars, idleHistory, lifecycleBounds
<1>15. CASE UNCHANGED lifecycleVars
  BY <1>15 DEF LifecycleTyped, lifecycleVars, inner, watchVars, holderVars, idleHistory, lifecycleBounds
<1>16. QED
  BY <1>1, <1>2, <1>3, <1>4, <1>5, <1>6, <1>7, <1>8, <1>9, <1>10, <1>11, <1>12, <1>13, <1>14,
     <1>15 DEF LifecycleNext

-----------------------------------------------------------------------------
(* Which steps leave what alone. *)

\* Steps of a client.
ClientMoves(c) ==
  Send(c) \/ HandleRequest(c) \/ Finish(c) \/ Attach(c) \/ RenewLease(c) \/ RenewalLost(c)
    \/ Detach(c) \/ ClientDies(c)

LEMMA ClientLeaves ==
  ASSUME NEW c \in Holder, ClientMoves(c)
  PROVE  UNCHANGED <<now, lines, watcher, nextCheck, listed, stopping, lastLines, lastChange,
                     lastData, fresh, shrunk>>
  BY DEF ClientMoves, Send, HandleRequest, Finish, Attach, RenewLease, RenewalLost, Detach,
         ClientDies, inner, watchVars, idleHistory

LEMMA WatcherLeaves ==
  ASSUME Arrive \/ Trim \/ ListLines \/ ObserveLines \/ Decide \/ Tick
  PROVE  UNCHANGED <<period, inFlight, asked, stage, keeper, nextRenew, missed, lastRequest,
                     lastRenewal>>
  BY DEF Arrive, Trim, ListLines, ObserveLines, Decide, Tick, inner, holderVars, idleHistory

\* A client's step that tells the idle timer of a request, or is between its ends.
LEMMA ClientTimes ==
  ASSUME LifecycleTyped, NEW c \in Holder, ClientMoves(c)
  PROVE  \/ lastActivity' = now /\ lastRequest' = now
         \/ lastRequest' = lastRequest /\ lastActivity' = now /\ asked[c] = "release" /\ asked' = asked
         \/ lastRequest' = lastRequest /\ lastActivity' = lastActivity
  BY DEF ClientMoves, Send, HandleRequest, Finish, Attach, RenewLease, RenewalLost, Detach,
         ClientDies, Begin, Serving, Served, LifecycleTyped, AskedKind, inner, idleHistory

LEMMA NextMoves ==
  LifecycleNext => \/ \E c \in Holder : ClientMoves(c)
                   \/ Arrive \/ Trim \/ ListLines \/ ObserveLines \/ Decide \/ Tick
  BY DEF LifecycleNext, ClientMoves

-----------------------------------------------------------------------------
(* The requests in flight, and what the idle timer knows of them. *)

LEMMA AskingFinite == IsFiniteSet(Asking)
<1>1. Asking \subseteq Holder /\ IsFiniteSet(Holder)
  BY LifecycleAssumption DEF Asking, LifecycleAssumption
<1>2. QED
  BY <1>1, FS_Subset

LEMMA CountsBegin ==
  ASSUME LifecycleTyped, Counts, NEW c \in Holder, NEW kind \in AskedKind, Begin(c, kind)
  PROVE  Counts'
<1>1. c \notin Asking /\ Asking' = Asking \cup {c} /\ inFlight' = inFlight + 1
  BY DEF Begin, Serving, Asking, AskedKind, LifecycleTyped
<1>2. Cardinality(Asking \cup {c}) = Cardinality(Asking) + 1
  BY <1>1, AskingFinite, FS_AddElement
<1>3. QED
  BY <1>1, <1>2 DEF Counts

LEMMA CountsStep == LifecycleTyped /\ Counts /\ [LifecycleNext]_lifecycleVars => Counts'
<1> SUFFICES ASSUME LifecycleTyped, Counts, [LifecycleNext]_lifecycleVars PROVE Counts'
  OBVIOUS
<1>1. ASSUME UNCHANGED <<asked, inFlight>> PROVE Counts'
  BY <1>1 DEF Counts, Asking
<1>2. ASSUME NEW c \in Holder, Send(c) \/ RenewLease(c) \/ Detach(c) PROVE Counts'
  BY <1>2, CountsBegin DEF Send, RenewLease, Detach, AskedKind
<1>3. ASSUME NEW c \in Holder, Finish(c) PROVE Counts'
  <2>1. c \in Asking /\ Asking' = Asking \ {c} /\ inFlight' = inFlight - 1
    BY <1>3 DEF Finish, Served, Asking, LifecycleTyped
  <2>2. Cardinality(Asking \ {c}) = Cardinality(Asking) - 1
    BY <2>1, AskingFinite, FS_RemoveElement
  <2>3. QED
    BY <2>1, <2>2 DEF Counts
<1>4. ASSUME NEW c \in Holder, HandleRequest(c) \/ Attach(c) \/ RenewalLost(c) \/ ClientDies(c)
      PROVE  Counts'
  BY <1>1, <1>4 DEF HandleRequest, Attach, RenewalLost, ClientDies, inner
<1>5. CASE UNCHANGED lifecycleVars
  BY <1>1, <1>5 DEF lifecycleVars, inner, holderVars
<1>6. QED
  BY <1>1, <1>2, <1>3, <1>4, <1>5, WatcherLeaves DEF LifecycleNext

\* While a request that takes no time is served, it is the last one there was.
ShortNow == (\E c \in Holder : asked[c] \in Short) => lastRequest = now

LEMMA NotedStep ==
  LifecycleTyped /\ Noted /\ ShortNow /\ [LifecycleNext]_lifecycleVars => Noted' /\ ShortNow'
<1> SUFFICES ASSUME LifecycleTyped, Noted, ShortNow, [LifecycleNext]_lifecycleVars PROVE Noted' /\ ShortNow'
  OBVIOUS
<1>1. CASE UNCHANGED lifecycleVars
  BY <1>1 DEF lifecycleVars, inner, holderVars, idleHistory, Noted, ShortNow
<1>2. ASSUME NEW c \in Holder, ClientMoves(c) PROVE Noted' /\ ShortNow'
  <2>1. now' = now /\ lastRequest <= now /\ lastRequest \in Nat /\ now \in Nat
    BY <1>2, ClientLeaves DEF LifecycleTyped
  <2>2. Noted'
    BY <1>2, <2>1, ClientTimes DEF Noted
  <2>3. CASE lastRequest' = now
    BY <2>1, <2>2, <2>3 DEF ShortNow
  <2>4. CASE asked' = asked /\ lastRequest' = lastRequest
    BY <2>1, <2>2, <2>4 DEF ShortNow
  <2>5. lastRequest' = now \/ (asked' = asked /\ lastRequest' = lastRequest)
    BY <1>2 DEF ClientMoves, Send, HandleRequest, Finish, Attach, RenewLease, RenewalLost, Detach,
                ClientDies, Begin, idleHistory
  <2>6. QED
    BY <2>2, <2>3, <2>4, <2>5
<1>3. CASE Tick
  <2>1. \A c \in Holder : asked[c] \notin Short
    BY <1>3 DEF Tick
  <2>2. UNCHANGED <<asked, lastRequest, lastActivity>>
    BY <1>3 DEF Tick, inner, holderVars, idleHistory
  <2>3. QED
    BY <2>1, <2>2 DEF Noted, ShortNow
<1>4. CASE Arrive \/ Trim \/ ListLines \/ ObserveLines \/ Decide
  <2>1. UNCHANGED <<asked, lastRequest, now>>
    BY <1>4, WatcherLeaves DEF Arrive, Trim, ListLines, ObserveLines, Decide
  <2>2. lastActivity' \in {lastActivity, now}
    BY <1>4 DEF Arrive, Trim, ListLines, ObserveLines, Decide, inner
  <2>3. QED
    BY <2>1, <2>2 DEF Noted, ShortNow, LifecycleTyped
<1>5. QED
  BY <1>1, <1>2, <1>3, <1>4, NextMoves

-----------------------------------------------------------------------------
(* The rounds of the watcher and the rows it counts. *)

\* The count the next round compares with, and the time of the last round.
IdleBase == IF watcher = "listed" THEN listed ELSE lastLines
Round == nextCheck - Check

Rounds ==
  /\ ~stopping => now <= nextCheck
  /\ watcher # "asleep" => nextCheck = now + Check
  /\ Round <= now
  /\ stopping => watcher = "asleep"
  /\ IdleBase = NoCount => nextCheck = 0 /\ watcher = "asleep" /\ ~stopping

Rows ==
  IdleBase # NoCount =>
    /\ ~shrunk => (IF fresh THEN lines > IdleBase ELSE lines = IdleBase)
    /\ lines # IdleBase => lastChange >= Round

\* What a round found is noted, unless the watcher is about to.
DataSeen ==
  /\ lastData <= lastActivity \/ (watcher = "listed" /\ lastData = now /\ DataArrived)
  /\ watcher = "listed" /\ DataArrived => now <= lastChange + Check

Watch == Rounds /\ Rows /\ DataSeen

LEMMA WatchStep == LifecycleTyped /\ Watch /\ [LifecycleNext]_lifecycleVars => Watch'
<1> SUFFICES ASSUME LifecycleTyped, Watch, [LifecycleNext]_lifecycleVars PROVE Watch'
  OBVIOUS
<1>1. ASSUME UNCHANGED <<now, lines, watcher, nextCheck, listed, stopping, lastLines, lastChange,
                         lastData, fresh, shrunk>>,
             lastActivity' = lastActivity \/ lastActivity' = now
      PROVE  Watch'
  <2>1. Rounds' /\ Rows'
    BY <1>1 DEF Watch, Rounds, Rows, IdleBase, Round
  <2>2. lastActivity <= lastActivity' /\ DataArrived' = DataArrived
    BY <1>1 DEF LifecycleTyped, DataArrived
  <2>3. lastActivity \in Nat /\ lastActivity' \in Nat /\ lastData \in Nat
    BY <1>1 DEF LifecycleTyped
  <2>4. DataSeen'
    BY <1>1, <2>2, <2>3 DEF Watch, DataSeen
  <2>5. QED
    BY <2>1, <2>4 DEF Watch
<1>2. ASSUME NEW c \in Holder, ClientMoves(c) PROVE Watch'
  BY <1>1, <1>2, ClientLeaves, ClientTimes
<1>3. CASE UNCHANGED lifecycleVars
  BY <1>1, <1>3 DEF lifecycleVars, inner, watchVars, idleHistory
<1>4. CASE Arrive \/ Trim
  <2>1. UNCHANGED <<now, watcher, nextCheck, listed, stopping, lastLines, lastActivity, lastData>>
    BY <1>4 DEF Arrive, Trim, inner, watchVars
  <2>2. lastChange' = now
    BY <1>4 DEF Arrive, Trim
  <2>3. Rounds'
    BY <2>1 DEF Watch, Rounds, IdleBase, Round
  <2>4. Rows'
    <3>1. IdleBase' = IdleBase /\ Round' = Round
      BY <2>1 DEF IdleBase, Round
    <3>2. Round <= now
      BY DEF Watch, Rounds
    <3>3. (lines' = lines + 1 /\ fresh' = TRUE /\ shrunk' = shrunk) \/ shrunk' = TRUE
      BY <1>4 DEF Arrive, Trim
    <3>4. IdleBase \in Int /\ lines \in Nat /\ fresh \in BOOLEAN /\ shrunk \in BOOLEAN
          /\ Round \in Int /\ now \in Nat
      BY Constants DEF IdleBase, LifecycleTyped, Round
    <3>5. IdleBase # NoCount /\ ~shrunk' => lines' > IdleBase /\ fresh'
      BY <3>3, <3>4 DEF Watch, Rows
    <3>6. QED
      BY <2>2, <3>1, <3>2, <3>4, <3>5 DEF Rows
  <2>5. DataSeen'
    BY <2>1, <2>2, Constants DEF Watch, DataSeen, DataArrived, LifecycleTyped
  <2>6. QED
    BY <2>3, <2>4, <2>5 DEF Watch
<1>5. CASE ListLines
  <2>1. /\ watcher = "asleep" /\ nextCheck = now /\ ~stopping
        /\ watcher' = "listed" /\ nextCheck' = now + Check /\ listed' = lines
        /\ lastData' = IF fresh /\ ~shrunk THEN now ELSE lastData
        /\ fresh' = FALSE /\ shrunk' = FALSE
        /\ UNCHANGED <<now, lines, stopping, lastLines, lastActivity, lastChange>>
    BY <1>5 DEF ListLines, CheckDue, inner
  <2>2. IdleBase = lastLines /\ IdleBase' = lines /\ lines \in Nat /\ lastLines \in Int /\ NoCount \notin Nat
    BY <2>1, Constants DEF IdleBase, LifecycleTyped
  <2>3. Round' = now /\ Round = now - Check
    BY <2>1, Constants DEF Round, LifecycleTyped
  <2>4. Rounds'
    BY <2>1, <2>2, <2>3, Constants DEF Rounds, LifecycleTyped
  <2>5. Rows'
    BY <2>1, <2>2 DEF Rows
  <2>6. DataSeen'
    <3>1. DataArrived' <=> lastLines # NoCount /\ lastLines # lines
      BY <2>1 DEF DataArrived
    <3>2. now \in Nat /\ lastChange \in Nat /\ lastActivity \in Nat /\ lastData \in Nat
      BY DEF LifecycleTyped
    <3>3. DataArrived' => now <= lastChange + Check
      BY <2>2, <2>3, <3>1, <3>2, Constants DEF Watch, Rows
    <3>4. lastData <= lastActivity
      BY <2>1 DEF Watch, DataSeen
    <3>5. CASE ~(fresh /\ ~shrunk)
      BY <2>1, <3>3, <3>4, <3>5 DEF DataSeen
    <3>6. CASE fresh /\ ~shrunk /\ lastLines # NoCount
      <4>1. lines > lastLines
        BY <2>2, <3>6 DEF Watch, Rows
      <4>2. DataArrived'
        BY <2>2, <3>1, <3>6, <4>1
      <4>3. QED
        BY <2>1, <3>3, <3>6, <4>2 DEF DataSeen
    <3>7. CASE fresh /\ ~shrunk /\ lastLines = NoCount
      <4>1. now = 0
        BY <2>1, <2>2, <3>7 DEF Watch, Rounds
      <4>2. lastData' <= lastActivity'
        BY <2>1, <3>2, <3>7, <4>1
      <4>3. QED
        BY <2>1, <3>3, <4>2 DEF DataSeen
    <3>8. QED
      BY <3>5, <3>6, <3>7
  <2>7. QED
    BY <2>4, <2>5, <2>6 DEF Watch
<1>6. CASE ObserveLines
  <2>1. /\ watcher = "listed" /\ watcher' = "observed" /\ lastLines' = listed
        /\ lastActivity' = IF DataArrived THEN now ELSE lastActivity
        /\ UNCHANGED <<now, lines, nextCheck, listed, stopping, lastChange, lastData, fresh, shrunk>>
    BY <1>6 DEF ObserveLines, Counted, idleHistory
  <2>2. IdleBase' = IdleBase /\ Round' = Round /\ IdleBase \in Nat /\ NoCount \notin Nat
    BY <2>1, Constants DEF IdleBase, Round, LifecycleTyped
  <2>3. Rounds' /\ Rows'
    BY <2>1, <2>2 DEF Watch, Rounds, Rows
  <2>4. DataSeen'
    BY <2>1 DEF Watch, DataSeen, LifecycleTyped
  <2>5. QED
    BY <2>3, <2>4 DEF Watch
<1>7. CASE Decide
  <2>1. /\ watcher = "observed" /\ watcher' = "asleep" /\ stopping' = IdleExpired
        /\ UNCHANGED <<now, lines, nextCheck, listed, lastLines, lastActivity, lastChange, lastData,
                       fresh, shrunk>>
    BY <1>7 DEF Decide, idleHistory
  <2>2. IdleBase' = IdleBase /\ Round' = Round /\ nextCheck = now + Check /\ IdleBase # NoCount
    BY <2>1 DEF IdleBase, Round, Watch, Rounds
  <2>3. Rounds' /\ Rows'
    BY <2>1, <2>2, Constants DEF Watch, Rounds, Rows, LifecycleTyped
  <2>4. DataSeen'
    BY <2>1 DEF Watch, DataSeen
  <2>5. QED
    BY <2>3, <2>4 DEF Watch
<1>8. CASE Tick
  <2>1. /\ watcher = "asleep" /\ nextCheck # now /\ ~stopping /\ now' = now + 1
        /\ UNCHANGED <<lines, watcher, nextCheck, listed, stopping, lastLines, lastActivity, lastChange,
                       lastData, fresh, shrunk>>
    BY <1>8 DEF Tick, CheckDue, inner, watchVars, idleHistory
  <2>2. IdleBase' = IdleBase /\ Round' = Round
    BY <2>1 DEF IdleBase, Round
  <2>3. now < nextCheck /\ IdleBase # NoCount
    BY <2>1 DEF Watch, Rounds, LifecycleTyped
  <2>4. Rounds' /\ Rows'
    BY <2>1, <2>2, <2>3, Constants DEF Watch, Rounds, Rows, Round, LifecycleTyped
  <2>5. DataSeen'
    BY <2>1 DEF Watch, DataSeen
  <2>6. QED
    BY <2>4, <2>5 DEF Watch
<1>9. QED
  BY <1>2, <1>3, <1>4, <1>5, <1>6, <1>7, <1>8, NextMoves
-----------------------------------------------------------------------------
(* A lease holds for Ttl after its last renewal; a keeper that gets through, *)
(* or misses one renewal only, renews before that.                           *)

Never(c) == lastRenewal[c] = -Ttl

Leases ==
  \A c \in Holder :
    /\ Never(c) => leases[c] = 0
    /\ ~Never(c) => /\ lastRenewal[c] \in Nat /\ lastRenewal[c] <= now
                    /\ \/ leases[c] = lastRenewal[c] + Ttl
                       \/ leases[c] = 0 /\ lastRenewal[c] + Ttl <= now

KeeperTrue(c) ==
  /\ keeper[c] = "none" => Never(c) /\ asked[c] \notin {"renew", "release"}
  /\ asked[c] = "renew" => keeper[c] = "held" /\ nextRenew[c] = now
  /\ asked[c] = "renew" /\ stage[c] = "handled" => lastRenewal[c] = now
  /\ keeper[c] = "held" =>
       /\ asked[c] \in {"none", "renew"} /\ now <= nextRenew[c]
       /\ ~Never(c) /\ missed[c] = 0 => nextRenew[c] <= lastRenewal[c] + Renew
       /\ ~Never(c) /\ missed[c] = 1 => nextRenew[c] <= lastRenewal[c] + 2 * Renew

Keepers == \A c \in Holder : KeeperTrue(c)

LEMMA LeasesStep == LifecycleTyped /\ Leases /\ [LifecycleNext]_lifecycleVars => Leases'
<1> SUFFICES ASSUME LifecycleTyped, Leases, [LifecycleNext]_lifecycleVars PROVE Leases'
  OBVIOUS
<1>1. ASSUME UNCHANGED <<leases, lastRenewal>>, now' \in Nat, now' >= now
      PROVE  Leases'
  <2>1. now \in Nat /\ Ttl \in Nat
    BY Constants DEF LifecycleTyped
  <2>2. QED
    BY <1>1, <2>1 DEF Leases, Never
<1>2. ASSUME NEW c \in Holder, HandleRequest(c) PROVE Leases'
  <2>1. CASE UNCHANGED <<leases, lastRenewal>>
    BY <1>1, <1>2, <2>1 DEF HandleRequest, LifecycleTyped
  <2>2. CASE /\ leases' = [leases EXCEPT ![c] = now + Ttl]
             /\ lastRenewal' = [lastRenewal EXCEPT ![c] = now]
    BY <1>2, <2>2, Constants DEF HandleRequest, Leases, Never, LifecycleTyped
  <2>3. CASE /\ leases' = [leases EXCEPT ![c] = 0]
             /\ lastRenewal' = [lastRenewal EXCEPT ![c] = -Ttl]
    BY <1>2, <2>3, Constants DEF HandleRequest, Leases, Never, LifecycleTyped
  <2>4. QED
    BY <1>2, <2>1, <2>2, <2>3 DEF HandleRequest, LeaseTtl, LifecycleTyped, AskedKind
<1>3. ASSUME NEW c \in Holder, ClientMoves(c), ~HandleRequest(c) PROVE Leases'
  <2>1. UNCHANGED <<leases, lastRenewal, now>>
    BY <1>3 DEF ClientMoves, Send, Finish, Attach, RenewLease, RenewalLost, Detach, ClientDies,
                inner, idleHistory
  <2>2. QED
    BY <1>1, <2>1 DEF LifecycleTyped
<1>4. CASE Decide
  <2>1. /\ leases' = [c \in Holder |-> IF leases[c] > now THEN leases[c] ELSE 0]
        /\ UNCHANGED <<now, lastRenewal>>
    BY <1>4 DEF Decide, idleHistory
  <2>2. QED
    BY <2>1, Constants DEF Leases, Never, LifecycleTyped
<1>5. CASE Arrive \/ Trim \/ ListLines \/ ObserveLines \/ Tick
  <2>1. UNCHANGED <<leases, lastRenewal>> /\ now' \in {now, now + 1}
    BY <1>5 DEF Arrive, Trim, ListLines, ObserveLines, Tick, inner, idleHistory
  <2>2. QED
    BY <1>1, <2>1 DEF LifecycleTyped
<1>6. CASE UNCHANGED lifecycleVars
  BY <1>1, <1>6 DEF lifecycleVars, inner, idleHistory, LifecycleTyped
<1>7. QED
  BY <1>2, <1>3, <1>4, <1>5, <1>6, NextMoves

LEMMA KeepersStep == LifecycleTyped /\ Keepers /\ [LifecycleNext]_lifecycleVars => Keepers'
<1> SUFFICES ASSUME LifecycleTyped, Keepers, [LifecycleNext]_lifecycleVars PROVE Keepers'
  OBVIOUS
<1>1. ASSUME UNCHANGED <<keeper, asked, stage, nextRenew, missed, lastRenewal, now>> PROVE Keepers'
  BY <1>1 DEF Keepers, KeeperTrue, Never
<1>2. ASSUME NEW c \in Holder, ClientMoves(c) PROVE Keepers'
  <2>1. KeeperTrue(c) /\ now' = now /\ now \in Nat /\ lastRenewal[c] \in Int /\ nextRenew[c] \in Nat
        /\ missed[c] \in Nat
    BY <1>2, ClientLeaves DEF Keepers, LifecycleTyped
  <2>2. ASSUME NEW d \in Holder, d # c PROVE KeeperTrue(d)'
    <3>1. /\ keeper'[d] = keeper[d] /\ asked'[d] = asked[d] /\ stage'[d] = stage[d]
          /\ nextRenew'[d] = nextRenew[d] /\ missed'[d] = missed[d]
          /\ lastRenewal'[d] = lastRenewal[d]
      BY <1>2, <2>2 DEF ClientMoves, Send, HandleRequest, Finish, Attach, RenewLease, RenewalLost,
                        Detach, ClientDies, Begin, LifecycleTyped, AskedKind, idleHistory
    <3>2. QED
      BY <2>1, <3>1 DEF Keepers, KeeperTrue, Never
  <2>3. KeeperTrue(c)'
    <3>1. CASE Send(c)
      <4>1. /\ keeper[c] = "none" /\ keeper' = keeper /\ lastRenewal' = lastRenewal
            /\ asked'[c] \in {"work", "period"}
        BY <3>1 DEF Send, Begin, LifecycleTyped
      <4>2. QED
        BY <2>1, <4>1 DEF KeeperTrue, Never
    <3>2. CASE HandleRequest(c)
      <4>1. /\ stage'[c] = "handled" /\ UNCHANGED <<keeper, asked, nextRenew, missed>>
            /\ asked[c] \in AskedKind
            /\ lastRenewal'[c] = IF asked[c] = "renew" THEN now
                                 ELSE IF asked[c] = "release" THEN -Ttl ELSE lastRenewal[c]
        BY <3>2 DEF HandleRequest, LifecycleTyped, AskedKind
      <4>2. QED
        BY <2>1, <4>1, Constants DEF KeeperTrue, Never, AskedKind
    <3>3. CASE Finish(c)
      <4>1. /\ asked[c] # "none" /\ stage[c] = "handled" /\ asked'[c] = "none"
            /\ UNCHANGED <<keeper, stage, lastRenewal>>
            /\ IF asked[c] = "renew" THEN nextRenew'[c] = now + Renew /\ missed'[c] = 0
               ELSE nextRenew'[c] = nextRenew[c] /\ missed'[c] = missed[c]
        BY <3>3 DEF Finish, LifecycleTyped
      <4>2. CASE asked[c] = "renew"
        BY <2>1, <4>1, <4>2, Constants DEF KeeperTrue, Never
      <4>3. CASE asked[c] # "renew"
        BY <2>1, <4>1, <4>3 DEF KeeperTrue, Never
      <4>4. QED
        BY <4>2, <4>3
    <3>4. CASE Attach(c)
      <4>1. /\ keeper[c] = "none" /\ asked[c] = "none" /\ keeper'[c] = "held" /\ asked' = asked
            /\ nextRenew'[c] = now /\ lastRenewal' = lastRenewal
        BY <3>4 DEF Attach, LifecycleTyped, idleHistory
      <4>2. QED
        BY <2>1, <4>1 DEF KeeperTrue, Never
    <3>5. CASE RenewLease(c)
      <4>1. /\ keeper[c] = "held" /\ nextRenew[c] = now /\ asked'[c] = "renew" /\ stage'[c] = "begun"
            /\ UNCHANGED <<keeper, nextRenew, missed, lastRenewal>>
        BY <3>5 DEF RenewLease, RenewDue, Begin, LifecycleTyped
      <4>2. QED
        BY <2>1, <4>1 DEF KeeperTrue, Never
    <3>6. CASE RenewalLost(c)
      <4>1. /\ keeper[c] = "held" /\ asked[c] = "none" /\ nextRenew[c] = now
            /\ nextRenew'[c] = now + Renew /\ missed'[c] = missed[c] + 1
            /\ UNCHANGED <<keeper, asked, stage, lastRenewal>>
        BY <3>6 DEF RenewalLost, RenewDue, LifecycleTyped, idleHistory
      <4>2. QED
        BY <2>1, <4>1, Constants DEF KeeperTrue, Never
    <3>7. CASE Detach(c)
      <4>1. keeper'[c] = "gone" /\ asked'[c] = "release"
        BY <3>7 DEF Detach, Begin, LifecycleTyped
      <4>2. QED
        BY <4>1 DEF KeeperTrue
    <3>8. CASE ClientDies(c)
      <4>1. keeper'[c] = "gone" /\ asked'[c] = "none"
        BY <3>8 DEF ClientDies, LifecycleTyped
      <4>2. QED
        BY <4>1 DEF KeeperTrue
    <3>9. QED
      BY <1>2, <3>1, <3>2, <3>3, <3>4, <3>5, <3>6, <3>7, <3>8 DEF ClientMoves
  <2>4. QED
    BY <2>2, <2>3 DEF Keepers
<1>3. CASE Arrive \/ Trim \/ ListLines \/ ObserveLines \/ Decide
  <2>1. now' = now
    BY <1>3 DEF Arrive, Trim, ListLines, ObserveLines, Decide
  <2>2. QED
    BY <1>1, <1>3, <2>1, WatcherLeaves
<1>4. CASE Tick
  <2>1. /\ now' = now + 1 /\ UNCHANGED <<keeper, asked, stage, nextRenew, missed, lastRenewal>>
        /\ ~stopping
    BY <1>4 DEF Tick, holderVars, idleHistory
  <2>2. ASSUME NEW c \in Holder PROVE KeeperTrue(c)'
    <3>1. KeeperTrue(c) /\ ~RenewDue(c) /\ asked[c] \notin Short /\ now \in Nat /\ nextRenew[c] \in Nat
      BY <1>4 DEF Tick, Keepers, LifecycleTyped
    <3>2. asked[c] # "renew"
      BY <3>1 DEF Short
    <3>3. keeper[c] = "held" => now + 1 <= nextRenew[c]
      BY <2>1, <3>1, <3>2 DEF KeeperTrue, RenewDue
    <3>4. QED
      BY <2>1, <3>1, <3>2, <3>3 DEF KeeperTrue, Never
  <2>3. QED
    BY <2>2 DEF Keepers
<1>5. CASE UNCHANGED lifecycleVars
  BY <1>1, <1>5 DEF lifecycleVars, holderVars, idleHistory
<1>6. QED
  BY <1>2, <1>3, <1>4, <1>5, NextMoves
-----------------------------------------------------------------------------
(* The time of the last decision, and why it was not to stop.              *)

Done == IF watcher = "asleep" THEN nextCheck - Check ELSE nextCheck - 2 * Check

Accounted == lastActivity <= lastRequest \/ lastActivity <= lastChange + Check

Excused ==
  ~stopping =>
    \/ period = 0
    \/ \E c \in Holder : asked[c] # "none"
    \/ \E c \in Holder : lastRenewal[c] + Ttl > Done
    \/ Done - lastActivity < period

LEMMA AccountedStep ==
  LifecycleTyped /\ Watch /\ ShortNow /\ Accounted /\ [LifecycleNext]_lifecycleVars => Accounted'
<1> SUFFICES ASSUME LifecycleTyped, Watch, ShortNow, Accounted, [LifecycleNext]_lifecycleVars PROVE Accounted'
  OBVIOUS
<1>0. /\ now \in Nat /\ Check \in Nat /\ lastActivity \in Nat /\ lastActivity <= now
      /\ lastRequest \in Nat /\ lastRequest <= now /\ lastChange \in Nat /\ lastChange <= now
  BY Constants DEF LifecycleTyped
<1>1. ASSUME UNCHANGED <<lastActivity, lastRequest>>, lastChange' = lastChange \/ lastChange' = now
      PROVE  Accounted'
  BY <1>0, <1>1 DEF Accounted
<1>2. ASSUME NEW c \in Holder, ClientMoves(c) PROVE Accounted'
  <2>1. lastChange' = lastChange /\ now' = now
    BY <1>2, ClientLeaves
  <2>2. CASE lastActivity' = now /\ lastRequest' = now
    BY <1>0, <2>2 DEF Accounted
  <2>3. CASE lastRequest' = lastRequest /\ lastActivity' = now /\ asked[c] = "release" /\ asked' = asked
    BY <1>0, <2>3 DEF Accounted, ShortNow, Short
  <2>4. CASE lastRequest' = lastRequest /\ lastActivity' = lastActivity
    BY <1>1, <2>1, <2>4
  <2>5. QED
    BY <1>2, <2>2, <2>3, <2>4, ClientTimes
<1>3. CASE ObserveLines
  <2>1. /\ lastActivity' = IF DataArrived THEN now ELSE lastActivity
        /\ watcher = "listed" /\ UNCHANGED <<lastRequest, lastChange>>
    BY <1>3 DEF ObserveLines, idleHistory
  <2>2. DataArrived => now <= lastChange + Check
    BY <2>1 DEF Watch, DataSeen
  <2>3. QED
    BY <2>1, <2>2 DEF Accounted
<1>4. CASE Arrive \/ Trim \/ ListLines \/ Decide \/ Tick
  BY <1>1, <1>4 DEF Arrive, Trim, ListLines, Decide, Tick, inner, idleHistory
<1>5. CASE UNCHANGED lifecycleVars
  BY <1>1, <1>5 DEF lifecycleVars, inner, idleHistory
<1>6. QED
  BY <1>2, <1>3, <1>4, <1>5, NextMoves

LEMMA ExcusedStep ==
  LifecycleTyped /\ Counts /\ Watch /\ Leases /\ Excused /\ [LifecycleNext]_lifecycleVars => Excused'
<1> SUFFICES ASSUME LifecycleTyped, Counts, Watch, Leases, Excused, [LifecycleNext]_lifecycleVars PROVE Excused'
  OBVIOUS
<1>0. /\ now \in Nat /\ Check \in Nat /\ Check > 0 /\ lastActivity \in Nat /\ lastActivity <= now
      /\ nextCheck \in Nat /\ period \in Nat /\ Ttl \in Nat /\ lastRenewal \in [Holder -> Int]
  BY Constants DEF LifecycleTyped
<1>00. Done \in Int /\ Done <= now
  BY <1>0 DEF Done, Watch, Rounds, Round
<1>1. ASSUME UNCHANGED <<stopping, period, asked, lastRenewal, Done>>,
             lastActivity' = lastActivity \/ lastActivity' = now
      PROVE  Excused'
  BY <1>0, <1>00, <1>1 DEF Excused
<1>2. ASSUME NEW c \in Holder, ClientMoves(c) PROVE Excused'
  <2>1. Done' = Done /\ stopping' = stopping /\ now' = now
    BY <1>2, ClientLeaves DEF Done
  <2>2. lastActivity' = lastActivity \/ lastActivity' = now
    BY <1>2, ClientTimes
  <2>3. ASSUME NEW d \in Holder, asked'[d] # "none" PROVE Excused'
    BY <2>3 DEF Excused
  <2>4. CASE Send(c) \/ RenewLease(c) \/ Detach(c)
    <3>1. asked'[c] # "none"
      BY <2>4 DEF Send, RenewLease, Detach, Begin, LifecycleTyped
    <3>2. QED
      BY <2>3, <3>1
  <2>5. CASE HandleRequest(c)
    <3>1. asked'[c] # "none"
      BY <2>5 DEF HandleRequest
    <3>2. QED
      BY <2>3, <3>1
  <2>6. CASE Finish(c)
    <3>1. lastActivity' = now /\ period' = period
      BY <2>6 DEF Finish, Served
    <3>2. Done - now < period \/ period = 0
      BY <1>0, <1>00
    <3>3. QED
      BY <2>1, <3>1, <3>2 DEF Excused
  <2>7. CASE Attach(c) \/ RenewalLost(c) \/ ClientDies(c)
    <3>1. UNCHANGED <<period, asked, lastRenewal>>
      BY <2>7 DEF Attach, RenewalLost, ClientDies, inner, idleHistory
    <3>2. QED
      BY <1>1, <2>1, <2>2, <3>1
  <2>8. QED
    BY <1>2, <2>4, <2>5, <2>6, <2>7 DEF ClientMoves
<1>3. CASE Arrive \/ Trim \/ ObserveLines \/ Tick
  <2>1. UNCHANGED <<stopping, period, asked, lastRenewal>> /\ lastActivity' \in {lastActivity, now}
    BY <1>3 DEF Arrive, Trim, ObserveLines, Tick, inner, holderVars, watchVars, idleHistory
  <2>2. Done' = Done
    BY <1>3 DEF Arrive, Trim, ObserveLines, Tick, watchVars, Done
  <2>3. QED
    BY <1>1, <2>1, <2>2
<1>4. CASE ListLines
  <2>1. /\ UNCHANGED <<stopping, period, asked, lastRenewal, lastActivity>>
        /\ watcher = "asleep" /\ watcher' = "listed" /\ nextCheck = now /\ nextCheck' = now + Check
    BY <1>4 DEF ListLines, CheckDue, inner, holderVars
  <2>2. Done' = Done
    BY <1>0, <2>1 DEF Done
  <2>3. QED
    BY <1>1, <2>1, <2>2
<1>5. CASE Decide
  <2>1. /\ UNCHANGED <<period, asked, lastRenewal, lastActivity>> /\ stopping' = IdleExpired
        /\ watcher = "observed" /\ watcher' = "asleep" /\ nextCheck' = nextCheck
    BY <1>5 DEF Decide, holderVars, idleHistory
  <2>2. Done' = now
    BY <1>0, <2>1 DEF Done, Watch, Rounds
  <2>3. SUFFICES ASSUME ~IdleExpired PROVE Excused'
    BY <2>1 DEF Excused
  <2>4. CASE period = 0
    BY <2>1, <2>4 DEF Excused
  <2>5. CASE Held
    <3>1. PICK c \in Holder : leases[c] > now
      BY <2>5 DEF Held
    <3>2. lastRenewal[c] + Ttl > now
      BY <1>0, <3>1 DEF Leases
    <3>3. QED
      BY <2>1, <2>2, <3>2 DEF Excused
  <2>6. CASE inFlight # 0
    <3>1. Asking # {}
      BY <2>6, FS_EmptySet DEF Counts
    <3>2. QED
      BY <2>1, <3>1 DEF Excused, Asking
  <2>7. CASE now - lastActivity < period
    BY <2>1, <2>2, <2>7 DEF Excused
  <2>8. QED
    BY <1>0, <2>3, <2>4, <2>5, <2>6, <2>7 DEF IdleExpired
<1>6. CASE UNCHANGED lifecycleVars
  BY <1>1, <1>6 DEF lifecycleVars, inner, watchVars, holderVars, idleHistory, Done
<1>7. QED
  BY <1>2, <1>3, <1>4, <1>5, <1>6, NextMoves

-----------------------------------------------------------------------------
(* The invariant, and what it means for the daemon.                        *)

IdleInv ==
  /\ LifecycleTyped /\ Counts /\ Noted /\ ShortNow /\ Watch /\ Leases /\ Keepers
  /\ Accounted /\ Excused

LEMMA IdleInit == LifecycleInit => IdleInv
<1> SUFFICES ASSUME LifecycleInit PROVE IdleInv
  OBVIOUS
<1>1. LifecycleTyped
  BY TypedInit
<1>2. /\ now = 0 /\ period = FirstPeriod /\ lastActivity = 0 /\ leases = [c \in Holder |-> 0]
      /\ lastLines = NoCount /\ inFlight = 0 /\ watcher = "asleep" /\ nextCheck = 0
      /\ stopping = FALSE /\ asked = [c \in Holder |-> "none"] /\ keeper = [c \in Holder |-> "none"]
      /\ lastRequest = 0 /\ lastRenewal = [c \in Holder |-> -Ttl] /\ lastChange = 0 /\ lastData = 0
  BY DEF LifecycleInit
<1>3. Asking = {} /\ Counts
  BY <1>2, FS_EmptySet DEF Asking, Counts
<1>4. Noted /\ ShortNow /\ Accounted
  BY <1>2 DEF Noted, ShortNow, Accounted
<1>5. Watch
  BY <1>2, Constants DEF Watch, Rounds, Rows, DataSeen, IdleBase, Round
<1>6. Leases /\ Keepers
  BY <1>2 DEF Leases, Never, Keepers, KeeperTrue
<1>7. Excused
  BY <1>2, Constants DEF Excused, Done
<1>8. QED
  BY <1>1, <1>3, <1>4, <1>5, <1>6, <1>7 DEF IdleInv

LEMMA IdleStep == IdleInv /\ [LifecycleNext]_lifecycleVars => IdleInv'
  BY TypedStep, CountsStep, NotedStep, WatchStep, LeasesStep, KeepersStep, AccountedStep, ExcusedStep
     DEF IdleInv

LEMMA IdleHolds == LifecycleSpec => []IdleInv
  BY IdleInit, IdleStep, PTL DEF LifecycleSpec

\* Every variable has its type, and the count of requests in flight is the
\* number of clients with one (Serving in lifecycle.rs).
THEOREM LifecycleTypes == LifecycleSpec => []LifecycleTypeOK
<1>1. IdleInv => LifecycleTypeOK
  <2> SUFFICES ASSUME IdleInv PROVE LifecycleTypeOK
    OBVIOUS
  <2>1. /\ now \in 0 .. MaxTime /\ lastActivity \in 0 .. now /\ lastRequest \in 0 .. now
        /\ lastChange \in 0 .. now /\ lastData \in 0 .. now
    BY Constants DEF IdleInv, LifecycleTyped
  <2>2. QED
    BY <2>1 DEF IdleInv, LifecycleTyped, Counts, Asking, LifecycleTypeOK
<1>2. QED
  BY <1>1, IdleHolds, PTL

\* A daemon that nothing holds stops within two rounds of the watcher, and one
\* whose client died once that client's lease has lapsed (idle_expired in
\* lifecycle.rs, watch_idle in cli/daemon.rs).
THEOREM StopsSoon == LifecycleSpec => []StopsInTime
<1>1. IdleInv => StopsInTime
  <2> SUFFICES ASSUME IdleInv, period > 0, Quiet, ~stopping
      PROVE  \/ \E c \in Holder : now <= lastRenewal[c] + Ttl + Check
             \/ now <= lastRequest + period + Check
             \/ now <= lastChange + period + 2 * Check
    BY DEF StopsInTime
  <2>1. /\ now \in Nat /\ nextCheck \in Nat /\ Check \in Nat /\ Ttl \in Nat /\ period \in Nat
        /\ lastActivity \in Nat /\ lastRequest \in Nat /\ lastChange \in Nat
        /\ lastRenewal \in [Holder -> Int]
    BY Constants DEF IdleInv, LifecycleTyped
  <2>2. Done \in Int /\ now <= Done + Check
    BY <2>1 DEF IdleInv, Watch, Rounds, Done
  <2>3. CASE \E c \in Holder : lastRenewal[c] + Ttl > Done
    BY <2>1, <2>2, <2>3
  <2>4. CASE Done - lastActivity < period
    BY <2>1, <2>2, <2>4 DEF IdleInv, Accounted
  <2>5. QED
    BY <2>1, <2>3, <2>4 DEF IdleInv, Excused, Quiet
<1>2. QED
  BY <1>1, IdleHolds, PTL

\* The daemon does not stop under anybody: not while a request is served or
\* before a whole period since the last one, nor before a whole period since a
\* round found new rows, nor while a client is attached whose renewals get
\* through but for one at a time (idle_expired in lifecycle.rs, LeaseKeeper in
\* ipc.rs).
THEOREM StopsUnderNobody == LifecycleSpec => NotUnderAnybody
<1>1. ASSUME IdleInv, [LifecycleNext]_lifecycleVars, Stops
      PROVE  /\ \A c \in Holder : asked[c] = "none"
             /\ period > 0 /\ now - lastRequest >= period /\ now - lastData >= period
             /\ \A c \in Holder : keeper[c] = "held" => lastRenewal[c] = -Ttl \/ missed[c] > 1
  <2>1. Decide
    <3>1. \A c \in Holder : ~ClientMoves(c)
      BY <1>1, ClientLeaves DEF Stops
    <3>2. ~(Arrive \/ Trim \/ ListLines \/ ObserveLines \/ Tick)
      BY <1>1 DEF Stops, Arrive, Trim, ListLines, ObserveLines, Tick, watchVars
    <3>3. ~UNCHANGED lifecycleVars
      BY <1>1 DEF Stops, lifecycleVars, watchVars
    <3>4. QED
      BY <1>1, <3>1, <3>2, <3>3, NextMoves
  <2>2. IdleExpired /\ watcher = "observed"
    BY <1>1, <2>1 DEF Decide, Stops
  <2>3. /\ now \in Nat /\ lastActivity \in Nat /\ lastRequest \in Nat /\ lastData \in Nat
        /\ period \in Nat /\ Renew \in Nat /\ Ttl \in Nat /\ 2 * Renew < Ttl
    BY <1>1, Constants DEF IdleInv, LifecycleTyped
  <2>4. Asking = {}
    BY <1>1, <2>2, AskingFinite, FS_EmptySet DEF IdleInv, Counts, IdleExpired
  <2>5. lastRequest <= lastActivity /\ lastData <= lastActivity
    BY <1>1, <2>2 DEF IdleInv, Noted, Watch, DataSeen
  <2>6. ASSUME NEW c \in Holder, keeper[c] = "held", ~Never(c), ~(missed[c] > 1) PROVE FALSE
    <3>1. /\ missed[c] \in Nat /\ lastRenewal[c] \in Nat /\ nextRenew[c] \in Nat
          /\ now <= nextRenew[c] /\ lastRenewal[c] + Ttl <= now
      BY <1>1, <2>2, <2>3, <2>6 DEF IdleInv, LifecycleTyped, Leases, Keepers, KeeperTrue, IdleExpired, Held
    <3>2. missed[c] = 0 \/ missed[c] = 1
      BY <2>6, <3>1
    <3>3. nextRenew[c] <= lastRenewal[c] + 2 * Renew
      BY <1>1, <2>3, <2>6, <3>1, <3>2 DEF IdleInv, Keepers, KeeperTrue
    <3>4. QED
      BY <2>3, <3>1, <3>3
  <2>7. QED
    BY <2>2, <2>3, <2>4, <2>5, <2>6 DEF Asking, IdleExpired, Never
<1>2. IdleInv /\ [LifecycleNext]_lifecycleVars =>
        /\ [Stops => /\ \A c \in Holder : asked[c] = "none"
                     /\ period > 0 /\ now - lastRequest >= period]_lifecycleVars
        /\ [Stops => now - lastData >= period]_lifecycleVars
        /\ [Stops => \A c \in Holder : keeper[c] = "held" => lastRenewal[c] = -Ttl \/ missed[c] > 1]_lifecycleVars
  BY <1>1
<1>3. LifecycleSpec => ServedHolds /\ LinesHold /\ AttachedHolds
  BY <1>2, IdleHolds, PTL DEF LifecycleSpec, ServedHolds, LinesHold, AttachedHolds
<1>4. QED
  BY <1>3 DEF NotUnderAnybody
=============================================================================
