---------------------------- MODULE ExchangeProofs ----------------------------
(***************************************************************************)
(* Proofs about Exchange, for every set of clients and every bound.        *)
(***************************************************************************)
EXTENDS Exchange, FiniteSetTheorems, TLAPS

-----------------------------------------------------------------------------
\* A connection the daemon's side knows of is one to a daemon.
Placed == \A c \in Client : conn[c] # "none" => to[c] \in Daemon

TypeInv == TypeOK /\ Placed

\* Types, and every connection is one to a daemon.
LEMMA TypeInvariant == Spec => []TypeInv
<1>1. Init => TypeInv
  BY ExchangeAssumption DEF ExchangeAssumption, Init, TypeInv, Placed, TypeOK, Daemon, None, DaemonState,
     ClientPc, Conn, Result
<1>2. TypeInv /\ [Next]_vars => TypeInv'
  <2> SUFFICES ASSUME TypeInv, [Next]_vars PROVE TypeInv'
    OBVIOUS
  <2> USE DEF TypeInv, Placed, TypeOK, DaemonState, ClientPc, Conn, Result, clientVars, connVars, daemonVars
  <2>1. ASSUME NEW c \in Client, ClientStep(c) PROVE TypeInv'
    <3>1. CASE Begin(c)
      BY <3>1 DEF Begin
    <3>2. CASE Alive(c)
      BY <3>2 DEF Alive
    <3>3. CASE Spawn(c)
      BY <3>3 DEF Spawn
    <3>4. CASE Connect(c)
      BY <3>4 DEF Connect, Answers
    <3>5. CASE Refused(c)
      BY <3>5 DEF Refused, StartAgain, EndWith
    <3>6. CASE WriteFrame(c)
      BY <3>6 DEF WriteFrame
    <3>7. CASE ReadReply(c)
      BY <3>7 DEF ReadReply, EndWith
    <3>8. CASE CutOff(c)
      BY <3>8 DEF CutOff, EndWith
    <3>9. CASE GiveUp(c)
      BY <3>9 DEF GiveUp, EndWith
    <3>10. QED
      BY <2>1, <3>1, <3>2, <3>3, <3>4, <3>5, <3>6, <3>7, <3>8, <3>9 DEF ClientStep
  <2>2. ASSUME NEW c \in Client, ServeStep(c) PROVE TypeInv'
    <3>1. CASE Accept(c)
      BY <3>1 DEF Accept
    <3>2. CASE Execute(c)
      BY <3>2 DEF Execute
    <3>3. CASE Finish(c)
      BY <3>3 DEF Finish
    <3>4. CASE Reply(c)
      BY <3>4 DEF Reply
    <3>5. QED
      BY <2>2, <3>1, <3>2, <3>3, <3>4 DEF ServeStep
  <2>3. ASSUME NEW g \in Daemon, DaemonStep(g) PROVE TypeInv'
    <3>1. CASE Signal(g)
      BY <3>1 DEF Signal
    <3>2. CASE Stop(g)
      BY <3>2 DEF Stop
    <3>3. CASE DropListener(g)
      BY <3>3 DEF DropListener, Cut, Queued
    <3>4. CASE Drained(g)
      BY <3>4 DEF Drained
    <3>5. CASE Abort(g)
      BY <3>5 DEF Abort, Cut
    <3>6. CASE Crash(g)
      BY <3>6 DEF Crash, Cut, Held, Queued
    <3>7. QED
      BY <2>3, <3>1, <3>2, <3>3, <3>4, <3>5, <3>6 DEF DaemonStep
  <2>4. CASE UNCHANGED vars
    BY <2>4 DEF vars
  <2>5. QED
    BY <2>1, <2>2, <2>3, <2>4 DEF Next
<1>3. QED
  BY <1>1, <1>2, PTL DEF Spec

\* Every variable of Exchange stays in its type.
THEOREM TypeCorrect == Spec => []TypeOK
<1>1. TypeInv => TypeOK
  BY DEF TypeInv
<1>2. QED
  BY <1>1, TypeInvariant, PTL

-----------------------------------------------------------------------------
(* What ties the client's side of a request to the daemon's.               *)

\* Until a client is connected nothing is known of its request anywhere.
Unsent(c) == conn[c] = "none" /\ ~frame[c] /\ ~reply[c] /\ acted[c] = 0

ClientInv(c) ==
  /\ pc[c] \in {"idle", "start", "connect"} => Unsent(c)
  /\ pc[c] \in {"write", "read"} => conn[c] # "none"
  /\ conn[c] = "none" => Unsent(c)
  /\ conn[c] \in {"queued", "reading"} => acted[c] = 0 /\ ~reply[c]
  /\ conn[c] \in {"executing", "answering"} => acted[c] = 1 /\ ~reply[c]
  /\ reply[c] => acted[c] = 1
  /\ acted[c] <= 1
  /\ pc[c] # "done" => result[c] = "none"
  /\ result[c] = "ok" => reply[c]
  /\ result[c] = "refused" => conn[c] = "none"

\* Nobody but a daemon that dies, or the end of the drain for a long request,
\* closes a connection without an answer.
CutInv(c) ==
  /\ conn[c] = "gone" /\ ~reply[c] => kind[c] = "long" \/ to[c] \in crashed
  /\ result[c] = "cut" => conn[c] = "gone" /\ ~reply[c]

RequestInv == \A c \in Client : ClientInv(c) /\ CutInv(c)

\* A step of a client keeps what a request is allowed to be.
LEMMA ClientStepInv ==
  ASSUME TypeInv, RequestInv, NEW c \in Client, ClientStep(c)
  PROVE  RequestInv'
<1> USE DEF TypeInv, Placed, TypeOK, RequestInv, ClientInv, CutInv, Unsent, Conn, ClientPc,
        Result, clientVars, connVars, daemonVars
<1>1. CASE Begin(c)
  BY <1>1 DEF Begin
<1>2. CASE Alive(c)
  BY <1>2 DEF Alive
<1>3. CASE Spawn(c)
  BY <1>3 DEF Spawn
<1>4. CASE Connect(c)
  BY <1>4 DEF Connect
<1>5. CASE Refused(c)
  BY <1>5 DEF Refused, StartAgain, EndWith
<1>6. CASE WriteFrame(c)
  BY <1>6 DEF WriteFrame
<1>7. CASE ReadReply(c)
  BY <1>7 DEF ReadReply, EndWith
<1>8. CASE CutOff(c)
  BY <1>8 DEF CutOff, Closed, EndWith
<1>9. CASE GiveUp(c)
  BY <1>9 DEF GiveUp, EndWith
<1>10. QED
  BY <1>1, <1>2, <1>3, <1>4, <1>5, <1>6, <1>7, <1>8, <1>9 DEF ClientStep

\* So does a step of the task that serves it.
LEMMA ServeStepInv ==
  ASSUME TypeInv, RequestInv, NEW c \in Client, ServeStep(c)
  PROVE  RequestInv'
<1> USE DEF TypeInv, Placed, TypeOK, RequestInv, ClientInv, CutInv, Unsent, Conn, ClientPc,
        Result, clientVars, connVars, daemonVars
<1>1. CASE Accept(c)
  BY <1>1 DEF Accept
<1>2. CASE Execute(c)
  BY <1>2 DEF Execute
<1>3. CASE Finish(c)
  BY <1>3 DEF Finish
<1>4. CASE Reply(c)
  BY <1>4 DEF Reply
<1>5. QED
  BY <1>1, <1>2, <1>3, <1>4 DEF ServeStep

\* Closing the connections of S keeps the invariant when nobody is hurt that
\* may not be.
LEMMA CutKeeps ==
  ASSUME TypeInv, RequestInv, NEW S \in SUBSET Client, Cut(S),
         \A c \in S : conn[c] \in {"queued", "reading", "executing", "answering"},
         \A c \in S : kind[c] = "long" \/ to[c] \in crashed',
         crashed \subseteq crashed', UNCHANGED <<clientVars, reply, acted>>
  PROVE  RequestInv'
BY DEF TypeInv, Placed, TypeOK, RequestInv, ClientInv, CutInv, Unsent, Conn, ClientPc,
       Result, clientVars, Cut

\* So does a step of a daemon, which may drop its connections.
LEMMA DaemonStepInv ==
  ASSUME TypeInv, RequestInv, NEW g \in Daemon, DaemonStep(g)
  PROVE  RequestInv'
<1>1. CASE Signal(g)
  BY <1>1 DEF Signal, RequestInv, ClientInv, CutInv, Unsent, clientVars, connVars
<1>2. CASE Stop(g)
  BY <1>2 DEF Stop, RequestInv, ClientInv, CutInv, Unsent, clientVars, connVars
<1>3. CASE DropListener(g)
  <2>1. Queued(g) = {}
    BY <1>3 DEF DropListener, Quiet
  <2>2. QED
    BY <1>3, <2>1, CutKeeps DEF DropListener
<1>4. CASE Drained(g)
  BY <1>4 DEF Drained, RequestInv, ClientInv, CutInv, Unsent, clientVars, connVars
<1>5. CASE Abort(g)
  <2>1. /\ Held(g) \in SUBSET Client
        /\ \A c \in Held(g) : conn[c] = "executing" /\ kind[c] = "long"
    BY <1>5 DEF Abort, Held
  <2>2. QED
    BY <1>5, <2>1, CutKeeps DEF Abort
<1>6. CASE Crash(g)
  <2>1. /\ Held(g) \cup Queued(g) \in SUBSET Client
        /\ \A c \in Held(g) \cup Queued(g) :
             to[c] = g /\ conn[c] \in {"queued", "reading", "executing", "answering"}
    BY DEF Held, Queued
  <2>2. QED
    BY <1>6, <2>1, CutKeeps DEF Crash
<1>7. QED
  BY <1>1, <1>2, <1>3, <1>4, <1>5, <1>6 DEF DaemonStep

\* How far a client is and how far its request got fit together.
LEMMA RequestInvariant == Spec => []RequestInv
<1>1. Init => RequestInv
  BY DEF Init, RequestInv, ClientInv, CutInv, Unsent
<1>2. TypeInv /\ RequestInv /\ [Next]_vars => RequestInv'
  <2>1. ASSUME RequestInv, UNCHANGED vars PROVE RequestInv'
    BY <2>1 DEF vars, clientVars, connVars, daemonVars, RequestInv, ClientInv, CutInv, Unsent
  <2>2. QED
    BY <2>1, ClientStepInv, ServeStepInv, DaemonStepInv DEF Next
<1>3. QED
  BY <1>1, <1>2, TypeInvariant, PTL DEF Spec

-----------------------------------------------------------------------------
\* No daemon acts on a request a second time, through stops, crashes and the
\* repetition of a refused request.
THEOREM ActedOnce == Spec => []AtMostOnce
<1>1. RequestInv => AtMostOnce
  BY DEF RequestInv, ClientInv, AtMostOnce
<1>2. QED
  BY <1>1, RequestInvariant, PTL

\* What a client is told of its request is true then and ever after.
THEOREM ResultHolds == Spec => []ResultIsTrue
<1>1. RequestInv => ResultIsTrue
  BY DEF RequestInv, ClientInv, Unsent, ResultIsTrue
<1>2. QED
  BY <1>1, RequestInvariant, PTL

-----------------------------------------------------------------------------
(* Refinement of Requests.                                                 *)

\* A step of a client tells it how its request ended, or nothing.
LEMMA ClientStepPromise ==
  ASSUME TypeInv, RequestInv, NEW c \in Client, ClientStep(c)
  PROVE  Promise!Next \/ UNCHANGED <<acted, result>>
<1> USE DEF TypeInv, TypeOK, clientVars, connVars
<1>0. ClientInv(c) /\ acted[c] \in Nat
  BY DEF RequestInv
<1>1. CASE Begin(c) \/ Alive(c) \/ Spawn(c) \/ Connect(c) \/ WriteFrame(c)
  BY <1>1 DEF Begin, Alive, Spawn, Connect, WriteFrame
<1>2. CASE Refused(c)
  <2>1. acted[c] = 0 /\ result[c] = "none"
    BY <1>0, <1>2 DEF ClientInv, Unsent, Refused
  <2>2. result' = result \/ result' = [result EXCEPT ![c] = "refused"]
    BY <1>2 DEF Refused, StartAgain, EndWith
  <2>3. UNCHANGED acted
    BY <1>2 DEF Refused
  <2>4. QED
    BY <2>1, <2>2, <2>3 DEF Promise!Next, Promise!Refuse, Promise!Tell
<1>3. CASE ReadReply(c)
  <2>1. acted[c] = 1 /\ result[c] = "none"
    BY <1>0, <1>3 DEF ClientInv, ReadReply
  <2>2. QED
    BY <1>3, <2>1 DEF ReadReply, EndWith, Promise!Next, Promise!Answer, Promise!Tell
<1>4. CASE CutOff(c)
  <2>1. result[c] = "none"
    BY <1>0, <1>4 DEF ClientInv, CutOff, Closed
  <2>2. QED
    BY <1>4, <2>1 DEF CutOff, EndWith, Promise!Next, Promise!Doubt, Promise!Tell
<1>5. CASE GiveUp(c)
  <2>1. result[c] = "none"
    BY <1>0, <1>5 DEF ClientInv, GiveUp
  <2>2. QED
    BY <1>5, <2>1 DEF GiveUp, EndWith, Promise!Next, Promise!Doubt, Promise!Tell
<1>6. QED
  BY <1>1, <1>2, <1>3, <1>4, <1>5 DEF ClientStep

\* A daemon begins to act only for a client that was told nothing but, perhaps,
\* that its time was over.
LEMMA ServeStepPromise ==
  ASSUME TypeInv, RequestInv, NEW c \in Client, ServeStep(c)
  PROVE  Promise!Next \/ UNCHANGED <<acted, result>>
<1>1. CASE Execute(c)
  <2>1. acted[c] = 0
    BY <1>1 DEF RequestInv, ClientInv, Execute
  <2>2. result[c] \in {"none", "timeout"}
    BY <1>1 DEF RequestInv, ClientInv, CutInv, Execute, TypeInv, TypeOK, Result
  <2>3. acted' = [acted EXCEPT ![c] = 1] /\ UNCHANGED result
    BY <1>1, <2>1 DEF Execute, clientVars
  <2>4. QED
    BY <2>1, <2>2, <2>3 DEF Promise!Next, Promise!Act
<1>2. CASE Accept(c) \/ Finish(c) \/ Reply(c)
  BY <1>2 DEF Accept, Finish, Reply, clientVars
<1>3. QED
  BY <1>1, <1>2 DEF ServeStep

\* However daemons stop, die and are started, and however a client repeats it, a
\* request is to its sender one of Requests: one effect at most, and a last word.
THEOREM ExchangeImplementsRequests == Spec => ImplementsRequests
<1>1. Init => Promise!Init
  BY DEF Init, Promise!Init
<1>2. TypeInv /\ RequestInv /\ [Next]_vars => [Promise!Next]_(Promise!requestVars)
  <2> SUFFICES ASSUME TypeInv, RequestInv, [Next]_vars
               PROVE  Promise!Next \/ UNCHANGED <<acted, result>>
    BY DEF Promise!requestVars
  <2>1. ASSUME NEW g \in Daemon, DaemonStep(g) PROVE UNCHANGED <<acted, result>>
    BY <2>1 DEF DaemonStep, Signal, Stop, DropListener, Drained, Abort, Crash, clientVars, connVars
  <2>2. CASE UNCHANGED vars
    BY <2>2 DEF vars, clientVars, connVars
  <2>3. QED
    BY <2>1, <2>2, ClientStepPromise, ServeStepPromise DEF Next
<1>3. QED
  BY <1>1, <1>2, TypeInvariant, RequestInvariant, PTL DEF Spec, ImplementsRequests, Promise!Spec

-----------------------------------------------------------------------------
(* How many daemons a refused client has seen go.                          *)

Born(g) == daemon[g] # "unborn"
Gone(g) == daemon[g] \notin {"unborn", "serving"}

\* One daemon serves at most, the one at the endpoint.
OneServes == \A g \in Daemon : daemon[g] = "serving" => endpoint = g

\* Every start of a client was answered by a daemon of its own.
Seen(c) ==
  /\ pc[c] \in {"start", "connect"} => starts[c] \in {1, 2}
  /\ pc[c] = "connect" /\ starts[c] = 1 => \E g \in Daemon : Born(g)
  /\ pc[c] = "start" /\ starts[c] = 2 => \E g \in Daemon : Gone(g)
  /\ pc[c] = "connect" /\ starts[c] = 2 =>
       \E g, h \in Daemon : g # h /\ Gone(g) /\ Born(h)
  /\ result[c] = "refused" => \E g, h \in Daemon : g # h /\ Gone(g) /\ Gone(h)

SeenInv == OneServes /\ \A c \in Client : Seen(c)

\* A daemon that was born stays born, one that is gone stays gone, and only a
\* client that finds none starts one.
LEMMA DaemonsGoOn ==
  ASSUME TypeInv, OneServes, [Next]_vars
  PROVE  /\ \A g \in Daemon : (Born(g) => Born(g)') /\ (Gone(g) => Gone(g)')
         /\ OneServes'
<1> USE DEF TypeInv, TypeOK, OneServes, Born, Gone, DaemonState, None, Daemon, clientVars, connVars, daemonVars
<1>1. ASSUME NEW c \in Client, Spawn(c)
      PROVE  /\ \A g \in Daemon : (Born(g) => Born(g)') /\ (Gone(g) => Gone(g)')
             /\ OneServes'
  BY <1>1, ExchangeAssumption DEF Spawn, Answers, ExchangeAssumption
<1>2. ASSUME NEW c \in Client, ClientStep(c), ~Spawn(c) PROVE UNCHANGED <<daemon, endpoint>>
  BY <1>2 DEF ClientStep, Begin, Alive, Connect, Refused, WriteFrame, ReadReply, CutOff, GiveUp
<1>3. ASSUME NEW c \in Client, ServeStep(c) PROVE UNCHANGED <<daemon, endpoint>>
  BY <1>3 DEF ServeStep, Accept, Execute, Finish, Reply
<1>4. ASSUME NEW g \in Daemon, DaemonStep(g)
      PROVE  /\ \A h \in Daemon : (Born(h) => Born(h)') /\ (Gone(h) => Gone(h)')
             /\ OneServes'
  BY <1>4 DEF DaemonStep, Signal, Stop, DropListener, Drained, Abort, Crash
<1>5. ASSUME UNCHANGED vars PROVE UNCHANGED <<daemon, endpoint>>
  BY <1>5 DEF vars
<1>6. QED
  BY <1>1, <1>2, <1>3, <1>4, <1>5 DEF Next

\* Seen is about one client and daemons that only go on.
LEMMA SeenStable ==
  ASSUME NEW c \in Client, Seen(c), UNCHANGED <<pc[c], starts[c], result[c]>>,
         \A g \in Daemon : (Born(g) => Born(g)') /\ (Gone(g) => Gone(g)')
  PROVE  Seen(c)'
<1> USE DEF Seen
<1>1. pc[c] = "connect" /\ starts[c] = 1 => \E g \in Daemon : Born(g)'
  OBVIOUS
<1>2. pc[c] = "start" /\ starts[c] = 2 => \E g \in Daemon : Gone(g)'
  OBVIOUS
<1>3. pc[c] = "connect" /\ starts[c] = 2 =>
        \E g, h \in Daemon : g # h /\ Gone(g)' /\ Born(h)'
  OBVIOUS
<1>4. result[c] = "refused" => \E g, h \in Daemon : g # h /\ Gone(g)' /\ Gone(h)'
  OBVIOUS
<1>5. QED
  BY <1>1, <1>2, <1>3, <1>4

\* A client that finds a daemon alive has seen one that was born.
LEMMA AliveSeen ==
  ASSUME TypeInv, RequestInv, SeenInv, NEW c \in Client, Alive(c)
  PROVE  Seen(c)'
<1> USE DEF TypeInv, TypeOK, SeenInv, Seen, Alive, Answers, RequestInv, ClientInv, clientVars,
        connVars, daemonVars
<1>1. endpoint \in Daemon /\ daemon[endpoint] = "serving" /\ UNCHANGED daemon
  BY DEF None
<1>2. Born(endpoint)' /\ ~Gone(endpoint)
  BY <1>1 DEF Born, Gone
<1>3. ASSUME starts[c] = 2
      PROVE  \E g, h \in Daemon : g # h /\ Gone(g)' /\ Born(h)'
  <2>1. PICK g \in Daemon : Gone(g)
    BY <1>3
  <2>2. Gone(g)' /\ g # endpoint
    BY <1>1, <1>2, <2>1 DEF Gone
  <2>3. QED
    BY <1>1, <1>2, <2>2
<1>4. QED
  BY <1>1, <1>2, <1>3 DEF ClientPc, Result

\* A refused client has seen a daemon go.
LEMMA RefusedSeen ==
  ASSUME TypeInv, RequestInv, SeenInv, NEW c \in Client, Refused(c)
  PROVE  Seen(c)'
<1> USE DEF TypeInv, TypeOK, SeenInv, Seen, Refused, RequestInv, ClientInv, clientVars,
        connVars, daemonVars
<1>1. \A g \in Daemon : Born(g) => Gone(g)
  BY DEF Born, Gone, OneServes, Answers, DaemonState, Daemon, None
<1>2. \A g \in Daemon : Gone(g) => Gone(g)'
  BY DEF Gone
<1>3. CASE starts[c] = 1
  <2>1. \E g \in Daemon : Gone(g)'
    BY <1>1, <1>2, <1>3
  <2>2. pc'[c] = "start" /\ starts'[c] = 2 /\ result'[c] = "none"
    BY <1>3 DEF StartAgain
  <2>3. QED
    BY <2>1, <2>2
<1>4. CASE starts[c] # 1
  <2>1. PICK g, h \in Daemon : g # h /\ Gone(g) /\ Born(h)
    BY <1>4
  <2>2. Gone(g)' /\ Gone(h)'
    BY <1>1, <1>2, <2>1
  <2>3. pc'[c] = "done" /\ result'[c] = "refused"
    BY <1>4 DEF EndWith
  <2>4. QED
    BY <2>1, <2>2, <2>3
<1>5. QED
  BY <1>3, <1>4

\* A client that repeats its request or gives up has seen daemons go.
LEMMA SeenInvariant == Spec => []SeenInv
<1>1. Init => SeenInv
  BY DEF Init, SeenInv, Seen, OneServes
<1>2. TypeInv /\ RequestInv /\ SeenInv /\ [Next]_vars => SeenInv'
  <2> SUFFICES ASSUME TypeInv, RequestInv, SeenInv, [Next]_vars PROVE SeenInv'
    OBVIOUS
  <2>1. /\ \A g \in Daemon : (Born(g) => Born(g)') /\ (Gone(g) => Gone(g)')
        /\ OneServes'
    BY DaemonsGoOn DEF SeenInv
  <2>2. ASSUME NEW d \in Client PROVE Seen(d)'
    <3>1. CASE UNCHANGED <<pc[d], starts[d], result[d]>>
      BY <2>1, <3>1, SeenStable DEF SeenInv
    <3>2. CASE Alive(d)
      BY <3>2, AliveSeen
    <3>3. CASE Refused(d)
      BY <3>3, RefusedSeen
    <3>4. CASE Begin(d)
      BY <3>4 DEF Begin, Seen, SeenInv, TypeInv, TypeOK, RequestInv, ClientInv
    <3>5. CASE Connect(d) \/ WriteFrame(d)
      BY <3>5 DEF Connect, WriteFrame, Seen, SeenInv, TypeInv, TypeOK, RequestInv, ClientInv
    <3>6. CASE ReadReply(d) \/ CutOff(d) \/ GiveUp(d)
      BY <3>6 DEF ReadReply, CutOff, GiveUp, EndWith, Seen, SeenInv, TypeInv, TypeOK
    <3>7. ASSUME NEW c \in Client, ClientStep(c), c # d
          PROVE  UNCHANGED <<pc[d], starts[d], result[d]>>
      BY <3>7 DEF ClientStep, Begin, Alive, Spawn, Connect, Refused, StartAgain, EndWith,
         WriteFrame, ReadReply, CutOff, GiveUp, clientVars, TypeInv, TypeOK
    <3>8. CASE Spawn(d)
      BY <3>1, <3>8 DEF Spawn, clientVars
    <3>9. ASSUME NEW c \in Client, ServeStep(c) PROVE UNCHANGED <<pc[d], starts[d], result[d]>>
      BY <3>9 DEF ServeStep, Accept, Execute, Finish, Reply, clientVars
    <3>10. ASSUME NEW g \in Daemon, DaemonStep(g) PROVE UNCHANGED <<pc[d], starts[d], result[d]>>
      BY <3>10 DEF DaemonStep, Signal, Stop, DropListener, Drained, Abort, Crash, clientVars
    <3>11. ASSUME UNCHANGED vars PROVE UNCHANGED <<pc[d], starts[d], result[d]>>
      BY <3>11 DEF vars, clientVars
    <3>12. ASSUME ClientStep(d) PROVE Seen(d)'
      BY <3>12, <3>2, <3>3, <3>4, <3>5, <3>6, <3>8 DEF ClientStep
    <3>13. QED
      BY <3>1, <3>7, <3>9, <3>10, <3>11, <3>12 DEF Next
  <2>3. QED
    BY <2>1, <2>2 DEF SeenInv
<1>3. QED
  BY <1>1, <1>2, TypeInvariant, RequestInvariant, PTL DEF Spec

\* Two members make a finite set of two or more.
LEMMA TwoMembers ==
  ASSUME NEW S, IsFiniteSet(S), NEW a \in S, NEW b \in S, a # b
  PROVE  Cardinality(S) >= 2
<1>1. IsFiniteSet({a}) /\ Cardinality({a}) = 1
  BY FS_Singleton
<1>2. Cardinality({a} \cup {b}) = 2 /\ IsFiniteSet({a} \cup {b})
  BY <1>1, FS_AddElement
<1>3. {a} \cup {b} \subseteq S
  OBVIOUS
<1>4. Cardinality({a} \cup {b}) <= Cardinality(S)
  BY <1>3, FS_Subset
<1>5. Cardinality(S) \in Nat
  BY FS_CardinalityType
<1>6. QED
  BY <1>2, <1>4, <1>5

\* A quick request is cut only by a crash, and refused only after two daemons
\* went away under it.
THEOREM StopsLoseNothing == Spec => []NotLost
<1>1. TypeInv /\ RequestInv /\ SeenInv => NotLost
  <2> SUFFICES ASSUME TypeInv, RequestInv, SeenInv, NEW c \in Client
               PROVE  /\ result[c] = "cut" /\ kind[c] # "long" => to[c] \in crashed
                      /\ result[c] = "refused" =>
                           Cardinality({g \in Daemon : daemon[g] \notin {"unborn", "serving"}}) >= 2
    BY DEF NotLost
  <2>1. result[c] = "cut" /\ kind[c] # "long" => to[c] \in crashed
    BY DEF RequestInv, CutInv
  <2>2. ASSUME result[c] = "refused"
        PROVE  Cardinality({g \in Daemon : daemon[g] \notin {"unborn", "serving"}}) >= 2
    <3> DEFINE S == {g \in Daemon : daemon[g] \notin {"unborn", "serving"}}
    <3>1. PICK g, h \in Daemon : g # h /\ Gone(g) /\ Gone(h)
      BY <2>2 DEF SeenInv, Seen
    <3>2. IsFiniteSet(Daemon)
      BY FS_Interval, ExchangeAssumption DEF ExchangeAssumption, Daemon
    <3>3. IsFiniteSet(S)
      BY <3>2, FS_Subset
    <3>4. g \in S /\ h \in S
      BY <3>1 DEF Gone
    <3> HIDE DEF S
    <3>5. Cardinality(S) >= 2
      BY <3>1, <3>3, <3>4, TwoMembers
    <3>6. QED
      BY <3>5 DEF S
  <2>3. QED
    BY <2>1, <2>2
<1>2. QED
  BY <1>1, TypeInvariant, RequestInvariant, SeenInvariant, PTL
=============================================================================
