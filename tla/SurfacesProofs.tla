---------------------------- MODULE SurfacesProofs ----------------------------
(***************************************************************************)
(* Proofs about what a person has before them: Session, Prompt, RestPanel, *)
(* Desktop, Windows, Skills and Settings, each for any number of events    *)
(* and any values, and MC_Surfaces, in which they stand side by side.      *)
(***************************************************************************)
EXTENDS MC_Surfaces, SequenceTheorems, FiniteSetTheorems,
        WellFoundedInduction, TLAPS

-----------------------------------------------------------------------------
(* Session.                                                                *)

\* The flag of a surface that is there and in no doubt follows the daemon, it is in
\* doubt while the daemon has a request it gave up, and a frame is finished by the
\* surface that began it.
FlagInv ==
  /\ connected \in BOOLEAN /\ held \in BOOLEAN
  /\ unheard # {} => doubt
  /\ FlagTrue
  /\ frame # "idle" => open

\* A request that is answered with a yes moves both, one that is refused neither, and
\* any other leaves the surface in doubt.
LEMMA AskKeeps ==
  ASSUME FlagInv, NEW connect \in BOOLEAN, NEW answer \in Verdict, Ask(connect, answer),
         open' = open
  PROVE  /\ connected' \in BOOLEAN /\ held' \in BOOLEAN
         /\ unheard' # {} => doubt'
         /\ FlagTrue'
<1>1. CASE answer = "done"
  <2>1. held' = connect /\ connected' = connect /\ unheard' = unheard /\ doubt' = (unheard # {})
    BY <1>1 DEF Ask, CarriesOut, Opens, Closes, FlagFollows
  <2>2. QED
    BY <2>1 DEF FlagTrue
<1>2. CASE answer = "refused"
  <2>1. UNCHANGED <<held, connected, unheard>> /\ (doubt' <=> doubt)
    BY <1>2 DEF Ask, FlagFollows
  <2>2. QED
    BY <2>1 DEF FlagInv, FlagTrue
<1>3. CASE answer \in {"lost", "late"}
  <2>1. connected' = connected /\ held' \in {TRUE, FALSE, held} /\ doubt'
    BY <1>3 DEF Ask, CarriesOut, Opens, Closes, FlagFollows
  <2>2. QED
    BY <2>1 DEF FlagInv, FlagTrue
<1>4. QED
  BY <1>1, <1>2, <1>3 DEF Verdict

LEMMA FlagKept ==
  ASSUME FlagInv, UNCHANGED <<connected, held, unheard, doubt, open>>, frame' = frame \/ open
  PROVE  FlagInv'
  BY DEF FlagInv, FlagTrue

LEMMA PersonKeeps == ASSUME FlagInv, Person PROVE FlagInv'
<1>1. CASE Toggle
  <2>1. PICK answer \in Verdict : Ask(~connected, answer)
    BY <1>1 DEF Toggle
  <2>2. UNCHANGED <<open, frame>>
    BY <1>1 DEF Toggle, flashVars
  <2>3. /\ connected' \in BOOLEAN /\ held' \in BOOLEAN /\ FlagTrue'
        /\ unheard' # {} => doubt'
    <3>1. (~connected) \in BOOLEAN
      OBVIOUS
    <3>2. QED
      BY <2>1, <2>2, <3>1, AskKeeps
  <2>4. QED
    BY <2>2, <2>3 DEF FlagInv
<1>2. CASE OpenSettings \/ EditSettings \/ CancelSettings \/ ApplySettings
  BY <1>2, FlagKept DEF OpenSettings, EditSettings, CancelSettings, ApplySettings, flashVars,
                        heldVars
<1>3. CASE SetSignal \/ RunMacro
  BY <1>3, FlagKept DEF SetSignal, RunMacro, flashVars
<1>4. CASE TogglePanel \/ ArmErase
  BY <1>4, FlagKept DEF TogglePanel, ArmErase, heldVars, knownVars
<1>5. CASE StartFlash
  <2>1. PICK answer \in Verdict :
          IF connected THEN Ask(FALSE, answer)
          ELSE answer = "done" /\ UNCHANGED <<connected, settings, line, heldVars>>
    BY <1>5 DEF StartFlash
  <2>2. UNCHANGED <<open, frame>>
    BY <1>5 DEF StartFlash
  <2>3. CASE connected
    <3>1. /\ connected' \in BOOLEAN /\ held' \in BOOLEAN /\ FlagTrue'
          /\ unheard' # {} => doubt'
      BY <2>1, <2>2, <2>3, AskKeeps
    <3>2. QED
      BY <2>2, <3>1 DEF FlagInv
  <2>4. CASE ~connected
    BY <2>1, <2>2, <2>4, FlagKept DEF heldVars
  <2>5. QED
    BY <2>3, <2>4
<1>6. CASE CloseSurface
  <2>1. open' = FALSE /\ UNCHANGED <<connected, heldVars>> /\ frame = "idle" /\ frame' = frame
    BY <1>6 DEF CloseSurface, Uses, knownVars
  <2>2. QED
    BY <2>1 DEF FlagInv, FlagTrue, heldVars
<1>7. QED
  BY <1>1, <1>2, <1>3, <1>4, <1>5, <1>6 DEF Person

LEMMA PollKeeps == ASSUME FlagInv, Poll PROVE FlagInv'
<1>1. CASE PollDrain \/ PollResult
  BY <1>1, FlagKept DEF PollDrain, PollResult, Polls, heldVars, knownVars, FlagInv
<1>2. CASE FinishFlash
  <2>1. PICK answer \in Verdict : Ask(Wanted, answer)
    BY <1>2 DEF FinishFlash
  <2>2. open' = open /\ frame' = "idle" /\ Wanted \in BOOLEAN
    BY <1>2 DEF FinishFlash, Wanted
  <2>3. /\ connected' \in BOOLEAN /\ held' \in BOOLEAN /\ FlagTrue'
        /\ unheard' # {} => doubt'
    BY <2>1, <2>2, AskKeeps
  <2>4. QED
    BY <2>2, <2>3 DEF FlagInv
<1>3. QED
  BY <1>1, <1>2 DEF Poll

LEMMA OthersKeeps == ASSUME FlagInv, LateRequest \/ Others PROVE FlagInv'
<1>1. UNCHANGED <<connected, open, frame>>
  BY DEF LateRequest, Others, knownVars, flashVars
<1>2. CASE LateRequest
  <2>1. doubt /\ doubt' = doubt /\ held' \in {TRUE, FALSE, held}
    BY <1>2 DEF LateRequest, CarriesOut, Opens, Closes, FlagInv
  <2>2. QED
    BY <1>1, <2>1 DEF FlagInv, FlagTrue
<1>3. CASE held' = ~held /\ doubt' = TRUE
  BY <1>1, <1>3 DEF FlagInv, FlagTrue
<1>4. CASE UNCHANGED <<held, unheard, doubt>>
  BY <1>1, <1>4, FlagKept
<1>5. QED
  BY <1>2, <1>3, <1>4 DEF Others

LEMMA FlagStep == FlagInv /\ [SessionNext]_sessionVars => FlagInv'
<1> SUFFICES ASSUME FlagInv, [SessionNext]_sessionVars PROVE FlagInv'
  OBVIOUS
<1>1. CASE Tool \/ StatusPoll
  BY <1>1, FlagKept DEF Tool, ToolPrints, ToolEnds, StatusPoll, AskStatus, StatusAnswered,
                        PublishStatus, knownVars, flashVars, heldVars
<1>2. CASE UNCHANGED sessionVars
  BY <1>2, FlagKept DEF sessionVars, knownVars, flashVars, heldVars
<1>3. QED
  BY <1>1, <1>2, PersonKeeps, PollKeeps, OthersKeeps DEF SessionNext

\* Whatever is refused, flashed or closed, and whenever the tool or the poller goes
\* on, a surface knows whether the daemon holds its port for it: from an answered
\* request of its own until another client opens or closes that port or an answer
\* is lost or late (toggle_connection, start_flash, poll_flash in monitor.rs and
\* tui.rs, daemon_toggle).
THEOREM FlagHolds == SessionSpec => []FlagTrue
<1>1. SessionInit => FlagInv
  BY DEF SessionInit, FlagInv, FlagTrue
<1>2. FlagInv => FlagTrue
  BY DEF FlagInv
<1>3. QED
  BY <1>1, <1>2, FlagStep, PTL DEF SessionSpec

-----------------------------------------------------------------------------
(* RestPanel.                                                              *)

PanelAt == Nat \cup {-1}
PanelState == [at : PanelAt, listening : BOOLEAN]

PanelReq == [id : Nat \ {0}, op : Operation, gen : Nat, phase : {"sent", "done"}, answer : PanelState]

PanelTypes ==
  /\ side \in {"window", "terminal"}
  /\ listener \in [at : Nat, listening : BOOLEAN]
  /\ inFlight \in SUBSET PanelReq
  /\ receiver \in Nat /\ generation \in Nat /\ sent \in Nat
  /\ known \in PanelState /\ acted \in PanelAt /\ due \in BOOLEAN

\* A request has a number of its own, not above what was sent, and is of no
\* later generation than the window's; a terminal has none.
PanelNumbered ==
  /\ receiver <= sent
  /\ \A r \in inFlight : r.id <= sent /\ r.gen <= generation
  /\ \A r, s \in inFlight : r.id = s.id => r = s
  /\ side = "terminal" => inFlight = {} /\ receiver = Nobody

\* The start or stop that is listened to is the last one, and no status request
\* of its generation is in flight beside it.
PanelLastAction ==
  \A r \in inFlight : r.op # "status" /\ r.id = receiver =>
    /\ r.gen = generation
    /\ \A s \in inFlight : s.op = "status" => s.gen # generation

\* A start or stop nobody listens to is of an earlier generation, or was answered.
PanelHeeded ==
  \A r \in inFlight :
    r.op # "status" /\ r.gen = generation /\ r.phase = "sent" => r.id = receiver

\* PanelAnswers are as new as the listener they tell of.
PanelCurrent ==
  /\ acted <= known.at /\ known.at <= listener.at
  /\ \A r \in inFlight : r.answer.at <= listener.at
  /\ \A r \in inFlight : r.answer # NoAnswer /\ r.op = "status" /\ r.gen = generation
                            => acted <= r.answer.at
  /\ \A r \in inFlight : r.phase = "sent" => r.answer = NoAnswer

PanelInv == PanelTypes /\ PanelNumbered /\ PanelLastAction /\ PanelHeeded /\ PanelCurrent

-----------------------------------------------------------------------------
LEMMA PanelAnswers ==
  /\ NoAnswer \in PanelState /\ NoAnswer.at = -1
  /\ \A s \in PanelState : s.at \in Int /\ s.at >= -1
  BY DEF NoAnswer, PanelState, PanelAt

\* What becomes of the listener: it keeps its number or takes a later one.
LEMMA ListenerGrows ==
  ASSUME PanelTypes, NEW op \in Operation, NEW answered \in BOOLEAN, Carried(op, answered)
  PROVE  /\ listener' \in [at : Nat, listening : BOOLEAN]
         /\ listener.at <= listener'.at
<1>1. CASE UNCHANGED listener
  BY <1>1 DEF PanelTypes
<1>2. ASSUME NEW on \in BOOLEAN, Change(on)
      PROVE  /\ listener' \in [at : Nat, listening : BOOLEAN]
             /\ listener.at <= listener'.at
  BY <1>2 DEF Change, PanelTypes
<1>3. QED
  BY <1>1, <1>2 DEF Carried, Operation

LEMMA PanelInvInit == RestPanelInit => PanelInv
  BY DEF RestPanelInit, PanelInv, PanelTypes, PanelNumbered, PanelLastAction, PanelHeeded, PanelCurrent, NoAnswer, PanelState, PanelAt,
         Nobody

\* The listener changes and nothing of the panel does.
LEMMA ListenerAlone ==
  ASSUME PanelInv, listener' \in [at : Nat, listening : BOOLEAN], listener.at <= listener'.at,
         UNCHANGED <<side, inFlight, receiver, generation, known, acted, sent, due>>
  PROVE  PanelInv'
<1>1. PanelTypes' /\ PanelNumbered' /\ PanelLastAction' /\ PanelHeeded'
  BY DEF PanelInv, PanelTypes, PanelNumbered, PanelLastAction, PanelHeeded
<1>2. PanelCurrent'
  <2>1. listener.at \in Nat /\ listener'.at \in Nat /\ known.at \in Int
    BY PanelAnswers DEF PanelInv, PanelTypes
  <2>2. \A r \in inFlight : r.answer.at \in Int
    BY PanelAnswers DEF PanelInv, PanelTypes, PanelReq
  <2>3. QED
    BY <2>1, <2>2 DEF PanelInv, PanelCurrent
<1>3. QED
  BY <1>1, <1>2 DEF PanelInv

LEMMA OthersChangeKeeps == PanelInv /\ OthersChange => PanelInv'
<1> SUFFICES ASSUME PanelInv, OthersChange PROVE PanelInv'
  OBVIOUS
<1>1. listener' \in [at : Nat, listening : BOOLEAN] /\ listener.at <= listener'.at
  BY DEF OthersChange, Change, PanelInv, PanelTypes
<1>2. QED
  BY <1>1, ListenerAlone DEF OthersChange, shownVars

LEMMA RequestServedKeeps == PanelInv /\ RequestServed => PanelInv'
<1> SUFFICES ASSUME PanelInv, RequestServed PROVE PanelInv'
  OBVIOUS
<1>1. PICK r \in inFlight, answered \in BOOLEAN :
        /\ r.phase = "sent" /\ Carried(r.op, answered)
        /\ inFlight' = (inFlight \ {r}) \cup
             {[r EXCEPT !.phase = "done", !.answer = IF answered THEN listener' ELSE NoAnswer]}
  BY DEF RequestServed
<1> DEFINE new == [r EXCEPT !.phase = "done", !.answer = IF answered THEN listener' ELSE NoAnswer]
<1>2. UNCHANGED <<side, receiver, generation, known, acted, sent, due>>
  BY DEF RequestServed, shownVars
<1>3. r \in PanelReq
  BY DEF PanelInv, PanelTypes
<1>4. listener' \in [at : Nat, listening : BOOLEAN] /\ listener.at <= listener'.at
  BY <1>1, <1>3, ListenerGrows DEF PanelInv, PanelReq
<1>5. listener' \in PanelState /\ listener'.at # -1
  BY <1>4 DEF PanelState, PanelAt
<1>6. /\ new \in PanelReq /\ new.id = r.id /\ new.op = r.op /\ new.gen = r.gen /\ new.phase = "done"
      /\ new.answer = IF answered THEN listener' ELSE NoAnswer
  BY <1>3, <1>5, PanelAnswers DEF PanelReq
<1>7. inFlight' = (inFlight \ {r}) \cup {new}
  BY <1>1
<1>8. PanelTypes'
  BY <1>2, <1>4, <1>6, <1>7 DEF PanelInv, PanelTypes
<1>9. PanelNumbered'
  <2>1. side # "terminal" /\ UNCHANGED <<side, receiver, generation, sent>>
    BY <1>1, <1>2 DEF PanelInv, PanelNumbered
  <2>2. \A s \in inFlight' : s.id <= sent /\ s.gen <= generation
    BY <1>6, <1>7 DEF PanelInv, PanelNumbered
  <2>3. \A s, t \in inFlight' : s.id = t.id => s = t
    <3>1. \A s \in inFlight \ {r} : s.id # new.id
      BY <1>6 DEF PanelInv, PanelNumbered
    <3>2. QED
      BY <1>7, <3>1 DEF PanelInv, PanelNumbered
  <2>4. QED
    BY <2>1, <2>2, <2>3 DEF PanelInv, PanelNumbered
<1>10. PanelLastAction'
  BY <1>2, <1>6, <1>7 DEF PanelInv, PanelLastAction
<1>11. PanelHeeded'
  BY <1>2, <1>6, <1>7 DEF PanelInv, PanelHeeded
<1>12. PanelCurrent'
  <2>1. /\ acted \in Int /\ known.at \in Int /\ listener.at \in Nat /\ listener'.at \in Nat
        /\ acted <= known.at /\ known.at <= listener.at /\ listener.at <= listener'.at
    BY <1>4, PanelAnswers DEF PanelInv, PanelTypes, PanelCurrent, PanelAt
  <2>2. acted' <= known'.at /\ known'.at <= listener'.at
    BY <1>2, <2>1
  <2>3. new.answer.at <= listener'.at /\ (new.answer # NoAnswer => acted <= new.answer.at)
    BY <1>6, <2>1, PanelAnswers
  <2>4. ASSUME NEW s \in inFlight \ {r} PROVE s.answer.at <= listener'.at
    <3>1. s.answer.at \in Int /\ s.answer.at <= listener.at
      BY PanelAnswers DEF PanelInv, PanelTypes, PanelReq, PanelCurrent
    <3>2. QED
      BY <2>1, <3>1
  <2>5. QED
    BY <1>2, <1>6, <1>7, <2>2, <2>3, <2>4 DEF PanelInv, PanelCurrent
<1>13. QED
  BY <1>8, <1>9, <1>10, <1>11, <1>12 DEF PanelInv

-----------------------------------------------------------------------------
(* The window: the answer it hears, and the status request that may follow. *)

\* What an answer leaves: the panel is as new as the last start or stop, and as
\* every answer of a status request that may still be heard.
PanelTaken ==
  /\ known' \in PanelState /\ acted' \in PanelAt /\ due' \in BOOLEAN
  /\ acted' <= known'.at /\ known'.at <= listener.at
  /\ \A s \in inFlight : s.answer # NoAnswer /\ s.op = "status" /\ s.gen = generation
                           => acted' <= s.answer.at

LEMMA PanelNothingTaken == PanelInv /\ UNCHANGED <<known, acted>> /\ due' \in BOOLEAN => PanelTaken
  BY DEF PanelInv, PanelTypes, PanelCurrent, PanelTaken

LEMMA PanelHeardTaken == ASSUME PanelInv, NEW r \in Heard, Apply(r) PROVE PanelTaken
<1>1. /\ r \in inFlight /\ r.id = receiver /\ r \in PanelReq /\ r.answer \in PanelState
      /\ acted \in PanelAt /\ known \in PanelState /\ listener.at \in Nat /\ due' \in BOOLEAN
  BY DEF Heard, PanelInv, PanelTypes, PanelReq, Apply
<1>2. CASE UNCHANGED <<known, acted>>
  BY <1>1, <1>2, PanelNothingTaken
<1>3. CASE /\ r.gen = generation /\ r.op = "status" /\ r.answer # NoAnswer
           /\ known' = r.answer /\ acted' = acted
  <2>1. acted <= r.answer.at /\ r.answer.at <= listener.at
    BY <1>1, <1>3 DEF PanelInv, PanelCurrent
  <2>2. QED
    BY <1>1, <1>3, <2>1 DEF PanelTaken, PanelInv, PanelCurrent
<1>4. CASE /\ r.gen = generation /\ r.op # "status"
           /\ known' = r.answer /\ acted' = r.answer.at
  <2>1. r.answer.at \in PanelAt /\ r.answer.at <= listener.at
    BY <1>1 DEF PanelState, PanelInv, PanelCurrent
  <2>2. \A s \in inFlight : s.op = "status" => s.gen # generation
    BY <1>1, <1>4 DEF PanelInv, PanelLastAction
  <2>3. r.answer.at <= r.answer.at
    BY <2>1 DEF PanelAt
  <2>4. QED
    BY <1>1, <1>4, <2>1, <2>2, <2>3 DEF PanelTaken
<1>5. QED
  BY <1>2, <1>3, <1>4 DEF Apply, Take

LEMMA StatusStarted ==
  ASSUME PanelInv, PanelTaken, side = "window", receiver = Nobody \/ Heard # {},
         NEW pressed \in BOOLEAN, StartStatus(pressed), UNCHANGED <<side, listener, generation>>
  PROVE  PanelInv'
<1> DEFINE new == Request("status", generation)
<1>1. /\ receiver \in Nat /\ generation \in Nat /\ sent \in Nat
      /\ \A r \in inFlight : r \in PanelReq /\ r.id \in Nat /\ r.id # 0 /\ r.gen \in Nat
  BY DEF PanelInv, PanelTypes, PanelReq
<1>2. /\ new \in PanelReq /\ new.id = sent + 1 /\ new.op = "status" /\ new.gen = generation
      /\ new.phase = "sent" /\ new.answer = NoAnswer
  BY <1>1, PanelAnswers DEF Request, PanelReq, Operation
<1>3. ASSUME NEW r \in inFlight, r.op # "status", r.gen = generation PROVE r.phase # "sent"
  <2>1. CASE receiver = Nobody
    BY <1>1, <1>3, <2>1 DEF PanelInv, PanelHeeded, Nobody
  <2>2. CASE Heard # {}
    <3>1. PICK h \in inFlight : h.id = receiver /\ h.phase = "done"
      BY <2>2 DEF Heard
    <3>2. r.id = receiver => r = h
      BY <3>1 DEF PanelInv, PanelNumbered
    <3>3. QED
      BY <1>3, <3>1, <3>2 DEF PanelInv, PanelHeeded
  <2>3. QED
    BY <2>1, <2>2
<1>4. CASE inFlight' = inFlight \cup {new} /\ receiver' = new.id /\ sent' = sent + 1
  <2>1. PanelTypes'
    BY <1>1, <1>2, <1>4 DEF PanelInv, PanelTypes, PanelTaken
  <2>2. PanelNumbered'
    <3>1. \A r \in inFlight : r.id <= sent /\ r.gen <= generation
      BY DEF PanelInv, PanelNumbered
    <3>2. \A r \in inFlight' : r.id <= sent' /\ r.gen <= generation
      BY <1>1, <1>2, <1>4, <3>1
    <3>3. \A r \in inFlight : r.id # new.id
      BY <1>1, <1>2, <3>1
    <3>4. \A r, s \in inFlight' : r.id = s.id => r = s
      BY <1>4, <3>3 DEF PanelInv, PanelNumbered
    <3>5. receiver' <= sent'
      BY <1>1, <1>2, <1>4
    <3>6. QED
      BY <3>2, <3>4, <3>5 DEF PanelNumbered
  <2>3. \A r \in inFlight' : r.op # "status" => r \in inFlight /\ r.id # receiver'
    <3>1. \A r \in inFlight : r.id <= sent
      BY DEF PanelInv, PanelNumbered
    <3>2. QED
      BY <1>1, <1>2, <1>4, <3>1
  <2>4. PanelLastAction' /\ PanelHeeded'
    BY <1>3, <2>3 DEF PanelLastAction, PanelHeeded
  <2>5. PanelCurrent'
    <3>1. listener.at \in Nat
      BY DEF PanelInv, PanelTypes
    <3>2. new.answer.at <= listener.at
      BY <1>2, <3>1, PanelAnswers
    <3>3. QED
      BY <1>2, <1>4, <3>2 DEF PanelInv, PanelCurrent, PanelTaken
  <2>6. QED
    BY <2>1, <2>2, <2>4, <2>5 DEF PanelInv
<1>5. CASE inFlight' = inFlight /\ receiver' = Nobody /\ sent' = sent
  <2>1. PanelTypes'
    BY <1>1, <1>5 DEF PanelInv, PanelTypes, PanelTaken, Nobody
  <2>2. PanelNumbered'
    BY <1>1, <1>5 DEF PanelInv, PanelNumbered, Nobody
  <2>3. PanelLastAction' /\ PanelHeeded'
    BY <1>1, <1>3, <1>5 DEF PanelLastAction, PanelHeeded, Nobody
  <2>4. PanelCurrent'
    BY <1>5 DEF PanelInv, PanelCurrent, PanelTaken
  <2>5. QED
    BY <2>1, <2>2, <2>3, <2>4 DEF PanelInv
<1>6. QED
  BY <1>4, <1>5 DEF StartStatus, Put

\* Nothing of what the invariant speaks of changes.
LEMMA PanelNothingMoves ==
  ASSUME PanelInv, UNCHANGED <<side, listener, inFlight, receiver, generation, known, acted, sent>>, due' \in BOOLEAN
  PROVE  PanelInv'
  BY DEF PanelInv, PanelTypes, PanelNumbered, PanelLastAction, PanelHeeded, PanelCurrent

LEMMA RefreshKeeps == PanelInv /\ Refresh => PanelInv'
<1> SUFFICES ASSUME PanelInv, Refresh PROVE PanelInv'
  OBVIOUS
<1>1. side = "window" /\ UNCHANGED <<side, listener, generation>>
  BY DEF Refresh
<1>2. ASSUME NEW r \in Heard, Apply(r), StartStatus(due') PROVE PanelInv'
  <2>1. PanelTaken
    BY <1>2, PanelHeardTaken
  <2>2. due' \in BOOLEAN
    BY <2>1 DEF PanelTaken
  <2>3. QED
    BY <1>1, <1>2, <2>1, <2>2, StatusStarted
<1>3. CASE receiver = Nobody /\ StartStatus(TRUE) /\ UNCHANGED shownVars /\ UNCHANGED acted
  <2>1. PanelTaken
    BY <1>3, PanelNothingTaken DEF shownVars, PanelInv, PanelTypes
  <2>2. QED
    BY <1>1, <1>3, <2>1, StatusStarted
<1>4. QED
  BY <1>2, <1>3 DEF Refresh

LEMMA OpenDialogKeeps == PanelInv /\ OpenDialog => PanelInv'
<1> SUFFICES ASSUME PanelInv, OpenDialog PROVE PanelInv'
  OBVIOUS
<1>1. side = "window" /\ UNCHANGED <<side, listener, generation>>
  BY DEF OpenDialog
<1>2. CASE receiver = Nobody /\ StartStatus(TRUE) /\ UNCHANGED <<shownVars, acted>>
  <2>1. PanelTaken
    BY <1>2, PanelNothingTaken DEF shownVars, PanelInv, PanelTypes
  <2>2. QED
    BY <1>1, <1>2, <2>1, StatusStarted
<1>3. ASSUME NEW r \in Heard, Apply(r), StartStatus(TRUE) PROVE PanelInv'
  <2>1. PanelTaken
    BY <1>3, PanelHeardTaken
  <2>2. QED
    BY <1>1, <1>3, <2>1, StatusStarted
<1>4. CASE UNCHANGED <<inFlight, receiver, sent, shownVars, acted>>
  BY <1>1, <1>4, PanelNothingMoves DEF shownVars, PanelInv, PanelTypes
<1>5. QED
  BY <1>2, <1>3, <1>4 DEF OpenDialog

\* A start or stop takes the receiver and a generation of its own.
LEMMA PressButtonKeeps == PanelInv /\ PressButton => PanelInv'
<1> SUFFICES ASSUME PanelInv, PressButton PROVE PanelInv'
  OBVIOUS
<1> DEFINE new == Request(IF known.listening THEN "stop" ELSE "start", generation + 1)
<1>1. /\ receiver \in Nat /\ generation \in Nat /\ sent \in Nat /\ listener.at \in Nat
      /\ \A r \in inFlight : r \in PanelReq /\ r.id \in Nat /\ r.gen \in Nat
  BY DEF PanelInv, PanelTypes, PanelReq
<1>2. /\ new \in PanelReq /\ new.id = sent + 1 /\ new.op # "status" /\ new.gen = generation + 1
      /\ new.phase = "sent" /\ new.answer = NoAnswer
  BY <1>1, PanelAnswers DEF Request, PanelReq, Operation
<1>3. /\ inFlight' = inFlight \cup {new} /\ receiver' = new.id /\ sent' = new.id
      /\ generation' = generation + 1
  BY <1>2 DEF PressButton, ListensTo
<1>4. side = "window" /\ UNCHANGED <<side, listener, known, acted, due>>
  BY DEF PressButton
<1>5. \A r \in inFlight : r.id <= sent /\ r.gen <= generation
  BY DEF PanelInv, PanelNumbered
<1>6. \A r \in inFlight : r.id # receiver' /\ r.gen # generation'
  BY <1>1, <1>2, <1>3, <1>5
<1>7. PanelTypes'
  BY <1>1, <1>2, <1>3, <1>4 DEF PanelInv, PanelTypes
<1>8. PanelNumbered'
  <2>1. \A r \in inFlight' : r.id <= sent' /\ r.gen <= generation'
    BY <1>1, <1>2, <1>3, <1>5
  <2>2. \A r, s \in inFlight' : r.id = s.id => r = s
    BY <1>2, <1>3, <1>6 DEF PanelInv, PanelNumbered
  <2>3. receiver' <= sent'
    BY <1>1, <1>2, <1>3
  <2>4. QED
    BY <1>4, <2>1, <2>2, <2>3 DEF PanelNumbered
<1>9. PanelLastAction' /\ PanelHeeded'
  BY <1>2, <1>3, <1>6 DEF PanelLastAction, PanelHeeded
<1>10. PanelCurrent'
  <2>1. new.answer.at <= listener.at
    BY <1>1, <1>2, PanelAnswers
  <2>2. QED
    BY <1>2, <1>3, <1>4, <1>6, <2>1 DEF PanelInv, PanelCurrent
<1>11. QED
  BY <1>7, <1>8, <1>9, <1>10 DEF PanelInv

-----------------------------------------------------------------------------
(* The terminal: it waits for the answer. *)

LEMMA AskedKeeps ==
  ASSUME PanelInv, side = "terminal", listener' \in [at : Nat, listening : BOOLEAN],
         listener.at <= listener'.at, known' \in {known, listener'},
         acted' \in {acted, listener'.at}, acted' = acted \/ known' = listener',
         UNCHANGED <<side, inFlight, receiver, generation, sent, due>>
  PROVE  PanelInv'
<1>1. inFlight = {}
  BY DEF PanelInv, PanelNumbered
<1>2. listener' \in PanelState /\ listener'.at \in PanelAt
  BY DEF PanelState, PanelAt
<1>3. PanelTypes'
  BY <1>2 DEF PanelInv, PanelTypes
<1>4. PanelNumbered' /\ PanelLastAction' /\ PanelHeeded'
  BY <1>1 DEF PanelInv, PanelNumbered, PanelLastAction, PanelHeeded
<1>5. acted \in Int /\ known.at \in Int /\ listener.at \in Int /\ listener'.at \in Int
  BY PanelAnswers, <1>2 DEF PanelInv, PanelTypes, PanelAt
<1>6. acted' <= known'.at /\ known'.at <= listener'.at
  BY <1>5 DEF PanelInv, PanelCurrent
<1>7. PanelCurrent'
  BY <1>1, <1>6 DEF PanelCurrent
<1>8. QED
  BY <1>3, <1>4, <1>7 DEF PanelInv

LEMMA TerminalKeeps ==
  ASSUME PanelInv, ToggleScreen \/ ScreenStart \/ ScreenStop
  PROVE  PanelInv'
<1>1. side = "terminal" /\ UNCHANGED <<side, inFlight, receiver, generation, sent, due>>
  BY DEF ToggleScreen, ScreenStart, ScreenStop
<1>2. ASSUME NEW op \in Operation, NEW answered \in BOOLEAN, Asked(op, answered) PROVE PanelInv'
  <2>1. listener' \in [at : Nat, listening : BOOLEAN] /\ listener.at <= listener'.at
    BY <1>2, ListenerGrows DEF Asked, PanelInv
  <2>2. /\ known' \in {known, listener'} /\ acted' \in {acted, listener'.at}
        /\ acted' = acted \/ known' = listener'
    BY <1>2 DEF Asked
  <2>3. QED
    BY <1>1, <2>1, <2>2, AskedKeeps
<1>3. CASE ScreenStart /\ UNCHANGED acted
  <2>1. known' \in {known, listener'} \/ Asked("start", TRUE)
    BY <1>3 DEF ScreenStart
  <2>2. (\E on \in BOOLEAN : Change(on)) \/ UNCHANGED listener \/ Asked("start", TRUE)
    BY <1>3 DEF ScreenStart
  <2>3. CASE Asked("start", TRUE)
    BY <1>2, <2>3 DEF Operation
  <2>4. CASE ~Asked("start", TRUE)
    <3>1. listener' \in [at : Nat, listening : BOOLEAN] /\ listener.at <= listener'.at
      <4>1. listener \in [at : Nat, listening : BOOLEAN] /\ listener.at \in Nat
        BY DEF PanelInv, PanelTypes
      <4>2. CASE UNCHANGED listener
        BY <4>1, <4>2
      <4>3. CASE \E on \in BOOLEAN : Change(on)
        BY <4>1, <4>3 DEF Change
      <4>4. QED
        BY <2>2, <2>4, <4>2, <4>3
    <3>2. QED
      BY <1>1, <1>3, <2>1, <2>4, <3>1, AskedKeeps
  <2>5. QED
    BY <2>3, <2>4
<1>4. CASE ToggleScreen
  <2>1. CASE UNCHANGED <<listener, known, acted>>
    BY <1>1, <2>1, PanelNothingMoves DEF PanelInv, PanelTypes
  <2>2. QED
    BY <1>2, <1>4, <2>1 DEF ToggleScreen, Operation
<1>5. CASE ScreenStop
  BY <1>2, <1>5 DEF ScreenStop, Operation
<1>6. CASE ScreenStart
  BY <1>2, <1>3, <1>6 DEF ScreenStart, Operation
<1>7. QED
  BY <1>4, <1>5, <1>6

-----------------------------------------------------------------------------
(* The theorem. *)

LEMMA PanelInvStep == PanelInv /\ [RestPanelNext]_restPanelVars => PanelInv'
<1> SUFFICES ASSUME PanelInv, [RestPanelNext]_restPanelVars PROVE PanelInv'
  OBVIOUS
<1>1. CASE RequestServed
  BY <1>1, RequestServedKeeps
<1>2. CASE OthersChange
  BY <1>2, OthersChangeKeeps
<1>3. CASE Refresh
  BY <1>3, RefreshKeeps
<1>4. CASE OpenDialog
  BY <1>4, OpenDialogKeeps
<1>5. CASE PressButton
  BY <1>5, PressButtonKeeps
<1>6. CASE ToggleScreen \/ ScreenStart \/ ScreenStop
  BY <1>6, TerminalKeeps
<1>7. CASE StatusDue \/ CloseDialog \/ EditFields \/ LeaveScreen \/ TypeField
  BY <1>7, PanelNothingMoves DEF StatusDue, CloseDialog, EditFields, LeaveScreen, TypeField, shownVars,
                            PanelInv, PanelTypes
<1>8. CASE UNCHANGED restPanelVars
  BY <1>8, PanelNothingMoves DEF restPanelVars, shownVars, PanelInv, PanelTypes
<1>9. QED
  BY <1>1, <1>2, <1>3, <1>4, <1>5, <1>6, <1>7, <1>8 DEF RestPanelNext

\* However the answers to the requests of a window are delayed and overtake each
\* other, and whatever others do to the listener, what is shown is as new as the
\* last start or stop that was answered, and each has somebody who listens to it
\* (refresh_rest, start_rest_action in monitor.rs).
THEOREM PanelFresh == RestPanelSpec => []RestPanelFresh
<1>1. PanelInv => RestPanelFresh
  <2>1. ASSUME PanelInv PROVE known.at >= acted
    <3>1. known.at \in Int /\ acted \in Int /\ acted <= known.at
      BY <2>1, PanelAnswers DEF PanelInv, PanelTypes, PanelAt, PanelCurrent
    <3>2. QED
      BY <3>1
  <2>2. QED
    BY <2>1 DEF PanelInv, PanelHeeded, RestPanelFresh
<1>2. QED
  BY <1>1, PanelInvInit, PanelInvStep, PTL DEF RestPanelSpec

-----------------------------------------------------------------------------
(* Skills.                                                                 *)

\* What is invariant: the types the proof needs, and the two claims.
Standing == found \in [Place -> Contents] /\ own \subseteq Place /\ SkillsAgreed

\* Installing into places without a copy, or with an older one, leaves every other
\* place as it was, and never touches what a person made.
LEMMA InstallKeeps ==
  ASSUME Standing, NEW places \in SUBSET Place, Install(places),
         \A p \in places : found[p] \in {"absent", "older"}
  PROVE  /\ found' \in [Place -> Contents]
         /\ \A p \in Place \ places : found'[p] = found[p]
         /\ \A p \in own : found'[p] = found[p]
<1>1. PICK done \in SUBSET places :
        found' = [p \in Place |-> IF p \in done THEN "current" ELSE found[p]]
  BY DEF Install
<1>2. found' \in [Place -> Contents]
  BY <1>1 DEF Standing, Contents
<1>3. \A p \in Place : found'[p] = IF p \in done THEN "current" ELSE found[p]
  BY <1>1
<1>4. \A p \in own : p \notin done
  BY DEF Standing, SkillsAgreed
<1>5. own \subseteq Place
  BY DEF Standing
<1>6. QED
  BY <1>1, <1>2, <1>3, <1>4, <1>5

LEMMA SkillsStart == SkillsInit => Standing
BY DEF SkillsInit, Standing, SkillsAgreed, Contents

LEMMA SkillsStep == Standing /\ [SkillsNext]_skillsVars => Standing'
<1> SUFFICES ASSUME Standing, [SkillsNext]_skillsVars
             PROVE  Standing'
  OBVIOUS
<1>1. ASSUME NEW s \in Surfaces, OfferSkill(s) \/ LeaveOffer(s) PROVE Standing'
  BY <1>1 DEF OfferSkill, LeaveOffer, Standing, SkillsAgreed
<1>2. ASSUME NEW s \in Surfaces, AcceptOffer(s) PROVE Standing'
  <2>1. /\ Install(Undecided) /\ yes' = yes \cup offered[s]
        /\ late' = late \cup (Undecided \ offered[s])
        /\ UNCHANGED <<declined, own>>
    BY <1>2 DEF AcceptOffer, Agreed, StillOffered
  <2>2. /\ found' \in [Place -> Contents]
        /\ \A p \in Place \ Undecided : found'[p] = found[p]
        /\ \A p \in own : found'[p] = found[p]
    BY <2>1, InstallKeeps DEF Undecided
  <2>3. \A p \in Undecided : p \notin declined
    BY DEF Undecided
  <2>4. QED
    BY <2>1, <2>2, <2>3 DEF Standing, SkillsAgreed
<1>3. ASSUME NEW s \in Surfaces, DeclineOffer(s) PROVE Standing'
  BY <1>3 DEF DeclineOffer, StillOffered, Undecided, Standing, SkillsAgreed
<1>4. CASE AskInstall \/ RefuseInstall
  BY <1>4 DEF AskInstall, RefuseInstall, Standing, SkillsAgreed
<1>5. CASE InstallEverywhere
  <2> DEFINE places == Installable \cup Outdated
  <2>1. /\ Install(places) /\ declined' = declined \ Installable /\ UNCHANGED own
        /\ yes \subseteq yes' /\ late \subseteq late' /\ Installable \subseteq yes' \cup late'
    BY <1>5 DEF InstallEverywhere, Agreed
  <2>2. /\ found' \in [Place -> Contents]
        /\ \A p \in Place \ places : found'[p] = found[p]
        /\ \A p \in own : found'[p] = found[p]
    BY <2>1, InstallKeeps DEF Installable, Outdated
  <2>3. \A p \in Outdated : p \in (yes \ declined) \cup late
    BY DEF Standing, SkillsAgreed, Outdated
  <2>4. QED
    BY <2>1, <2>2, <2>3 DEF Standing, SkillsAgreed
<1>6. CASE DeclineByCommand
  BY <1>6 DEF DeclineByCommand, Undecided, Standing, SkillsAgreed
<1>7. CASE RemoveCopies
  <2>1. PICK done \in SUBSET Removable, kept \in BOOLEAN :
          /\ found' = [p \in Place |-> IF p \in done THEN "absent" ELSE found[p]]
          /\ declined' = IF kept THEN declined \cup done ELSE declined
          /\ yes' = yes \ done /\ late' = late \ done
    BY <1>7 DEF RemoveCopies
  <2>2. \A p \in own : p \notin done
    BY DEF Removable, Standing, SkillsAgreed
  <2>3. own' = own
    BY <1>7 DEF RemoveCopies
  <2>4. found' \in [Place -> Contents]
    BY <2>1 DEF Standing, Contents
  <2>5. QED
    BY <2>1, <2>2, <2>3, <2>4 DEF Standing, SkillsAgreed
<1>8. CASE UpdateInBackground
  <2>1. /\ Install(Outdated) /\ UNCHANGED <<declined, yes, late, own>>
    BY <1>8 DEF UpdateInBackground, Updated
  <2>2. /\ found' \in [Place -> Contents]
        /\ \A p \in Place \ Outdated : found'[p] = found[p]
        /\ \A p \in own : found'[p] = found[p]
    BY <2>1, InstallKeeps DEF Outdated
  <2>3. QED
    BY <2>1, <2>2 DEF Outdated, Standing, SkillsAgreed
<1>9. CASE NewBuild
  BY <1>9 DEF NewBuild, Standing, SkillsAgreed, Contents
<1>10. ASSUME NEW p \in Place, ToolInstalled(p) \/ SkillEdited(p) \/ SomethingElsePut(p) \/ TakenAway(p)
       PROVE  Standing'
  BY <1>10 DEF ToolInstalled, SkillEdited, SomethingElsePut, TakenAway, Event, Made,
     Standing, SkillsAgreed, Contents
<1>11. CASE UNCHANGED skillsVars
  BY <1>11 DEF skillsVars, Standing, SkillsAgreed
<1>12. QED
  BY <1>1, <1>2, <1>3, <1>4, <1>5, <1>6, <1>7, <1>8, <1>9, <1>10, <1>11 DEF SkillsNext

\* A copy of the skill stands only where a person agreed to one, however many
\* surfaces ask at once, and what a person made is never replaced (agent_skill.rs,
\* answer_skill_offer, skill_control).
THEOREM CopiesAgreed == SkillsSpec => []SkillsAgreed
<1>1. Standing => SkillsAgreed
  BY DEF Standing
<1>2. QED
  BY <1>1, SkillsStart, SkillsStep, PTL DEF SkillsSpec

-----------------------------------------------------------------------------
(* Prompt.                                                                 *)

\* A terminal whose setting is to stop the daemon was told so.
PromptInv ==
  /\ meant \in BOOLEAN
  /\ onQuit = "stop" => meant
  /\ daemonIs = "stopped" => meant

LEMMA PromptStart == PromptInit => PromptInv
BY DEF PromptInit, PromptInv

LEMMA PromptStep == PromptInv /\ [PromptNext]_promptVars => PromptInv'
<1> SUFFICES ASSUME PromptInv, [PromptNext]_promptVars PROVE PromptInv'
  OBVIOUS
<1>1. CASE UNCHANGED leaveVars
  BY <1>1 DEF leaveVars, PromptInv
<1>2. CASE Type \/ HistoryBack \/ HistoryForward \/ SendLine \/ ApplyIdle \/ UNCHANGED promptVars
  BY <1>1, <1>2 DEF Type, HistoryBack, HistoryForward, SendLine, ApplyIdle, promptVars
<1>3. CASE OpenScreen \/ ChangePanel \/ ToggleDaemon \/ Accept \/ Escape \/ AskCapture \/ LeavePanel
  <2>1. \A target, text : Enter(target, text) => UNCHANGED leaveVars
    BY DEF Enter
  <2>2. QED
    BY <1>1, <1>3, <2>1 DEF OpenScreen, ChangePanel, ToggleDaemon, Accept, Escape, AskCapture,
       LeavePanel
<1>4. CASE CycleOnQuit
  BY <1>4 DEF CycleOnQuit, PromptInv
<1>5. CASE RequestQuit
  BY <1>5 DEF RequestQuit, StopDaemon, PromptInv
<1>6. CASE AnswerLeave
  BY <1>6 DEF AnswerLeave, StopDaemon, SecondQuit, PromptInv
<1>7. CASE DaemonChanges
  BY <1>7 DEF DaemonChanges, PromptInv
<1>8. QED
  BY <1>2, <1>3, <1>4, <1>5, <1>6, <1>7 DEF PromptNext

-----------------------------------------------------------------------------
(* Windows.                                                                *)

Alive(p) == at[p] \notin {"out", "gone"}

\* Without two calls for one port, a call that found no entry still finds none
\* when it puts its process into the map, and no other call is about that port.
WindowsInv ==
  /\ at \in [Process -> {"out", "tries", "unlinks", "binds", "runs", "shows", "waits", "gone"}]
  /\ kind \in [Process -> {"user", "child"}] /\ wanted \in [Process -> Devices]
  /\ handles \in [Devices -> Process \cup {NoProcess}]
  /\ opening \subseteq Process /\ overlap \in BOOLEAN
  /\ ~overlap => \A p \in opening :
       /\ handles[wanted[p]] = NoProcess
       /\ \A q \in opening : wanted[q] = wanted[p] => q = p
  /\ NothingOrphaned

LEMMA WindowsStart == WindowsInit => WindowsInv
BY DEF WindowsInit, WindowsInv, NothingOrphaned

\* Steps that start no child leave the map and the calls as they were.
LEMMA ProcessMoves ==
  ASSUME WindowsInv, UNCHANGED <<wanted, handles, opening, overlap>>,
         at' \in [Process -> {"out", "tries", "unlinks", "binds", "runs", "shows", "waits", "gone"}],
         kind' \in [Process -> {"user", "child"}],
         \A p \in Process : Alive(p)' /\ kind'[p] = "child" => Alive(p) /\ kind[p] = "child"
  PROVE  WindowsInv'
BY DEF WindowsInv, NothingOrphaned, Alive

LEMMA WindowsStep == WindowsInv /\ [WindowsNext]_windowsVars => WindowsInv'
<1> SUFFICES ASSUME WindowsInv, [WindowsNext]_windowsVars PROVE WindowsInv'
  OBVIOUS
<1> USE DEF WindowsInv
<1>1. CASE UserStarts
  <2>1. PICK p \in NotStarted : Moves(p, "out", "tries") /\ kind' = [kind EXCEPT ![p] = "user"]
    BY <1>1 DEF UserStarts
  <2>2. \A q \in Process : Alive(q)' /\ kind'[q] = "child" => Alive(q) /\ kind[q] = "child"
    BY <2>1 DEF NotStarted, Moves, Alive
  <2>3. QED
    BY <1>1, <2>1, <2>2, ProcessMoves DEF UserStarts, NotStarted, Moves
<1>2. CASE HandedOver \/ AnswerLate \/ NobodyThere \/ Unlink \/ BindGui
  <2>1. PICK p \in Process : \E from \in {"tries", "unlinks", "binds"},
               to \in {"waits", "gone", "unlinks", "binds", "runs", "shows"} : Moves(p, from, to)
    BY <1>2 DEF HandedOver, AnswerLate, NobodyThere, Unlink, BindGui
  <2>2. UNCHANGED <<kind, wanted, handles, opening, overlap>>
    BY <1>2 DEF HandedOver, AnswerLate, NobodyThere, Unlink, BindGui
  <2>3. \A q \in Process : Alive(q)' => Alive(q)
    BY <2>1 DEF Moves, Alive
  <2>4. at' \in [Process -> {"out", "tries", "unlinks", "binds", "runs", "shows", "waits", "gone"}]
    BY <2>1 DEF Moves
  <2>5. QED
    BY <2>2, <2>3, <2>4, ProcessMoves
<1>3. CASE CloseWindow \/ Killed
  <2>1. UNCHANGED <<kind, wanted, handles, opening, overlap>>
    BY <1>3 DEF CloseWindow, Killed
  <2>2. at' = at \/ \E p : at' = [at EXCEPT ![p] = "gone"]
    BY <1>3 DEF CloseWindow, Killed, Dies
  <2>3. at' \in [Process -> {"out", "tries", "unlinks", "binds", "runs", "shows", "waits", "gone"}]
    BY <2>2
  <2>4. \A q \in Process : Alive(q)' => Alive(q)
    BY <2>2 DEF Alive
  <2>5. QED
    BY <2>1, <2>3, <2>4, ProcessMoves
<1>4. CASE LookUp
  <2>1. PICK p \in Process :
          /\ handles[wanted[p]] = NoProcess /\ opening' = opening \cup {p}
          /\ at' = [at EXCEPT ![p] = "tries"] /\ kind' = [kind EXCEPT ![p] = "child"]
          /\ overlap' = (overlap \/ \E q \in opening : wanted[q] = wanted[p])
          /\ UNCHANGED <<wanted, handles>>
    BY <1>4 DEF LookUp, NotStarted, Vacant, Moves
  <2>2. overlap' \in BOOLEAN
    BY <2>1
  <2>3. ~overlap' => ~overlap /\ \A q \in opening : wanted[q] # wanted[p]
    BY <2>1
  <2>4. QED
    BY <2>1, <2>2, <2>3 DEF NothingOrphaned
<1>5. CASE Insert
  <2>1. PICK p \in opening :
          /\ opening' = opening \ {p} /\ handles' = [handles EXCEPT ![wanted[p]] = p]
          /\ UNCHANGED <<at, kind, wanted, overlap>>
    BY <1>5 DEF Insert
  <2>2. p \in Process /\ wanted[p] \in Devices /\ 0 \notin Process
    BY <2>1 DEF Process
  <2>3. handles' \in [Devices -> Process \cup {NoProcess}] /\ handles'[wanted[p]] = p
    BY <2>1, <2>2
  <2>4. ASSUME ~overlap, NEW q \in Process \ opening, kind[q] = "child", Alive(q)
        PROVE  wanted[q] # wanted[p]
    BY <2>2, <2>4 DEF NothingOrphaned, NoProcess, Alive
  <2>5. NothingOrphaned'
    BY <2>1, <2>2, <2>3, <2>4 DEF NothingOrphaned, Alive
  <2>6. QED
    BY <2>1, <2>2, <2>3, <2>5
<1>6. CASE MonitorClose
  <2>1. PICK d \in Devices : handles[d] # NoProcess /\ handles' = [handles EXCEPT ![d] = NoProcess]
                             /\ at' = [at EXCEPT ![handles[d]] = "gone"]
                             /\ UNCHANGED <<kind, wanted, opening, overlap>>
    BY <1>6 DEF MonitorClose, Dies
  <2>2. handles[d] \in Process
    BY <2>1
  <2>3. QED
    BY <2>1, <2>2 DEF NothingOrphaned
<1>7. CASE UNCHANGED windowsVars
  BY <1>7 DEF windowsVars, NothingOrphaned
<1>8. QED
  BY <1>1, <1>2, <1>3, <1>4, <1>5, <1>6, <1>7 DEF WindowsNext

-----------------------------------------------------------------------------
(* Settings.                                                               *)

Written == [number : Nat, unit : {"", "s", "m", "h"}]
Documents == {d \in [1..3 -> Written \cup {"ask", "stop", "keep"} \cup Nat] :
                d[1] \in Written /\ d[2] \in {"ask", "stop", "keep"} /\ d[3] \in Nat}

\* A change of a period is written so that it means what was typed.
ChangeRight(c) ==
  \/ c.key = 1 /\ c.value \in Written /\ c.said \in Written /\ Seconds(c.value) = Seconds(c.said)
  \/ c.key = 2 /\ c.value \in {"ask", "stop", "keep"} /\ c.said = c.value

\* Who works on the file has the document as it is, with the change, and nobody
\* else works on it; the file beside it is that document once it was written.
SaverRight(s) ==
  /\ step[s] # "idle" => ChangeRight(change[s])
  /\ s \in Busy => copy[s] = [OnDisk EXCEPT ![change[s].key] = change[s].value]
  /\ s \in Busy => Busy = {s}
  /\ opened[s] = IF step[s] \in {"opened", "written"} THEN "staging" ELSE "nowhere"
  /\ step[s] = "written" => staging = copy[s]

Agrees == OnDisk[2] = told[2] /\ IdleOf(OnDisk) = IdleOf(told) /\ OnDisk[3] = edits

SettingsInv ==
  /\ step \in [Saver -> {"idle", "asked", "read", "opened", "written"}]
  /\ DOMAIN change = Saver /\ DOMAIN copy = Saver /\ DOMAIN opened = Saver
  /\ mixed \in BOOLEAN /\ edits \in Nat
  /\ ~mixed => /\ conf = Missing \/ conf \in Documents
               /\ told \in Documents /\ Agrees
               /\ \A s \in Saver : SaverRight(s)

\* A period that is saved is the one that was typed (IdleTimeout::parse, Display).
LEMMA PeriodsSurvive ==
  ASSUME NEW n \in Nat
  PROVE  Printed(n) \in Written /\ Seconds(Printed(n)) = n
<1>1. n \div 3600 \in Nat /\ n \div 60 \in Nat /\ n \div 1 = n
  OBVIOUS
<1>2. n % 3600 = 0 => (n \div 3600) * 3600 = n
  OBVIOUS
<1>3. n % 60 = 0 => (n \div 60) * 60 = n
  OBVIOUS
<1>4. CASE n = 0
  BY <1>4 DEF Printed, Seconds, Written
<1>5. CASE n # 0 /\ n % 3600 = 0
  BY <1>1, <1>2, <1>5 DEF Printed, Seconds, Written, As, Unit
<1>6. CASE n # 0 /\ n % 3600 # 0 /\ n % 60 = 0
  BY <1>1, <1>3, <1>6 DEF Printed, Seconds, Written, As, Unit
<1>7. CASE n # 0 /\ n % 3600 # 0 /\ n % 60 # 0
  BY <1>1, <1>7 DEF Printed, Seconds, Written, As, Unit
<1>8. QED
  BY <1>4, <1>5, <1>6, <1>7

LEMMA TypedSeconds ==
  ASSUME NEW t \in Typed, Parses(t)
  PROVE  t \in Written /\ Seconds(t) \in Nat
<1>1. t \in [number : Nat, unit : STRING]
  BY SettingsAssumption DEF SettingsAssumption
<1>2. t \in Written
  <2>1. CASE t = [number |-> 0, unit |-> ""]
    BY <2>1 DEF Written
  <2>2. CASE t.unit \in DOMAIN Unit
    <3>1. DOMAIN Unit = {"s", "m", "h"}
      BY DEF Unit
    <3>2. QED
      BY <1>1, <2>2, <3>1 DEF Written
  <2>3. QED
    BY <2>1, <2>2 DEF Parses
<1>3. \A u \in {"s", "m", "h"} : Unit[u] \in Nat
  BY DEF Unit
<1>4. CASE t.unit = ""
  BY <1>2, <1>4 DEF Seconds
<1>5. CASE t.unit # ""
  <2>1. PICK n \in Nat, m \in Nat : n = t.number /\ m = Unit[t.unit]
    BY <1>2, <1>3, <1>5 DEF Written
  <2>2. n * m \in Nat
    OBVIOUS
  <2>3. QED
    BY <1>2, <1>5, <2>1, <2>2 DEF Seconds
<1>6. QED
  BY <1>4, <1>5

LEMMA TheDocuments ==
  ASSUME NEW idle \in Written, NEW quit \in {"ask", "stop", "keep"}, NEW rest \in Nat
  PROVE  Document(idle, quit, rest) \in Documents
<1>1. <<idle, quit, rest>> \in [1..3 -> Written \cup {"ask", "stop", "keep"} \cup Nat]
  <2>1. \A i \in 1..3 : <<idle, quit, rest>>[i] \in Written \cup {"ask", "stop", "keep"} \cup Nat
    <3>1. \A i \in 1..3 : i = 1 \/ i = 2 \/ i = 3
      OBVIOUS
    <3>2. QED
      BY <3>1
  <2>2. QED
    BY <2>1
<1>2. QED
  BY <1>1 DEF Document, Documents

LEMMA NewDocumentRight == NewDocument \in Documents /\ (conf = Missing \/ conf \in Documents => OnDisk \in Documents)
<1>1. NewDocument \in Documents
  <2>1. DefaultIdle \in Written
    BY DEF DefaultIdle, Written
  <2>2. QED
    BY <2>1, TheDocuments DEF NewDocument
<1>2. QED
  BY <1>1 DEF OnDisk

LEMMA NotADocument == Missing \notin Documents /\ Torn \notin Documents /\ Missing # Torn
BY DEF Missing, Torn, Documents

\* What a right change makes of a document.
LEMMA ChangeMakes ==
  ASSUME NEW d \in Documents, NEW c, ChangeRight(c)
  PROVE  LET new == [d EXCEPT ![c.key] = c.value] IN
         /\ new \in Documents /\ new[3] = d[3]
         /\ c.key = 1 => new[1] = c.value /\ new[2] = d[2]
         /\ c.key = 2 => new[1] = d[1] /\ new[2] = c.value
BY DEF Documents, ChangeRight

LEMMA SettingsStart == SettingsInit => SettingsInv
<1> SUFFICES ASSUME SettingsInit PROVE SettingsInv
  OBVIOUS
<1>1. Document([number |-> 2, unit |-> "h"], "keep", 0) \in Documents
  <2>1. [number |-> 2, unit |-> "h"] \in Written
    BY DEF Written
  <2>2. QED
    BY <2>1, TheDocuments
<1>2. conf = Missing \/ conf \in Documents
  BY <1>1 DEF SettingsInit
<1>3. OnDisk \in Documents /\ OnDisk[3] = 0
  BY <1>2, NewDocumentRight DEF SettingsInit, OnDisk, NewDocument, Document
<1>4. \A s \in Saver : SaverRight(s)
  BY DEF SettingsInit, SaverRight, Busy
<1>5. QED
  BY <1>2, <1>3, <1>4 DEF SettingsInit, SettingsInv, Agrees

\* A surface that begins to save, or the daemon, does not touch the file.
LEMMA AskKeepsFile ==
  ASSUME SettingsInv, NEW s \in Saver, step[s] = "idle",
         step' = [step EXCEPT ![s] = "asked"], NEW c, change' = [change EXCEPT ![s] = c],
         ChangeRight(c), UNCHANGED <<conf, staging, copy, opened, told, edits, mixed>>
  PROVE  SettingsInv'
<1> USE DEF SettingsInv
<1>1. Busy' = Busy /\ OnDisk' = OnDisk /\ s \notin Busy
  BY DEF Busy, OnDisk
<1>2. ASSUME ~mixed, NEW r \in Saver PROVE SaverRight(r)'
  <2>1. CASE r = s
    BY <1>1, <1>2, <2>1 DEF SaverRight
  <2>2. CASE r # s
    BY <1>1, <1>2, <2>2 DEF SaverRight
  <2>3. QED
    BY <2>1, <2>2
<1>3. QED
  BY <1>1, <1>2 DEF Agrees

LEMMA SaveIdleKeeps ==
  ASSUME SettingsInv, NEW s \in Saver, NEW t \in Typed, NEW window \in BOOLEAN, SaveIdle(s, t, window)
  PROVE  SettingsInv'
<1> DEFINE c == [key |-> 1, value |-> Printed(Seconds(t)), said |-> t]
<1>1. t \in Written /\ Seconds(t) \in Nat
  BY TypedSeconds DEF SaveIdle
<1>2. ChangeRight(c)
  BY <1>1, PeriodsSurvive DEF ChangeRight
<1>3. QED
  BY <1>2, AskKeepsFile DEF SaveIdle, Begin

LEMMA SaveOnQuitKeeps ==
  ASSUME SettingsInv, NEW s \in Saver, NEW choice \in {"ask", "stop", "keep"}, SaveOnQuit(s, choice)
  PROVE  SettingsInv'
<1> DEFINE c == [key |-> 2, value |-> choice, said |-> choice]
<1>1. ChangeRight(c)
  BY DEF ChangeRight
<1>2. QED
  BY <1>1, AskKeepsFile DEF SaveOnQuit, Begin

\* A saver that gives up leaves the others as they were.
LEMMA EndsKeeps ==
  ASSUME SettingsInv, NEW s \in Saver, Ends(s), UNCHANGED <<conf, staging, told, edits>>,
         mixed' \in BOOLEAN, mixed => mixed'
  PROVE  SettingsInv'
<1> USE DEF SettingsInv
<1>1. Busy' = Busy \ {s} /\ OnDisk' = OnDisk
  BY DEF Busy, OnDisk, Ends
<1>2. ASSUME ~mixed, NEW r \in Saver PROVE SaverRight(r)'
  <2>1. CASE r = s
    BY <1>1, <1>2, <2>1 DEF SaverRight, Ends
  <2>2. CASE r # s
    <3>1. UNCHANGED <<step[r], change[r], copy[r], opened[r], staging>>
      BY <2>2 DEF Ends
    <3>2. r \in Busy' => Busy' = {r}
      BY <1>1, <1>2, <2>2 DEF SaverRight
    <3>3. QED
      BY <1>1, <1>2, <3>1, <3>2 DEF SaverRight
  <2>3. QED
    BY <2>1, <2>2
<1>3. QED
  BY <1>1, <1>2 DEF Agrees, Ends

LEMMA ReadDocumentKeeps ==
  ASSUME SettingsInv, NEW s \in Saver, ReadDocument(s)
  PROVE  SettingsInv'
<1> USE DEF SettingsInv
<1>1. CASE conf = Torn
  BY <1>1, EndsKeeps DEF ReadDocument
<1>2. CASE conf # Torn
  <2>1. /\ step[s] = "asked" /\ step' = [step EXCEPT ![s] = "read"]
        /\ copy' = [copy EXCEPT ![s] = [OnDisk EXCEPT ![change[s].key] = change[s].value]]
        /\ mixed' = (mixed \/ Busy # {})
        /\ UNCHANGED <<conf, staging, change, opened, told, edits>>
    BY <1>2 DEF ReadDocument
  <2>2. Busy' = Busy \cup {s} /\ OnDisk' = OnDisk
    BY <2>1 DEF Busy, OnDisk
  <2>3. mixed' \in BOOLEAN /\ (~mixed' => ~mixed /\ Busy = {})
    BY <2>1
  <2>4. ASSUME ~mixed', NEW r \in Saver PROVE SaverRight(r)'
    <3>1. SaverRight(r)
      BY <2>3, <2>4
    <3>2. CASE r = s
      BY <2>1, <2>2, <2>3, <2>4, <3>1, <3>2 DEF SaverRight
    <3>3. CASE r # s
      BY <2>1, <2>2, <2>3, <2>4, <3>1, <3>3 DEF SaverRight
    <3>4. QED
      BY <3>2, <3>3
  <2>5. QED
    BY <2>1, <2>2, <2>3, <2>4 DEF Agrees
<1>3. QED
  BY <1>1, <1>2

LEMMA StagingKeeps ==
  ASSUME SettingsInv, NEW s \in Saver, OpenStaging(s) \/ WriteDocument(s)
  PROVE  SettingsInv'
<1> USE DEF SettingsInv
<1>1. /\ step[s] \in {"read", "opened"} /\ s \in Busy
      /\ step' = [step EXCEPT ![s] = IF step[s] = "read" THEN "opened" ELSE "written"]
      /\ UNCHANGED <<change, copy, told, edits, mixed>>
  BY DEF OpenStaging, WriteDocument, Busy
<1>2. Busy' = Busy
  BY <1>1 DEF Busy
<1>3. ~mixed => SaverRight(s)
  OBVIOUS
<1>4. ~mixed => conf' = conf
  BY <1>1, <1>3 DEF OpenStaging, WriteDocument, Staged, SaverRight
<1>5. ~mixed => \A r \in Saver : opened'[r] = IF r = s THEN "staging" ELSE opened[r]
  BY <1>1, <1>3 DEF OpenStaging, WriteDocument, Staged, SaverRight
<1>6. ~mixed /\ step'[s] = "written" => staging' = copy[s]
  BY <1>1, <1>3 DEF OpenStaging, WriteDocument, SaverRight
<1>7. ~mixed => OnDisk' = OnDisk
  BY <1>4 DEF OnDisk
<1>8. ASSUME ~mixed, NEW r \in Saver PROVE SaverRight(r)'
  <2>1. CASE r = s
    BY <1>1, <1>2, <1>3, <1>5, <1>6, <1>7, <1>8, <2>1 DEF SaverRight
  <2>2. CASE r # s
    <3>1. r \notin Busy
      BY <1>1, <1>3, <1>8, <2>2 DEF SaverRight
    <3>2. QED
      BY <1>1, <1>2, <1>5, <1>7, <1>8, <2>2, <3>1 DEF SaverRight, Busy
  <2>3. QED
    BY <2>1, <2>2
<1>9. DOMAIN opened' = Saver
  BY DEF OpenStaging, WriteDocument
<1>10. QED
  BY <1>1, <1>4, <1>7, <1>8, <1>9 DEF Agrees

LEMMA RenameKeeps ==
  ASSUME SettingsInv, NEW s \in Saver, Rename(s)
  PROVE  SettingsInv'
<1> USE DEF SettingsInv
<1>1. CASE staging = Missing
  BY <1>1, EndsKeeps DEF Rename
<1>2. CASE staging # Missing
  <2>1. /\ step[s] = "written" /\ s \in Busy /\ conf' = staging
        /\ told' = [told EXCEPT ![change[s].key] = change[s].said]
        /\ opened' = [Renamed EXCEPT ![s] = "nowhere"]
        /\ step' = [step EXCEPT ![s] = "idle"] /\ copy' = [copy EXCEPT ![s] = Missing]
        /\ change' = [change EXCEPT ![s] = Missing] /\ UNCHANGED <<edits, mixed>>
    BY <1>2 DEF Rename, Busy
  <2>2. Busy' = Busy \ {s}
    BY <2>1 DEF Busy
  <2>3. DOMAIN opened' = Saver
    BY <2>1 DEF Renamed
  <2>4. ASSUME ~mixed
        PROVE  conf' \in Documents /\ told' \in Documents /\ Agrees'
    <3>1. SaverRight(s) /\ OnDisk \in Documents
      BY <2>4, NewDocumentRight
    <3>2. PICK c : c = change[s]
      OBVIOUS
    <3>3. ChangeRight(c) /\ conf' = [OnDisk EXCEPT ![c.key] = c.value]
          /\ told' = [told EXCEPT ![c.key] = c.said]
      BY <2>1, <3>1, <3>2 DEF SaverRight
    <3>4. /\ conf' \in Documents /\ conf'[3] = OnDisk[3]
          /\ c.key = 1 => conf'[1] = c.value /\ conf'[2] = OnDisk[2]
          /\ c.key = 2 => conf'[1] = OnDisk[1] /\ conf'[2] = c.value
      BY <3>1, <3>3, ChangeMakes
    <3>5. told \in Documents /\ Agrees
      BY <2>4
    <3>6. /\ told' \in Documents
          /\ c.key = 1 => told'[1] = c.said /\ told'[2] = told[2]
          /\ c.key = 2 => told'[1] = told[1] /\ told'[2] = c.said
      BY <3>3, <3>5 DEF Documents, ChangeRight
    <3>7. OnDisk' = conf'
      BY <3>4, NotADocument DEF OnDisk
    <3>8. Agrees'
      BY <2>1, <3>3, <3>4, <3>5, <3>6, <3>7 DEF Agrees, IdleOf, ChangeRight
    <3>9. QED
      BY <3>4, <3>6, <3>8
  <2>5. ASSUME ~mixed, NEW r \in Saver PROVE SaverRight(r)'
    <3>1. SaverRight(s) /\ SaverRight(r)
      BY <2>5
    <3>2. CASE r = s
      BY <2>1, <2>2, <3>2 DEF SaverRight, Renamed
    <3>3. CASE r # s
      <4>1. r \notin Busy /\ r \notin Busy'
        BY <2>1, <2>2, <3>1, <3>3 DEF SaverRight
      <4>2. opened[r] = "nowhere" /\ step[r] \notin {"opened", "written"}
        BY <3>1, <4>1 DEF SaverRight, Busy
      <4>3. opened'[r] = "nowhere" /\ step'[r] = step[r] /\ change'[r] = change[r]
        BY <2>1, <3>3, <4>2 DEF Renamed
      <4>4. QED
        BY <3>1, <4>1, <4>2, <4>3 DEF SaverRight
    <3>4. QED
      BY <3>2, <3>3
  <2>6. QED
    BY <2>1, <2>3, <2>4, <2>5
<1>3. QED
  BY <1>1, <1>2

LEMMA EditKeeps == ASSUME SettingsInv, EditFile PROVE SettingsInv'
<1> USE DEF SettingsInv
<1>1. /\ edits' = edits + 1 /\ conf' = [OnDisk EXCEPT ![3] = edits + 1]
      /\ mixed' = (mixed \/ Busy # {})
      /\ opened' = [s \in Saver |-> IF opened[s] = "conf" THEN "nowhere" ELSE opened[s]]
      /\ UNCHANGED <<staging, step, change, copy, told>>
  BY DEF EditFile
<1>2. mixed' \in BOOLEAN /\ (~mixed' => ~mixed /\ Busy = {}) /\ Busy' = Busy
  BY <1>1 DEF Busy
<1>3. ASSUME ~mixed' PROVE conf' \in Documents /\ Agrees'
  <2>1. OnDisk \in Documents /\ Agrees /\ edits + 1 \in Nat
    BY <1>2, <1>3, NewDocumentRight
  <2>2. conf' \in Documents /\ conf'[3] = edits + 1 /\ conf'[1] = OnDisk[1] /\ conf'[2] = OnDisk[2]
    BY <1>1, <2>1 DEF Documents
  <2>3. OnDisk' = conf'
    BY <2>2, NotADocument DEF OnDisk
  <2>4. QED
    BY <1>1, <2>1, <2>2, <2>3 DEF Agrees, IdleOf
<1>4. ASSUME ~mixed', NEW r \in Saver PROVE SaverRight(r)'
  <2>1. SaverRight(r) /\ r \notin Busy /\ r \notin Busy'
    BY <1>2, <1>4
  <2>2. QED
    BY <1>1, <2>1 DEF SaverRight, Busy
<1>5. QED
  BY <1>1, <1>2, <1>3, <1>4

LEMMA FileStays ==
  ASSUME SettingsInv, UNCHANGED <<conf, staging, step, change, copy, opened, told, edits, mixed>>
  PROVE  SettingsInv'
BY DEF SettingsInv, SaverRight, Agrees, OnDisk, Busy

LEMMA SettingsStep == SettingsInv /\ [SettingsNext]_settingsVars => SettingsInv'
<1> SUFFICES ASSUME SettingsInv, [SettingsNext]_settingsVars PROVE SettingsInv'
  OBVIOUS
<1>1. ASSUME NEW s \in Saver, NEW t \in Typed, ApplyNow(s, t) \/ \E window \in BOOLEAN : SaveIdle(s, t, window)
      PROVE  SettingsInv'
  BY <1>1, SaveIdleKeeps, FileStays DEF ApplyNow
<1>2. ASSUME NEW s \in Saver, NEW choice \in {"ask", "stop", "keep"}, SaveOnQuit(s, choice)
      PROVE  SettingsInv'
  BY <1>2, SaveOnQuitKeeps
<1>3. ASSUME NEW s \in Saver, ReadDocument(s) \/ OpenStaging(s) \/ WriteDocument(s) \/ Rename(s)
      PROVE  SettingsInv'
  BY <1>3, ReadDocumentKeeps, StagingKeeps, RenameKeeps
<1>4. ASSUME NEW s \in Saver, SaveFails(s) PROVE SettingsInv'
  <2>1. mixed' = mixed /\ mixed \in BOOLEAN
    BY <1>4 DEF SaveFails, SettingsInv
  <2>2. QED
    BY <1>4, <2>1, EndsKeeps DEF SaveFails
<1>5. CASE EditFile \/ DaemonStarts \/ DaemonStops \/ UNCHANGED settingsVars
  BY <1>5, EditKeeps, FileStays DEF DaemonStarts, DaemonStops, settingsVars
<1>6. QED
  BY <1>1, <1>2, <1>3, <1>4, <1>5 DEF SettingsNext

LEMMA SettingsRight == SettingsInv => SettingsSaved
BY NotADocument DEF SettingsInv, SettingsSaved, Agrees

-----------------------------------------------------------------------------
(* Desktop.                                                                *)

MonitorStates == [port : Ports, open : BOOLEAN, daemon : BOOLEAN]
DesktopInv ==
  /\ monitors \in Seq(MonitorStates) /\ commands \in Seq(GuiCommand)
  /\ OneWindowPerPort

\* Other windows of the same ports: shut or raised, and none more or less.
SamePorts(ms, ns) ==
  /\ ns \in Seq(MonitorStates) /\ DOMAIN ns = DOMAIN ms
  /\ \A i \in DOMAIN ms : ns[i].port = ms[i].port /\ ns[i].daemon = ms[i].daemon

LEMMA WindowSequence ==
  ASSUME NEW ms \in Seq(MonitorStates)
  PROVE  /\ DOMAIN ms = 1..Len(ms) /\ Len(ms) \in Nat /\ ms \in [1..Len(ms) -> MonitorStates]
         /\ \A f \in [1..Len(ms) -> MonitorStates] : f \in Seq(MonitorStates) /\ DOMAIN f = DOMAIN ms
OBVIOUS

LEMMA WindowState ==
  ASSUME NEW m \in MonitorStates, NEW b \in BOOLEAN
  PROVE  LET n == [m EXCEPT !.open = b] IN
         n \in MonitorStates /\ n.port = m.port /\ n.daemon = m.daemon /\ n.open = b
BY DEF MonitorStates

LEMMA ShutAndRaised ==
  ASSUME NEW ms \in Seq(MonitorStates)
  PROVE  /\ SamePorts(ms, ms) /\ SamePorts(ms, AllShut(ms))
         /\ \A i : SamePorts(ms, Raised(ms, i)) /\ SamePorts(ms, [ms EXCEPT ![i].open = FALSE])
         /\ \A S : SamePorts(ms, [i \in DOMAIN ms |->
                IF i \in S THEN [ms[i] EXCEPT !.open = FALSE] ELSE ms[i]])
         /\ \A i \in DOMAIN ms : Raised(ms, i)[i].open
<1>1. /\ DOMAIN ms = 1..Len(ms) /\ Len(ms) \in Nat /\ ms \in [1..Len(ms) -> MonitorStates]
      /\ \A f \in [1..Len(ms) -> MonitorStates] : f \in Seq(MonitorStates) /\ DOMAIN f = DOMAIN ms
  BY WindowSequence
<1>2. \A m \in MonitorStates, b \in BOOLEAN :
        LET n == [m EXCEPT !.open = b] IN
        n \in MonitorStates /\ n.port = m.port /\ n.daemon = m.daemon /\ n.open = b
  BY WindowState
<1>3. ASSUME NEW b \in BOOLEAN, NEW S
      PROVE  LET ns == [i \in DOMAIN ms |-> IF i \in S THEN [ms[i] EXCEPT !.open = b] ELSE ms[i]] IN
             SamePorts(ms, ns)
  <2> DEFINE ns == [i \in DOMAIN ms |-> IF i \in S THEN [ms[i] EXCEPT !.open = b] ELSE ms[i]]
  <2>1. ASSUME NEW i \in DOMAIN ms
        PROVE  ns[i] \in MonitorStates /\ ns[i].port = ms[i].port /\ ns[i].daemon = ms[i].daemon
    <3>1. PICK m \in MonitorStates : m = ms[i]
      BY <1>1
    <3>2. ns[i] = IF i \in S THEN [m EXCEPT !.open = b] ELSE m
      BY <3>1
    <3>3. QED
      BY <1>2, <3>1, <3>2
  <2>2. ns \in [1..Len(ms) -> MonitorStates]
    BY <1>1, <2>1
  <2>3. ns \in Seq(MonitorStates) /\ DOMAIN ns = DOMAIN ms
    BY <1>1, <2>2
  <2> HIDE DEF ns
  <2>4. SamePorts(ms, ns)
    BY <2>1, <2>3 DEF SamePorts
  <2>5. QED
    BY <2>4 DEF ns
<1>4. ASSUME NEW b \in BOOLEAN, NEW i
      PROVE  [ms EXCEPT ![i].open = b]
               = [k \in DOMAIN ms |-> IF k \in {i} THEN [ms[k] EXCEPT !.open = b] ELSE ms[k]]
  BY <1>1
<1>5. SamePorts(ms, ms)
  BY DEF SamePorts
<1>6. SamePorts(ms, AllShut(ms))
  <2>1. AllShut(ms) = [i \in DOMAIN ms |-> IF i \in DOMAIN ms THEN [ms[i] EXCEPT !.open = FALSE] ELSE ms[i]]
    BY DEF AllShut
  <2>2. QED
    BY <1>3, <2>1
<1>7. \A i : SamePorts(ms, Raised(ms, i)) /\ SamePorts(ms, [ms EXCEPT ![i].open = FALSE])
  <2>1. ASSUME NEW b \in BOOLEAN, NEW i PROVE SamePorts(ms, [ms EXCEPT ![i].open = b])
    <3>1. SamePorts(ms, [k \in DOMAIN ms |-> IF k \in {i} THEN [ms[k] EXCEPT !.open = b] ELSE ms[k]])
      BY <1>3
    <3>2. QED
      BY <1>4, <3>1
  <2>2. QED
    BY <2>1 DEF Raised
<1>8. ASSUME NEW i \in DOMAIN ms PROVE Raised(ms, i)[i].open
  <2>1. PICK m \in MonitorStates : m = ms[i]
    BY <1>1
  <2>2. Raised(ms, i)[i] = [m EXCEPT !.open = TRUE]
    BY <2>1, <1>1 DEF Raised
  <2>3. QED
    BY <1>2, <2>2
<1>9. QED
  BY <1>3, <1>5, <1>6, <1>7, <1>8

LEMMA SamePortsKeep ==
  ASSUME DesktopInv, SamePorts(monitors, monitors'), commands' \in Seq(GuiCommand)
  PROVE  DesktopInv'
BY DEF DesktopInv, SamePorts, OneWindowPerPort

LEMMA BeginQuitKeeps ==
  ASSUME NEW ms \in Seq(MonitorStates), NEW i, BeginQuit(ms, i)
  PROVE  SamePorts(ms, monitors')
BY ShutAndRaised DEF BeginQuit, Resolve

LEMMA QuitKeeps ==
  ASSUME DesktopInv, QuitFromMenu \/ ClosePrimary \/ CloseSecondary
  PROVE  DesktopInv'
<1>1. monitors \in Seq(MonitorStates) /\ UNCHANGED commands
  BY DEF DesktopInv, QuitFromMenu, ClosePrimary, CloseSecondary
<1>2. SamePorts(monitors, monitors')
  <2>1. CASE QuitFromMenu
    BY <1>1, <2>1, BeginQuitKeeps, ShutAndRaised DEF QuitFromMenu
  <2>2. CASE ClosePrimary
    BY <1>1, <2>2, BeginQuitKeeps, ShutAndRaised DEF ClosePrimary
  <2>3. CASE CloseSecondary
    <3>1. PICK S \in SUBSET Shown(monitors) :
            monitors' = [i \in DOMAIN monitors |->
              IF i \in S THEN [monitors[i] EXCEPT !.open = FALSE] ELSE monitors[i]]
      BY <2>3 DEF CloseSecondary
    <3>2. SamePorts(monitors, [i \in DOMAIN monitors |->
              IF i \in S THEN [monitors[i] EXCEPT !.open = FALSE] ELSE monitors[i]])
      BY <1>1, ShutAndRaised
    <3>3. QED
      BY <3>1, <3>2
  <2>4. QED
    BY <2>1, <2>2, <2>3
<1>3. QED
  BY <1>1, <1>2, SamePortsKeep DEF DesktopInv

\* A person answers, or something happens that leaves the windows as they are.
LEMMA WindowsStay ==
  ASSUME DesktopInv,
         CloseConnectionView \/ AnswerQuit \/ CancelQuit \/ Elsewhere \/ OpenConnectDialog
         \/ CancelConnect \/ Send \/ UNCHANGED desktopVars
  PROVE  DesktopInv'
<1>1. monitors \in Seq(MonitorStates) /\ commands \in Seq(GuiCommand)
  BY DEF DesktopInv
<1>2. monitors' = monitors \/ monitors' = AllShut(monitors)
  BY DEF CloseConnectionView, AnswerQuit, CancelQuit, Elsewhere, OpenConnectDialog, CancelConnect,
     Send, Resolve, desktopVars, windowVars
<1>3. commands' = commands \/ \E c \in GuiCommand : commands' = Append(commands, c)
  BY DEF CloseConnectionView, AnswerQuit, CancelQuit, Elsewhere, OpenConnectDialog, CancelConnect,
     Send, desktopVars
<1>4. commands' \in Seq(GuiCommand)
  BY <1>1, <1>3
<1>5. QED
  BY <1>1, <1>2, <1>4, ShutAndRaised, SamePortsKeep DEF DesktopInv

\* A set of windows that is not empty has a last one.
LEMMA GreatestExists ==
  ASSUME NEW n \in Nat, NEW S \in SUBSET (1..n), S # {}
  PROVE  Greatest(S) \in S
<1> DEFINE B == {m \in Nat : \A j \in S : j <= m}
<1>1. n \in B
  OBVIOUS
<1>2. PICK m \in B : \A k \in B : m <= k
  <2>1. PICK m \in B : \A k \in B : <<k, m>> \notin OpToRel(<, Nat)
    BY <1>1, NatLessThanWellFounded, WFMin
  <2>2. ASSUME NEW k \in B PROVE m <= k
    <3>1. <<k, m>> \notin OpToRel(<, Nat)
      BY <2>1
    <3>2. k \in Nat /\ m \in Nat
      OBVIOUS
    <3>3. ~(k < m)
      BY <3>1, <3>2 DEF OpToRel
    <3>4. QED
      BY <3>2, <3>3
  <2>3. QED
    BY <2>2
<1>3. m \in S
  <2>1. m \in Nat /\ m # 0
    <3>1. PICK j \in S : j <= m
      OBVIOUS
    <3>2. QED
      BY <3>1
  <2>2. m - 1 \in Nat /\ ~(m <= m - 1)
    BY <2>1
  <2>3. m - 1 \notin B
    BY <1>2, <2>2
  <2>4. PICK j \in S : ~(j <= m - 1)
    BY <2>2, <2>3
  <2>5. j <= m /\ j \in Nat
    OBVIOUS
  <2>6. j = m
    BY <2>1, <2>4, <2>5
  <2>7. QED
    BY <2>6
<1>4. \A j \in S : j <= m
  OBVIOUS
<1>5. QED
  BY <1>3, <1>4 DEF Greatest

LEMMA LeastExists ==
  ASSUME NEW S \in SUBSET Nat, S # {}
  PROVE  Lowest(S) \in S
<1>1. PICK m \in S : \A k \in S : <<k, m>> \notin OpToRel(<, Nat)
  BY NatLessThanWellFounded, WFMin
<1>2. ASSUME NEW k \in S PROVE m <= k
  <2>1. <<k, m>> \notin OpToRel(<, Nat)
    BY <1>1
  <2>2. k \in Nat /\ m \in Nat
    OBVIOUS
  <2>3. ~(k < m)
    BY <2>1, <2>2 DEF OpToRel
  <2>4. QED
    BY <2>2, <2>3
<1>3. QED
  BY <1>2 DEF Lowest

LEMMA LastWindowKeeps == ASSUME DesktopInv, EndWithoutWindows PROVE DesktopInv'
<1> DEFINE sessions == {i \in DOMAIN monitors : monitors[i].daemon}
           last == Greatest(sessions)
<1>1. /\ monitors \in Seq(MonitorStates) /\ commands \in Seq(GuiCommand)
      /\ LastWindow /\ UNCHANGED commands
  BY DEF DesktopInv, EndWithoutWindows
<1>2. /\ Raised(monitors, last) \in Seq(MonitorStates)
      /\ SamePorts(monitors, Raised(monitors, last)) /\ SamePorts(monitors, monitors)
  <2>1. SamePorts(monitors, Raised(monitors, last)) /\ SamePorts(monitors, monitors)
    BY <1>1, ShutAndRaised
  <2>2. QED
    BY <2>1 DEF SamePorts
<1>3. SamePorts(monitors, monitors')
  <2>1. CASE sessions = {} \/ resolved
    BY <1>1, <1>2, <2>1 DEF LastWindow
  <2>2. CASE ~(sessions = {} \/ resolved)
    <3>1. BeginQuit(Raised(monitors, last), last)
      BY <1>1, <2>2 DEF LastWindow
    <3>2. SamePorts(Raised(monitors, last), monitors')
      BY <1>2, <3>1, BeginQuitKeeps
    <3>3. QED
      BY <1>2, <3>2 DEF SamePorts
  <2>3. QED
    BY <2>1, <2>2
<1>4. QED
  BY <1>1, <1>3, SamePortsKeep

\* A window for a port that none shows.
LEMMA AppendKeeps ==
  ASSUME DesktopInv, NEW p \in Ports, NEW daemon \in BOOLEAN, Known(p) = {},
         monitors' = Append(monitors, Monitor(p, daemon)),
         commands' \in Seq(GuiCommand)
  PROVE  DesktopInv'
<1>1. Monitor(p, daemon) \in MonitorStates /\ Monitor(p, daemon).port = p
  BY DEF Monitor, MonitorStates
<1>2. monitors \in Seq(MonitorStates)
  BY DEF DesktopInv
<1> DEFINE m == Monitor(p, daemon)
<1> HIDE DEF m
<1>3. /\ monitors' \in Seq(MonitorStates) /\ DOMAIN monitors = 1..Len(monitors)
      /\ DOMAIN monitors' = 1..(Len(monitors) + 1) /\ Len(monitors) \in Nat
      /\ monitors'[Len(monitors) + 1] = m
      /\ \A i \in 1..Len(monitors) : monitors'[i] = monitors[i]
  BY <1>1, <1>2 DEF m
<1>4. m.port = p
  BY <1>1 DEF m
<1>5. \A i \in 1..Len(monitors) : monitors'[i].port # p
  BY <1>3 DEF Known, IndexOf
<1>6. OneWindowPerPort'
  <2>1. ASSUME NEW i \in DOMAIN monitors', NEW j \in DOMAIN monitors',
               monitors'[i].port = monitors'[j].port
        PROVE  i = j
    <3>1. CASE i \in 1..Len(monitors) /\ j \in 1..Len(monitors)
      BY <1>3, <2>1, <3>1 DEF DesktopInv, OneWindowPerPort
    <3>2. CASE ~(i \in 1..Len(monitors) /\ j \in 1..Len(monitors))
      BY <1>3, <1>4, <1>5, <2>1, <3>2
    <3>3. QED
      BY <3>1, <3>2
  <2>2. QED
    BY <2>1 DEF OneWindowPerPort
<1>7. QED
  BY <1>3, <1>6 DEF DesktopInv

LEMMA ConnectKeeps == ASSUME DesktopInv, ConnectFromDialog PROVE DesktopInv'
<1>1. monitors \in Seq(MonitorStates) /\ UNCHANGED commands
  BY DEF DesktopInv, ConnectFromDialog
<1>2. PICK p \in Ports :
        IF Known(p) # {} THEN monitors' = Raised(monitors, Lowest(Known(p)))
        ELSE monitors' = Append(monitors, Monitor(p, TRUE)) \/ UNCHANGED monitors
  BY DEF ConnectFromDialog, Session, windowVars
<1>3. CASE monitors' = monitors \/ monitors' = Raised(monitors, Lowest(Known(p)))
  BY <1>1, <1>3, ShutAndRaised, SamePortsKeep DEF DesktopInv
<1>4. CASE Known(p) = {} /\ monitors' = Append(monitors, Monitor(p, TRUE))
  BY <1>1, <1>4, AppendKeeps DEF DesktopInv
<1>5. QED
  BY <1>2, <1>3, <1>4

\* What is left when the windows of a port are forgotten.
LEMMA ForgetKeeps ==
  ASSUME DesktopInv, NEW p, ForgetWindows(p), commands' \in Seq(GuiCommand)
  PROVE  DesktopInv'
<1> DEFINE left == DOMAIN monitors \ IndexOf(p)
           n == Cardinality(left)
<1>1. DOMAIN monitors = 1..Len(monitors) /\ Len(monitors) \in Nat
      /\ monitors \in [1..Len(monitors) -> MonitorStates]
  BY WindowSequence DEF DesktopInv
<1>2. n \in Nat
  <2>1. IsFiniteSet(1..Len(monitors))
    BY <1>1, FS_Interval
  <2>2. IsFiniteSet(left)
    BY <1>1, <2>1, FS_Subset
  <2>3. QED
    BY <2>2, FS_CardinalityType
<1>3. PICK kept \in [1..n -> left] :
        /\ \A i, j \in DOMAIN kept : i < j => kept[i] < kept[j]
        /\ monitors' = [i \in DOMAIN kept |-> monitors[kept[i]]]
  BY DEF ForgetWindows
<1>4. left \subseteq 1..Len(monitors)
  BY <1>1
<1> HIDE DEF n, left
<1>5. DOMAIN kept = 1..n /\ \A i \in 1..n : kept[i] \in 1..Len(monitors)
  BY <1>3, <1>4
<1>6. \A i, j \in 1..n : kept[i] = kept[j] => i = j
  <2>1. ASSUME NEW i \in 1..n, NEW j \in 1..n, kept[i] = kept[j] PROVE i = j
    <3>1. i \in Int /\ j \in Int /\ kept[i] \in Int /\ kept[j] \in Int
      BY <1>1, <1>2, <1>5
    <3>2. ~(i < j) /\ ~(j < i)
      BY <1>3, <1>5, <2>1, <3>1
    <3>3. QED
      BY <3>1, <3>2
  <2>2. QED
    BY <2>1
<1>7. DOMAIN monitors' = 1..n /\ \A i \in 1..n : monitors'[i] = monitors[kept[i]]
  BY <1>3, <1>5
<1>8. monitors' \in Seq(MonitorStates)
  <2>1. monitors' \in [1..n -> MonitorStates]
    BY <1>1, <1>3, <1>5
  <2>2. QED
    BY <1>2, <2>1
<1>9. OneWindowPerPort'
  BY <1>1, <1>5, <1>6, <1>7 DEF DesktopInv, OneWindowPerPort
<1>10. QED
  BY <1>8, <1>9 DEF DesktopInv

LEMMA HandleKeeps == ASSUME DesktopInv, HandleCommand PROVE DesktopInv'
<1> DEFINE c == Head(commands)
<1>1. /\ monitors \in Seq(MonitorStates) /\ commands' \in Seq(GuiCommand)
      /\ c \in GuiCommand
  BY DEF DesktopInv, HandleCommand
<1>2. /\ c.port \in Ports \cup {"none"}
      /\ c.name \in {"FocusPort", "ClosePort"} => c.port \in Ports
  BY <1>1 DEF GuiCommand
<1>3. \/ c.name = "OpenPort" /\ Requested(c)
      \/ monitors' = monitors
      \/ \E i : monitors' = Raised(monitors, i)
      \/ ForgetWindows(c.port)
  BY DEF HandleCommand
<1> HIDE DEF c
<1>4. CASE ForgetWindows(c.port)
  BY <1>1, <1>4, ForgetKeeps
<1>5. CASE monitors' = monitors \/ \E i : monitors' = Raised(monitors, i)
  BY <1>1, <1>5, ShutAndRaised, SamePortsKeep
<1>6. CASE Requested(c)
  <2>1. \/ monitors' = monitors
        \/ monitors' = Raised(monitors, Lowest(Known(c.port)))
        \/ c.port # "none" /\ Known(c.port) = {}
           /\ \E daemon \in BOOLEAN : monitors' = Append(monitors, Monitor(c.port, daemon))
    BY <1>6 DEF Requested, Session
  <2>2. CASE c.port # "none" /\ Known(c.port) = {}
             /\ \E daemon \in BOOLEAN : monitors' = Append(monitors, Monitor(c.port, daemon))
    <3>1. PICK p \in Ports : p = c.port
      BY <1>2, <2>2
    <3>2. QED
      BY <1>1, <2>2, <3>1, AppendKeeps
  <2>3. QED
    BY <1>5, <2>1, <2>2
<1>7. QED
  BY <1>3, <1>4, <1>5, <1>6

LEMMA DesktopStart == DesktopInit => DesktopInv
<1> SUFFICES ASSUME DesktopInit PROVE DesktopInv
  OBVIOUS
<1>1. <<>> \in Seq(MonitorStates) /\ <<>> \in Seq(GuiCommand) /\ DOMAIN <<>> = {}
  OBVIOUS
<1>2. CASE monitors = <<>>
  BY <1>1, <1>2 DEF DesktopInit, DesktopInv, OneWindowPerPort
<1>3. CASE monitors # <<>>
  <2>1. PICK p \in Ports, daemon \in BOOLEAN : monitors = <<Monitor(p, daemon)>>
    BY <1>3 DEF DesktopInit
  <2>2. PICK m \in MonitorStates : m = Monitor(p, daemon)
    BY DEF Monitor, MonitorStates
  <2>3. <<m>> \in Seq(MonitorStates) /\ DOMAIN <<m>> = {1}
    OBVIOUS
  <2>4. QED
    BY <1>1, <2>1, <2>2, <2>3 DEF DesktopInit, DesktopInv, OneWindowPerPort
<1>4. QED
  BY <1>2, <1>3

LEMMA DesktopStep == DesktopInv /\ [DesktopNext]_desktopVars => DesktopInv'
BY QuitKeeps, WindowsStay, LastWindowKeeps, ConnectKeeps, HandleKeeps DEF DesktopNext

LEMMA ClicksCounted == clicks \in Nat /\ [DesktopNext]_desktopVars => clicks' \in Nat
<1>1. DesktopNext => Click \/ UNCHANGED clicks
  BY DEF DesktopNext, QuitFromMenu, ClosePrimary, CloseSecondary, CloseConnectionView, AnswerQuit,
     CancelQuit, EndWithoutWindows, Elsewhere, OpenConnectDialog, CancelConnect, ConnectFromDialog,
     HandleCommand, Send
<1>2. QED
  BY <1>1 DEF Click, desktopVars

LEMMA WindowsCounted ==
  ASSUME DesktopInv
  PROVE  /\ DOMAIN monitors = 1..Len(monitors) /\ Len(monitors) \in Nat
         /\ monitors \in Seq(MonitorStates)
         /\ Shown(monitors) \subseteq Nat /\ IsFiniteSet(Shown(monitors))
<1>1. /\ DOMAIN monitors = 1..Len(monitors) /\ Len(monitors) \in Nat
      /\ monitors \in Seq(MonitorStates)
  BY WindowSequence DEF DesktopInv
<1>2. Shown(monitors) \subseteq 1..Len(monitors)
  BY <1>1 DEF Shown
<1>3. IsFiniteSet(Shown(monitors))
  <2>1. IsFiniteSet(1..Len(monitors))
    BY <1>1, FS_Interval
  <2>2. QED
    BY <1>2, <2>1, FS_Subset
<1>4. QED
  BY <1>1, <1>2, <1>3

\* A question that is put over a window with a session ends nothing, and what is
\* stopped without one is stopped as the file says.
LEMMA BeginQuitAsks ==
  ASSUME NEW ms, NEW i, BeginQuit(ms, i)
  PROVE  /\ ms[i].daemon /\ setting = "ask" /\ daemonUp => monitors' = ms /\ resolved' = resolved
         /\ daemonUp /\ ~daemonUp' => setting = "stop"
<1>1. ASSUME ms[i].daemon, setting = "ask", daemonUp
      PROVE  monitors' = ms /\ resolved' = resolved
  <2>1. setting # "keep" /\ setting # "stop"
    BY <1>1
  <2>2. QED
    BY <1>1, <2>1, Zenon DEF BeginQuit
<1>2. ASSUME daemonUp, ~daemonUp' PROVE setting = "stop"
  BY <1>2, Zenon DEF BeginQuit
<1>3. QED
  BY <1>1, <1>2

\* What a person does is counted.
LEMMA ClicksCount == Click /\ clicks \in Nat => ByPerson
BY DEF Click, ByPerson

\* The menu asks over an open window with a session whenever there is one.
LEMMA MenuAsks == ASSUME DesktopInv, clicks \in Nat, QuitFromMenu PROVE QuitAsked /\ StopMeant
<1> DEFINE sessions == {i \in Shown(monitors) : monitors[i].daemon}
           window == IF sessions # {} THEN Lowest(sessions) ELSE Lowest(Shown(monitors))
<1>1. CASE Shown(monitors) # {} /\ ~resolved
  <2>1. BeginQuit(monitors, window) /\ app' = IF resolved' THEN "closed" ELSE app
    BY <1>1 DEF QuitFromMenu
  <2>2. app # "closed"
    BY DEF QuitFromMenu, Click, Runs
  <2>3. sessions # {} => monitors[window].daemon
    <3>1. sessions \subseteq Nat
      BY WindowsCounted
    <3>2. sessions # {} => Lowest(sessions) \in sessions
      <4> HIDE DEF sessions
      <4>1. QED
        BY <3>1, LeastExists
    <3>3. QED
      BY <3>2
  <2>4. WithSession(Shown(monitors)) = sessions
    BY DEF WithSession
  <2> HIDE DEF sessions, window
  <2>5. /\ monitors[window].daemon /\ setting = "ask" /\ daemonUp => resolved' = resolved
        /\ daemonUp /\ ~daemonUp' => setting = "stop"
    BY <2>1, BeginQuitAsks
  <2>6. ByPerson => QuitAsked
    BY <1>1, <2>1, <2>2, <2>3, <2>4, <2>5 DEF QuitAsked, Quits
  <2>7. StopMeant
    BY <2>5 DEF StopMeant
  <2>8. QED
    BY <2>6, <2>7, ClicksCount DEF QuitFromMenu
<1>2. CASE ~(Shown(monitors) # {} /\ ~resolved)
  <2>1. UNCHANGED daemonUp
    BY <1>2 DEF QuitFromMenu
  <2>2. WithSession(Shown(monitors)) = {} \/ Quits
    BY <1>2 DEF WithSession, Quits
  <2>3. QED
    BY <2>1, <2>2, ClicksCount DEF QuitAsked, StopMeant, QuitFromMenu
<1>3. QED
  BY <1>1, <1>2

\* So does the close button of the last window that is open.
LEMMA LastCloseAsks == ASSUME DesktopInv, clicks \in Nat, ClosePrimary PROVE QuitAsked /\ StopMeant
<1> DEFINE first == Lowest(Shown(monitors))
<1>1. app' = app /\ ByPerson
  BY ClicksCount DEF ClosePrimary
<1>2. CASE BeginQuit(monitors, first) /\ ~(Cardinality(Shown(monitors)) > 1)
  <2>1. Shown(monitors) # {} /\ Shown(monitors) \subseteq Nat /\ IsFiniteSet(Shown(monitors))
    BY WindowsCounted DEF ClosePrimary
  <2>2. first \in Shown(monitors)
    BY <2>1, LeastExists
  <2>3. Shown(monitors) = {first}
    <3>1. Cardinality(Shown(monitors)) = 1
      BY <1>2, <2>1, FS_CardinalityType, FS_EmptySet
    <3>2. \E x : Shown(monitors) = {x}
      BY <2>1, <3>1, FS_Singleton
    <3>3. QED
      BY <2>2, <3>2
  <2>4. ~monitors[first].daemon => WithSession(Shown(monitors)) = {}
    BY <2>3 DEF WithSession
  <2> HIDE DEF first
  <2>5. /\ monitors[first].daemon /\ setting = "ask" /\ daemonUp => resolved' = resolved
        /\ daemonUp /\ ~daemonUp' => setting = "stop"
    BY <1>2, BeginQuitAsks
  <2>6. QED
    BY <1>1, <2>4, <2>5 DEF QuitAsked, StopMeant, Quits
<1>3. CASE UNCHANGED <<resolved, daemonUp>>
  BY <1>1, <1>3 DEF QuitAsked, StopMeant, Quits
<1>4. QED
  BY <1>2, <1>3 DEF ClosePrimary

\* A process whose last window went comes back with the question over a window that
\* had a session, if any had.
LEMMA LastWindowAsks == ASSUME DesktopInv, EndWithoutWindows PROVE QuitAsked /\ StopMeant
<1> DEFINE sessions == {i \in DOMAIN monitors : monitors[i].daemon}
           last == Greatest(sessions)
<1>1. /\ app = "runs" /\ LastWindow /\ ~ByPerson
      /\ app' = IF Shown(monitors') = {} THEN "closed" ELSE app
  BY DEF EndWithoutWindows, Runs, ByPerson
<1>2. WithSession(DOMAIN monitors) = sessions
  BY DEF WithSession
<1>3. CASE sessions = {} \/ resolved
  <2>1. UNCHANGED daemonUp
    BY <1>1, <1>3 DEF LastWindow
  <2>2. QED
    BY <1>1, <1>2, <1>3, <2>1 DEF QuitAsked, StopMeant, Quits
<1>4. CASE ~(sessions = {} \/ resolved)
  <2>1. BeginQuit(Raised(monitors, last), last)
    BY <1>1, <1>4 DEF LastWindow
  <2>2. last \in sessions
    <3>1. sessions \subseteq 1..Len(monitors) /\ Len(monitors) \in Nat
      BY WindowsCounted
    <3> HIDE DEF sessions
    <3>2. QED
      BY <1>4, <3>1, GreatestExists
  <2>3. last \in DOMAIN monitors /\ monitors[last].daemon
    BY <2>2
  <2> HIDE DEF last
  <2>4. /\ Raised(monitors, last)[last].daemon /\ Raised(monitors, last)[last].open
        /\ DOMAIN Raised(monitors, last) = DOMAIN monitors
    <3>1. SamePorts(monitors, Raised(monitors, last)) /\ Raised(monitors, last)[last].open
      BY <2>3, WindowsCounted, ShutAndRaised
    <3>2. QED
      BY <2>3, <3>1 DEF SamePorts
  <2>5. /\ setting = "ask" /\ daemonUp =>
             monitors' = Raised(monitors, last) /\ resolved' = resolved
        /\ daemonUp /\ ~daemonUp' => setting = "stop"
    BY <2>1, <2>4, BeginQuitAsks
  <2>6. setting = "ask" /\ daemonUp => last \in Shown(monitors')
    BY <2>3, <2>4, <2>5 DEF Shown
  <2>7. setting = "ask" /\ daemonUp => (Quits' => Quits)
    BY <1>1, <2>5, <2>6 DEF Quits
  <2>8. QED
    BY <2>5, <2>7 DEF QuitAsked, StopMeant
<1>5. QED
  BY <1>3, <1>4

\* Whatever else ends the process is an answer, or finds no window open.
LEMMA DesktopAsks ==
  ASSUME DesktopInv, clicks \in Nat, [DesktopNext]_desktopVars
  PROVE  QuitAsked /\ StopMeant
<1>1. CASE CloseConnectionView
  <2>1. WithSession(Shown(monitors)) = {} /\ UNCHANGED daemonUp /\ ByPerson
    BY <1>1, ClicksCount DEF CloseConnectionView, WithSession, quitVars
  <2>2. QED
    BY <2>1 DEF QuitAsked, StopMeant
<1>2. CASE AnswerQuit
  <2>1. question # NoWindow /\ ByPerson
    BY <1>2, ClicksCount DEF AnswerQuit
  <2>2. daemonUp /\ ~daemonUp' => answerGiven' = "stop"
    BY <1>2 DEF AnswerQuit, Stops
  <2>3. QED
    BY <2>1, <2>2 DEF QuitAsked, StopMeant
<1>3. CASE CloseSecondary \/ CancelQuit \/ Elsewhere \/ OpenConnectDialog \/ CancelConnect
           \/ ConnectFromDialog \/ HandleCommand \/ Send \/ UNCHANGED desktopVars
  <2>1. app' = app /\ resolved' = resolved
    BY <1>3 DEF CloseSecondary, CancelQuit, Elsewhere, OpenConnectDialog, CancelConnect,
       ConnectFromDialog, HandleCommand, Send, desktopVars, quitVars
  <2>2. QED
    BY <2>1 DEF QuitAsked, StopMeant, Quits
<1>4. QED
  BY <1>1, <1>2, <1>3, MenuAsks, LastCloseAsks, LastWindowAsks DEF DesktopNext

-----------------------------------------------------------------------------
(* Flashing in a session.                                                  *)

\* Lines are known by their numbers: s ends with the last of n lines, as many as
\* a log keeps.
EndsWith(s, n) ==
  LET kept == IF n <= KeptLines THEN n ELSE KeptLines IN
  /\ Len(s) >= kept
  /\ \A j \in 0..(kept - 1) : s[Len(s) - j] = n - j

LinesTyped == log \in Seq(Nat) /\ channel \in Seq(Nat) /\ printed \in Seq(Nat)
LinesCounted == \A i \in 1..Len(printed) : printed[i] = i

\* What a log is still told of: a run, or one that has come to its end.
Told == running = TRUE \/ outcome \in {"finished", "failed", "not back"}

RunTracked ==
  /\ running \in BOOLEAN
  /\ running = FALSE => channel = <<>> /\ frame = "idle" /\ tool # "runs"
  /\ running = TRUE => outcome \notin {"finished", "failed", "not back"}

\* The log is some lines that end so, and then c.
EndsBefore(c) == \E body \in Seq(Nat) : log = body \o c /\ EndsWith(body, Len(printed))

EndStands ==
  IF running = TRUE THEN EndsWith(log \o channel, Len(printed))
  ELSE \/ outcome \in {"finished", "not back"} /\ EndsBefore(<<>>)
       \/ outcome \in {"failed", "not back"} /\ EndsBefore(Complaint)

FlashInv == LinesTyped /\ LinesCounted /\ RunTracked /\ (Told => EndStands)

LEMMA LineArrives ==
  ASSUME NEW s \in Seq(Nat), NEW t \in Seq(Nat), NEW n \in Nat, EndsWith(s \o t, n)
  PROVE  EndsWith(s \o Append(t, n + 1), n + 1)
<1> DEFINE u == s \o t
           v == s \o Append(t, n + 1)
           before == IF n <= KeptLines THEN n ELSE KeptLines
           after == IF n + 1 <= KeptLines THEN n + 1 ELSE KeptLines
<1>1. u \in Seq(Nat) /\ Len(u) \in Nat /\ v = Append(u, n + 1)
  <2>1. u \in Seq(Nat)
    OBVIOUS
  <2>2. v = Append(u, n + 1)
    BY AppendProperties, ConcatProperties
  <2>3. QED
    BY <2>1, <2>2
<1>2. EndsWith(u, n)
  OBVIOUS
<1>3. before \in Nat /\ after \in Nat /\ after <= before + 1
  BY SessionAssumption DEF SessionAssumption
<1> HIDE DEF u, v
<1>4. Len(v) = Len(u) + 1 /\ v[Len(u) + 1] = n + 1 /\ \A i \in 1..Len(u) : v[i] = u[i]
  BY <1>1
<1>5. Len(u) >= before /\ \A j \in 0..(before - 1) : u[Len(u) - j] = n - j
  BY <1>2 DEF EndsWith
<1> HIDE DEF before, after
<1>6. ASSUME NEW j \in 0..(after - 1) PROVE v[Len(v) - j] = n + 1 - j
  <2>1. CASE j = 0
    BY <1>1, <1>4, <2>1
  <2>2. CASE j # 0
    <3>1. j - 1 \in 0..(before - 1) /\ Len(u) - (j - 1) \in 1..Len(u)
      BY <1>1, <1>3, <1>5, <2>2
    <3>2. v[Len(u) - (j - 1)] = n - (j - 1)
      BY <1>4, <1>5, <3>1
    <3>3. Len(v) - j = Len(u) - (j - 1) /\ n - (j - 1) = n + 1 - j
      BY <1>1, <1>3, <1>4
    <3>4. QED
      BY <3>2, <3>3
  <2>3. QED
    BY <2>1, <2>2
<1>7. Len(v) >= after
  BY <1>1, <1>3, <1>4, <1>5
<1>8. EndsWith(v, n + 1)
  BY <1>6, <1>7 DEF EndsWith, after
<1>9. QED
  BY <1>8 DEF v

LEMMA ComplaintType == Complaint \in Seq(Nat)
  BY DEF Complaint

LEMMA KeptTyped == ASSUME NEW s \in Seq(Nat) PROVE Kept(s) \in Seq(Nat)
<1>1. KeptLines \in Nat /\ Len(s) \in Nat
  BY SessionAssumption DEF SessionAssumption
<1>2. CASE Len(s) <= KeptLines
  BY <1>2 DEF Kept
<1>3. CASE ~(Len(s) <= KeptLines)
  BY <1>1, <1>3 DEF Kept
<1>4. QED
  BY <1>2, <1>3

\* What is dropped from the front of a log is none of its last lines.
LEMMA KeptEnds ==
  ASSUME NEW s \in Seq(Nat), NEW n \in Nat, EndsWith(s, n)
  PROVE  Kept(s) \in Seq(Nat) /\ EndsWith(Kept(s), n)
<1> DEFINE kept == IF n <= KeptLines THEN n ELSE KeptLines
           d == Len(s) - KeptLines
<1>1. KeptLines \in Nat /\ Len(s) \in Nat /\ kept \in Nat /\ kept <= KeptLines
  BY SessionAssumption DEF SessionAssumption
<1>2. CASE Len(s) <= KeptLines
  BY <1>2 DEF Kept
<1>3. CASE ~(Len(s) <= KeptLines)
  <2>1. d \in Nat /\ d + 1 \in 1..(Len(s) + 1)
    BY <1>1, <1>3
  <2>2. /\ Kept(s) \in Seq(Nat) /\ Len(Kept(s)) = KeptLines
        /\ \A i \in 1..KeptLines : Kept(s)[i] = s[d + i]
    BY <1>1, <1>3, <2>1 DEF Kept
  <2>3. \A j \in 0..(kept - 1) : s[Len(s) - j] = n - j
    BY DEF EndsWith
  <2> HIDE DEF kept
  <2>4. ASSUME NEW j \in 0..(kept - 1) PROVE Kept(s)[KeptLines - j] = n - j
    <3>1. KeptLines - j \in 1..KeptLines /\ d + (KeptLines - j) = Len(s) - j
      BY <1>1
    <3>2. QED
      BY <2>2, <2>3, <3>1
  <2>5. QED
    BY <1>1, <2>2, <2>4 DEF EndsWith, kept
<1>4. QED
  BY <1>2, <1>3

\* The same while lines still wait behind the log.
LEMMA TrimmedEnds ==
  ASSUME NEW s \in Seq(Nat), NEW t \in Seq(Nat), NEW n \in Nat, EndsWith(s \o t, n)
  PROVE  Kept(s) \in Seq(Nat) /\ EndsWith(Kept(s) \o t, n)
<1> DEFINE kept == IF n <= KeptLines THEN n ELSE KeptLines
           d == Len(s) - KeptLines
           u == s \o t
           v == Kept(s) \o t
<1>1. KeptLines \in Nat /\ Len(s) \in Nat /\ Len(t) \in Nat /\ kept \in Nat /\ kept <= KeptLines
  BY SessionAssumption DEF SessionAssumption
<1>2. CASE Len(s) <= KeptLines
  BY <1>2 DEF Kept
<1>3. CASE ~(Len(s) <= KeptLines)
  <2>1. d \in Nat /\ d + 1 \in 1..(Len(s) + 1)
    BY <1>1, <1>3
  <2>2. /\ Kept(s) \in Seq(Nat) /\ Len(Kept(s)) = KeptLines
        /\ \A i \in 1..KeptLines : Kept(s)[i] = s[d + i]
    BY <1>1, <1>3, <2>1 DEF Kept
  <2>3. \A j \in 0..(kept - 1) : u[Len(u) - j] = n - j
    BY DEF EndsWith
  <2>4. /\ Len(u) = Len(s) + Len(t)
        /\ \A i \in 1..Len(u) : u[i] = IF i <= Len(s) THEN s[i] ELSE t[i - Len(s)]
    BY ConcatProperties
  <2>5. /\ Len(v) = KeptLines + Len(t)
        /\ \A i \in 1..Len(v) : v[i] = IF i <= KeptLines THEN Kept(s)[i] ELSE t[i - KeptLines]
    BY <2>2, ConcatProperties
  <2> HIDE DEF kept, u, v
  <2>6. ASSUME NEW j \in 0..(kept - 1) PROVE v[Len(v) - j] = n - j
    <3> DEFINE a == Len(v) - j
               b == Len(u) - j
    <3>1. a \in 1..Len(v) /\ b \in 1..Len(u) /\ b = d + a
      BY <1>1, <1>3, <2>4, <2>5
    <3>2. CASE a <= KeptLines
      <4>1. a \in 1..KeptLines /\ b <= Len(s)
        BY <1>1, <2>5, <3>1, <3>2
      <4>2. v[a] = s[d + a] /\ u[b] = s[b]
        BY <2>2, <2>4, <2>5, <3>1, <3>2, <4>1
      <4>3. QED
        BY <2>3, <3>1, <4>2
    <3>3. CASE ~(a <= KeptLines)
      <4>1. ~(b <= Len(s)) /\ b - Len(s) = a - KeptLines
        BY <1>1, <2>4, <2>5, <3>1, <3>3
      <4>2. v[a] = t[a - KeptLines] /\ u[b] = t[b - Len(s)]
        BY <2>4, <2>5, <3>1, <3>3, <4>1
      <4>3. QED
        BY <2>3, <4>1, <4>2
    <3>4. QED
      BY <3>2, <3>3
  <2>7. Len(v) >= kept
    BY <1>1, <2>5
  <2>8. EndsWith(v, n)
    BY <2>6, <2>7 DEF EndsWith, kept
  <2>9. QED
    BY <2>2, <2>8 DEF v
<1>4. QED
  BY <1>2, <1>3

\* Lines are the last ones of a log if they are so read from the end.
LEMMA SuffixTheorem ==
  ASSUME NEW s \in Seq(Nat), NEW t \in Seq(Nat), Len(s) <= Len(t),
         \A i \in 1..Len(s) : s[Len(s) - i + 1] = t[Len(t) - i + 1]
  PROVE  IsSuffix(s, t)
<1> DEFINE a == Reverse(s)
           b == Reverse(t)
<1>1. /\ a \in Seq(Nat) /\ Len(a) = Len(s) /\ \A i \in 1..Len(s) : a[i] = s[Len(s) - i + 1]
  <2>1. a = [i \in 1..Len(s) |-> s[Len(s) - i + 1]]
    BY DEF Reverse
  <2>2. Len(s) \in Nat /\ \A i \in 1..Len(s) : s[Len(s) - i + 1] \in Nat
    OBVIOUS
  <2> HIDE DEF a
  <2>3. QED
    BY <2>1, <2>2
<1>2. /\ b \in Seq(Nat) /\ Len(b) = Len(t) /\ \A i \in 1..Len(t) : b[i] = t[Len(t) - i + 1]
  <2>1. b = [i \in 1..Len(t) |-> t[Len(t) - i + 1]]
    BY DEF Reverse
  <2>2. Len(t) \in Nat /\ \A i \in 1..Len(t) : t[Len(t) - i + 1] \in Nat
    OBVIOUS
  <2> HIDE DEF b
  <2>3. QED
    BY <2>1, <2>2
<1> HIDE DEF a, b
<1>3. ASSUME NEW i \in 1..Len(a) PROVE a[i] = b[i]
  <2>1. Len(s) \in Nat /\ Len(t) \in Nat /\ i \in 1..Len(s) /\ i \in 1..Len(t)
    BY <1>1
  <2>2. s[Len(s) - i + 1] = t[Len(t) - i + 1]
    BY <2>1
  <2>3. QED
    BY <1>1, <1>2, <2>1, <2>2
<1>4. SubSeq(a, 1, Len(a)) = SubSeq(b, 1, Len(a)) /\ Len(a) <= Len(b)
  BY <1>1, <1>2, <1>3
<1>5. IsPrefix(a, b)
  BY <1>4 DEF IsPrefix
<1>6. QED
  BY <1>5 DEF IsSuffix, a, b

\* The same lines behind both change nothing of it.
LEMMA EndIsSuffix ==
  ASSUME NEW s \in Seq(Nat), NEW p \in Seq(Nat), \A i \in 1..Len(p) : p[i] = i,
         EndsWith(s, Len(p)), NEW c \in Seq(Nat)
  PROVE  IsSuffix(Kept(p) \o c, s \o c)
<1> DEFINE n == Len(p)
           kept == IF n <= KeptLines THEN n ELSE KeptLines
<1>1. KeptLines \in Nat /\ Len(s) \in Nat /\ n \in Nat /\ kept \in Nat /\ kept <= n
  BY SessionAssumption DEF SessionAssumption
<1>2. /\ Kept(p) \in Seq(Nat) /\ Len(Kept(p)) = kept
      /\ \A i \in 1..kept : Kept(p)[i] = p[n - kept + i]
  <2>1. CASE n <= KeptLines
    BY <1>1, <2>1 DEF Kept
  <2>2. CASE ~(n <= KeptLines)
    BY <1>1, <2>2 DEF Kept
  <2>3. QED
    BY <2>1, <2>2
<1>3. Len(s) >= kept /\ \A j \in 0..(kept - 1) : s[Len(s) - j] = n - j
  BY DEF EndsWith
<1> HIDE DEF kept
<1>4. ASSUME NEW i \in 1..kept PROVE Kept(p)[kept - i + 1] = s[Len(s) - i + 1]
  <2>1. kept - i + 1 \in 1..kept /\ n - kept + (kept - i + 1) = n - i + 1 /\ n - i + 1 \in 1..n
    BY <1>1
  <2>2. Kept(p)[kept - i + 1] = n - i + 1
    BY <1>2, <2>1
  <2>3. i - 1 \in 0..(kept - 1) /\ Len(s) - (i - 1) = Len(s) - i + 1 /\ n - (i - 1) = n - i + 1
    BY <1>1
  <2>4. QED
    BY <1>3, <2>2, <2>3
<1> DEFINE k == Kept(p)
           a == k \o c
           b == s \o c
<1> HIDE DEF k
<1>5. /\ a \in Seq(Nat) /\ Len(a) = kept + Len(c)
      /\ \A i \in 1..Len(a) : a[i] = IF i <= kept THEN k[i] ELSE c[i - kept]
  <2>1. k \in Seq(Nat) /\ Len(k) = kept
    BY <1>2 DEF k
  <2>2. QED
    BY <2>1, ConcatProperties
<1>6. /\ b \in Seq(Nat) /\ Len(b) = Len(s) + Len(c)
      /\ \A i \in 1..Len(b) : b[i] = IF i <= Len(s) THEN s[i] ELSE c[i - Len(s)]
  BY ConcatProperties
<1> HIDE DEF a, b
<1>7. /\ Len(c) \in Nat /\ Len(s) \in Nat /\ kept \in Nat
      /\ Len(a) = kept + Len(c) /\ Len(b) = Len(s) + Len(c)
  BY <1>1, <1>5, <1>6
<1>8. ASSUME NEW i \in 1..Len(a) PROVE a[Len(a) - i + 1] = b[Len(b) - i + 1]
  <2>1. Len(a) - i + 1 \in 1..Len(a) /\ Len(b) - i + 1 \in 1..Len(b)
    BY <1>3, <1>7
  <2>2. CASE i <= Len(c)
    <3>1. ~(Len(a) - i + 1 <= kept) /\ ~(Len(b) - i + 1 <= Len(s))
      BY <1>7, <2>2
    <3> DEFINE x == Len(a) - i + 1
               y == Len(b) - i + 1
    <3>2. x - kept = y - Len(s)
      BY <1>7
    <3> HIDE DEF x, y
    <3>3. a[x] = c[x - kept]
      <4>1. x \in 1..Len(a) /\ ~(x <= kept)
        BY <2>1, <3>1 DEF x
      <4>2. QED
        BY <1>5, <4>1
    <3>4. b[y] = c[y - Len(s)]
      <4>1. y \in 1..Len(b) /\ ~(y <= Len(s))
        BY <2>1, <3>1 DEF y
      <4>2. QED
        BY <1>6, <4>1
    <3>5. a[x] = b[y]
      BY <3>2, <3>3, <3>4
    <3>6. QED
      BY <3>5 DEF x, y
  <2>3. CASE ~(i <= Len(c))
    <3> DEFINE m == i - Len(c)
    <3>1. m \in 1..kept /\ Len(a) - i + 1 = kept - m + 1 /\ Len(b) - i + 1 = Len(s) - m + 1
      BY <1>7, <2>3
    <3>2. kept - m + 1 <= kept /\ Len(s) - m + 1 <= Len(s)
      BY <1>7, <3>1
    <3>3. a[Len(a) - i + 1] = k[kept - m + 1] /\ b[Len(b) - i + 1] = s[Len(s) - m + 1]
      BY <1>5, <1>6, <2>1, <3>1, <3>2
    <3>4. QED
      BY <1>4, <3>1, <3>3 DEF k
  <2>4. QED
    BY <2>2, <2>3
<1>9. Len(a) <= Len(b)
  BY <1>3, <1>7
<1>10. QED
  BY <1>5, <1>6, <1>8, <1>9, SuffixTheorem DEF a, b, k

\* Nothing of a run changes.
LEMMA FlashStays ==
  ASSUME FlashInv, UNCHANGED <<log, channel, printed, running, outcome>>,
         running = TRUE \/ frame' = frame, running = TRUE \/ tool' = tool
  PROVE  FlashInv'
BY DEF FlashInv, LinesTyped, LinesCounted, RunTracked, Told, EndStands, EndsBefore

LEMMA FlashBegins == ASSUME FlashInv, StartFlash PROVE FlashInv'
<1>1. running = FALSE /\ frame' = frame
  BY DEF StartFlash, FlashInv, RunTracked
<1>2. CASE outcome' = "refused" /\ UNCHANGED <<running, tool, log, channel, printed>>
  BY <1>1, <1>2 DEF FlashInv, LinesTyped, LinesCounted, RunTracked, Told
<1>3. CASE /\ running' = TRUE /\ log' = <<>> /\ outcome' = Nothing /\ channel' = <<>>
           /\ printed' = <<>>
  <2>1. PICK e \in Seq(Nat) : e = <<>> /\ Len(e) = 0
    <3>1. <<>> \in Seq(Nat) /\ Len(<<>>) = 0
      BY EmptySeq
    <3>2. QED
      BY <3>1, Zenon
  <2>2. e \o e = e
    BY <2>1, ConcatEmptySeq
  <2>3. EndsWith(e, 0)
    BY <2>1, SessionAssumption DEF EndsWith, SessionAssumption
  <2>4. log' = e /\ channel' = e /\ printed' = e
    BY <1>3, <2>1
  <2>5. LinesTyped' /\ LinesCounted'
    BY <2>1, <2>4 DEF LinesTyped, LinesCounted
  <2>6. RunTracked'
    BY <1>3 DEF RunTracked, Nothing
  <2>7. EndStands'
    BY <1>3, <2>1, <2>2, <2>3, <2>4 DEF EndStands
  <2>8. QED
    BY <2>5, <2>6, <2>7 DEF FlashInv
<1>4. QED
  BY <1>2, <1>3 DEF StartFlash

LEMMA FlashPrints == ASSUME FlashInv, ToolPrints PROVE FlashInv'
<1>1. running = TRUE /\ tool = "runs"
  BY DEF FlashInv, RunTracked, ToolPrints
<1>2. log \in Seq(Nat) /\ channel \in Seq(Nat) /\ printed \in Seq(Nat)
  BY DEF FlashInv, LinesTyped
<1>3. PICK n \in Nat : n = Len(printed)
  BY <1>2
<1>4. /\ printed' = Append(printed, n + 1) /\ channel' = Append(channel, n + 1)
      /\ UNCHANGED <<log, running, outcome>>
  BY <1>3 DEF ToolPrints
<1>5. printed' \in Seq(Nat) /\ channel' \in Seq(Nat) /\ Len(printed') = n + 1
  BY <1>2, <1>3, <1>4
<1>6. (\A i \in 1..n : printed'[i] = printed[i]) /\ printed'[n + 1] = n + 1
  BY <1>2, <1>3, <1>4
<1>7. \A i \in 1..n : printed[i] = i
  BY <1>3 DEF FlashInv, LinesCounted
<1>8. LinesTyped' /\ LinesCounted'
  <2>1. ASSUME NEW i \in 1..(n + 1) PROVE printed'[i] = i
    <3>1. CASE i = n + 1
      BY <1>6, <3>1
    <3>2. CASE i \in 1..n
      BY <1>6, <1>7, <3>2
    <3>3. QED
      BY <1>3, <3>1, <3>2
  <2>2. QED
    BY <1>2, <1>4, <1>5, <2>1 DEF LinesTyped, LinesCounted
<1>9. EndStands'
  <2>1. EndsWith(log \o channel, n)
    BY <1>1, <1>3 DEF FlashInv, Told, EndStands
  <2>2. EndsWith(log \o Append(channel, n + 1), n + 1)
    BY <1>2, <1>3, <2>1, LineArrives
  <2>3. QED
    BY <1>1, <1>4, <1>5, <2>2 DEF EndStands
<1>10. RunTracked'
  BY <1>1, <1>4 DEF FlashInv, RunTracked
<1>11. QED
  BY <1>8, <1>9, <1>10 DEF FlashInv

\* Draining moves what waits in the channel to the log, and keeps the end.
LEMMA LogDrained ==
  ASSUME FlashInv, running = TRUE
  PROVE  /\ log \o channel \in Seq(Nat) /\ Kept(log \o channel) \in Seq(Nat)
         /\ EndsWith(log \o channel, Len(printed)) /\ EndsWith(Kept(log \o channel), Len(printed))
<1>1. log \in Seq(Nat) /\ channel \in Seq(Nat) /\ printed \in Seq(Nat)
  BY DEF FlashInv, LinesTyped
<1>2. EndsWith(log \o channel, Len(printed))
  BY DEF FlashInv, Told, EndStands
<1>3. log \o channel \in Seq(Nat) /\ Len(printed) \in Nat
  BY <1>1
<1>4. QED
  BY <1>2, <1>3, KeptEnds

LEMMA DrainPolled == ASSUME FlashInv, PollDrain PROVE FlashInv'
<1>1. running = TRUE /\ running' = running /\ outcome' = outcome
  BY DEF FlashInv, RunTracked, PollDrain, Polls
<1>2. /\ log' = log \o channel \/ log' = Kept(log \o channel)
      /\ channel' = <<>> /\ printed' = printed
  BY DEF PollDrain
<1>3. log' \in Seq(Nat) /\ EndsWith(log', Len(printed))
  BY <1>1, <1>2, LogDrained
<1>4. log' \o channel' = log' /\ channel' \in Seq(Nat)
  BY <1>2, <1>3, ConcatEmptySeq, EmptySeq
<1>5. EndStands'
  BY <1>1, <1>2, <1>3, <1>4 DEF EndStands
<1>6. LinesTyped' /\ LinesCounted' /\ RunTracked'
  BY <1>1, <1>2, <1>3, <1>4 DEF FlashInv, LinesTyped, LinesCounted, RunTracked
<1>7. QED
  BY <1>5, <1>6 DEF FlashInv

LEMMA RunFinished == ASSUME FlashInv, FinishFlash PROVE FlashInv'
<1>1. running = TRUE
  BY DEF FlashInv, RunTracked, FinishFlash
<1>2. /\ running' = FALSE /\ frame' = "idle" /\ tool' = "none"
      /\ channel' = <<>> /\ printed' = printed
      /\ log' = IF result = "failed" THEN LastLines \o Complaint ELSE LastLines
      /\ outcome' \in {result, "not back"}
  BY DEF FinishFlash
<1>3. LastLines \in Seq(Nat) /\ EndsWith(LastLines, Len(printed))
  BY <1>1, LogDrained DEF LastLines
<1>4. Complaint \in Seq(Nat) /\ <<>> \in Seq(Nat) /\ LastLines \o <<>> = LastLines
  BY <1>3, ComplaintType, ConcatEmptySeq, EmptySeq
<1>5. LinesTyped' /\ LinesCounted' /\ RunTracked'
  <2>1. LastLines \o Complaint \in Seq(Nat)
    BY <1>3, <1>4, ConcatProperties
  <2>2. log' \in Seq(Nat) /\ channel' \in Seq(Nat)
    BY <1>2, <1>3, <1>4, <2>1
  <2>3. QED
    BY <1>2, <2>2 DEF FlashInv, LinesTyped, LinesCounted, RunTracked
<1>6. Told' => EndStands'
  <2> SUFFICES ASSUME outcome' \in {"finished", "failed", "not back"} PROVE EndStands'
    BY <1>2 DEF Told
  <2>1. CASE result = "failed"
    BY <1>2, <1>3, <1>4, <2>1 DEF EndStands, EndsBefore
  <2>2. CASE result # "failed"
    <3>1. log' = LastLines \o <<>> /\ outcome' \in {"finished", "not back"}
      BY <1>2, <1>4, <2>2
    <3>2. QED
      BY <1>2, <1>3, <3>1 DEF EndStands, EndsBefore
  <2>3. QED
    BY <2>1, <2>2
<1>7. QED
  BY <1>5, <1>6 DEF FlashInv

LEMMA ResultPolled == ASSUME FlashInv, PollResult PROVE FlashInv'
<1>1. running = TRUE
  BY DEF FlashInv, RunTracked, PollResult
<1>2. UNCHANGED <<channel, printed, running, outcome>> /\ (log' = log \/ log' = Kept(log))
  BY DEF PollResult
<1>3. CASE log' = log
  BY <1>1, <1>2, <1>3, FlashStays
<1>4. CASE log' = Kept(log)
  <2>1. log \in Seq(Nat) /\ channel \in Seq(Nat) /\ printed \in Seq(Nat)
    BY DEF FlashInv, LinesTyped
  <2>2. EndsWith(log \o channel, Len(printed)) /\ Len(printed) \in Nat
    BY <1>1, <2>1 DEF FlashInv, Told, EndStands
  <2>3. Kept(log) \in Seq(Nat) /\ EndsWith(Kept(log) \o channel, Len(printed))
    BY <2>1, <2>2, TrimmedEnds
  <2>4. LinesTyped' /\ LinesCounted' /\ EndStands'
    BY <1>1, <1>2, <1>4, <2>1, <2>3 DEF FlashInv, LinesTyped, LinesCounted, EndStands
  <2>5. RunTracked'
    BY <1>1, <1>2 DEF FlashInv, RunTracked
  <2>6. QED
    BY <2>4, <2>5 DEF FlashInv
<1>5. QED
  BY <1>2, <1>3, <1>4

LEMMA FlashStep == FlashInv /\ [SessionNext]_sessionVars => FlashInv'
<1> SUFFICES ASSUME FlashInv, [SessionNext]_sessionVars PROVE FlashInv'
  OBVIOUS
<1>1. CASE Toggle \/ OpenSettings \/ EditSettings \/ CancelSettings \/ ApplySettings
           \/ SetSignal \/ RunMacro \/ TogglePanel \/ ArmErase
  BY <1>1, FlashStays DEF Toggle, OpenSettings, EditSettings, CancelSettings, ApplySettings,
     SetSignal, RunMacro, TogglePanel, ArmErase, flashVars
<1>2. CASE CloseSurface \/ ToolEnds
  <2>1. /\ UNCHANGED <<log, channel, printed, running, outcome, frame>>
        /\ tool' = tool \/ tool = "runs"
    BY <1>2 DEF CloseSurface, ToolEnds
  <2>2. running = TRUE \/ tool' = tool
    BY <2>1 DEF FlashInv, RunTracked
  <2>3. QED
    BY <2>1, <2>2, FlashStays
<1>3. CASE StatusPoll \/ LateRequest \/ Others \/ UNCHANGED sessionVars
  BY <1>3, FlashStays DEF StatusPoll, AskStatus, StatusAnswered, PublishStatus, LateRequest,
     Others, flashVars, sessionVars
<1>4. CASE StartFlash \/ ToolPrints
  BY <1>4, FlashBegins, FlashPrints
<1>5. CASE Poll
  BY <1>5, DrainPolled, RunFinished, ResultPolled DEF Poll
<1>6. QED
  BY <1>1, <1>2, <1>3, <1>4, <1>5 DEF SessionNext, Person, Tool

\* Whenever the tool prints and ends and whenever a frame looks, the log under an
\* outcome ends with the last lines that were printed, and the error if it failed
\* (poll_flash_operation in monitor.rs, poll_flash in tui.rs).
THEOREM FlashIsTold == SessionSpec => []FlashTold
<1>1. SessionInit => FlashInv
  <2> SUFFICES ASSUME SessionInit PROVE FlashInv
    OBVIOUS
  <2>1. LinesTyped /\ LinesCounted
    BY DEF SessionInit, LinesTyped, LinesCounted
  <2>2. RunTracked /\ ~Told
    BY DEF SessionInit, RunTracked, Told, Nothing
  <2>3. QED
    BY <2>1, <2>2 DEF FlashInv
<1>2. FlashInv => FlashTold
  <2> SUFFICES ASSUME FlashInv, outcome \in {"finished", "failed", "not back"} PROVE FlashTold
    BY DEF FlashTold
  <2>1. running = FALSE /\ printed \in Seq(Nat) /\ \A i \in 1..Len(printed) : printed[i] = i
    BY DEF FlashInv, LinesTyped, LinesCounted, RunTracked
  <2>2. ASSUME NEW c \in Seq(Nat), EndsBefore(c) PROVE LogEnds(Kept(printed) \o c)
    BY <2>1, <2>2, EndIsSuffix DEF EndsBefore, LogEnds
  <2>3. <<>> \in Seq(Nat) /\ Complaint \in Seq(Nat) /\ Kept(printed) \o <<>> = Kept(printed)
    <3>1. Kept(printed) \in Seq(Nat)
      BY <2>1, KeptTyped
    <3>2. <<>> \in Seq(Nat)
      BY EmptySeq
    <3>3. QED
      BY <3>1, <3>2, ComplaintType, ConcatEmptySeq
  <2>4. CASE outcome \in {"finished", "not back"} /\ EndsBefore(<<>>)
    BY <2>2, <2>3, <2>4 DEF FlashTold
  <2>5. CASE outcome \in {"failed", "not back"} /\ EndsBefore(Complaint)
    BY <2>2, <2>3, <2>5 DEF FlashTold
  <2>6. QED
    BY <2>1, <2>4, <2>5 DEF FlashInv, Told, EndStands
<1>3. QED
  BY <1>1, <1>2, FlashStep, PTL DEF SessionSpec

-----------------------------------------------------------------------------
(* The surfaces together.                                                  *)

\* A step of a behaviour is a step of one part and none of the others.
LEMMA PartsMove ==
  [SurfacesNext]_<<part, allVars>> =>
    /\ [PromptNext]_promptVars /\ [DesktopNext]_desktopVars /\ [WindowsNext]_windowsVars
    /\ [SkillsNext]_skillsVars /\ [SettingsNext]_settingsVars
BY DEF SurfacesNext, allVars

LEMMA PartsStart ==
  SurfacesInit => PromptInit /\ DesktopInit /\ WindowsInit /\ SkillsInit /\ SettingsInit
BY DEF SurfacesInit

\* Two invocations, a click or a command of the socket never give a port a second
\* window in a process, and every window process that the MCP server started is
\* one it can still close, unless two of its requests for a port overlapped
\* (open_requested_port, connect_from_dialog, monitor_open_impl, monitor_close_impl).
THEOREM WindowsAreAccounted == SurfacesSpec => []WindowsAccounted
<1>1. DesktopInv /\ WindowsInv => WindowsAccounted
  BY DEF DesktopInv, WindowsInv, WindowsAccounted
<1>2. SurfacesInit => DesktopInv /\ WindowsInv
  BY PartsStart, DesktopStart, WindowsStart
<1>3. DesktopInv /\ WindowsInv /\ [SurfacesNext]_<<part, allVars>> => (DesktopInv /\ WindowsInv)'
  BY PartsMove, DesktopStep, WindowsStep
<1>4. QED
  BY <1>1, <1>2, <1>3, PTL DEF SurfacesSpec

\* What a person answered or saved is what happens.  While the setting is to ask, a
\* process that had a session ends by itself only after an answer, and by a click
\* only after one too or with no window of a session shown; as it ends it stops the
\* daemon only when the file or the answer says so.  A terminal stops it only when
\* that was chosen, a copy of the skill stands only where somebody agreed, and the
\* file says what was saved whatever failed in the middle (begin_quit, answer_quit,
\* request_quit, Offer::accept, save_daemon_settings).
THEOREM AnswersAlwaysHold == SurfacesSpec => AnswersHold
<1> DEFINE All == DesktopInv /\ clicks \in Nat /\ PromptInv /\ Standing /\ SettingsInv
<1>1. All => Answered
  BY SettingsRight DEF PromptInv, Standing, Answered, TerminalStopsWhenMeant
<1>2. SurfacesInit => All
  BY PartsStart, DesktopStart, PromptStart, SkillsStart, SettingsStart DEF DesktopInit
<1>3. All /\ [SurfacesNext]_<<part, allVars>> => All'
  BY PartsMove, DesktopStep, ClicksCounted, PromptStep, SkillsStep, SettingsStep
<1>4. All /\ [SurfacesNext]_<<part, allVars>> => QuitAsked /\ StopMeant
  BY PartsMove, DesktopAsks
<1>5. QED
  BY <1>1, <1>2, <1>3, <1>4, PTL DEF SurfacesSpec, AnswersHold

=============================================================================
