------------------------------ MODULE RestPanel ------------------------------
(***************************************************************************)
(* The dialog of a window and the screen of a terminal for the HTTP        *)
(* interface (src/monitor.rs, src/tui.rs).                                 *)
(*                                                                         *)
(* A window asks the daemon from a thread per request and listens to one   *)
(* of them: a start or stop takes the place of a status request in flight, *)
(* whose answer may then come at any time and goes nowhere.  A terminal    *)
(* waits for its answers.  What the daemon does with the requests is in    *)
(* Rest; here it has a state, which others change too, with the number of  *)
(* the change that made it.                                                *)
(***************************************************************************)
EXTENDS Integers, FiniteSets

CONSTANTS
  MaxRequests,  \* bound: requests a surface sends
  MaxChanges,   \* bound: changes of the listener
  MaxFields     \* bound: fields edited, dialogs opened, status rounds

ASSUME RestPanelAssumption ==
  MaxRequests \in Nat /\ MaxChanges \in Nat /\ MaxFields \in Nat

Nobody == 0
Operation == {"status", "start", "stop"}

VARIABLES
  side,       \* "window" or "terminal"
  listener,   \* what the daemon has: [at, listening]
  inFlight,   \* requests of the window: [id, op, gen, phase, answer]
  receiver,   \* the request it listens to
  generation,
  known,      \* rest_state
  error,      \* rest_error: the last status request failed
  failed,     \* rest_dialog_error: the last start or stop failed
  due,        \* rest_next_sync has come
  dialog,     \* the dialog or screen is shown
  token,      \* a token is typed
  edited,     \* rest_fields_edited
  acted,      \* history: the change the last answered start or stop made
  sent, steps

shownVars == <<known, error, failed, due>>
formVars == <<dialog, token, edited>>
restPanelVars == <<side, listener, inFlight, receiver, generation, shownVars, formVars, acted,
                   sent, steps>>

NoAnswer == [at |-> -1, listening |-> FALSE]

RestPanelInit ==
  /\ side \in {"window", "terminal"}
  /\ listener \in {[at |-> 0, listening |-> on] : on \in BOOLEAN}
  /\ inFlight = {} /\ receiver = Nobody /\ generation = 0
  /\ known = NoAnswer /\ error = FALSE /\ failed = FALSE /\ due = TRUE
  /\ dialog = FALSE /\ token = FALSE /\ edited = FALSE
  /\ acted = -1 /\ sent = 0 /\ steps = 0

-----------------------------------------------------------------------------
(* The daemon and the others. *)

Change(on) ==
  /\ listener.at < MaxChanges
  /\ listener' = [at |-> listener.at + 1, listening |-> on]

\* What becomes of a request: an answer may be lost after the daemon did what it
\* was asked, and a start that fails may have stopped what listened.
Carried(op, answered) ==
  CASE op = "status" -> UNCHANGED listener
    [] op = "stop" -> IF answered THEN Change(FALSE) ELSE UNCHANGED listener \/ Change(FALSE)
    [] op = "start" -> IF answered THEN Change(TRUE)
                       ELSE UNCHANGED listener \/ \E on \in BOOLEAN : Change(on)

RequestServed ==
  \E r \in inFlight, answered \in BOOLEAN :
    /\ r.phase = "sent"
    /\ Carried(r.op, answered)
    /\ inFlight' = (inFlight \ {r}) \cup
         {[r EXCEPT !.phase = "done", !.answer = IF answered THEN listener' ELSE NoAnswer]}
    /\ UNCHANGED <<side, receiver, generation, shownVars, formVars, acted, sent, steps>>

OthersChange ==
  /\ \E on \in BOOLEAN : Change(on)
  /\ UNCHANGED <<side, inFlight, receiver, generation, shownVars, formVars, acted, sent, steps>>

-----------------------------------------------------------------------------
(* The window. *)

Request(op, gen) ==
  [id |-> sent + 1, op |-> op, gen |-> gen, phase |-> "sent", answer |-> NoAnswer]
Put(r) == inFlight' = inFlight \cup {r} /\ receiver' = r.id /\ sent' = sent + 1
Heard == {r \in inFlight : r.id = receiver /\ r.phase = "done"}

\* set_rest_state
Take(answer) == known' = answer /\ error' = FALSE

\* The answer the window listens to, if it is of this generation.
Apply(r) ==
  IF r.gen # generation
  THEN UNCHANGED <<known, error, failed, token, edited, acted>> /\ due' = due
  ELSE LET good == r.answer # NoAnswer
       IN  IF r.op = "status"
           THEN /\ IF good THEN Take(r.answer) ELSE error' = TRUE /\ UNCHANGED known
                /\ due' = FALSE
                /\ UNCHANGED <<failed, token, edited, acted>>
           ELSE /\ failed' = ~good /\ due' = ~good
                /\ acted' = IF good THEN r.answer.at ELSE acted
                /\ IF good
                   THEN Take(r.answer) /\ token' = FALSE /\ edited' = FALSE
                   ELSE UNCHANGED <<known, error, token, edited>>

\* The rest of refresh_rest: a status request once nothing is in flight.
StartStatus(asked) ==
  IF asked /\ sent < MaxRequests
  THEN Put(Request("status", generation))
  ELSE /\ receiver' = Nobody
       /\ UNCHANGED <<inFlight, sent>>

\* refresh_rest, as a frame calls it.
Refresh ==
  /\ side = "window"
  /\ \/ \E r \in Heard : Apply(r) /\ StartStatus(due')
     \/ /\ receiver = Nobody /\ due /\ sent < MaxRequests
        /\ StartStatus(TRUE)
        /\ UNCHANGED <<shownVars, token, edited, acted>>
  /\ UNCHANGED <<side, listener, generation, dialog, steps>>

\* Three seconds have passed.
StatusDue ==
  /\ side = "window" /\ ~due /\ steps < MaxFields
  /\ due' = TRUE /\ steps' = steps + 1
  /\ UNCHANGED <<side, listener, inFlight, receiver, generation, known, error, failed, formVars,
                 acted, sent>>

Steps == steps < MaxFields /\ steps' = steps + 1

\* The indicator in the status bar forces a refresh.
OpenDialog ==
  /\ side = "window" /\ Steps
  /\ dialog' = TRUE
  /\ IF receiver = Nobody
     THEN StartStatus(TRUE) /\ UNCHANGED <<shownVars, token, edited, acted>>
     ELSE \/ \E r \in Heard : Apply(r) /\ StartStatus(TRUE)
          \/ Heard = {} /\ UNCHANGED <<inFlight, receiver, sent, shownVars, token, edited, acted>>
  /\ UNCHANGED <<side, listener, generation>>

CloseDialog ==
  /\ side = "window" /\ dialog /\ Steps
  /\ dialog' = FALSE /\ token' = FALSE
  /\ UNCHANGED <<side, listener, inFlight, receiver, generation, shownVars, edited, acted, sent>>

\* The fields are frozen while it listens and while a start or stop is pending.
Pending == \E r \in inFlight : r.id = receiver /\ r.op # "status"
Available == known # NoAnswer /\ ~error

EditFields ==
  /\ side = "window" /\ dialog /\ Steps
  /\ Available /\ ~known.listening /\ ~Pending
  /\ edited' = TRUE /\ failed' = FALSE
  /\ token' \in BOOLEAN
  /\ UNCHANGED <<side, listener, inFlight, receiver, generation, known, error, due, dialog, acted,
                 sent>>

\* start_rest_action: the request takes the receiver and the generation.
FaultListensTo(r) == IF receiver = Nobody THEN r.id ELSE receiver
ListensTo(r) == r.id

PressButton ==
  /\ side = "window" /\ dialog /\ Available /\ ~Pending /\ sent < MaxRequests
  /\ LET r == Request(IF known.listening THEN "stop" ELSE "start", generation + 1)
     IN  /\ inFlight' = inFlight \cup {r}
         /\ receiver' = ListensTo(r)
         /\ sent' = r.id
         /\ generation' = IF receiver' = r.id THEN r.gen ELSE generation
  /\ failed' = FALSE
  /\ UNCHANGED <<side, listener, known, error, due, formVars, acted, steps>>

-----------------------------------------------------------------------------
(* The terminal. *)

\* refresh_rest asks and leaves the last answer where there is none.
Asked(op, answered) ==
  /\ Carried(op, answered)
  /\ known' = IF answered THEN listener' ELSE known
  /\ acted' = IF answered /\ op # "status" THEN listener'.at ELSE acted

\* F7: the state is fetched when the screen opens, the token goes when it closes.
ToggleScreen ==
  /\ side = "terminal" /\ Steps
  /\ dialog' = ~dialog
  /\ token' = FALSE
  /\ IF dialog THEN UNCHANGED <<listener, known, acted>>
     ELSE \E answered \in BOOLEAN : Asked("status", answered)
  /\ UNCHANGED <<side, inFlight, receiver, generation, error, failed, due, edited, sent>>

\* Another function key leaves the screen with what was typed there.
LeaveScreen ==
  /\ side = "terminal" /\ dialog /\ Steps
  /\ dialog' = FALSE
  /\ UNCHANGED <<side, listener, inFlight, receiver, generation, shownVars, token, edited, acted,
                 sent>>

TypeField ==
  /\ side = "terminal" /\ dialog /\ Steps
  /\ token' \in BOOLEAN
  /\ UNCHANGED <<side, listener, inFlight, receiver, generation, shownVars, dialog, edited, acted,
                 sent>>

\* Enter and Ctrl+K.  A start that fails is followed by a status request.
ScreenStart ==
  /\ side = "terminal" /\ dialog /\ Steps
  /\ \/ Asked("start", TRUE) /\ token' = FALSE
     \/ \E on \in BOOLEAN, answered \in BOOLEAN :
          /\ Change(on) \/ UNCHANGED listener
          /\ known' = IF answered THEN listener' ELSE known
          /\ UNCHANGED <<acted, token>>
  /\ UNCHANGED <<side, inFlight, receiver, generation, error, failed, due, dialog, edited, sent>>

ScreenStop ==
  /\ side = "terminal" /\ dialog /\ Steps
  /\ \E answered \in BOOLEAN : Asked("stop", answered)
  /\ UNCHANGED <<side, inFlight, receiver, generation, error, failed, due, formVars, sent>>

-----------------------------------------------------------------------------
RestPanelNext ==
  \/ RequestServed \/ OthersChange
  \/ Refresh \/ StatusDue \/ OpenDialog \/ CloseDialog \/ EditFields \/ PressButton
  \/ ToggleScreen \/ LeaveScreen \/ TypeField \/ ScreenStart \/ ScreenStop

RestPanelSpec == RestPanelInit /\ [][RestPanelNext]_restPanelVars

-----------------------------------------------------------------------------
(* Properties. *)

\* No answer to an older question replaces what a start or stop answered, and
\* a start or stop that was carried out is not shown as it was before: what is
\* shown is as new as the last one that was answered, and no start or stop is
\* left without somebody listening to its answer.
RestPanelFresh ==
  /\ known.at >= acted
  /\ \A r \in inFlight : r.op # "status" /\ r.gen = generation /\ r.phase = "sent" =>
       r.id = receiver

=============================================================================
