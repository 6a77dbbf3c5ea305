-------------------------------- MODULE Store --------------------------------
(***************************************************************************)
(* The log of one port (src/storage.rs) and everybody who works on it:     *)
(* the writer task of the capture, the requests that read, clear and       *)
(* delete (src/engine.rs), the desktop window and the terminal monitor,    *)
(* which read the database file themselves (src/monitor.rs, src/tui.rs),   *)
(* and `read --follow` (src/cli/handlers.rs).                              *)
(*                                                                         *)
(* The daemon works on the log under one mutex, held for the whole of a    *)
(* request.  A window and a terminal have handles of their own on the same *)
(* file, and so has the writer of a port that was closed and opened again  *)
(* while it still had batches to store: for those only a single statement  *)
(* is atomic.  A row is its id; texts and times are left out.  A line on a *)
(* screen is the id of its row, or 0 if the view pushed it without one: a  *)
(* marker of its own, or what a window has sent.                           *)
(*                                                                         *)
(* A definition whose name begins with Fault is a wrong variant of the one *)
(* that follows it; no behaviour of Spec uses it.                          *)
(***************************************************************************)
EXTENDS Order, FiniteSetsExt

CONSTANTS
  Scenes,          \* who may be at the log together, of Guest
  MaxBufferLines,  \* max_buffer_lines of the port; 0 keeps every line
  BatchesPerTrim,  \* batches between two trims; 100 in the code
  FetchLimit,      \* rows one refresh of a view may take; 500 in the code
  DisplayLimit,    \* lines a view keeps; MAX_DISPLAY_LINES, MAX_VISIBLE_LINES in the code
  FollowBatch,     \* rows one poll of a follower may take; 500 in the code
  TailCount,       \* rows a follower begins with; 20 in the code
  MaxBatch,        \* bound: lines in one batch of the capture
  MaxId,           \* bound: rows ever stored
  MaxNotes,        \* bound: lines the views push of their own outside their requests
  OldBatches       \* bound: batches left to the writer of a closed port

Views == {"window", "terminal"}
Reader == Views \cup {"follower"}    \* the follower is read --follow
Guest == Reader \cup {"old"}         \* the writer of a closed port

ASSUME StoreAssumption ==
  /\ Scenes \subseteq SUBSET Guest
  /\ BatchesPerTrim \in Nat \ {0} /\ FetchLimit \in Nat \ {0}
  /\ DisplayLimit \in Nat \ {0} /\ FollowBatch \in Nat \ {0} /\ TailCount \in Nat \ {0}
  /\ MaxBatch \in Nat \ {0} /\ MaxId \in Nat \ {0}
  /\ {MaxBufferLines, MaxNotes, OldBatches} \subseteq Nat

Id == 1 .. MaxId
Writer == {"writer", "old"}   \* the writer tasks of the two openings of the port

\* A view shows lines, or a question; or it waits for a request of its own,
\* which waits for the daemon's handle, copies, removes, leaves a marker and
\* is answered.  The view does nothing else until then, unless it gives up: then
\* the request goes on without it, and the view asks nothing new until it ended
\* (a bound: one request of each view at a time).
ViewPc == {"closed", "watching", "question", "queued", "copy", "remove", "mark", "answer",
           "error"}
Waiting == {"queued", "copy", "remove", "mark", "answer", "error"}

NoAsk == [kind |-> "none", anchor |-> 0, through |-> 0, archive |-> FALSE, counted |-> {}]
Ask == [kind : {"none", "clear", "above", "below"}, anchor : 0 .. MaxId,
        through : 0 .. MaxId, archive : BOOLEAN, counted : SUBSET Id]

VARIABLES
  scene,      \* who is at the log in this behaviour
  rows,       \* ids in the table lines
  next,       \* the id AUTOINCREMENT gives next
  notes,      \* ids of rows stored through another handle than the daemon's
  handle,     \* who holds the daemon's SharedStorage
  batches,    \* of each writer: batches since its last trim
  trimming,   \* writers that have inserted and are about to trim
  oldLeft,    \* batches the writer of the closed port has not stored yet
  pc,         \* where each view is
  last,       \* last_id of each view
  start,      \* last_id each view began with
  screen,     \* the lines each view shows, oldest first
  dropped,    \* history: the last line the cap took off each screen
  adrift,     \* views that have given up waiting for their request
  ask,        \* the question a view shows, or the request it waits for
  copy,       \* what the archive of a request holds
  gone,       \* what a request removed
  noteCount,
  follow      \* the follower

logVars == <<rows, next, notes>>
writerVars == <<handle, batches, trimming, oldLeft>>
askVars == <<ask, copy, gone>>
viewVars == <<pc, last, start, screen, dropped, adrift, noteCount>>
vars == <<scene, logVars, writerVars, askVars, viewVars, follow>>

Greatest(S) == Max(S \cup {0})

-----------------------------------------------------------------------------
(* The statements. *)

NewIds(n) == next .. next + n - 1

Insert(ids) ==
  /\ ids \subseteq Id
  /\ rows' = rows \cup ids
  /\ next' = Max(ids) + 1

\* The first n ids of S, and the last.
FirstOf(S, n) == {r \in S : Cardinality({s \in S : s < r}) < n}
LastOf(S, n) == {r \in S : Cardinality({s \in S : s > r}) < n}

After(id) == {r \in rows : r > id}

StartIdFromEnd(n) == IF rows = {} THEN 1 ELSE Min(LastOf(rows, n))

Trimmed == IF MaxBufferLines = 0 THEN rows ELSE LastOf(rows, MaxBufferLines)

\* LineBound::clause; a clear takes every row.
FaultTaken(a) ==
  CASE a.kind = "clear" -> rows
    [] a.kind = "above" -> {r \in rows : r < a.anchor}
    [] a.kind = "below" -> {r \in rows : r > a.anchor}
    [] OTHER -> {}
Taken(a) ==
  CASE a.kind = "clear" -> rows
    [] a.kind = "above" -> {r \in rows : r < a.anchor}
    [] a.kind = "below" -> {r \in rows : r > a.anchor /\ r <= a.through}
    [] OTHER -> {}

-----------------------------------------------------------------------------
NoFollower == [pc |-> "off", first |-> 0, cursor |-> 0, printed |-> <<>>]

Init ==
  /\ scene \in Scenes
  /\ rows = {} /\ next = 1 /\ notes = {}
  /\ handle = "free" /\ batches = [w \in Writer |-> 0] /\ trimming = {}
  /\ oldLeft = IF "old" \in scene THEN OldBatches ELSE 0
  /\ pc = [v \in Views |-> "closed"]
  /\ last = [v \in Views |-> 0] /\ start = last
  /\ screen = [v \in Views |-> <<>>] /\ dropped = last /\ adrift = {}
  /\ ask = [v \in Views |-> NoAsk] /\ copy = [v \in Views |-> {}] /\ gone = copy
  /\ noteCount = 0
  /\ follow = NoFollower

-----------------------------------------------------------------------------
(* The writer tasks.  Both lock the SharedStorage they were started with;  *)
(* the one of a closed port is no longer the one the requests use.         *)

FaultWriterFree(w) == w \in Writer
WriterFree(w) == w = "old" \/ handle = "free"

StoreBatch(w) ==
  /\ WriterFree(w) /\ w \notin trimming
  /\ w = "old" => oldLeft > 0
  /\ oldLeft' = IF w = "old" THEN oldLeft - 1 ELSE oldLeft
  /\ \E n \in 1 .. MaxBatch :
       /\ Insert(NewIds(n))
       /\ notes' = IF w = "old" THEN notes \cup NewIds(n) ELSE notes
  /\ IF MaxBufferLines = 0
     THEN UNCHANGED <<batches, trimming, handle>>
     ELSE LET count == (batches[w] + 1) % BatchesPerTrim
          IN  /\ batches' = [batches EXCEPT ![w] = count]
              /\ trimming' = IF count = 0 THEN trimming \cup {w} ELSE trimming
              /\ handle' = IF count = 0 /\ w = "writer" THEN w ELSE handle
  /\ UNCHANGED <<askVars, viewVars, follow>>

Trim(w) ==
  /\ w \in trimming
  /\ rows' = Trimmed
  /\ trimming' = trimming \ {w}
  /\ handle' = IF w = "writer" THEN "free" ELSE handle
  /\ UNCHANGED <<next, notes, batches, oldLeft, askVars, viewVars, follow>>

-----------------------------------------------------------------------------
(* The window and the terminal. *)

\* A window takes the number of stored lines for the id of the last one.
LastStored == Greatest(rows)
FirstCursor(v) == IF v = "window" THEN Cardinality(rows) ELSE 0

OpenView(v) ==
  /\ pc[v] = "closed"
  /\ pc' = [pc EXCEPT ![v] = "watching"]
  /\ last' = [last EXCEPT ![v] = FirstCursor(v)]
  /\ start' = [start EXCEPT ![v] = FirstCursor(v)]
  /\ UNCHANGED <<logVars, writerVars, askVars, screen, dropped, adrift, noteCount, follow>>

\* The ids of the lines of a screen.
Ids(s) == {s[i] : i \in DOMAIN s} \ {0}

\* push_display_line, push_stored: beyond the cap the oldest lines go.
FaultLastLines(s) ==
  IF Len(s) <= DisplayLimit THEN s ELSE SubSeq(s, 1, DisplayLimit)
LastLines(s) ==
  IF Len(s) <= DisplayLimit THEN s ELSE SubSeq(s, Len(s) - DisplayLimit + 1, Len(s))

Display(v, lines) ==
  /\ screen' = [screen EXCEPT ![v] = LastLines(lines)]
  /\ dropped' = [dropped EXCEPT ![v] = Greatest({@} \cup (Ids(lines) \ Ids(LastLines(lines))))]

Free(v) == pc[v] = "watching" \/ v \in adrift

Refresh(v) ==
  LET page == FirstOf(After(last[v]), FetchLimit)
  IN  /\ Free(v) \/ pc[v] = "question"
      /\ page # {}
      /\ last' = [last EXCEPT ![v] = Max(page)]
      /\ Display(v, screen[v] \o Ascending(page))
      /\ UNCHANGED <<logVars, writerVars, askVars, pc, start, adrift, noteCount, follow>>

\* A marker of the view's own.  The window lets the row come back by Refresh,
\* and shows the text itself only if it could not be stored; the terminal shows
\* it in either case.  What a window sent is shown as such a text.
Marker(v, lines) ==
  \/ /\ Insert({next})
     /\ notes' = notes \cup {next}
     /\ Display(v, IF v = "terminal" THEN Append(lines, 0) ELSE lines)
  \/ /\ UNCHANGED logVars
     /\ Display(v, Append(lines, 0))

Note(v) ==
  /\ Free(v) /\ noteCount < MaxNotes
  /\ noteCount' = noteCount + 1
  /\ Marker(v, screen[v])
  /\ UNCHANGED <<writerVars, askVars, pc, last, start, adrift, follow>>

\* The question before a deletion, with the count of a dry run: one statement
\* of the daemon, for which it needs its handle.
Question(v) ==
  /\ pc[v] = "watching" /\ handle = "free"
  /\ \E kind \in {"above", "below"}, anchor \in Ids(screen[v]) :
       LET a == [kind |-> kind, anchor |-> anchor, through |-> last[v],
                 archive |-> FALSE, counted |-> {}]
       IN  ask' = [ask EXCEPT ![v] = [a EXCEPT !.counted = Taken(a)]]
  /\ pc' = [pc EXCEPT ![v] = "question"]
  /\ UNCHANGED <<logVars, writerVars, copy, gone, last, start, screen, dropped, adrift, noteCount,
                 follow>>

Cancel(v) ==
  /\ pc[v] = "question"
  /\ pc' = [pc EXCEPT ![v] = "watching"]
  /\ ask' = [ask EXCEPT ![v] = NoAsk]
  /\ UNCHANGED <<logVars, writerVars, copy, gone, last, start, screen, dropped, adrift, noteCount,
                 follow>>

Confirm(v) ==
  /\ pc[v] = "question"
  /\ ask[v].counted # {}
  /\ pc' = [pc EXCEPT ![v] = "queued"]
  /\ \E archive \in BOOLEAN : ask' = [ask EXCEPT ![v].archive = archive]
  /\ UNCHANGED <<logVars, writerVars, copy, gone, last, start, screen, dropped, adrift, noteCount,
                 follow>>

\* The question before a clear shows a count too, but a clear takes every line
\* there is when it happens; only the answer yes is modelled.
AskClear(v) ==
  /\ pc[v] = "watching"
  /\ pc' = [pc EXCEPT ![v] = "queued"]
  /\ \E archive \in BOOLEAN :
       ask' = [ask EXCEPT ![v] = [NoAsk EXCEPT !.kind = "clear", !.archive = archive]]
  /\ UNCHANGED <<logVars, writerVars, copy, gone, last, start, screen, dropped, adrift, noteCount,
                 follow>>

\* The display after a deletion that was carried out: lines without an id stay.
FaultStays(a, id) ==
  \/ a.kind = "above" /\ (id = 0 \/ id >= a.anchor)
  \/ a.kind = "below" /\ (id = 0 \/ id <= a.anchor)
Stays(a, id) ==
  \/ a.kind = "above" /\ (id = 0 \/ id >= a.anchor)
  \/ a.kind = "below" /\ (id = 0 \/ id <= a.anchor \/ id > a.through)

Kept(v) == Chosen(screen[v], LAMBDA id : Stays(ask[v], id))

\* The request is over for the view.
Over(v) ==
  /\ pc' = [pc EXCEPT ![v] = "watching"]
  /\ ask' = [ask EXCEPT ![v] = NoAsk]
  /\ copy' = [copy EXCEPT ![v] = {}] /\ gone' = [gone EXCEPT ![v] = {}]
  /\ adrift' = adrift \ {v}

\* The answer arrives.  After a clear the view notes that it happened.
Answer(v) ==
  /\ pc[v] = "answer" /\ v \notin adrift
  /\ IF ask[v].kind = "clear"
     THEN Marker(v, Kept(v))
     ELSE Display(v, Kept(v)) /\ UNCHANGED logVars
  /\ Over(v)
  /\ UNCHANGED <<writerVars, last, start, noteCount, follow>>

\* An error arrives, or nobody waits for the answer any more: the view reports
\* it and leaves its lines alone, those the request removed included.
Fails(v) ==
  /\ pc[v] = "error" \/ (pc[v] = "answer" /\ v \in adrift)
  /\ Over(v)
  /\ UNCHANGED <<logVars, writerVars, last, start, screen, dropped, noteCount, follow>>

\* The answer takes longer than the client waits, or the connection breaks.
GivesUp(v) ==
  /\ pc[v] \in Waiting /\ v \notin adrift
  /\ adrift' = adrift \cup {v}
  /\ UNCHANGED <<logVars, writerVars, askVars, pc, last, start, screen, dropped, noteCount,
                 follow>>

-----------------------------------------------------------------------------
(* The daemon: CommandEngine::clear and delete_lines inside with_storage. *)

TakeHandle(v) ==
  /\ pc[v] = "queued" /\ handle = "free"
  /\ handle' = v
  /\ pc' = [pc EXCEPT ![v] = IF ask[v].archive THEN "copy" ELSE "remove"]
  /\ UNCHANGED <<logVars, batches, trimming, oldLeft, askVars, last, start, screen,
                 dropped, adrift, noteCount, follow>>

\* VACUUM INTO, a statement and a snapshot of its own.
CopyLog(v) ==
  /\ pc[v] = "copy"
  /\ copy' = [copy EXCEPT ![v] = rows]
  /\ pc' = [pc EXCEPT ![v] = "remove"]
  /\ UNCHANGED <<logVars, writerVars, ask, gone, last, start, screen, dropped, adrift, noteCount,
                 follow>>

\* The port has no log, the archive exists already or cannot be written, or a
\* statement fails: nothing is removed.
RequestFails(v) ==
  /\ pc[v] \in {"queued", "copy", "remove"}
  /\ handle' = IF handle = v THEN "free" ELSE handle
  /\ Over(v)
  /\ UNCHANGED <<logVars, batches, trimming, oldLeft, last, start, screen, dropped, noteCount,
                 follow>>

\* DELETE, which is committed on its own.  VACUUM follows and changes no row;
\* when it fails the request fails, after the rows are gone and with no marker.
Remove(v) ==
  LET taken == Taken(ask[v])
  IN  /\ pc[v] = "remove"
      /\ rows' = rows \ taken
      /\ gone' = [gone EXCEPT ![v] = taken]
      /\ handle' = "free"
      /\ \E to \in {"error", IF ask[v].kind # "clear" /\ taken # {} THEN "mark" ELSE "answer"} :
           pc' = [pc EXCEPT ![v] = to]
      /\ UNCHANGED <<next, notes, batches, trimming, oldLeft, ask, copy, last, start, screen,
                     dropped, adrift, noteCount, follow>>

\* log_to_buffer, which says nothing of a marker that could not be stored.
Mark(v) ==
  /\ pc[v] = "mark" /\ handle = "free"
  /\ Insert({next}) \/ UNCHANGED <<rows, next>>
  /\ pc' = [pc EXCEPT ![v] = "answer"]
  /\ UNCHANGED <<notes, writerVars, askVars, last, start, screen, dropped, adrift, noteCount,
                 follow>>

-----------------------------------------------------------------------------
(* read --follow: the first page by its position from the end, then by id. *)

\* resolve_start of read_once, under the daemon's handle.
FollowStart ==
  /\ "follower" \in scene /\ follow.pc = "off" /\ handle = "free"
  /\ handle' = "follower"
  /\ follow' = [follow EXCEPT !.pc = "read", !.first = StartIdFromEnd(TailCount)]
  /\ UNCHANGED <<logVars, batches, trimming, oldLeft, askVars, viewVars>>

\* read_lines; the handle goes back only when last_id is not asked for.
FaultFollowRead ==
  LET page == FirstOf(After(follow.first - 1), FollowBatch)
  IN  /\ follow.pc = "read"
      /\ handle' = "free"
      /\ follow' = IF page # {}
                   THEN [follow EXCEPT !.pc = "poll", !.cursor = Max(page), !.printed = Ascending(page)]
                   ELSE [follow EXCEPT !.pc = "last"]
      /\ UNCHANGED <<logVars, batches, trimming, oldLeft, askVars, viewVars>>
FollowRead ==
  LET page == FirstOf(After(follow.first - 1), FollowBatch)
  IN  /\ follow.pc = "read"
      /\ IF page # {}
         THEN /\ handle' = "free"
              /\ follow' = [follow EXCEPT !.pc = "poll", !.cursor = Max(page),
                                          !.printed = Ascending(page)]
         ELSE /\ follow' = [follow EXCEPT !.pc = "last"]
              /\ UNCHANGED handle
      /\ UNCHANGED <<logVars, batches, trimming, oldLeft, askVars, viewVars>>

FollowLast ==
  /\ follow.pc = "last"
  /\ handle' = "free"
  /\ follow' = [follow EXCEPT !.pc = "poll", !.cursor = Greatest(rows)]
  /\ UNCHANGED <<logVars, batches, trimming, oldLeft, askVars, viewVars>>

\* Every later page: one statement that matters, the cursor being after_id.
FollowPoll ==
  LET page == FirstOf(After(follow.cursor), FollowBatch)
  IN  /\ follow.pc = "poll" /\ handle = "free"
      /\ page # {}
      /\ follow' = [follow EXCEPT !.cursor = Max(page), !.printed = @ \o Ascending(page)]
      /\ UNCHANGED <<logVars, writerVars, askVars, viewVars>>

-----------------------------------------------------------------------------
ViewStep(v) ==
  \/ OpenView(v) \/ Refresh(v) \/ Note(v)
  \/ Question(v) \/ Cancel(v) \/ Confirm(v) \/ AskClear(v)
  \/ Answer(v) \/ Fails(v) \/ GivesUp(v)
RequestStep(v) == TakeHandle(v) \/ CopyLog(v) \/ RequestFails(v) \/ Remove(v) \/ Mark(v)
WriterStep(w) == StoreBatch(w) \/ Trim(w)
FollowStep == FollowStart \/ FollowRead \/ FollowLast \/ FollowPoll

Next ==
  /\ \/ \E w \in Writer : WriterStep(w)
     \/ \E v \in Views \cap scene : ViewStep(v) \/ RequestStep(v)
     \/ FollowStep
  /\ UNCHANGED scene

Spec == Init /\ [][Next]_vars

-----------------------------------------------------------------------------
TypeOK ==
  /\ scene \in Scenes
  /\ rows \subseteq Id /\ next \in 1 .. MaxId + 1 /\ notes \subseteq Id
  /\ handle \in {"free", "writer", "follower"} \cup Views
  /\ batches \in [Writer -> 0 .. BatchesPerTrim - 1]
  /\ trimming \subseteq Writer /\ oldLeft \in 0 .. OldBatches
  /\ pc \in [Views -> ViewPc]
  /\ last \in [Views -> 0 .. MaxId] /\ start \in [Views -> 0 .. MaxId]
  /\ screen \in [Views -> Seq(0 .. MaxId)] /\ dropped \in [Views -> 0 .. MaxId]
  /\ \A v \in Views : Len(screen[v]) <= DisplayLimit
  /\ adrift \subseteq Views
  /\ ask \in [Views -> Ask]
  /\ copy \in [Views -> SUBSET Id] /\ gone \in [Views -> SUBSET Id]
  /\ noteCount \in 0 .. MaxNotes
  /\ follow \in [pc : {"off", "read", "last", "poll"}, first : 0 .. MaxId, cursor : 0 .. MaxId,
                 printed : Seq(Id)]

Printed == {follow.printed[i] : i \in DOMAIN follow.printed}

\* A follower never passes over a line that is still in the log: whatever lies
\* between where it began and its cursor, it printed, unless a view or the
\* writer of a closed port stored it through a handle of its own.  Its cursor
\* comes from ids alone, so trims, clears and deletions between two of its
\* polls must not shift it.
FollowerMissesNothing ==
  follow.pc = "poll" =>
    \A r \in rows \ notes : follow.first <= r /\ r <= follow.cursor => r \in Printed

\* A follower prints lines in the order they were stored and none twice.
FollowerInOrder ==
  \A i, j \in DOMAIN follow.printed : i < j => follow.printed[i] < follow.printed[j]

\* What a follower prints is the log from its first line on.
FollowerFaithful == FollowerMissesNothing /\ FollowerInOrder

\* The person who deletes below a line sees no more go than was counted for
\* them: lines that arrived while the question was open stay.
OnlyWhatWasCounted ==
  \A v \in Views :
    pc[v] \in {"mark", "answer", "error"} /\ ask[v].kind # "clear" => gone[v] \subseteq ask[v].counted

\* A deletion with a copy removes nothing the copy lacks, of what the daemon
\* itself stored, however the capture runs meanwhile.
CopyHoldsCapture ==
  \A v \in Views :
    pc[v] \in {"mark", "answer", "error"} /\ ask[v].archive => gone[v] \ notes \subseteq copy[v]

\* A confirmed deletion takes what was counted and copied (the question of the
\* window and of the terminal, against delete_lines and archive of the engine),
\* while every variable keeps its type.
DeletionTrue == TypeOK /\ OnlyWhatWasCounted /\ CopyHoldsCapture

\* A line that is in the log and that a view has read past is on its screen,
\* unless the cap has taken it or a newer one off: what a view takes off its
\* screen after a deletion is what went from the log.
NothingHidden ==
  \A v \in Views :
    {r \in rows : start[v] < r /\ dropped[v] < r /\ r <= last[v]} \subseteq Ids(screen[v])

\* The lines of the log are on a screen in the order they were stored, each once,
\* and behind all that the cap took off.
ScreenInOrder ==
  \A v \in Views : \A j \in DOMAIN screen[v] : screen[v][j] # 0 =>
    /\ dropped[v] < screen[v][j]
    /\ \A i \in 1 .. j - 1 : screen[v][i] < screen[v][j]

\* The cap takes lines off a full screen only.
OnlyFromFull == \A v \in Views : dropped'[v] # dropped[v] => Len(screen'[v]) = DisplayLimit

\* Once a view has the answer it waited for, what its request removed is off its
\* screen.  It is not after an error or an answer the view did not wait for: the
\* lines may be gone all the same, and the view goes on showing them.
NothingStale ==
  \A v \in Views :
    pc[v] = "answer" /\ v \notin adrift /\ pc'[v] = "watching" => Ids(screen'[v]) \cap gone[v] = {}

\* What a view shows is the last of the log it has read, in its order and without
\* a gap, and nothing it knows it removed.
ScreenFollowsLog ==
  [][NothingHidden' /\ ScreenInOrder' /\ OnlyFromFull /\ NothingStale]_vars
=============================================================================
