------------------------------- MODULE Display -------------------------------
(***************************************************************************)
(* What a window or a terminal shows of a log: the lines it fetched, the   *)
(* filter over them, the mark of the terminal, deletions, and what is      *)
(* exported (src/monitor.rs, src/tui.rs).                                  *)
(*                                                                         *)
(* A window keeps the places of the lines its filter lets through in       *)
(* filtered_indices, and rebuilds them in the places the code does; a      *)
(* terminal filters when it draws.  How the rows of the log come, and the  *)
(* race of a deletion with the writer, are in Store: here a deletion is    *)
(* one step.  Scrolling and drawing are left out.                          *)
(***************************************************************************)
EXTENDS Order, FiniteSetsExt, SequencesExt

CONSTANTS
  LineTexts,    \* what a line says; a filter is one of them and matches it
  MaxShown,     \* MAX_DISPLAY_LINES, MAX_VISIBLE_LINES
  FetchLimit,   \* rows of one fetch, 500 and FETCH_BATCH
  MaxExport,    \* MAX_EXPORT_LINES
  MaxRows,      \* bound: rows ever stored
  MaxViews      \* bound: what the person does

ASSUME DisplayAssumption ==
  /\ LineTexts # {} /\ MaxShown \in Nat \ {0} /\ FetchLimit \in Nat \ {0}
  /\ MaxExport \in Nat \ {0} /\ MaxRows \in Nat /\ MaxViews \in Nat

NoText == "none"    \* the empty filter
Id == 1 .. MaxRows
NotStored == 0      \* the id of a line that is on the screen only

VARIABLES
  viewer,   \* "window" or "terminal"
  rows,      \* ids the log holds
  content,   \* what each row says
  next,      \* the id of the next row
  cursor,    \* last_id
  listed,     \* the lines of the display, in order
  filter,    \* the text of the filter
  active,    \* filter_active of a window
  indices,   \* filtered_indices
  built,     \* history: the filter the indices were built with
  paused,    \* a window that does not fetch
  mark,      \* the marked line of a terminal, or 0
  exported,  \* history: what the last export wrote, and what it was asked for
  views

logVars == <<rows, content, next>>
filterVars == <<filter, active, indices, built>>
displayVars == <<viewer, logVars, cursor, listed, filterVars, paused, mark, exported, views>>

Line(id) == [id |-> id, text |-> content[id]]
Unsaved(text) == [id |-> NotStored, text |-> text]
NoExport == [scope |-> "none", from |-> 0, to |-> 0, ids |-> <<>>]

\* A window asks for its first last_id when it first fetches.
Unset == -1

DisplayInit ==
  /\ viewer \in {"window", "terminal"}
  /\ rows \in {1 .. n : n \in 0 .. MaxRows} /\ next = Cardinality(rows) + 1
  /\ content \in [Id -> LineTexts]
  /\ cursor = IF viewer = "window" THEN Unset ELSE 0
  /\ listed = <<>> /\ filter = NoText /\ active = FALSE /\ indices = <<>> /\ built = NoText
  /\ paused = FALSE /\ mark = 0 /\ exported = NoExport /\ views = 0

-----------------------------------------------------------------------------
Matches(line, text) == text = NoText \/ line.text = text

\* AppState::shown and render_buffer
ShownRows ==
  IF viewer = "terminal" THEN Chosen(listed, LAMBDA line : Matches(line, filter))
  ELSE IF active THEN [i \in DOMAIN indices |-> listed[indices[i]]]
  ELSE listed

\* rebuild_filter: the places of the lines that match, in order.  An empty filter
\* leaves none.
Built(s, on, text) ==
  IF ~on \/ text = NoText THEN <<>>
  ELSE Ascending({i \in DOMAIN s : Matches(s[i], text)})

Rebuild ==
  /\ indices' = Built(listed', active, filter)
  /\ built' = filter
  /\ UNCHANGED <<filter, active>>

\* push_display_line, push_stored: the oldest lines go, and their places.
Newest(s) == IF Len(s) <= MaxShown THEN s ELSE SubSeq(s, Len(s) - MaxShown + 1, Len(s))
Shifted(dropped) ==
  LET staying == Chosen(indices, LAMBDA i : i > dropped)
  IN  [k \in DOMAIN staying |-> staying[k] - dropped]
Pushed(s) == Newest(listed \o s)
Dropped(s) == Len(listed \o s) - Len(Pushed(s))

Least(S, n) == {id \in S : Cardinality({other \in S : other < id}) < n}

-----------------------------------------------------------------------------
(* The log: rows arrive, and the oldest are trimmed. *)

RowArrives ==
  /\ next <= MaxRows
  /\ rows' = rows \cup {next} /\ next' = next + 1
  /\ UNCHANGED <<viewer, content, cursor, listed, filterVars, paused, mark, exported, views>>

RowTrimmed ==
  /\ rows # {}
  /\ rows' = rows \ {Min(rows)}
  /\ UNCHANGED <<viewer, content, next, cursor, listed, filterVars, paused, mark, exported, views>>

\* update_lines; a window begins at the number of rows there are.
LastListed == IF cursor = Unset THEN Cardinality(rows) ELSE cursor
Page == Ascending(Least({id \in rows : id > LastListed}, FetchLimit))

Fetch ==
  /\ ~paused
  /\ cursor = Unset \/ Page # <<>>
  /\ cursor' = IF Page = <<>> THEN LastListed ELSE Last(Page)
  /\ listed' = Pushed([i \in DOMAIN Page |-> Line(Page[i])])
  /\ IF viewer = "window" /\ Page # <<>> THEN Rebuild ELSE UNCHANGED filterVars
  /\ UNCHANGED <<viewer, logVars, paused, mark, exported, views>>

-----------------------------------------------------------------------------
(* The person. *)

Views == views < MaxViews /\ views' = views + 1

\* Typing in the filter field; Enter and Esc at the filter prompt.
ApplyFilter ==
  /\ Views
  /\ filter' \in LineTexts \cup {NoText}
  /\ IF viewer = "window"
     THEN /\ active' = (filter' # NoText)
          /\ indices' = Built(listed, active', filter')
     ELSE UNCHANGED <<active, indices>>
  /\ built' = filter'
  /\ UNCHANGED <<viewer, logVars, cursor, listed, paused, mark, exported>>

\* text_edit_context_menu changes the text and tells nobody.
EditFilterByMenu ==
  /\ Views /\ viewer = "window"
  /\ filter' \in LineTexts \cup {NoText}
  /\ UNCHANGED <<viewer, logVars, cursor, listed, active, indices, built, paused, mark, exported>>

Pause ==
  /\ Views /\ viewer = "window"
  /\ paused' = ~paused
  /\ UNCHANGED <<viewer, logVars, cursor, listed, filterVars, mark, exported>>

ClearDisplay ==
  /\ Views
  /\ listed' = <<>> /\ indices' = <<>>
  /\ UNCHANGED <<viewer, logVars, cursor, filter, active, built, paused, mark, exported>>

\* A line of the surface's own: what a window sent, the marker of a terminal,
\* the marker a window could not store.
PushOwn ==
  /\ Views
  /\ \E text \in LineTexts : listed' = Pushed(<<Unsaved(text)>>)
  /\ IF active THEN Rebuild
     ELSE indices' = Shifted(Dropped(<<Unsaved(NoText)>>)) /\ UNCHANGED <<filter, active, built>>
  /\ UNCHANGED <<viewer, logVars, cursor, paused, mark, exported>>

\* begin_lines, move_mark, end_lines; the mark is the id of a line.
ShownIds == {ShownRows[i].id : i \in DOMAIN ShownRows} \ {NotStored}

BeginLines ==
  /\ Views /\ viewer = "terminal" /\ mark = 0
  /\ ShownIds # {}
  /\ mark' = Max(ShownIds)
  /\ UNCHANGED <<viewer, logVars, cursor, listed, filterVars, paused, exported>>

\* The nearest shown line stands in for a mark that is hidden.
Distance(id) == IF id > mark THEN id - mark ELSE mark - id
StandIn ==
  IF mark \in ShownIds THEN mark
  ELSE Min({id \in ShownIds : \A other \in ShownIds : Distance(id) <= Distance(other)})

MoveMark ==
  /\ Views /\ mark # 0 /\ ShownIds # {}
  /\ LET older == {id \in ShownIds : id < StandIn}
         newer == {id \in ShownIds : id > StandIn}
     IN  \/ mark' = IF older = {} THEN StandIn ELSE Max(older)
         \/ mark' = IF newer = {} THEN StandIn ELSE Min(newer)
         \/ mark' = Min(ShownIds)
         \/ mark' = Max(ShownIds)
  /\ UNCHANGED <<viewer, logVars, cursor, listed, filterVars, paused, exported>>

EndLines ==
  /\ Views /\ mark # 0
  /\ mark' = 0
  /\ UNCHANGED <<viewer, logVars, cursor, listed, filterVars, paused, exported>>

\* A window asks about a line under the pointer, a terminal about its mark.  A
\* deletion ends at the last line seen when it was asked about.
Anchors == IF viewer = "window" THEN ShownIds ELSE {mark} \ {0}
Taken(side, anchor, through) ==
  IF side = "above" THEN {id \in Id : id < anchor} ELSE {id \in Id : anchor < id /\ id <= through}
Without(gone) == Chosen(listed, LAMBDA line : line.id \notin gone)

FaultAfterDeletion == UNCHANGED filterVars
AfterDeletion == IF viewer = "window" THEN Rebuild ELSE UNCHANGED filterVars

DeleteLines ==
  /\ Views
  /\ \E side \in {"above", "below"}, anchor \in Anchors, seen \in {id \in Id : id <= cursor} :
       /\ Taken(side, anchor, seen) \cap rows # {}
       /\ rows' = rows \ Taken(side, anchor, seen)
       /\ listed' = Without(Taken(side, anchor, seen))
  /\ AfterDeletion
  /\ mark' = 0
  /\ UNCHANGED <<viewer, content, next, cursor, paused, exported>>

\* A terminal, or a window that cannot store its marker, shows it at once.
ClearCapture ==
  /\ Views /\ rows # {} /\ mark = 0
  /\ rows' = {}
  /\ listed' \in {<<>>} \cup {<<Unsaved(text)>> : text \in LineTexts}
  /\ indices' = <<>>
  /\ UNCHANGED <<viewer, content, next, cursor, filter, active, built, paused, mark, exported>>

\* get_export_lines and gather_export_lines.  A range counts lines from its
\* first id; a screen export of a window takes every line of the display.
Ids(s) == [i \in DOMAIN s |-> s[i].id]
AtMost(n) == IF n < MaxExport THEN n ELSE MaxExport
ReadFrom(id, n) == Ascending(Least({r \in rows : r >= id}, n))

ExportLines ==
  /\ Views
  /\ \/ exported' = [scope |-> "all", from |-> 1, to |-> next - 1,
                     ids |-> ReadFrom(1, AtMost(Cardinality(rows)))]
     \/ exported' = [scope |-> "screen", from |-> 0, to |-> 0,
                     ids |-> Ids(IF viewer = "window" THEN listed ELSE ShownRows)]
     \/ /\ viewer = "window"
        /\ \E from \in Id, to \in Id :
             /\ from <= to
             /\ exported' = [scope |-> "range", from |-> from, to |-> to,
                             ids |-> ReadFrom(from, AtMost(to - from + 1))]
  /\ UNCHANGED <<viewer, logVars, cursor, listed, filterVars, paused, mark>>

-----------------------------------------------------------------------------
DisplayNext ==
  \/ RowArrives \/ RowTrimmed \/ Fetch
  \/ ApplyFilter \/ EditFilterByMenu \/ Pause \/ ClearDisplay \/ PushOwn
  \/ BeginLines \/ MoveMark \/ EndLines \/ DeleteLines \/ ClearCapture \/ ExportLines

DisplaySpec == DisplayInit /\ [][DisplayNext]_displayVars

-----------------------------------------------------------------------------
(* Properties. *)

\* The rows a window shows under a filter are the lines the filter was last
\* applied to: none that does not match, and every stored line that does, in
\* their order, after lines were pushed, dropped, cleared and deleted.
FilterTrue ==
  active /\ built # NoText =>
    /\ \A k \in DOMAIN indices :
         /\ indices[k] \in DOMAIN listed
         /\ Matches(listed[indices[k]], built)
         /\ k > 1 => indices[k - 1] < indices[k]
    /\ \A i \in DOMAIN listed :
         listed[i].id # NotStored /\ Matches(listed[i], built) => i \in Range(indices)

=============================================================================
