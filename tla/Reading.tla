------------------------------- MODULE Reading -------------------------------
(***************************************************************************)
(* Reads, search and export of a log while it grows, is trimmed and has    *)
(* lines deleted (src/storage.rs, src/engine.rs, src/export.rs).           *)
(*                                                                         *)
(* A line has an id, which is not its position: trims and deletions leave  *)
(* gaps.  An exact search or one by a regular expression reads the log in  *)
(* pages.  The daemon locks its own handle for all of them, but the log is *)
(* a file: the handle of a window, or of the port opened again, changes it *)
(* between two pages.  A line that matches the query in the range of time  *)
(* asked for is one that "matches".                                        *)
(***************************************************************************)
EXTENDS Order, SequencesExt

CONSTANTS
  PageSize,   \* PAGE
  MaxScan,    \* MAX_SEARCH_SCAN
  MaxLimit,   \* bound: the largest limit of a request, MAX_SEARCH_LIMIT
  MaxId,      \* bound: lines captured, two of them before the start
  MaxRemovals \* bound: trims and deletions

ASSUME ReadingAssumption ==
  /\ PageSize \in Nat \ {0} /\ MaxScan \in Nat \ {0} /\ MaxLimit \in Nat \ {0}
  /\ MaxId \in Nat \ {0, 1} /\ MaxRemovals \in Nat

VARIABLES
  stored,       \* the ids stored, in their order
  matches,   \* the ids a search or export is after, of all ever stored
  latest,    \* the last id given out
  removals,
  search,    \* the search under way, or its answer
  throughout \* history: lines that were stored at every moment of it

readingVars == <<stored, matches, latest, removals, search, throughout>>

NoSearch == [state |-> "none"]

FirstOf(s, n) == IF Len(s) < n THEN s ELSE SubSeq(s, 1, n)
LastOf(s, n) == IF Len(s) < n THEN s ELSE SubSeq(s, Len(s) - n + 1, Len(s))
Largest(s) == IF s = <<>> THEN 0 ELSE Last(s)

ReadingInit ==
  /\ stored \in {<<>>, <<1>>, <<2>>, <<1, 2>>} /\ latest = 2
  /\ matches \in SUBSET (1..MaxId)
  /\ removals = 0 /\ search = NoSearch /\ throughout = {}

-----------------------------------------------------------------------------
(* The log changes. *)

Store ==
  /\ latest < MaxId
  /\ latest' = latest + 1 /\ stored' = Append(stored, latest')
  /\ UNCHANGED <<matches, removals, search, throughout>>

Left(rest) ==
  /\ rest # stored /\ removals < MaxRemovals /\ removals' = removals + 1
  /\ stored' = rest /\ throughout' = throughout \cap ToSet(rest)
  /\ UNCHANGED <<matches, latest, search>>

\* trim_lines keeps the last, clear none, delete_around one side of a line.
Trim == \E n \in 0..Len(stored) : Left(LastOf(stored, n))
DeleteAround ==
  \E id \in ToSet(stored) :
    Left(Chosen(stored, LAMBDA i : i >= id)) \/ Left(Chosen(stored, LAMBDA i : i <= id))

-----------------------------------------------------------------------------
(* One query: pages of lines, substring search and export. *)

ReadLines(start, count) == FirstOf(Chosen(stored, LAMBDA i : i >= start), count)
ReadLinesSince(start, count) ==
  FirstOf(Chosen(stored, LAMBDA i : i >= start /\ i \in matches), count)

\* start_id_from_end: the offset finds the line, whatever the gaps.
FaultStartFromEnd(count) == Largest(stored) - count + 1
StartFromEnd(count) ==
  IF count = 0 THEN Largest(stored) + 1
  ELSE IF count <= Len(stored) THEN stored[Len(stored) - count + 1]
  ELSE IF stored = <<>> THEN 1 ELSE Head(stored)

\* resolve_start: a tail comes before a cursor and that before a first line,
\* which counts from the end when it is negative.
Absent == -99
ReadOf(tail, after, start) == [tail |-> tail, after_id |-> after, start_id |-> start]
ReadWindow ==
  {ReadOf(n, after, start) : n \in 0..3, after \in {Absent, 1}, start \in {Absent, -1}}
    \cup {ReadOf(Absent, after, start) : after \in -1..MaxId, start \in {Absent, 1}}
    \cup {ReadOf(Absent, Absent, start) : start \in {Absent} \cup -2..MaxId}
AtLeastOne(i) == IF i < 1 THEN 1 ELSE i
ResolveStart(w) ==
  IF w.tail # Absent THEN StartFromEnd(w.tail)
  ELSE IF w.after_id # Absent THEN AtLeastOne(w.after_id + 1)
  ELSE IF w.start_id = Absent THEN 1
  ELSE IF w.start_id < 0 THEN StartFromEnd(-w.start_id)
  ELSE AtLeastOne(w.start_id)

\* read_once: where the next read goes on.
NextAfter(w, page) ==
  IF page # <<>> THEN Last(page)
  ELSE IF w.after_id # Absent THEN w.after_id
  ELSE Largest(stored)

\* search_substring: one query, so it is never cut short by a limit of scanning.
SearchSubstring ==
  /\ search = NoSearch
  /\ \E limit \in 1..MaxLimit :
       search' = [state |-> "answered", limit |-> limit, truncated |-> FALSE,
                  found |-> ReadLinesSince(1, limit)]
  /\ throughout' = ToSet(stored)
  /\ UNCHANGED <<stored, matches, latest, removals>>

\* Its range is what matches, and write_all writes it in full.
ExportRange == Chosen(stored, LAMBDA i : i \in matches)
Export ==
  /\ search = NoSearch
  /\ search' = [state |-> "answered", limit |-> MaxId + 1, truncated |-> FALSE,
                found |-> ExportRange]
  /\ throughout' = ToSet(stored)
  /\ UNCHANGED <<stored, matches, latest, removals>>

-----------------------------------------------------------------------------
(* scan_filtered *)

StartScan ==
  /\ search = NoSearch
  /\ \E limit \in 1..MaxLimit :
       search' = [state |-> "scans", limit |-> limit, found |-> <<>>, cursor |-> 1, scanned |-> 0]
  /\ throughout' = ToSet(stored)
  /\ UNCHANGED <<stored, matches, latest, removals>>

Answer(truncated) ==
  search' = [state |-> "answered", limit |-> search.limit, found |-> search.found,
             truncated |-> truncated]

\* It stops for the limit, for the most it may scan, or at the end of the log.
FaultTruncated == FALSE
Truncated == TRUE

FaultAfterPage(page) == Last(page) + 2
AfterPage(page) == Last(page) + 1

ScanPage ==
  /\ search.state = "scans"
  /\ LET page == ReadLines(search.cursor, PageSize)
         hits == Chosen(page, LAMBDA i : i \in matches)
         room == search.limit - Len(search.found)
     IN  IF search.scanned >= MaxScan THEN Answer(Truncated)
         ELSE IF page = <<>> THEN Answer(FALSE)
         ELSE IF Len(hits) >= room
         THEN search' = [state |-> "answered", limit |-> search.limit, truncated |-> FALSE,
                         found |-> search.found \o SubSeq(hits, 1, room)]
         ELSE search' = [search EXCEPT !.found = @ \o hits, !.scanned = @ + Len(page),
                                       !.cursor = AfterPage(page)]
  /\ UNCHANGED <<stored, matches, latest, removals, throughout>>

Forget ==
  /\ search.state = "answered" /\ search' = NoSearch /\ throughout' = {}
  /\ UNCHANGED <<stored, matches, latest, removals>>

ReadingNext ==
  \/ Store \/ Trim \/ DeleteAround
  \/ SearchSubstring \/ Export \/ StartScan \/ ScanPage \/ Forget

ReadingSpec == ReadingInit /\ [][ReadingNext]_readingVars

-----------------------------------------------------------------------------
(* Properties. *)

\* "An empty result never silently means did not look far enough": an answer
\* holds matching lines in their order, none twice, and unless it is full or
\* says that it is truncated all that were there from the first page to the last.
SearchTold ==
  search.state = "answered" =>
    LET found == search.found
    IN  /\ \A i \in 1..Len(found) - 1 : found[i] < found[i + 1]
        /\ ToSet(found) \subseteq matches /\ Len(found) <= search.limit
        /\ ~search.truncated /\ Len(found) < search.limit =>
             throughout \cap matches \subseteq ToSet(found)

\* "IDs are not positions": the last n lines are the last n that are stored,
\* whatever was trimmed or deleted, and the lines after a cursor are all of them;
\* who goes on where a page ended misses no line, whatever limit and time it gave.
WindowsRight ==
  \A w \in ReadWindow :
    LET start == ResolveStart(w)
        got == ReadLines(start, MaxId)
    IN  /\ w.tail # Absent => got = LastOf(stored, w.tail)
        /\ w.tail = Absent /\ w.after_id # Absent =>
             got = Chosen(stored, LAMBDA i : i > w.after_id)
        /\ w.tail = Absent /\ w.after_id = Absent /\ w.start_id # Absent /\ w.start_id < 0 =>
             got = LastOf(stored, -w.start_id)
        /\ \A n \in 1..MaxLimit :
             LET page == ReadLinesSince(start, n) IN
               \A i \in ToSet(got) \cap matches : i \in ToSet(page) \/ i > NextAfter(w, page)

\* What a client is given of a log that changes meanwhile (engine.rs read_once
\* and search, storage.rs scan_filtered).
ReadsTrue == SearchTold /\ WindowsRight

=============================================================================
