--------------------------------- MODULE Text ---------------------------------
(***************************************************************************)
(* What happens to text between a person and a device, or a log and a      *)
(* file: a line typed in a terminal or a window, or given to a tool, on    *)
(* its way to the port (src/tui.rs, src/monitor.rs, src/standalone.rs,     *)
(* src/engine.rs, src/hex.rs), and lines written as CSV (src/export.rs).   *)
(*                                                                         *)
(* A character is its code.  All are ASCII, so a character is one byte,    *)
(* and a byte from 128 on, which only hexadecimal gives, is not UTF-8: the *)
(* alphabets used make no sequence of several bytes.  A definition whose   *)
(* name begins with Fault is a wrong variant of the one that follows it.   *)
(***************************************************************************)
EXTENDS Order

CONSTANTS
  Alphabet,    \* characters a typed line is made of
  MaxTyped,    \* bound: characters after the prefix, if there is one
  Payloads,    \* payloads of captured lines
  MaxRecords   \* bound: lines of one export

ASSUME TextAssumption ==
  /\ Alphabet \subseteq 0..127 /\ Payloads \subseteq Seq(Nat)
  /\ {MaxTyped, MaxRecords} \subseteq Nat

Space == 32  Plus == 43  Quote == 34  Comma == 44  Lf == 10  Cr == 13
White == {Space, 9, Lf, Cr}
Marks == {<<>>, <<48, 120>>, <<48, 88>>}     \* none, 0x and 0X
Ending == [none |-> <<>>, lf |-> <<Lf>>, crlf |-> <<Cr, Lf>>, cr |-> <<Cr>>]

\* A terminal, a window attached to the daemon, a window that shows what an MCP
\* server holds, a tool, a route, a command or a step of a macro, and a command
\* or a route told that the text is hexadecimal, which has no ending then.
Way == {"terminal", "attached", "display", "tool", "marked"}

VARIABLES
  way, typed, ending,
  holder,    \* who has the text: typist, writer, engine, device, nobody
  carried,   \* the text there
  asHex,     \* it is marked as hexadecimal
  twice,     \* history: decoded once, it looked like hexadecimal again
  records,   \* payloads of the lines to export
  file       \* the file written, or empty

textVars == <<way, typed, ending, holder, carried, asHex, twice, records, file>>

-----------------------------------------------------------------------------
(* Hexadecimal. *)

HexValue(c) == CASE c \in 48..57 -> c - 48
                 [] c \in 65..70 -> c - 55
                 [] c \in 97..102 -> c - 87
                 [] OTHER -> -1
IsHex(c) == HexValue(c) >= 0

HasPrefix(s) == Len(s) >= 2 /\ SubSeq(s, 1, 2) \in Marks
Stripped(s) == IF HasPrefix(s) THEN SubSeq(s, 3, Len(s)) ELSE s
Solid(s) == Chosen(Stripped(s), LAMBDA c : c \notin White)

\* u8::from_str_radix takes a sign for the first of two digits as well.
Readable(a, b) == IsHex(b) /\ (IsHex(a) \/ a = Plus)
PairValue(a, b) == (IF a = Plus THEN 0 ELSE 16 * HexValue(a)) + HexValue(b)

FaultDecodes(s) ==
  LET d == Solid(s) IN \A i \in 1..(Len(d) \div 2) : Readable(d[2 * i - 1], d[2 * i])
Decodes(s) ==
  LET d == Solid(s)
  IN  Len(d) % 2 = 0 /\ \A i \in 1..(Len(d) \div 2) : Readable(d[2 * i - 1], d[2 * i])
Decode(s) ==
  LET d == Solid(s) IN [i \in 1..(Len(d) \div 2) |-> PairValue(d[2 * i - 1], d[2 * i])]

Digit(n) == IF n < 10 THEN 48 + n ELSE 55 + n
Encode(bytes) ==
  [i \in 1..(2 * Len(bytes)) |->
     IF i % 2 = 1 THEN Digit(bytes[(i + 1) \div 2] \div 16) ELSE Digit(bytes[i \div 2] % 16)]

-----------------------------------------------------------------------------
(* From the keyboard to the port. *)

Words == UNION {[1..n -> Alphabet] : n \in 0..MaxTyped}
TextInit ==
  /\ way \in Way /\ ending \in DOMAIN Ending /\ (way = "marked" => ending = "none")
  /\ typed \in {p \o w : p \in Marks, w \in Words}
  /\ holder = "typist" /\ carried = <<>> /\ asHex = FALSE /\ twice = FALSE
  /\ records \in UNION {[1..n -> Payloads] : n \in 0..MaxRecords} /\ file = <<>>
  /\ typed # <<>> => records = <<>>     \* a line is typed, or lines are exported

Trimmed(s) ==
  LET kept == {i \in DOMAIN s : s[i] \notin White}
  IN  IF kept = {} THEN <<>>
      ELSE SubSeq(s, CHOOSE i \in kept : \A j \in kept : i <= j,
                     CHOOSE i \in kept : \A j \in kept : i >= j)

Hand(to, what, hex) == holder' = to /\ carried' = what /\ asHex' = hex
Refuse == holder' = "nobody" /\ UNCHANGED <<carried, asHex>>
WithEnding(s) == s \o Ending[ending]

\* handle_enter: the line as it is, with the ending chosen.
TerminalSends ==
  /\ way = "terminal" /\ holder = "typist" /\ typed # <<>>
  /\ Hand("writer", WithEnding(typed), FALSE)
  /\ UNCHANGED <<way, typed, ending, twice, records, file>>

\* send_input: trimmed; hexadecimal is decoded here and gets no ending.
WindowData(s) == IF HasPrefix(s) THEN Decode(s) ELSE WithEnding(s)
WindowSends ==
  /\ way \in {"attached", "display"} /\ holder = "typist" /\ Trimmed(typed) # <<>>
  /\ LET s == Trimmed(typed)
     IN  IF HasPrefix(s) /\ ~Decodes(s) THEN Refuse /\ UNCHANGED twice
         ELSE /\ IF way = "attached" THEN Hand("writer", WindowData(s), FALSE)
                 ELSE Hand("engine", Encode(WindowData(s)), TRUE)
              /\ twice' = (way = "attached" /\ HasPrefix(s) /\ HasPrefix(Decode(s)))
  /\ UNCHANGED <<way, typed, ending, records, file>>

\* serial_write, the write route, a macro step and the command: as given, or by
\* the command with --newline.
ToolData == IF ending = "crlf" THEN WithEnding(typed) ELSE typed
ToolSends ==
  /\ way \in {"tool", "marked"} /\ holder = "typist"
  /\ Hand("engine", ToolData, way = "marked")
  /\ UNCHANGED <<way, typed, ending, twice, records, file>>

\* DaemonWriter::write: text as text, anything else as hexadecimal.
FaultUtf8(bytes) == TRUE
Utf8(bytes) == \A i \in DOMAIN bytes : bytes[i] < 128
Lossy(bytes) == [i \in DOMAIN bytes |-> IF bytes[i] < 128 THEN bytes[i] ELSE 63]
WriterForwards ==
  /\ holder = "writer"
  /\ IF Utf8(carried) THEN Hand("engine", Lossy(carried), FALSE)
     ELSE Hand("engine", Encode(carried), TRUE)
  /\ UNCHANGED <<way, typed, ending, twice, records, file>>

\* write_data: marked or prefixed, it is decoded, or refused as a whole.
EngineWrites ==
  /\ holder = "engine"
  /\ IF asHex \/ HasPrefix(carried)
     THEN IF Decodes(carried) THEN Hand("device", Decode(carried), FALSE) ELSE Refuse
     ELSE Hand("device", carried, FALSE)
  /\ UNCHANGED <<way, typed, ending, twice, records, file>>

-----------------------------------------------------------------------------
(* From the log to a file. *)

Joined(pieces) ==
  LET upTo[n \in 0..Len(pieces)] == IF n = 0 THEN <<>> ELSE upTo[n - 1] \o pieces[n]
  IN  upTo[Len(pieces)]

FaultEscaped(payload) == payload
Escaped(payload) == Joined([i \in DOMAIN payload |->
                      IF payload[i] = Quote THEN <<Quote, Quote>> ELSE <<payload[i]>>])

\* A row: the number of the line, for its id and times, and its payload.  The
\* header, a row without a quote, is left out.
Row(n) == <<48 + n, Comma, Quote>> \o Escaped(records[n]) \o <<Quote, Lf>>

WriteAll ==
  /\ file = <<>> /\ records # <<>>
  /\ file' = Joined([n \in DOMAIN records |-> Row(n)])
  /\ UNCHANGED <<way, typed, ending, holder, carried, asHex, twice, records>>

TextNext ==
  \/ TerminalSends \/ WindowSends \/ ToolSends \/ WriterForwards \/ EngineWrites
  \/ WriteAll

TextSpec == TextInit /\ [][TextNext]_textVars

-----------------------------------------------------------------------------
(* Properties. *)

\* What a person means: digits after 0x are bytes, two by two and no less;
\* anything else is itself, with the ending of the surface.
Meant == IF way \in {"attached", "display"} THEN Trimmed(typed) ELSE typed
Literal == way = "marked" \/ HasPrefix(Meant)
Wellformed ==
  LET d == Solid(Meant) IN Len(d) % 2 = 0 /\ \A i \in DOMAIN d : IsHex(d[i])
Upper(s) == [i \in DOMAIN s |-> Digit(HexValue(s[i]))]

\* By every way a line reaches the device as it was meant, and bytes written
\* as digits are all there or the line is refused as a whole: none is dropped.
\* Excused is what a window decodes into something that begins with 0x, which
\* the daemon decodes again; a sign for a digit is taken for a zero
\* (send_input, handle_enter, DaemonWriter::write, write_data, decode).
TypedArrives ==
  /\ holder = "device" /\ ~twice =>
       IF Literal
       THEN /\ Len(carried) * 2 = Len(Solid(Meant))
            /\ Wellformed => Encode(carried) = Upper(Solid(Meant))
       ELSE carried = IF way = "tool" THEN ToolData ELSE WithEnding(Meant)
  /\ holder = "nobody" /\ ~twice => Literal /\ ~Wellformed

\* One typed line leaves the machine as the same bytes from a window as from
\* the terminal, whose text the daemon decodes (LineEnding of serial_params.rs).
FromTerminal ==
  LET s == WithEnding(typed) IN IF HasPrefix(s) THEN Decode(s) ELSE s
SameBytes == way = "attached" /\ holder = "device" => carried = FromTerminal

\* RFC 4180: a quote opens a field, two are one, one closes it.
Reader(s, c) ==
  CASE s.in /\ c = Quote -> [s EXCEPT !.in = FALSE, !.half = TRUE]
    [] s.in /\ c # Quote -> [s EXCEPT !.field = Append(@, c)]
    [] ~s.in /\ c = Quote -> [s EXCEPT !.in = TRUE, !.half = FALSE,
                                       !.field = IF s.half THEN Append(@, c) ELSE <<>>]
    [] ~s.in /\ c = Lf -> [s EXCEPT !.half = FALSE, !.read = Append(@, s.field), !.field = <<>>]
    [] OTHER -> [s EXCEPT !.half = FALSE]
ReadOn(begun, chars) ==
  LET upTo[n \in 0..Len(chars)] == IF n = 0 THEN begun ELSE Reader(upTo[n - 1], chars[n])
  IN  upTo[Len(chars)]
Unread == [in |-> FALSE, half |-> FALSE, field |-> <<>>, read |-> <<>>]
Read(chars) == ReadOn(Unread, chars).read

\* A file in CSV reads back as the lines it was written from, whatever quotes,
\* commas and line ends a device sent (write_line).
RecordsSurvive == file # <<>> => Read(file) = records

\* What was typed is what a device gets, and what was stored is what a file
\* holds (hex.rs, write_data, export.rs).
TextTrue == TypedArrives /\ RecordsSurvive

=============================================================================
