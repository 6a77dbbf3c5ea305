------------------------------- MODULE Zmodem -------------------------------
(***************************************************************************)
(* A file sent by ZMODEM, both sides of it and the line between them       *)
(* (src/modem/zmodem.rs).                                                  *)
(*                                                                         *)
(* Headers and subpackets go down the line, and headers come up it, in     *)
(* their order.  The line may hit a byte of any: of the mark a header is   *)
(* found by ("missed"), of what its checksum covers ("bad"), or one that   *)
(* makes the reader take the bytes of what follows for its own ("short").  *)
(* It loses no subpacket from its first byte to its last: nothing in the   *)
(* protocol as written here, without offsets in the stream, would show it. *)
(* Fault definitions are wrong variants.                                   *)
(***************************************************************************)
EXTENDS Naturals, Sequences, SequencesExt

CONSTANT MaxPieces   \* bound: subpackets of a file; an empty file has none

ASSUME ZmodemAssumption == MaxPieces \in Nat

VARIABLES
  pieces,    \* subpackets of the file
  sends,     \* where the sender is
  sent,      \* the subpackets it has written
  receives,  \* where the receiver is
  kept,      \* what the receiver has appended
  toReceiver, toSender,
  astray     \* the sides that read on into bytes that are not theirs

zmodemVars == <<pieces, sends, sent, receives, kept, toReceiver, toSender, astray>>

Frame(type) == [kind |-> "header", type |-> type, hit |-> "no"]
Info == [kind |-> "subpacket", type |-> "info", hit |-> "no"]
Piece(i) == [kind |-> "subpacket", type |-> i, hit |-> "no"]
Ended(place) == place \in {"ok", "err"}

ZmodemInit ==
  /\ pieces \in 0..MaxPieces
  /\ sends = "idle" /\ sent = 0 /\ receives = "idle" /\ kept = <<>>
  /\ toReceiver = <<>> /\ toSender = <<>> /\ astray = {}

-----------------------------------------------------------------------------
(* wait_for_header and read_subpacket32 *)

\* A header that is found and whole.  The mark of one cannot occur in a
\* subpacket, whose bytes are escaped, so a wait for a header skips those.
Found(u) == u.kind = "header" /\ u.hit = "no"
Skipped(u) == u.kind = "subpacket" \/ u.hit = "missed"
Broken(u) == u.kind = "header" /\ u.hit = "bad"
FaultUnchecked(u) == u.kind = "subpacket" /\ u.hit # "short"
Checked(u) == u.kind = "subpacket" /\ u.hit = "no"

\* Neither read has a timeout once it is astray; the bytes that follow, if any do,
\* make it an error.
StraysIn(side, u) == u.hit = "short" /\ astray' = astray \cup {side}

-----------------------------------------------------------------------------
(* send_file *)

Emits(units) == toReceiver' = toReceiver \o units
SenderTo(place) == sends' = place

SendFile ==
  /\ sends = "idle" /\ SenderTo("invites") /\ Emits(<<Frame("ZRQINIT")>>)
  /\ UNCHANGED <<pieces, sent, receives, kept, toSender, astray>>

\* Only ZRINIT or ZRPOS is waited for; after the file any other header is taken
\* for its end, and what answers ZFIN makes no difference.
Stops(place) == SenderTo(place) /\ UNCHANGED toReceiver
Heard(type) ==
  CASE sends = "invites" ->
         IF type = "ZRINIT" THEN SenderTo("names") /\ Emits(<<Frame("ZFILE"), Info>>) ELSE Stops("err")
    [] sends = "names" ->
         IF type = "ZRPOS" THEN SenderTo("streams") /\ Emits(<<Frame("ZDATA")>>)
         ELSE Stops(IF type = "ZRINIT" THEN sends ELSE "err")
    [] sends = "asks" ->
         IF type = "ZRINIT" THEN SenderTo("ends") /\ Emits(<<Frame("ZFIN")>>) ELSE Stops("ok")
    [] sends = "ends" -> Stops("ok")

Result == IF sends = "ends" THEN "ok" ELSE "err"
SenderWaits == sends \in {"invites", "names", "asks", "ends"}

SenderReads ==
  /\ SenderWaits /\ toSender # <<>> /\ toSender' = Tail(toSender)
  /\ LET u == Head(toSender) IN
       IF "sender" \in astray
       THEN SenderTo(Result) /\ UNCHANGED <<toReceiver, astray>>
       ELSE \/ Found(u) /\ Heard(u.type) /\ UNCHANGED astray
            \/ Skipped(u) /\ UNCHANGED <<sends, toReceiver, astray>>
            \/ Broken(u) /\ SenderTo(Result) /\ UNCHANGED <<toReceiver, astray>>
            \/ StraysIn("sender", u) /\ UNCHANGED <<sends, toReceiver>>
  /\ UNCHANGED <<pieces, sent, receives, kept>>

FaultEndAnyway == IF sends \in {"asks", "ends"} THEN "ok" ELSE "err"
FaultNoDeadline == FALSE
Deadline == "sender" \notin astray

\* The four seconds of a header are over.
EndAnyway == Result
HeaderTimeout ==
  /\ SenderWaits /\ toSender = <<>> /\ Deadline /\ SenderTo(EndAnyway)
  /\ UNCHANGED <<pieces, sent, receives, kept, toReceiver, toSender, astray>>

\* The whole file goes out without a look at what comes back.
Stream ==
  /\ sends = "streams"
  /\ IF sent < pieces
     THEN sent' = sent + 1 /\ Emits(<<Piece(sent + 1)>>) /\ UNCHANGED sends
     ELSE SenderTo("asks") /\ Emits(<<Frame("ZEOF")>>) /\ UNCHANGED sent
  /\ UNCHANGED <<pieces, receives, kept, toSender, astray>>

-----------------------------------------------------------------------------
(* receive_file *)

Returns(types) == toSender' = toSender \o types
ReceiverTo(place) == receives' = place

ReceiveFile ==
  /\ receives = "idle" /\ ReceiverTo("file") /\ Returns(<<Frame("ZRINIT")>>)
  /\ UNCHANGED <<pieces, sends, sent, kept, toReceiver, astray>>

\* What arrives before it is begun is captured, or lost.
Unheard ==
  /\ \/ receives = "idle" /\ toReceiver # <<>> /\ toReceiver' = Tail(toReceiver) /\ UNCHANGED toSender
     \/ sends = "idle" /\ toSender # <<>> /\ toSender' = Tail(toSender) /\ UNCHANGED toReceiver
  /\ UNCHANGED <<pieces, sends, sent, receives, kept, astray>>

Silently(place) == ReceiverTo(place) /\ UNCHANGED toSender
Replies(place, type) == ReceiverTo(place) /\ Returns(<<Frame(type)>>)
TakesHeader(type) ==
  CASE receives = "file" ->
         CASE type = "ZRQINIT" -> Replies("file", "ZRINIT")
           [] type = "ZFIN" -> Replies("ok", "ZFIN")
           [] OTHER -> Silently(IF type = "ZFILE" THEN "info" ELSE "file")
    [] receives = "data" -> Silently(IF type = "ZDATA" THEN "pieces" ELSE "err")
    [] receives = "eof" -> IF type = "ZEOF" THEN Replies("over", "ZRINIT") ELSE Silently("pieces")
    [] receives = "over" -> IF type = "ZFIN" THEN Replies("ok", "ZFIN") ELSE Silently("ok")

Outcome == IF receives = "over" THEN "ok" ELSE "err"
WaitsForHeader == receives \in {"file", "data", "eof", "over"}

ReadHeader ==
  /\ WaitsForHeader /\ toReceiver # <<>> /\ toReceiver' = Tail(toReceiver)
  /\ LET u == Head(toReceiver) IN
       IF "receiver" \in astray
       THEN ReceiverTo(Outcome) /\ UNCHANGED <<toSender, astray>>
       ELSE \/ Found(u) /\ TakesHeader(u.type) /\ UNCHANGED astray
            \/ Skipped(u) /\ UNCHANGED <<receives, toSender, astray>>
            \/ Broken(u) /\ ReceiverTo(Outcome) /\ UNCHANGED <<toSender, astray>>
            \/ u.kind = "header" /\ StraysIn("receiver", u) /\ UNCHANGED <<receives, toSender>>
  /\ UNCHANGED <<pieces, sends, sent, kept>>

\* ZCRCW ends the metadata, ZCRCE the last piece, ZCRCG any other.  A file above the
\* limit of a receive, announced or arriving, is not one of this model.
TakesSubpacket(u) ==
  IF receives = "info"
  THEN ReceiverTo("data") /\ Returns(<<Frame("ZRPOS")>>) /\ UNCHANGED kept
  ELSE /\ kept' = Append(kept, IF u.hit = "no" THEN u.type ELSE 0)
       /\ ReceiverTo(IF u.type = pieces THEN "eof" ELSE "pieces") /\ UNCHANGED toSender

Fits(u) == Checked(u) /\ "receiver" \notin astray

\* A header where a subpacket is due is read as the data of one.
ReadSubpacket ==
  /\ receives \in {"info", "pieces"} /\ toReceiver # <<>> /\ toReceiver' = Tail(toReceiver)
  /\ LET u == Head(toReceiver) IN
       \/ Fits(u) /\ TakesSubpacket(u) /\ UNCHANGED astray
       \/ /\ u.kind = "subpacket" /\ u.hit # "short" /\ ~Fits(u)
          /\ ReceiverTo("err") /\ UNCHANGED <<toSender, kept, astray>>
       \/ /\ u.kind = "header" \/ u.hit = "short"
          /\ astray' = astray \cup {"receiver"} /\ UNCHANGED <<receives, toSender, kept>>
  /\ UNCHANGED <<pieces, sends, sent>>

ReceiverTimeout ==
  /\ WaitsForHeader /\ toReceiver = <<>> /\ "receiver" \notin astray /\ ReceiverTo(Outcome)
  /\ UNCHANGED <<pieces, sends, sent, kept, toReceiver, toSender, astray>>

-----------------------------------------------------------------------------
(* The line. *)

Hits(u) == IF u.kind = "header" THEN {"missed", "bad", "short"} ELSE {"bad", "short"}

LineHit ==
  /\ \/ /\ toReceiver # <<>> /\ Head(toReceiver).hit = "no" /\ UNCHANGED toSender
        /\ \E h \in Hits(Head(toReceiver)) : toReceiver' = [toReceiver EXCEPT ![1].hit = h]
     \/ /\ toSender # <<>> /\ Head(toSender).hit = "no" /\ UNCHANGED toReceiver
        /\ \E h \in Hits(Head(toSender)) : toSender' = [toSender EXCEPT ![1].hit = h]
  /\ UNCHANGED <<pieces, sends, sent, receives, kept, astray>>

SenderSteps == SendFile \/ SenderReads \/ HeaderTimeout \/ Stream

ZmodemNext ==
  \/ SenderSteps
  \/ ReceiveFile \/ Unheard \/ ReadHeader \/ ReadSubpacket \/ ReceiverTimeout
  \/ LineHit

ZmodemFairness == WF_zmodemVars(SenderReads \/ HeaderTimeout \/ Stream)

ZmodemSpec == ZmodemInit /\ [][ZmodemNext]_zmodemVars /\ ZmodemFairness

-----------------------------------------------------------------------------
(* Properties. *)

\* What the receiver holds is the beginning of the file, and all of it when it
\* keeps it or when the sender reports success, whatever the line does to single
\* bytes (the stream loop and the last handshake, which nothing repeats).
ZmodemArrives ==
  LET file == [i \in 1..pieces |-> i] IN
    /\ IsPrefix(kept, file)
    /\ receives = "ok" \/ sends = "ok" => kept = file

\* ZMODEM delivers, and nothing that the line does to a byte misleads it.
Known(place) == IF Ended(place) THEN place ELSE "open"
Piecewise == INSTANCE Delivery WITH
  taker <- Known(receives), giver <- Known(sends), misled <- FALSE, jumbled <- FALSE

\* A send ends: every wait for a header is bounded, but for one that has found the
\* mark of a header that is too short (wait_for_header; read_escaped_byte has no
\* timeout, unlike the reads of the other two protocols).
ZmodemEnds == (sends = "invites") ~> (Ended(sends) \/ "sender" \in astray)

=============================================================================
