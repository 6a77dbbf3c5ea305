------------------------------ MODULE Transfer ------------------------------
(***************************************************************************)
(* A file sent by XMODEM or YMODEM over a serial line, by the sender and   *)
(* the receiver of src/modem, from the moment one of them starts until     *)
(* both have a result (modem/xmodem.rs, modem/ymodem.rs).                  *)
(*                                                                         *)
(* The file is the sequence of its blocks, 1 .. Blocks; a block is good    *)
(* when its complement and its checksum are.  The line keeps the order of  *)
(* the bytes, and loses or changes any of them: a changed byte is noise,   *)
(* but a block that lost a byte makes the receiver read on into what       *)
(* follows it, and what is left of that ("rest") is read byte by byte and  *)
(* may look like any control byte.                                         *)
(***************************************************************************)
EXTENDS Naturals, Sequences, SequencesExt

CONSTANTS Protocols,   \* of "xmodem" (its three variants) and "ymodem"
          Blocks,      \* blocks of the file, at least one: an empty file is one block of padding
          MaxRetries,  \* MAX_RETRIES
          Wrap,        \* a block number is a byte: 256 in the code
          RestMax      \* control bytes that what is left of a block may hold

ASSUME TransferAssumption ==
    /\ Protocols \subseteq {"xmodem", "ymodem"}
    /\ Blocks \in Nat \ {0}
    /\ MaxRetries \in Nat \ {0}
    /\ Wrap \in Nat /\ Wrap > MaxRetries + 1 /\ RestMax \in Nat

VARIABLES
    proto,     \* the protocol both sides were asked for
    spc,       \* where the sender is
    blk,       \* the block it is sending
    retries,   \* answers other than ACK to what it sends now
    rpc,       \* where the receiver is
    inside,    \* the receiver waits in read_exact for the rest of a block
    starts,     \* start characters it has sent
    expected,  \* number of the block it expects
    received,  \* the blocks it has appended, and in the end kept
    declared,  \* size in the header, in blocks
    down, up,  \* bytes on the way to the receiver and to the sender
    stale,     \* history: a start character was taken for an answer
    misread    \* history: a byte of a rest was taken for an end or a start

sender == <<spc, blk, retries, stale>>
receiver == <<rpc, inside, starts, expected, received, declared, misread>>
transferVars == <<proto, sender, receiver, down, up>>

Unknown == Blocks + 1
File == [i \in 1 .. Blocks |-> i]
AnswerBytes == {"ACK", "NAK", "CAN", "C", "noise", "oldC"}   \* oldC: a changed start character

Control(c) == [t |-> c, n |-> 0, good |-> TRUE]
Block(i, ok) == [t |-> "block", n |-> i, good |-> ok]
Header(ok) == [t |-> "header", n |-> 0, good |-> ok]
Short == Control("short")     \* a block, or a null header, that lost a byte
Rest(k) == [t |-> "rest", n |-> k, good |-> TRUE]  \* what is left of a block read out of step
Tokens == {Block(i, ok) : i \in 1 .. Blocks, ok \in BOOLEAN}
          \cup {Header(ok) : ok \in BOOLEAN}
          \cup {Control(c) : c \in {"EOT", "null", "short", "noise"}}
          \cup {Rest(k) : k \in 0 .. RestMax}

TransferTypeOK ==
    /\ proto \in Protocols
    /\ spc \in {"idle", "start", "header", "ready", "block", "eot", "eot2", "next", "null", "ok", "err"}
    /\ blk \in 1 .. Blocks /\ retries \in 0 .. MaxRetries - 1
    /\ rpc \in {"idle", "start", "data", "eot", "last", "ok", "err"}
    /\ inside \in BOOLEAN /\ starts \in 0 .. MaxRetries
    /\ expected \in 0 .. Wrap - 1
    /\ received \in Seq(0 .. Blocks)
    /\ declared \in 0 .. Unknown
    /\ down \in Seq(Tokens) /\ up \in Seq(AnswerBytes)
    /\ stale \in BOOLEAN /\ misread \in BOOLEAN

TransferInit ==
    /\ proto \in Protocols
    /\ spc = "idle" /\ blk = 1 /\ retries = 0 /\ stale = FALSE
    /\ rpc = "idle" /\ inside = FALSE /\ starts = 0 /\ expected = 1
    /\ received = << >> /\ declared = Unknown /\ misread = FALSE
    /\ down = << >> /\ up = << >>

-----------------------------------------------------------------------------
(* The sender                                                              *)

SendStart ==
    /\ spc = "idle" /\ spc' = "start"
    /\ UNCHANGED <<proto, blk, retries, stale, receiver, down, up>>

\* The reader of an open port logs what arrives while no transfer holds the port.
Captured ==
    /\ spc = "idle" /\ up # << >>
    /\ up' = Tail(up)
    /\ UNCHANGED <<proto, sender, receiver, down>>

Fails == spc' = "err" /\ UNCHANGED <<blk, retries, down>>
Writes(place, b, r, token) ==
    /\ spc' = place /\ blk' = b /\ retries' = r
    /\ down' = Append(down, token)

WaitForStart(a) ==
    CASE a = "C" -> IF proto = "xmodem"
                    THEN Writes("block", 1, 0, Block(1, TRUE))
                    ELSE Writes("header", 1, 0, Header(TRUE))
      [] a = "CAN" -> Fails
      [] OTHER -> UNCHANGED <<spc, blk, retries, down>>

HeaderAnswered(a) ==
    IF a = "ACK" THEN spc' = "ready" /\ UNCHANGED <<blk, retries, down>> ELSE Fails

DataRequested(a) ==
    IF a = "C" THEN Writes("block", 1, 0, Block(1, TRUE)) ELSE Fails

MayRetry == retries + 1 < MaxRetries

\* A fault: only NAK repeats a block.
FaultOnlyNakRepeats(a) ==
    \/ a \notin {"NAK", "CAN"} /\ blk < Blocks /\ Writes("block", blk + 1, 0, Block(blk + 1, TRUE))
    \/ a \notin {"NAK", "CAN"} /\ blk = Blocks /\ Writes("eot", blk, 0, Control("EOT"))
    \/ a = "NAK" /\ MayRetry /\ Writes("block", blk, retries + 1, Block(blk, TRUE))
    \/ (a = "CAN" \/ (a = "NAK" /\ ~MayRetry)) /\ Fails

\* A fault: the repetitions are not counted.
FaultRetriesForgotten(a) ==
    \/ a = "ACK" /\ blk < Blocks /\ Writes("block", blk + 1, 0, Block(blk + 1, TRUE))
    \/ a = "ACK" /\ blk = Blocks /\ Writes("eot", blk, 0, Control("EOT"))
    \/ a \notin {"ACK", "CAN"} /\ Writes("block", blk, 0, Block(blk, TRUE))
    \/ a = "CAN" /\ Fails

BlockAnswered(a) ==
    \/ /\ a = "ACK" /\ blk < Blocks
       /\ Writes("block", blk + 1, 0, Block(blk + 1, TRUE))
    \/ /\ a = "ACK" /\ blk = Blocks
       /\ Writes("eot", blk, 0, Control("EOT"))
    \/ /\ a \notin {"ACK", "CAN"} /\ MayRetry
       /\ Writes("block", blk, retries + 1, Block(blk, TRUE))
    \/ /\ a = "CAN" \/ (a # "ACK" /\ ~MayRetry)
       /\ Fails

Goes(place) == spc' = place /\ UNCHANGED <<blk, retries, down>>

EotAnswered(a) ==
    \/ proto = "xmodem" /\ a = "ACK" /\ Goes("ok")
    \/ proto = "xmodem" /\ a # "ACK" /\ ~MayRetry /\ Fails
    \/ proto = "xmodem" /\ a # "ACK" /\ MayRetry /\ Writes("eot", blk, retries + 1, Control("EOT"))
    \/ proto = "ymodem" /\ a = "NAK" /\ Writes("eot2", blk, 0, Control("EOT"))
    \/ proto = "ymodem" /\ a # "NAK" /\ Goes("next")

SecondEotAnswered(a) == IF a = "ACK" THEN Goes("next") ELSE Fails

NextFile(a) == IF a = "C" THEN Writes("null", blk, 0, Control("null")) ELSE Goes("ok")

\* The sender reads one byte and acts on it.
Answer ==
    /\ up # << >>
    /\ LET a == Head(up) IN
       /\ \/ spc = "start" /\ WaitForStart(a)
          \/ spc = "header" /\ HeaderAnswered(a)
          \/ spc = "ready" /\ DataRequested(a)
          \/ spc = "block" /\ BlockAnswered(a)
          \/ spc = "eot" /\ EotAnswered(a)
          \/ spc = "eot2" /\ SecondEotAnswered(a)
          \/ spc = "next" /\ NextFile(a)
          \/ spc = "null" /\ Goes("ok")
       /\ stale' = (stale \/ (a \in {"C", "oldC"} /\ spc \in {"header", "block", "eot", "eot2"}))
    /\ up' = Tail(up)
    /\ UNCHANGED <<proto, receiver>>

\* No byte arrived in time.  The wait for the start has a deadline of its own.
SenderTimesOut ==
    /\ \/ spc = "start" /\ spc' = "err"
       \/ up = << >> /\ spc \in {"header", "ready", "block", "eot", "eot2"} /\ spc' = "err"
       \/ up = << >> /\ spc \in {"next", "null"} /\ spc' = "ok"
    /\ UNCHANGED <<proto, blk, retries, stale, receiver, down, up>>

-----------------------------------------------------------------------------
(* The receiver                                                            *)

Says(answers) == up' = up \o answers
Keeps == UNCHANGED <<expected, received>>

ReceiveStart ==
    /\ rpc = "idle" /\ rpc' = "start" /\ starts' = 1
    /\ Says(<<"C">>)
    /\ UNCHANGED <<proto, sender, inside, expected, received, declared, misread, down>>

\* Another start character, or the end of the attempts.
TryAgain ==
    \/ /\ starts < MaxRetries /\ starts' = starts + 1
       /\ Says(<<"C">>) /\ UNCHANGED rpc
    \/ /\ starts = MaxRetries /\ rpc' = "err"
       /\ UNCHANGED <<starts, up>>

ReceiverTimesOut ==
    /\ down = << >> /\ ~inside
    /\ \/ rpc = "start" /\ TryAgain
       \/ rpc \in {"data", "eot"} /\ rpc' = "err" /\ UNCHANGED <<starts, up>>
       \/ rpc = "last" /\ rpc' = "ok" /\ UNCHANGED <<starts, up>>
    /\ UNCHANGED <<proto, sender, inside, expected, received, declared, misread, down>>

Number(i) == i % Wrap
Succ(n) == (n + 1) % Wrap

Appends(i) ==
    /\ received' = Append(received, i)
    /\ expected' = Succ(expected)
    /\ Says(<<"ACK">>)

\* handle_incoming_block: an error ends the transfer on the first block only.
XmodemBlock(b) ==
    LET first == rpc = "start"
        new == Number(b.n) = expected
        again == Succ(Number(b.n)) = expected
    IN /\ \/ /\ b.good /\ new /\ Appends(b.n)
          \/ /\ b.good /\ again /\ Says(<<"ACK">>) /\ UNCHANGED received
             /\ expected' = IF first THEN Succ(expected) ELSE expected
          \/ /\ b.good /\ ~new /\ ~again /\ Says(<<"CAN">>) /\ Keeps
          \/ /\ ~b.good /\ Says(<<"NAK">>) /\ Keeps
       /\ rpc' = IF first /\ (~b.good \/ ~(new \/ again)) THEN "err" ELSE "data"
       /\ UNCHANGED declared

\* A fault: a good block is appended whatever its number.
FaultAnyNumber(b) ==
    /\ \/ b.good /\ Appends(b.n)
       \/ ~b.good /\ Says(<<"NAK">>) /\ Keeps
    /\ UNCHANGED <<rpc, declared>>

YmodemBlock(b) ==
    /\ \/ b.good /\ Number(b.n) = expected /\ Appends(b.n)
       \/ b.good /\ Number(b.n) # expected /\ Says(<<"ACK">>) /\ Keeps
       \/ ~b.good /\ Says(<<"NAK">>) /\ Keeps
    /\ UNCHANGED <<rpc, declared>>

\* read_header_block looks at the name and the size, never at the checksum.
HeaderBlock(b) ==
    \/ /\ rpc' = "data" /\ Says(<<"ACK", "C">>)
       /\ declared' \in IF b.good THEN {Blocks} ELSE 0 .. Unknown
       /\ Keeps
    \/ /\ ~b.good /\ rpc' = "ok" /\ Says(<<"ACK">>)      \* an empty name
       /\ declared' = 0 /\ Keeps
    \/ /\ ~b.good /\ rpc' = "err" /\ UNCHANGED <<up, declared>> /\ Keeps  \* over the limit

NullHeader == rpc' = "ok" /\ Says(<<"ACK">>) /\ Keeps /\ UNCHANGED declared

\* What the receiver does with a block it has read to its last byte.
WholeBlock(b) ==
    \/ rpc = "last" /\ NullHeader
    \/ proto = "ymodem" /\ rpc = "start" /\ HeaderBlock(b)
    \/ proto = "ymodem" /\ rpc = "data" /\ YmodemBlock(b)
    \/ proto = "xmodem" /\ rpc \in {"start", "data"} /\ XmodemBlock(b)

TakesBlocks == rpc \in {"start", "data", "last"}

ReadBlock ==
    /\ down # << >> /\ ~inside /\ TakesBlocks
    /\ Head(down).t \in {"block", "header", "null"}
    /\ WholeBlock(Head(down))
    /\ down' = Tail(down)
    /\ UNCHANGED <<proto, sender, inside, starts, misread>>

\* Bytes are missing: read_exact has no timeout and takes them from what follows.
ReadShort ==
    /\ down # << >> /\ ~inside /\ TakesBlocks /\ Head(down).t = "short"
    /\ inside' = TRUE /\ down' = Tail(down)
    /\ UNCHANGED <<proto, sender, rpc, starts, expected, received, declared, misread, up>>

\* What follows the first bytes of a token: nothing, or bytes that mean anything.
Remains(d) ==
    CASE d.t \in {"EOT", "noise"} -> << >>
      [] d.t = "rest" -> IF d.n > 0 THEN <<Rest(d.n - 1)>> ELSE << >>
      [] OTHER -> <<Rest(RestMax)>>

\* The next bytes fill the block, or are not enough; one filled this way is bad.
ReadOn ==
    /\ down # << >> /\ inside
    /\ \/ UNCHANGED <<inside, rpc, expected, received, declared, up>> /\ down' = Tail(down)
       \/ /\ inside' = FALSE /\ WholeBlock(Block(1, FALSE))
          /\ down' = Remains(Head(down)) \o Tail(down)
    /\ UNCHANGED <<proto, sender, starts, misread>>

EndOfFile ==
    \/ /\ proto = "xmodem" /\ rpc \in {"start", "data"}
       /\ Says(<<"ACK">>) /\ rpc' = "ok" /\ UNCHANGED starts
    \/ proto = "ymodem" /\ rpc = "start" /\ TryAgain
    \/ /\ proto = "ymodem" /\ rpc = "data"
       /\ Says(<<"NAK">>) /\ rpc' = "eot" /\ UNCHANGED starts
    \/ rpc = "eot" /\ Says(<<"ACK", "C">>) /\ rpc' = "last" /\ UNCHANGED starts
    \/ rpc = "last" /\ rpc' = "ok" /\ UNCHANGED <<starts, up>>

OtherByte ==
    \/ rpc = "start" /\ TryAgain
    \/ rpc = "data" /\ UNCHANGED <<rpc, starts, up>>
    \/ rpc = "eot" /\ rpc' = "last" /\ UNCHANGED <<starts, up>>
    \/ rpc = "last" /\ rpc' = "ok" /\ UNCHANGED <<starts, up>>

Cancelled ==
    IF proto = "xmodem" /\ rpc \in {"start", "data"}
    THEN rpc' = "err" /\ UNCHANGED <<starts, up>>
    ELSE OtherByte

\* After the second end of file the data is cut to the size of the header.
Truncated == IF declared < Len(received) THEN SubSeq(received, 1, declared) ELSE received

\* A byte where a block or an end may start.  A rest may hold control bytes,
\* the first byte of a block among them.
ReadByte ==
    /\ down # << >> /\ ~inside /\ rpc \notin {"idle", "ok", "err"}
    /\ LET d == Head(down)
           control == d.t = "rest" /\ d.n > 0
       IN \/ /\ d.t = "EOT" \/ control
             /\ EndOfFile /\ misread' = (misread \/ control) /\ UNCHANGED inside
             /\ down' = Remains(d) \o Tail(down)
          \/ /\ control /\ Cancelled /\ misread' = TRUE /\ UNCHANGED inside
             /\ down' = Remains(d) \o Tail(down)
          \/ /\ control /\ TakesBlocks /\ inside' = TRUE /\ misread' = TRUE
             /\ down' = Remains(d) \o Tail(down) /\ UNCHANGED <<rpc, starts, up>>
          \/ /\ d.t \in {"noise", "rest"}
             /\ OtherByte /\ down' = Tail(down) /\ UNCHANGED <<inside, misread>>
          \/ /\ rpc = "eot" /\ d.t \notin {"EOT", "rest", "noise"}
             /\ OtherByte /\ down' = Remains(d) \o Tail(down) /\ UNCHANGED <<inside, misread>>
    /\ received' = IF rpc = "eot" THEN Truncated ELSE received
    /\ UNCHANGED <<proto, sender, expected, declared>>

-----------------------------------------------------------------------------
(* The line: the next byte or block on either way is changed or lost.      *)

Damaged(d) ==
    CASE d.t = "block" -> {<<Block(d.n, FALSE)>>, <<Short>>, <<Rest(RestMax)>>}
      [] d.t = "header" -> {<<Header(FALSE)>>, <<Short>>, <<Rest(RestMax)>>}
      [] d.t = "null" -> {<<Short>>, <<Rest(RestMax)>>}
      [] d.t = "EOT" -> {<<Control("noise")>>, << >>}
      [] OTHER -> {}

LineFault ==
    /\ \/ /\ down # << >> /\ \E d \in Damaged(Head(down)) : down' = d \o Tail(down)
          /\ UNCHANGED up
       \/ /\ up # << >>
          /\ \E d \in {<<IF Head(up) \in {"C", "oldC"} THEN "oldC" ELSE "noise">>, << >>} :
                up' = d \o Tail(up)
          /\ UNCHANGED down
    /\ UNCHANGED <<proto, sender, receiver>>

TransferNext ==
    \/ SendStart \/ Captured \/ Answer \/ SenderTimesOut
    \/ ReceiveStart \/ ReceiverTimesOut \/ ReadBlock \/ ReadShort \/ ReadOn \/ ReadByte
    \/ LineFault

TransferFairness == WF_transferVars(Answer \/ SenderTimesOut)

TransferSpec == TransferInit /\ [][TransferNext]_transferVars /\ TransferFairness

-----------------------------------------------------------------------------
\* The receiver never holds anything but the first blocks of the file, in
\* order and once each, whatever is lost, changed, repeated or read out of step
\* (handle_incoming_block, the data loop of receive_file).  What is left of one block
\* must not be answered twice: with a third control byte in it the answers pile up, the
\* sender runs ahead by Wrap blocks, and a number means another block.
AnsweredTwice == misread /\ RestMax > 2
InOrder == IsPrefix(received, File) \/ AnsweredTwice

\* The header was changed on the line, whose checksum read_header_block does not
\* look at, so that the file is cut at another size.
Resized == proto = "ymodem" /\ declared \notin {Blocks, Unknown}

\* One side took something for what it is not: a start character for an answer, after
\* which every answer is one block too early (the retry loop of xmodem send); a byte of
\* a block read out of step for the end of the file or the start of a block, which the
\* last handshake of YMODEM does not notice (send_file, part 4); or another size.
Misled == stale \/ misread \/ Resized

\* Success of either side means that the receiver has kept every block of the file.
\* Only what misleads one of them undoes this.
SuccessMeansWhole == spc = "ok" \/ rpc = "ok" => received = File \/ Misled

\* The file that arrives is the one that was sent: nothing out of order, and all
\* of it when one side says so (modem/xmodem.rs, modem/ymodem.rs), while every
\* variable keeps its type.
FileArrives == TransferTypeOK /\ InOrder /\ SuccessMeansWhole

\* XMODEM and YMODEM deliver: the pieces are the blocks, and a side that has no
\* result yet is open.
InTheEnd(place) == IF place \in {"ok", "err"} THEN place ELSE "open"
Blockwise == INSTANCE Delivery WITH
  pieces <- Blocks, kept <- received, taker <- InTheEnd(rpc), giver <- InTheEnd(spc),
  misled <- Misled, jumbled <- AnsweredTwice

\* A send ends: retries, the wait for an answer and the wait for the start are
\* all bounded (MAX_RETRIES, TIMEOUT, the 30 s of wait_for_start).
SendEnds == (spc = "start") ~> (spc \in {"ok", "err"})

=============================================================================
