------------------------------- MODULE Codec -------------------------------
(***************************************************************************)
(* LspCodec: Content-Length framing over a byte stream that arrives in     *)
(* arbitrary pieces, may be closed in the middle of a frame, and carries   *)
(* frames written by encode as well as frames of other implementations,    *)
(* some of them malformed.  The reader is tokio_util's Framed, which calls *)
(* decode until it asks for more bytes and decode_eof at the end of the    *)
(* stream; the main loop stops at the first error.                         *)
(*                                                                         *)
(* A symbol of the stream is a byte, except that a whole header line is    *)
(* one symbol: decode does nothing with a part of a line.  The content of  *)
(* a body is abstracted to the message it is the JSON of, the whitespace   *)
(* around it (which may look like a header terminator), and the second     *)
(* byte of a character that takes two.                                     *)
(***************************************************************************)
EXTENDS Integers, Sequences, SequencesExt

CONSTANTS
    Messages,   \* what encode is given: positive numbers
    Wide,       \* messages whose JSON has a two-byte character
    Foreign,    \* frames that encode does not produce
    MaxFrames   \* bound on the frames written

Symbol(t, n) == [t |-> t, n |-> n]
CR == Symbol("cr", 0)
LF == Symbol("lf", 0)
LengthLine(n) == Symbol("length", n)      \* Content-Length: n, in any case
BadLengthLine == Symbol("badlength", 0)   \* Content-Length: not a usize
OtherLine == Symbol("other", 0)           \* any other header
NotUtf8 == Symbol("binary", 0)
Json(m) == Symbol("json", m)
Continuation == Symbol("cont", 0)

HeaderTerminator == <<CR, LF, CR, LF>>

(* items that decode returns, besides messages *)
Nothing == 0      \* Ok(None)
Error == -1       \* Err
Truncated == -2   \* Err of decode_eof: bytes remaining on stream
(* content_length, besides a length *)
NoLength == -1
Invalid == -2     \* parse_content_length failed

(* A frame: header, body, and what its sender means by it. *)
Frame(head, body, item) == [head |-> head, body |-> body, item |-> item]
Wire(f) == f.head \o HeaderTerminator \o f.body

ASSUME CodecAssumption ==
    /\ Messages \subseteq Nat \ {0}
    /\ Wide \subseteq Messages
    /\ MaxFrames \in Nat

VARIABLES
    sent,     \* frames written by the peer
    wire,     \* bytes written and not yet read
    closed,   \* the peer has closed its end
    buf,      \* the read buffer
    length,   \* LspCodec.content_length
    readable, \* Framed: the buffer may hold a frame
    eof,      \* Framed: read returned no bytes
    reader,   \* the loop: open, failed (an error), ended (None)
    items,    \* what the loop was given, in order
    got,      \* history: number of bytes read
    stream,   \* history: every byte written
    ends      \* history: where in the stream each frame ends

peerVars == <<sent, wire, closed, stream, ends>>
vars == <<peerVars, buf, length, readable, eof, reader, items, got>>

Init ==
    /\ sent = <<>> /\ wire = <<>> /\ closed = FALSE
    /\ buf = <<>> /\ length = NoLength
    /\ readable = FALSE /\ eof = FALSE /\ reader = "open"
    /\ items = <<>> /\ got = 0 /\ stream = <<>> /\ ends = <<>>

---------------------------------------------------------------------------
(* serde_json of a message and back *)

Body(m) == IF m \in Wide THEN <<Json(m), Continuation>> ELSE <<Json(m)>>

(* whitespace around the message is skipped *)
Parses(body, m) ==
    \E k \in 0..(Len(body) - Len(Body(m))) :
        LET text == (k + 1)..(k + Len(Body(m))) IN
        /\ SubSeq(body, k + 1, k + Len(Body(m))) = Body(m)
        /\ \A j \in DOMAIN body \ text : body[j] \in {CR, LF}

FromSlice(body) ==
    LET meant == {m \in Messages : Parses(body, m)}
    IN IF meant = {} THEN Error ELSE CHOOSE m \in meant : TRUE

(* mutant: the length in characters *)
EncodeChars(m) == Frame(<<LengthLine(1)>>, Body(m), m)

Encode(m) == Frame(<<LengthLine(Len(Body(m)))>>, Body(m), m)

---------------------------------------------------------------------------
(* position of the first header terminator, 0 if there is none *)
FindSubsequence(b) ==
    LET found == {k \in 1..(Len(b) - 3) : SubSeq(b, k, k + 3) = HeaderTerminator}
    IN IF found = {} THEN 0 ELSE CHOOSE k \in found : \A j \in found : k <= j

(* the first Content-Length line decides *)
ParseContentLength(header) ==
    LET starts == {k \in DOMAIN header : k = 1 \/ (k > 2 /\ SubSeq(header, k - 2, k - 1) = <<CR, LF>>)}
        lines == {k \in starts : header[k].t \in {"length", "badlength"}}
        first == CHOOSE k \in lines : \A j \in lines : k <= j
    IN IF Contains(header, NotUtf8) \/ lines = {} \/ header[first].t = "badlength"
         THEN Invalid ELSE header[first].n

Result(item, n, b) == [item |-> item, length |-> n, buf |-> b]

(* mutant: a body is decoded only when more bytes follow it *)
DecodeBodyWaits(n, b) ==
    IF Len(b) <= n THEN Result(Nothing, n, b)
    ELSE Result(FromSlice(SubSeq(b, 1, n)), NoLength, SubSeq(b, n + 1, Len(b)))

(* mutant: the part of a body that is there is dropped *)
DecodeBodyDiscards(n, b) ==
    IF Len(b) < n THEN Result(Nothing, NoLength, <<>>)
    ELSE Result(FromSlice(SubSeq(b, 1, n)), NoLength, SubSeq(b, n + 1, Len(b)))

(* the body, once its length is known; a malformed one is taken out of the *)
(* buffer                                                                  *)
DecodeBody(n, b) ==
    IF Len(b) < n THEN Result(Nothing, n, b)
    ELSE Result(FromSlice(SubSeq(b, 1, n)), NoLength, SubSeq(b, n + 1, Len(b)))

AfterHeader(b) == SubSeq(b, FindSubsequence(b) + 4, Len(b))
HeaderLength(b) == ParseContentLength(SubSeq(b, 1, FindSubsequence(b) - 1))

(* mutant: the error of parse_content_length is not returned *)
DecodeHeaderIgnoresError(b) ==
    IF HeaderLength(b) = Invalid THEN Result(Nothing, Invalid, AfterHeader(b))
    ELSE DecodeBody(HeaderLength(b), AfterHeader(b))

(* a complete header; a malformed one stays in the buffer *)
DecodeHeader(b) ==
    IF HeaderLength(b) = Invalid THEN Result(Error, NoLength, b)
    ELSE DecodeBody(HeaderLength(b), AfterHeader(b))

Decode(n, b) ==
    CASE n # NoLength -> DecodeBody(n, b)
      [] n = NoLength /\ FindSubsequence(b) = 0 -> Result(Nothing, NoLength, b)
      [] OTHER -> DecodeHeader(b)

---------------------------------------------------------------------------
Kinds == {"cr", "lf", "length", "badlength", "other", "binary", "json", "cont"}
Symbols == [t : Kinds, n : Nat]
Frames == [head : Seq(Symbols), body : Seq(Symbols), item : Messages \cup {Error}]

(* A frame that says what its sender means: its header ends at its first   *)
(* terminator and either cannot be used, or gives the length of the body.  *)
WellFormed(f) ==
    /\ f \in Frames
    /\ \A k \in 1..Len(f.head) :
          SubSeq(f.head \o HeaderTerminator, k, k + 3) # HeaderTerminator
    /\ \/ ParseContentLength(f.head) = Invalid /\ f.item = Error
       \/ ParseContentLength(f.head) = Len(f.body) /\ FromSlice(f.body) = f.item

ASSUME ForeignAssumption == \A f \in Foreign : WellFormed(f)

---------------------------------------------------------------------------
(* The peer: another LspCodec, or another implementation.  Closing may     *)
(* lose bytes that were written last.                                      *)

Send(f) ==
    /\ ~closed
    /\ Len(sent) < MaxFrames
    /\ sent' = Append(sent, f)
    /\ wire' = wire \o Wire(f)
    /\ stream' = stream \o Wire(f)
    /\ ends' = Append(ends, Len(stream'))
    /\ UNCHANGED <<closed, buf, length, readable, eof, reader, items, got>>

Close(k) ==
    /\ ~closed
    /\ closed' = TRUE
    /\ wire' = SubSeq(wire, 1, k)
    /\ UNCHANGED <<sent, stream, ends, buf, length, readable, eof, reader, items, got>>

---------------------------------------------------------------------------
(* Framed::poll_next *)

PollRead(k) ==
    /\ reader = "open" /\ ~readable
    /\ buf' = buf \o SubSeq(wire, 1, k)
    /\ wire' = SubSeq(wire, k + 1, Len(wire))
    /\ got' = got + k
    /\ readable' = TRUE
    /\ UNCHANGED <<sent, closed, stream, ends, length, eof, reader, items>>

PollEof ==
    /\ reader = "open" /\ ~readable
    /\ closed /\ wire = <<>>
    /\ eof' = TRUE
    /\ readable' = TRUE
    /\ UNCHANGED <<peerVars, buf, length, reader, items, got>>

PollDecode ==
    /\ reader = "open" /\ readable
    /\ LET r == Decode(length, buf) IN
       /\ length' = r.length
       /\ buf' = r.buf
       /\ \/ /\ r.item \in Messages
             /\ items' = Append(items, r.item)
             /\ UNCHANGED <<readable, reader>>
          \/ /\ r.item = Error
             /\ items' = Append(items, Error)
             /\ reader' = "failed"
             /\ UNCHANGED readable
          \/ /\ r.item = Nothing /\ ~eof
             /\ readable' = FALSE
             /\ UNCHANGED <<items, reader>>
          \/ /\ r.item = Nothing /\ eof /\ r.buf = <<>>
             /\ reader' = "ended"
             /\ UNCHANGED <<items, readable>>
          \/ /\ r.item = Nothing /\ eof /\ r.buf # <<>>
             /\ items' = Append(items, Truncated)
             /\ reader' = "failed"
             /\ UNCHANGED readable
    /\ UNCHANGED <<peerVars, eof, got>>

Next ==
    \/ \E m \in Messages : Send(Encode(m))
    \/ \E f \in Foreign : Send(f)
    \/ \E k \in 0..Len(wire) : Close(k)
    \/ \E k \in 1..Len(wire) : PollRead(k)
    \/ PollEof
    \/ PollDecode

Spec == Init /\ [][Next]_vars

---------------------------------------------------------------------------
(* The type invariant: a parsed length is never kept when it is invalid. *)
TypeOK ==
    /\ sent \in Seq(Frames)
    /\ wire \in Seq(Symbols) /\ buf \in Seq(Symbols)
    /\ closed \in BOOLEAN /\ readable \in BOOLEAN /\ eof \in BOOLEAN
    /\ length \in Nat \cup {NoLength}
    /\ reader \in {"open", "failed", "ended"}
    /\ items \in Seq(Messages \cup {Error, Truncated})
    /\ got \in Nat
    /\ stream \in Seq(Symbols) /\ ends \in Seq(Nat)

(* However the stream is cut, the loop is given the frames' messages in    *)
(* order: none is lost, merged, repeated or made up, and it sees an error  *)
(* at the first malformed frame or at the end of a truncated stream.       *)
InOrder ==
    \A i \in DOMAIN items :
        \/ items[i] = Truncated /\ closed
        \/ i <= Len(sent) /\ items[i] = sent[i].item

(* decode asks for more bytes only if it needs them: when it does and      *)
(* everything written has arrived, every frame has been handed on.         *)
NothingHeldBack ==
    reader = "open" /\ ~readable /\ wire = <<>> /\ ~closed => Len(items) = Len(sent)

(* The number of bytes of the first n frames. *)
End(n) == IF n = 0 THEN 0 ELSE ends[n]

(* The loop ends without an error only at the end of a frame, or right     *)
(* after a header, whose bytes are no longer in the buffer decode_eof      *)
(* looks at.                                                               *)
TruncationReported ==
    reader = "ended" =>
        LET n == Len(items) IN
        \/ got = End(n)
        \/ /\ length # NoLength
           /\ got = End(n) + Len(sent[n + 1].head) + Len(HeaderTerminator)
===========================================================================
