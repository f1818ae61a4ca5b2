------------------------------ MODULE MCCodec ------------------------------
(* A small instance of Codec for TLC. *)
EXTENDS Codec

Blank == <<CR, LF, CR, LF>>

(* Frames of other implementations: two headers, a body that starts with   *)
(* what looks like a terminator, a repeated length; and malformed ones: no *)
(* length, a bad length, bytes that are not UTF-8, no body, a body that is *)
(* no message.                                                             *)
ForeignFrames == {
    Frame(<<OtherLine, CR, LF, LengthLine(5)>>, Blank \o <<Json(1)>>, 1),
    Frame(<<LengthLine(1), CR, LF, LengthLine(9)>>, <<Json(1)>>, 1),
    Frame(<<OtherLine>>, <<Json(1)>>, Error),
    Frame(<<BadLengthLine, CR, LF, LengthLine(1)>>, <<Json(1)>>, Error),
    Frame(<<NotUtf8, CR, LF, LengthLine(1)>>, <<Json(1)>>, Error),
    Frame(<<LengthLine(0)>>, <<>>, Error),
    Frame(<<LengthLine(1)>>, <<Continuation>>, Error) }
===========================================================================
