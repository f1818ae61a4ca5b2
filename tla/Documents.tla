----------------------------- MODULE Documents -----------------------------
(***************************************************************************)
(* The text arithmetic of examples/formatter_server.rs: UTF-16 positions   *)
(* to byte offsets, incremental changes, the edit that replaces a whole    *)
(* document; and, as the reference, what the Language Server Protocol      *)
(* means by a position and by an edit.                                     *)
(*                                                                         *)
(* A text is a sequence of characters, each with the number of bytes and   *)
(* of UTF-16 units it takes.  Offsets are in bytes, as in the code; a      *)
(* slice at an offset inside a character is an error, as it is in Rust.    *)
(***************************************************************************)
EXTENDS Integers, Sequences, FiniteSets, SequencesExt

Utf8  == [a |-> 1, A |-> 1, e |-> 2, E |-> 2, smile |-> 4, LF |-> 1, CR |-> 1]
Utf16 == [a |-> 1, A |-> 1, e |-> 1, E |-> 1, smile |-> 2, LF |-> 1, CR |-> 1]
Newline(ch) == ch \in {"LF", "CR"}

Position(l, c) == [line |-> l, character |-> c]

(* a change with a range, or the whole text *)
Edit(from, to, text) == [ranged |-> TRUE, start |-> from, end |-> to, text |-> text]
Replace(text) == [ranged |-> FALSE, start |-> Position(0, 0), end |-> Position(0, 0), text |-> text]

ByteLen(t) == FoldLeft(LAMBDA n, ch : n + Utf8[ch], 0, t)
Gap(t, offset) == CHOOSE k \in 0..Len(t) : ByteLen(SubSeq(t, 1, k)) = offset
Upto(t, offset) == SubSeq(t, 1, Gap(t, offset))
From(t, offset) == SubSeq(t, Gap(t, offset) + 1, Len(t))

(* a line break takes two characters if it is CR LF *)
BreakLen(t, k) == IF t[k] = "CR" /\ k < Len(t) /\ t[k + 1] = "LF" THEN 2 ELSE 1

---------------------------------------------------------------------------
LineStartOffset(t, target) ==
    LET scan[k \in Nat, line \in Nat] ==
          IF k > Len(t) \/ line = target THEN [offset |-> 0, line |-> line]
          ELSE IF Newline(t[k])
            THEN LET n == BreakLen(t, k) rest == scan[k + n, line + 1]
                 IN [rest EXCEPT !.offset = @ + n]
            ELSE LET rest == scan[k + 1, line]
                 IN [rest EXCEPT !.offset = @ + Utf8[t[k]]]
        end == scan[1, 0]
    IN IF end.line = target THEN end.offset ELSE ByteLen(t)

(* mutant: positions count characters *)
PositionToOffsetChars(t, pos) ==
    LET start == LineStartOffset(t, pos.line)
        rest == From(t, start)
        walk[k \in Nat] ==
          IF k > Len(rest) \/ Newline(rest[k]) \/ k > pos.character THEN 0
          ELSE Utf8[rest[k]] + walk[k + 1]
    IN IF start >= ByteLen(t) THEN ByteLen(t) ELSE start + walk[1]

PositionToOffset(t, pos) ==
    LET start == LineStartOffset(t, pos.line)
        rest == From(t, start)
        walk[k \in Nat, units \in Nat] ==
          IF \/ k > Len(rest)
             \/ Newline(rest[k])
             \/ units + Utf16[rest[k]] > pos.character
            THEN 0
            ELSE Utf8[rest[k]] + walk[k + 1, units + Utf16[rest[k]]]
    IN IF start >= ByteLen(t) THEN ByteLen(t) ELSE start + walk[1, 0]

(* apply_incremental_changes: a reversed range changes nothing *)
ApplyChange(t, change) ==
    LET start == PositionToOffset(t, change.start)
        end == PositionToOffset(t, change.end)
    IN IF ~change.ranged THEN change.text
       ELSE IF start <= end /\ end <= ByteLen(t)
              THEN Upto(t, start) \o change.text \o From(t, end)
              ELSE t

ApplyIncrementalChanges(t, changes) == FoldLeft(ApplyChange, t, changes)

(* mutant: a column is a character *)
EndPositionChars(t) ==
    LET scan[k \in Nat, line \in Nat, character \in Nat] ==
          IF k > Len(t) THEN Position(line, character)
          ELSE IF Newline(t[k]) THEN scan[k + BreakLen(t, k), line + 1, 0]
          ELSE scan[k + 1, line, character + 1]
    IN scan[1, 0, 0]

EndPositionUtf16(t) ==
    LET scan[k \in Nat, line \in Nat, character \in Nat] ==
          IF k > Len(t) THEN Position(line, character)
          ELSE IF Newline(t[k]) THEN scan[k + BreakLen(t, k), line + 1, 0]
          ELSE scan[k + 1, line, character + Utf16[t[k]]]
    IN scan[1, 0, 0]

ToUppercase(t) ==
    [k \in DOMAIN t |-> CASE t[k] = "a" -> "A" [] t[k] = "e" -> "E" [] OTHER -> t[k]]

CreateUppercaseEdit(t) ==
    IF t = <<>> THEN <<>>
    ELSE <<Edit(Position(0, 0), EndPositionUtf16(t), ToUppercase(t))>>

---------------------------------------------------------------------------
(* The unit tests of the example, with lines of a's of the same lengths *)

Line(n) == [k \in 1..n |-> "a"]
Lines(n) == Line(5) \o FlattenSeq([k \in 1..(n - 1) |-> <<"LF">> \o Line(5)])

OffsetTests ==
    /\ \A c \in {0, 5, 11} : PositionToOffset(Line(11), Position(0, c)) = c
    /\ \A l \in 0..2 : PositionToOffset(Lines(3), Position(l, 0)) = 6 * l
    /\ PositionToOffset(Lines(3), Position(2, 5)) = 17
    /\ PositionToOffset(Line(5), Position(0, 100)) = 5
    /\ PositionToOffset(Line(5), Position(10, 0)) = 5

UppercaseTests ==
    /\ CreateUppercaseEdit(<<>>) = <<>>
    /\ CreateUppercaseEdit(Line(11))
           = <<Edit(Position(0, 0), Position(0, 11), ToUppercase(Line(11)))>>
    /\ CreateUppercaseEdit(Lines(2))[1].end = Position(1, 5)

ChangeTests ==
    LET Change(t, from, to, text) ==
            ApplyIncrementalChanges(t, <<Edit(Position(0, from), Position(0, to), text)>>) IN
    /\ ApplyIncrementalChanges(Line(8), <<Replace(<<"e">>)>>) = <<"e">>
    /\ Change(Line(11), 6, 11, <<"e">>) = Line(6) \o <<"e">>
    /\ Change(Line(5), 5, 5, <<"e">>) = Line(5) \o <<"e">>

---------------------------------------------------------------------------
(* The reference: gap k of a text is the place after its k-th character.   *)

Breaks(t) == {k \in DOMAIN t : Newline(t[k]) /\ BreakLen(t, k) = 1}
LineOf(t, k) == Cardinality({b \in Breaks(t) : b <= k})
UnitsBefore(t, k) ==
    FoldLeft(LAMBDA n, ch : n + Utf16[ch], 0,
             SubSeq(t, Max({0} \cup {b \in Breaks(t) : b <= k}) + 1, k))
InsideBreak(t, k) == k \in DOMAIN t /\ Newline(t[k]) /\ BreakLen(t, k) = 2

(* "If the character value is greater than the line length it defaults     *)
(* back to the line length"; a position inside a character is before it,   *)
(* one after the last line is at the end of the text.                      *)
GapAt(t, pos) ==
    LET gaps == {k \in 0..Len(t) : /\ LineOf(t, k) = pos.line
                                   /\ UnitsBefore(t, k) <= pos.character
                                   /\ ~InsideBreak(t, k)}
    IN IF gaps = {} THEN Len(t) ELSE CHOOSE k \in gaps : \A j \in gaps : j <= k

EditedText(t, change) ==
    IF ~change.ranged THEN change.text
    ELSE SubSeq(t, 1, GapAt(t, change.start)) \o change.text
         \o SubSeq(t, GapAt(t, change.end) + 1, Len(t))

EditedBy(t, changes) == FoldLeft(EditedText, t, changes)
===========================================================================
