---------------------------- MODULE MCFormatter ----------------------------
(* A small instance of Formatter for TLC. *)
EXTENDS Formatter

ASSUME DocumentTestsPass == OffsetTests /\ UppercaseTests /\ ChangeTests

Alphabet == {"a", "e", "smile", "LF", "CR"}

CONSTANT MaxLength
ShortTexts == BoundedSeq(Alphabet, MaxLength)

(* lines and columns up to one past the end of such a text *)
Positions == {Position(l, c) : l \in 0..2, c \in 0..3}
Before(p, q) == p.line < q.line \/ (p.line = q.line /\ p.character <= q.character)
Edits == {Edit(p, q, t) : p \in Positions, q \in Positions, t \in {<<>>, <<"LF">>}}

(* every edit alone, and after a replacement of the whole text *)
SomeChanges ==
    LET ordered == {e \in Edits : Before(e.start, e.end)}
    IN {<<e>> : e \in ordered}
       \cup {<<Replace(<<"smile", "CR">>), e>> : e \in {e \in ordered : e.text = <<"LF">>}}

(* for longer exchanges: three changes that depend on each other's order *)
FewTexts == {<<"smile", "e">>, <<"CR">>}
FewChanges == {
    <<Edit(Position(0, 2), Position(1, 0), <<"LF">>)>>,
    <<Edit(Position(0, 0), Position(0, 1), <<"a">>)>>,
    <<Edit(Position(1, 0), Position(1, 0), <<"e">>), Edit(Position(0, 1), Position(0, 2), <<>>)>> }
===========================================================================
