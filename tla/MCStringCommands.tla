-------------------------- MODULE MCStringCommands --------------------------
(* A small instance of StringCommands for TLC. *)
EXTENDS StringCommands

\* Chars of three bits: two digits, the dot, and, with the highest bit set, the quote,
\* a space, and one more.
One == {1}
Two == {2}
Dot == {1, 2}
Quote == {1, 3}
Blank == {2, 3}

Digits == {One, Two}
Spaces == {Blank}

Data == {<<>>, <<Two>>, <<One, Quote>>, <<Two, Blank, One, Two>>}

\* An integer text leaves room for the terminator; a float text does not fit.
IntTexts == {<<Two>>, <<Two, One>>}
FloatTexts == {<<One, Dot, One, One>>, <<Two, Dot, One, Two>>, <<Two, One, Dot, Two, One>>}

\* Before the string, in its first bytes, and beyond the memory it begins with.
RangeOffsets == {-4, -1, 1, 3}
BitOffsets == {-2, -1, 4, 8, 14}

\* Memory from malloc is never zero by luck.
Fills == {Blank}
=============================================================================
