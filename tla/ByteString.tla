----------------------------- MODULE ByteString -----------------------------
(***************************************************************************)
(* What the string commands promise for one key: its value is a sequence   *)
(* of bytes, and each command changes it and replies as said here.  How    *)
(* the bytes are stored is not visible, but for two limits.  A string that *)
(* would outgrow Room bytes may cost a setbit its other bytes and an       *)
(* append the server; what setrange leaves between the end of a shorter    *)
(* string and its offset is any byte.                                      *)
(***************************************************************************)
EXTENDS Integers, Sequences

CONSTANTS ByteBits, Room, DataSet, IntText, FloatText,
          CharZero, CharDot, RangeOffset, BitOffset

VARIABLES type,   \* "none", "string" or "other"
          str,    \* the bytes
          reply   \* the latest reply

vars == <<type, str, reply>>

Byte == SUBSET (1..ByteBits)
Reply(ret, val) == [ret |-> ret, val |-> val]

Init == type = "none" /\ str = <<>> /\ reply = Reply("none", <<>>)

Longer(a, b) == IF a > b THEN a ELSE b
Stored(s, r) == type' = "string" /\ str' = s /\ reply' = r
Same(r) == UNCHANGED <<type, str>> /\ reply' = r
Fails == Same(Reply("fail", <<>>))
Down == Same(Reply("down", <<>>))

Set(d) == Stored(d, Reply("ok", <<>>))

Del == type' = "none" /\ str' = <<>> /\ reply' = Reply("int", <<IF type = "none" THEN 0 ELSE 1>>)
Other == type = "none" /\ type' = "other" /\ str' = <<>> /\ reply' = Reply("int", <<1>>)

AppendTo(d) ==
    \/ type = "other" /\ Fails
    \/ type # "other" /\ Stored(str \o d, Reply("int", <<Len(str) + Len(d)>>))
    \/ type = "string" /\ Len(str) + Len(d) > Room /\ Down

\* A negative offset fails or is undefined.
SetRange(off, d) ==
    LET len == Longer(Len(str), off + Len(d))
        s == str'
    IN  \/ type = "other" /\ Fails
        \/ off < 0 /\ d # <<>> /\ (Fails \/ Down)
        \/ type # "other" /\ d = <<>> /\ Stored(str, Reply("int", <<Len(str)>>))
        \/ /\ type # "other" /\ off >= 0 /\ d # <<>>
           /\ type' = "string" /\ reply' = Reply("int", <<len>>)
           /\ DOMAIN s = 1..len
           /\ \A i \in 1..len :
                 IF i > off /\ i <= off + Len(d) THEN s[i] = d[i - off]
                 ELSE IF i <= Len(str) THEN s[i] = str[i] ELSE s[i] \in Byte

\* Bit off of s, counted from the highest bit of the first byte; 0 beyond the end.
Bit(s, off) ==
    LET i == off \div ByteBits + 1
    IN  IF i <= Len(s) /\ ByteBits - (off % ByteBits) \in s[i] THEN 1 ELSE 0

SetBit(off, val) ==
    LET bytes == off \div ByteBits + 1
        len == Longer(Len(str), bytes)
        s == str'
    IN  \/ type = "other" /\ Fails
        \/ off < 0 /\ (Fails \/ Down)
        \/ /\ type # "other" /\ off >= 0
           /\ type' = "string" /\ reply' = Reply("int", <<Bit(str, off)>>)
           /\ Len(s) = len
           /\ \/ \A b \in 0..(len * ByteBits - 1) :
                    Bit(s, b) = IF b = off THEN val ELSE Bit(str, b)
              \/ /\ len > Len(str) /\ len > Room
                 /\ \A b \in 0..(len * ByteBits - 1) :
                       Bit(s, b) = IF b = off THEN val ELSE 0

\* A new key gets the amount as it was given.
IncrBy ==
    \/ Fails
    \/ type # "other" /\ \E t \in IntText : Stored(t, Reply("int", <<>>))
    \/ type = "none" /\ \E d \in DataSet : Stored(d, Reply("int", <<>>))

\* A float as it is stored: the zeros at its end and a dot without decimals after
\* it are cut off, and nothing else.
Canonical(t, s) ==
    LET dot == CHOOSE i \in 1..Len(t) : t[i] = CharDot
    IN  /\ Len(s) >= dot - 1 /\ Len(s) <= Len(t)
        /\ s = SubSeq(t, 1, Len(s))
        /\ \A i \in (Len(s) + 1)..Len(t) : t[i] = CharZero \/ i = dot
        /\ Len(s) # dot
        /\ Len(s) > dot => s[Len(s)] # CharZero

IncrByFloat ==
    \/ Fails
    \/ /\ type # "other"
       /\ type' = "string" /\ reply' = Reply("str", str')
       /\ \E t \in FloatText : Canonical(t, str')

Next ==
    \/ \E d \in DataSet : Set(d) \/ AppendTo(d) \/ \E off \in RangeOffset : SetRange(off, d)
    \/ \E off \in BitOffset, val \in {0, 1} : SetBit(off, val)
    \/ Del \/ Other \/ IncrBy \/ IncrByFloat

Spec == Init /\ [][Next]_vars
=============================================================================
