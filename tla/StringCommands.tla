--------------------------- MODULE StringCommands ---------------------------
(***************************************************************************)
(* The string commands of server/commands.c on one key, whose value is a   *)
(* string of server/bss.c, is missing, or is of another type.              *)
(*                                                                         *)
(* Strings are bytes here.  Which number a text stands for is left out:    *)
(* incrby and incrbyfloat store the text of some number.  The commands     *)
(* that only read are operators and change nothing.                        *)
(***************************************************************************)
EXTENDS Bss

CONSTANTS DataSet,      \* the byte sequences that are passed as values
          RangeOffset,  \* the offsets of setrange, some of them negative
          BitOffset,    \* the offsets of setbit, some of them negative
          Digit,        \* the digits
          IntText,      \* what BSS_INT_FMT prints
          FloatText,    \* what BSS_FLT_FMT prints
          Fill,         \* what memory from malloc can hold
          CharQuote,    \* '"'
          Space,        \* the bytes that isspace knows
          MaxLen        \* bound: the length of a string

ASSUME StringAssumption ==
    /\ DataSet \cup IntText \cup FloatText \subseteq Seq(Byte)
    /\ RangeOffset \subseteq Int
    /\ BitOffset \subseteq Int
    /\ CharZero \in Digit /\ CharDot \notin Digit
    /\ \A t \in IntText : Len(t) \in 1..(MinLen - 1) /\ ToSet(t) \subseteq Digit
    /\ \A t \in FloatText : /\ t[1] # CharDot
                            /\ \E i \in 1..Len(t) : /\ t[i] = CharDot
                                                    /\ \A j \in 1..Len(t) : t[j] \in Digit \/ j = i
    /\ Fill \cup Space \cup {CharQuote} \subseteq Byte
    /\ CharQuote \notin Space
    /\ MaxLen \in Nat

VARIABLES type,   \* "none", "string" or "other"
          bss,    \* the string, NULL if there is none
          reply   \* the latest reply; "down" if the command did not return

vars == <<type, bss, reply>>

Reply(ret, val) == [ret |-> ret, val |-> val]
Obj(t, b) == [type |-> t, bss |-> b]

-----------------------------------------------------------------------------
(* Ways for a command to end *)

\* The key has the string b after the command.
Stores(b, r) ==
    /\ b.len <= MaxLen
    /\ type' = "string"
    /\ bss' = b
    /\ reply' = r

Leaves(r) == reply' = r /\ UNCHANGED <<type, bss>>
fail_reply == Leaves(Reply("fail", <<>>))

\* CHECK_TYPE(obj, STRING)
WrongType == type = "other" /\ fail_reply

\* The string that setbit and setrange begin with.
StringOrNew == IF type = "none" THEN bss_create_empty(0) ELSE bss

\* What becomes of the result of bss_setbit or bss_setrange.
StoresResult(b, r) ==
    \/ b = Wild /\ Leaves(Reply("down", <<>>))
    \/ b = NULL /\ fail_reply
    \/ b \notin {Wild, NULL} /\ Stores(b, r)

-----------------------------------------------------------------------------
(* Commands *)

set_command(data, f) == Stores(bss_create(data, f), Reply("ok", <<>>))

del_command ==
    /\ type' = "none" /\ bss' = NULL
    /\ reply' = Reply("int", <<IF type = "none" THEN 0 ELSE 1>>)

\* A command of another type creates the key.
other_command ==
    /\ type = "none"
    /\ type' = "other" /\ bss' = NULL
    /\ reply' = Reply("int", <<1>>)

\* The length is read from NULL if bss_append returns it.
append_command(data, f) ==
    \/ WrongType
    \/ /\ type = "none"
       /\ Stores(bss_create(data, f), Reply("int", <<Len(data)>>))
    \/ /\ type = "string"
       /\ LET b == bss_append(bss, data)
          IN  \/ b = NULL /\ Leaves(Reply("down", <<>>))
              \/ b # NULL /\ Stores(b, Reply("int", <<b.len>>))

setbit_command(offset, val) ==
    \/ WrongType
    \/ /\ type # "other"
       /\ LET old == IF type = "none" THEN 0 ELSE bss_getbit(bss, offset)
          IN  StoresResult(bss_setbit(StringOrNew, offset, val), Reply("int", <<old>>))

\* A key that is missing is created even if there is nothing to write.
setrange_command(offset, data) ==
    \/ WrongType
    \/ /\ type # "other"
       /\ LET b == bss_setrange(StringOrNew, offset, data)
          IN  StoresResult(b, Reply("int", <<IF b \in {Wild, NULL} THEN 0 ELSE b.len>>))

\* bss2int and bss2ld take an empty string for 0.
IsInt(s) == ToSet(s) \subseteq Digit
IsFloat(s) ==
    \/ IsInt(s)
    \/ \E i \in DOMAIN s : s[i] = CharDot /\ Len(s) > 1 /\ \A j \in DOMAIN s : s[j] \in Digit \/ j = i

\* text is the sum, or the amount negated.  A key that is missing gets the amount
\* as it was given, from decrby its negation.  bss_add_sub asserts that bss_set
\* has not moved the string.
incrby_command(arg, text, f) ==
    \/ ~IsInt(arg) /\ fail_reply
    \/ IsInt(arg) /\ WrongType
    \/ /\ IsInt(arg) /\ type = "none"
       /\ \E b \in {bss_create(arg, f), bss_set(bss_create(arg, f), text, f)} :
             Stores(b, Reply("int", <<>>))
    \/ type = "string" /\ fail_reply  \* no integer, or an overflow
    \/ /\ IsInt(arg) /\ type = "string" /\ IsInt(Contents(bss))
       /\ \/ Len(text) > bsssize(bss) /\ Leaves(Reply("down", <<>>))
          \/ Len(text) <= bsssize(bss) /\ Stores(bss_set(bss, text, f), Reply("int", <<>>))

incrbyfloat_command(text, f) ==
    \/ WrongType
    \/ /\ type = "none"
       /\ LET b == bss_cut_zero(bss_create(text, f))
          IN  Stores(b, Reply("str", Contents(b)))
    \* The amount or the contents is no number, or the sum is not finite.
    \/ type # "other" /\ fail_reply
    \/ /\ type = "string" /\ IsFloat(Contents(bss))
       /\ LET b == bss_cut_zero(bss_set(bss, text, f))
          IN  Stores(b, Reply("str", Contents(b)))

-----------------------------------------------------------------------------
(* Commands that read *)

strlen_command == IF type = "none" THEN 0 ELSE bss.len
get_command == Contents(bss)
getbit_command(offset) == IF type = "none" THEN 0 ELSE bss_getbit(bss, offset)
bitcount_command == IF type = "none" THEN 0 ELSE bss_count_bit(bss)

\* An offset counts from the end when negative.
FromEnd(i) == IF i < 0 THEN i + bss.len ELSE i

\* A variant with a fault: a range that reaches the end is one byte too long.
getrange_command_long(i, j) ==
    LET offset1 == MaxOf(FromEnd(i), 0)
    IN  IF type = "none" \/ FromEnd(j) < offset1 \/ offset1 >= bss.len THEN <<>>
        ELSE [n \in 1..((IF FromEnd(j) > bss.len THEN bss.len ELSE FromEnd(j)) - offset1 + 1) |->
                 bss.str[offset1 + n - 1]]

getrange_command(i, j) ==
    LET offset1 == MaxOf(FromEnd(i), 0)
        offset2 == FromEnd(j)
        len == IF offset2 > bss.len - 1 THEN bss.len - offset1 ELSE offset2 - offset1 + 1
    IN  IF type = "none" THEN <<>>
        ELSE IF bss.len = 0 \/ offset2 < offset1 \/ offset1 >= bss.len THEN <<>>
        ELSE [n \in 1..len |-> bss.str[offset1 + n - 1]]

-----------------------------------------------------------------------------
(* How the values reach the server: parse_args *)

Parse(mode, arg, args) == [mode |-> mode, arg |-> arg, args |-> args]

\* A variant with a fault: a quote ends a word.
ParseByte_eager(p, c) ==
    CASE p.mode = "between" /\ c \in Space     -> p
      [] p.mode = "between" /\ c = CharQuote    -> Parse("quoted", <<>>, p.args)
      [] p.mode = "between" /\ c \notin Space \cup {CharQuote} -> Parse("word", <<c>>, p.args)
      [] p.mode # "between" /\ c = CharQuote    -> Parse("between", <<>>, Append(p.args, p.arg))
      [] p.mode = "word" /\ c \in Space        -> Parse("between", <<>>, Append(p.args, p.arg))
      [] OTHER                                  -> [p EXCEPT !.arg = Append(@, c)]

\* What becomes of the next byte: between arguments, in quotes, or in a word.
ParseByte(p, c) ==
    CASE p.mode = "between" /\ c \in Space     -> p
      [] p.mode = "between" /\ c = CharQuote    -> Parse("quoted", <<>>, p.args)
      [] p.mode = "between" /\ c \notin Space \cup {CharQuote} -> Parse("word", <<c>>, p.args)
      [] p.mode = "quoted" /\ c = CharQuote     -> Parse("between", <<>>, Append(p.args, p.arg))
      [] p.mode = "word" /\ c \in Space        -> Parse("between", <<>>, Append(p.args, p.arg))
      [] OTHER                                  -> [p EXCEPT !.arg = Append(@, c)]

Parsed(ret, args) == [ret |-> ret, args |-> args]

\* The arguments, and an error if a quote is not closed.
parse_args(data) ==
    LET p == FoldLeft(ParseByte, Parse("between", <<>>, <<>>), data)
    IN  CASE p.mode = "quoted"  -> Parsed("E_INV_ARGS", <<>>)
          [] p.mode = "word"    -> Parsed("ok", Append(p.args, p.arg))
          [] p.mode = "between" -> Parsed("ok", p.args)

-----------------------------------------------------------------------------

Init == type = "none" /\ bss = NULL /\ reply = Reply("none", <<>>)

Next ==
    /\ reply.ret # "down"
    /\ \/ \E data \in DataSet :
             \/ \E f \in Fill : set_command(data, f) \/ append_command(data, f)
             \/ \E offset \in RangeOffset : setrange_command(offset, data)
             \/ \E text \in IntText, f \in Fill : incrby_command(data, text, f)
       \/ \E offset \in BitOffset, val \in {0, 1} : setbit_command(offset, val)
       \/ \E f \in Fill, text \in FloatText : incrbyfloat_command(text, f)
       \/ del_command
       \/ other_command

Spec == Init /\ [][Next]_vars

-----------------------------------------------------------------------------
(* Properties *)

\* Type invariant.
TypeOK ==
    /\ type \in {"none", "string", "other"}
    /\ type # "string" => bss = NULL
    /\ type = "string" => /\ bss.len \in 0..MaxLen
                          /\ bss.free \in Nat
                          /\ \A i \in DOMAIN bss.str : bss.str[i] \in Byte
    /\ reply.ret \in {"none", "ok", "int", "str", "fail", "down"}

\* The counters of a string never claim more memory than it has: there is room for
\* len + free bytes and the terminator, whatever commands have made the string
\* grow and shrink.  The terminator is in place, and there is always room for an
\* integer: the assertion of bss_add_sub, that bss_set does not move the string,
\* rests on this.
RoomKept ==
    type = "string" =>
        /\ 0..bsssize(bss) \subseteq DOMAIN bss.str
        /\ bss.str[bss.len] = NUL
        /\ bsssize(bss) >= MinLen

Abs == INSTANCE ByteString WITH
           str <- IF type = "string" THEN Contents(bss) ELSE <<>>, Room <- MinLen

\* The commands change the bytes of the string and reply as ByteString says:
\* whatever is left in the memory behind a string that has shrunk never shows in
\* it, but for the gap that setrange leaves.
IsString == Abs!Spec

\* getrange, getbit and bitcount tell of the string what their definitions say,
\* at every offset: in the code all three do their own arithmetic.  bitcount only
\* if no byte has its highest bit set.
ReadsAgree ==
    type = "string" =>
        LET s == Contents(bss)
        IN  /\ \A off \in 0..((MaxLen + 1) * ByteBits) : getbit_command(off) = Abs!Bit(s, off)
            /\ \A i, j \in -(MaxLen + 2)..(MaxLen + 2) :
                  getrange_command(i, j) =
                      LET At(n) == n - 1 >= FromEnd(i) /\ n - 1 <= FromEnd(j)
                          picked == {n \in 1..Len(s) : At(n)}
                      IN  [n \in 1..Cardinality(picked) |-> s[Min(picked) + n - 1]]
            /\ (\A n \in 1..Len(s) : Abs!Bit(s, (n - 1) * ByteBits) = 0) =>
                  bitcount_command = Cardinality({off \in 0..(Len(s) * ByteBits) :
                                                      Abs!Bit(s, off) = 1})

Quoted(s) == <<CharQuote>> \o s \o <<CharQuote>>
Word(s) == s # <<>> /\ s[1] # CharQuote /\ ToSet(s) \cap Space = {}

\* What get returns can be sent back: in quotes if no byte of it is a quote, as it
\* stands if it is a word, wherever it comes among the arguments; nothing else can
\* be, because a quote has no escape.
SentBack ==
    type = "string" =>
        LET s == Contents(bss)
            forms(t) == (IF CharQuote \in ToSet(t) THEN {} ELSE {Quoted(t)})
                            \cup (IF Word(t) THEN {t} ELSE {})
        IN  /\ \A d \in DataSet : \A a \in forms(d), b \in forms(s), sp \in Space :
                  /\ parse_args(a \o <<sp>> \o b) = Parsed("ok", <<d, s>>)
                  /\ parse_args(b \o <<sp, sp>> \o a \o <<sp>>) = Parsed("ok", <<s, d>>)
            /\ forms(s) = {} => parse_args(Quoted(s)).args # <<s>> /\ parse_args(s).args # <<s>>
=============================================================================
