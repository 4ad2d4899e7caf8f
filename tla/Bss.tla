--------------------------------- MODULE Bss ---------------------------------
(***************************************************************************)
(* The binary-safe strings of server/bss.c.                                *)
(*                                                                         *)
(* A string is a record of its two counters, len and free, and str, the    *)
(* memory behind them: a function over the offsets that were allocated.    *)
(* Memory from malloc has some value f in all of its bytes, memory from    *)
(* calloc zeros.  Writing outside str is the outcome Wild, an allocation   *)
(* no machine can serve is NULL; apart from that one, memory does not run  *)
(* out.  A byte is the set of its bits that are 1, counted from the lowest *)
(* on, and what a number in it stands for is left out.                     *)
(***************************************************************************)
EXTENDS Integers, Sequences, FiniteSets, SequencesExt

CONSTANTS ByteBits,   \* bits of a char, 8
          MinLen,     \* BSS_MIN_LEN, 22
          Header,     \* sizeof(bss_t), 16
          CharZero,   \* '0'
          CharDot     \* '.'

Byte == SUBSET (1..ByteBits)
NUL == {}

ASSUME BssAssumption ==
    /\ ByteBits \in Nat \ {0}
    /\ MinLen \in Nat \ {0}
    /\ Header \in Nat
    /\ {CharZero, CharDot} \subseteq Byte \ {NUL}
    /\ CharZero # CharDot

MaxOf(a, b) == IF a > b THEN a ELSE b

Bss(len, free, str) == [len |-> len, free |-> free, str |-> str]

\* No strings, and told from them by their length.
NULL == Bss(-1, 0, <<>>)
Wild == Bss(-2, 0, <<>>)

bsssize(bss) == bss.len + bss.free

\* The bytes of a string, as its readers see them.
Contents(bss) == [i \in 1..bss.len |-> bss.str[i - 1]]

-----------------------------------------------------------------------------
(* Memory *)

malloc(n, f) == [i \in 0..(n - 1) |-> f]
calloc(n) == malloc(n, NUL)

\* memcpy of a sequence of bytes to offset off; memset of n bytes to 0.
memcpy(str, off, data) ==
    [i \in DOMAIN str |-> IF i \in off..(off + Len(data) - 1) THEN data[i - off + 1] ELSE str[i]]
memset(str, off, n) ==
    [i \in DOMAIN str |-> IF i \in off..(off + n - 1) THEN NUL ELSE str[i]]

-----------------------------------------------------------------------------

bss_create(data, f) ==
    LET real_len == MaxOf(Len(data), MinLen)
        str == memcpy(malloc(real_len + 1, f), 0, data)
    IN  Bss(Len(data), real_len - Len(data), [str EXCEPT ![Len(data)] = NUL])

bss_create_empty(len) ==
    Bss(0, MaxOf(len, MinLen), calloc(MaxOf(len, MinLen) + 1))

\* A variant with a fault: free is updated after len.
bss_set_order(dst, data, f) ==
    LET len == Len(data)
    IN  Bss(len, len + dst.free - len, [memcpy(dst.str, 0, data) EXCEPT ![len] = NUL])

\* A string that is too small is replaced by one of twice its size or more.
bss_set(dst, data, f) ==
    LET len == Len(data)
        new_len == MaxOf(2 * bsssize(dst), len)
    IN  IF len > bsssize(dst)
        THEN Bss(len, new_len - len,
                 [memcpy(malloc(new_len + 2, f), 0, data) EXCEPT ![len] = NUL])
        ELSE Bss(len, bsssize(dst) - len, [memcpy(dst.str, 0, data) EXCEPT ![len] = NUL])

\* The zeros at the end go, down to the first byte at most, and then a dot.
bss_cut_zero(bss) ==
    LET Zeros(n) == \A i \in n..(bss.len - 1) : bss.str[i] = CharZero
        cut == CHOOSE n \in 1..bss.len : Zeros(n) /\ (n = 1 \/ ~Zeros(n - 1))
        len == IF bss.str[cut - 1] = CharDot THEN cut - 1 ELSE cut
    IN  Bss(len, bsssize(bss) - len, [bss.str EXCEPT ![len] = NUL])

\* Where the new bytes do not fit, "if(NULL == result);" makes the return of
\* NULL unconditional.
bss_append(bss, data) ==
    LET len == bss.len + Len(data)
    IN  IF bss.free < Len(data) THEN NULL
        ELSE Bss(len, bss.free - Len(data),
                 [memcpy(bss.str, bss.len, data) EXCEPT ![len] = NUL])

-----------------------------------------------------------------------------
(* Bits, of which the first is the highest of the first byte *)

\* The bit counted from 1, the highest.
BitOf(offset) == IF (offset + 1) % ByteBits = 0 THEN ByteBits ELSE (offset + 1) % ByteBits

ByteOf(offset) ==
    (offset + 1) \div ByteBits + (IF (offset + 1) % ByteBits # 0 THEN 1 ELSE 0) - 1

\* A variant with a fault: the bit is not counted back.
BitMask_back(offset) == {ByteBits + 1 - ((offset + 1) % ByteBits)}

\* 1UL << (bit-1), the bit counted from the lowest by now.
BitMask(offset) == {ByteBits + 1 - BitOf(offset)}

IsSet(byte, mask) == byte \cap mask # {}

WithBit(byte, mask, val) == IF val = 1 THEN byte \cup mask ELSE byte \ mask

\* A negative offset is a very large size_t: -1 overflows to the byte before the
\* string, which belongs to its counters; all others are beyond its end.
bss_getbit(bss, offset) ==
    IF offset = -1 THEN Wild
    ELSE IF offset < 0 \/ ByteOf(offset) + 1 > bss.len THEN 0
    ELSE IF IsSet(bss.str[ByteOf(offset)], BitMask(offset)) THEN 1 ELSE 0

\* A variant with a fault: the bytes between are left as they are.
bss_setbit_stale(bss, offset, val) ==
    LET byte == ByteOf(offset)
        new_len == MaxOf(byte + 1, bss.len)
        set == [bss.str EXCEPT ![byte] = WithBit(@, BitMask(offset), val)]
    IN  IF offset < 0 \/ byte + 1 > bsssize(bss) THEN NULL
        ELSE Bss(new_len, bsssize(bss) - new_len, [set EXCEPT ![new_len] = NUL])

\* A string that is too small is replaced by zeros of the size that is needed;
\* the bytes it had are not copied.
bss_setbit(bss, offset, val) ==
    LET byte == ByteOf(offset)
        long ==
            IF byte + 1 > bsssize(bss)
            THEN Bss(byte + 1, 0, bss_create_empty(byte + 1).str)
            ELSE IF byte + 1 > bss.len
            THEN Bss(byte + 1, bsssize(bss) - (byte + 1),
                     [memset(bss.str, bss.len, bss.free) EXCEPT ![byte + 1] = NUL])
            ELSE bss
    IN  IF offset = -1 THEN Wild
        ELSE IF offset < 0 THEN NULL
        ELSE [long EXCEPT !.str[byte] = WithBit(@, BitMask(offset), val)]

\* bit_table; its index is a signed char, so that a byte with the highest bit
\* set reads what is before the table.
BitsIn(byte) == Cardinality(byte)
OutsideTable(byte) == ByteBits \in byte

bss_count_bit(bss) ==
    IF \E i \in 1..bss.len : OutsideTable(Contents(bss)[i]) THEN Wild
    ELSE FoldLeft(LAMBDA n, b : n + BitsIn(b), 0, Contents(bss))

-----------------------------------------------------------------------------

\* A string that is too small is replaced by a longer one, with zeros between its
\* end and the offset.  Within the memory it has, what is there stays.
\* A negative offset is a very large size_t.  The sum with the length of the data,
\* or with that and the header, is small again, and the bytes are written before the
\* string; otherwise it is too large for any allocation.
bss_setrange(bss, offset, data) ==
    LET new_len == offset + Len(data)
        old == SubSeq(Contents(bss), 1, IF bss.len > offset THEN offset ELSE bss.len)
    IN  IF data = <<>> THEN bss
        ELSE IF offset < 0 THEN IF new_len + Header + 1 >= 0 THEN Wild ELSE NULL
        ELSE IF new_len > bsssize(bss)
        THEN Bss(new_len, 0,
                 memcpy(memcpy(bss_create_empty(new_len).str, 0, old), offset, data))
        ELSE IF new_len > bss.len
        THEN Bss(new_len, bsssize(bss) - new_len,
                 [memcpy(bss.str, offset, data) EXCEPT ![new_len] = NUL])
        ELSE [bss EXCEPT !.str = memcpy(@, offset, data)]
=============================================================================
