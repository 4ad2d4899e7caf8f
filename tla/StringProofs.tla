---------------------------- MODULE StringProofs ----------------------------
(* Theorems about StringCommands, for every value of its constants. *)
EXTENDS StringCommands, TLAPS, Lemmas

\* Memory with the offsets 0..n.
Memory(str, n) == str \in [0..n -> Byte]

\* A string whose memory has room for len + free bytes and the terminator, which
\* is in place, and for an integer.
Sound(b) ==
    /\ b = Bss(b.len, b.free, b.str)
    /\ b.len \in Nat /\ b.free \in Nat
    /\ b.len + b.free >= MinLen
    /\ \E n \in Nat : b.len + b.free <= n /\ Memory(b.str, n)
    /\ b.str[b.len] = NUL

\* The inductive invariant: the type of the state, and what RoomKept says in terms of
\* the size of the memory.
StringInv ==
    /\ type \in {"none", "string", "other"}
    /\ type # "string" => bss = NULL
    /\ type = "string" => Sound(bss) /\ bss.len <= MaxLen
    /\ reply.ret \in {"none", "ok", "int", "str", "fail", "down"}

-----------------------------------------------------------------------------
(* Arithmetic and memory *)

LEMMA MinLenNat == MinLen \in Nat /\ MinLen >= 1
    BY BssAssumption

LEMMA NULByte == NUL \in Byte
    BY DEF NUL, Byte

\* A string is neither NULL nor Wild.
LEMMA SoundIsString == \A b : Sound(b) => b \notin {NULL, Wild}
    BY DEF Sound, NULL, Wild, Bss

\* Writing into memory keeps its size.
LEMMA MemoryKept ==
    ASSUME NEW n \in Nat, NEW str, Memory(str, n)
    PROVE  /\ \A off, len : Memory(memset(str, off, len), n)
           /\ \A off \in 0..n, v \in Byte : /\ Memory([str EXCEPT ![off] = v], n)
                                             /\ [str EXCEPT ![off] = v][off] = v
<1>1. ASSUME NEW off, NEW len PROVE Memory(memset(str, off, len), n)
    BY NULByte DEF Memory, memset
<1>2. QED BY <1>1 DEF Memory

\* The memory t has the bytes of data from off on, and for the rest is that of str.
IsCopy(t, str, off, data, n) ==
    \A i \in 0..n : t[i] = IF i >= off /\ i < off + Len(data) THEN data[i - off + 1] ELSE str[i]

\* memcpy keeps the size of memory, and what is outside the bytes that it writes.
LEMMA CopyIs ==
    ASSUME NEW n \in Nat, NEW str, Memory(str, n), NEW off \in Nat, NEW data \in Seq(Byte)
    PROVE  /\ Memory(memcpy(str, off, data), n)
           /\ IsCopy(memcpy(str, off, data), str, off, data, n)
<1> DEFINE l == Len(data)
<1>1. l \in Nat /\ \A i \in 1..l : data[i] \in Byte
    OBVIOUS
<1>2. \A i \in 0..n : /\ i \in off..(off + l - 1) <=> i >= off /\ i < off + l
                      /\ i >= off /\ i < off + l => i - off + 1 \in 1..l
    BY <1>1
<1>3. DOMAIN str = 0..n /\ \A i \in 0..n : str[i] \in Byte
    BY DEF Memory
<1>4. memcpy(str, off, data) =
          [i \in 0..n |-> IF i >= off /\ i < off + l THEN data[i - off + 1] ELSE str[i]]
    BY <1>2, <1>3 DEF memcpy
<1> HIDE DEF l
<1>5. \A i \in 0..n : (IF i >= off /\ i < off + l THEN data[i - off + 1] ELSE str[i]) \in Byte
    BY <1>1, <1>2, <1>3
<1>6. memcpy(str, off, data) \in [0..n -> Byte]
    BY <1>4, <1>5
<1>7. QED BY <1>4, <1>6 DEF Memory, IsCopy, l

LEMMA MallocMemory ==
    ASSUME NEW n \in Nat, NEW f \in Byte
    PROVE  Memory(malloc(n + 1, f), n)
BY DEF Memory, malloc

LEMMA CallocMemory ==
    ASSUME NEW n \in Nat
    PROVE  Memory(calloc(n + 1), n) /\ \A i \in 0..n : calloc(n + 1)[i] = NUL
BY NULByte DEF Memory, malloc, calloc

\* What makes a string sound.
LEMMA MakeSound ==
    ASSUME NEW len \in Nat, NEW free \in Nat, NEW n \in Nat, NEW str,
           Memory(str, n), len + free <= n, len + free >= MinLen,
           str[len] = NUL
    PROVE  Sound(Bss(len, free, str))
BY DEF Sound, Bss

\* What a sound string is.
LEMMA SoundHas ==
    ASSUME NEW b, Sound(b)
    PROVE  /\ b = Bss(b.len, b.free, b.str) /\ b.str[b.len] = NUL
           /\ b.len \in Nat /\ b.free \in Nat /\ b.len + b.free \in Nat
           /\ b.len + b.free >= MinLen /\ b.len <= b.len + b.free
           /\ bsssize(b) = b.len + b.free
           /\ \E n \in Nat : b.len + b.free <= n /\ Memory(b.str, n)
BY MinLenNat DEF Sound, bsssize

\* What a string holds is a sequence of bytes as long as the string says.
LEMMA ContentsIs ==
    ASSUME NEW b, Sound(b)
    PROVE  /\ Contents(b) \in Seq(Byte) /\ Len(Contents(b)) = b.len
           /\ \A i \in 1..b.len : Contents(b)[i] = b.str[i - 1] /\ b.str[i - 1] \in Byte
<1>1. PICK n \in Nat : b.len <= n /\ b.str \in [0..n -> Byte] /\ b.len \in Nat
    BY SoundHas DEF Memory
<1>2. \A i \in 1..b.len : b.str[i - 1] \in Byte
    BY <1>1
<1> DEFINE s == Contents(b)
<1>3. s \in [1..b.len -> Byte] /\ \A i \in 1..b.len : s[i] = b.str[i - 1]
    BY <1>2, Zenon DEF Contents
<1> HIDE DEF s
<1>4. s \in Seq(Byte) /\ Len(s) = b.len
    BY <1>1, <1>3
<1>5. QED BY <1>2, <1>3, <1>4 DEF s

\* Two sequences of the same length and elements are equal.
LEMMA SameBytes ==
    ASSUME NEW s \in Seq(Byte), NEW t \in Seq(Byte), Len(s) = Len(t),
           \A i \in 1..Len(s) : s[i] = t[i]
    PROVE  s = t
OBVIOUS

\* The string with the bytes of data at the beginning of memory, and what it holds.
LEMMA CopySound ==
    ASSUME NEW data \in Seq(Byte), NEW n \in Nat, NEW str, Memory(str, n), NEW free \in Nat,
           Len(data) + free <= n, Len(data) + free >= MinLen
    PROVE  LET b == Bss(Len(data), free, [memcpy(str, 0, data) EXCEPT ![Len(data)] = NUL])
           IN  Sound(b) /\ Contents(b) = data
<1> DEFINE len == Len(data)
           copied == memcpy(str, 0, data)
           end == [copied EXCEPT ![len] = NUL]
           b == Bss(len, free, end)
<1>1. len \in Nat /\ len \in 0..n /\ \A i \in 1..len : i - 1 \in 0..n /\ i - 1 # len
    OBVIOUS
<1>2. Memory(copied, n) /\ \A i \in 1..len : copied[i - 1] = data[i]
    <2>1. Memory(copied, n)
        BY CopyIs
    <2>2. ASSUME NEW i \in 1..len PROVE copied[i - 1] = data[i]
        <3>1. PICK j \in 0..n : j = i - 1
            BY <1>1
        <3>2. PICK z \in Nat : z = 0
            OBVIOUS
        <3>3. copied = memcpy(str, z, data) /\ IsCopy(memcpy(str, z, data), str, z, data, n)
            BY <3>2, CopyIs
        <3>4. j >= z /\ j < z + len /\ j - z + 1 = i
            BY <1>1, <3>1, <3>2
        <3>5. QED BY <3>1, <3>3, <3>4 DEF IsCopy
    <2>3. QED BY <2>1, <2>2
<1> HIDE DEF copied
<1>3. Memory(end, n) /\ end[len] = NUL /\ \A i \in 1..len : end[i - 1] = data[i]
    <2>1. Memory(end, n) /\ end[len] = NUL
        BY <1>1, <1>2, NULByte, MemoryKept
    <2>2. DOMAIN copied = 0..n
        BY <1>2 DEF Memory
    <2>3. QED BY <1>1, <1>2, <2>1, <2>2
<1> HIDE DEF end, len
<1>4. Sound(b)
    BY <1>1, <1>3, MakeSound DEF len
<1>5. b.len = len /\ b.str = end
    BY DEF Bss
<1> HIDE DEF b
<1>6. Contents(b) = data
    <2>1. Contents(b) \in Seq(Byte) /\ Len(Contents(b)) = len
        BY <1>4, <1>5, ContentsIs
    <2>2. \A i \in 1..len : Contents(b)[i] = data[i]
        BY <1>3, <1>4, <1>5, ContentsIs
    <2>3. QED BY <2>1, <2>2, SameBytes DEF len
<1>7. QED BY <1>4, <1>6 DEF b, end, copied, len

-----------------------------------------------------------------------------
(* The operations of bss.c: the string that each makes is sound and holds what it *)
(* should.                                                                        *)

LEMMA CreateHolds ==
    ASSUME NEW data \in Seq(Byte), NEW f \in Byte
    PROVE  Sound(bss_create(data, f)) /\ Contents(bss_create(data, f)) = data
<1> DEFINE n == MaxOf(Len(data), MinLen)
           str == malloc(n + 1, f)
<1>1. n \in Nat /\ Len(data) \in Nat /\ n >= Len(data) /\ n >= MinLen
    BY MinLenNat DEF MaxOf
<1>2. bss_create(data, f) =
          Bss(Len(data), n - Len(data), [memcpy(str, 0, data) EXCEPT ![Len(data)] = NUL])
    BY DEF bss_create
<1> HIDE DEF n
<1>3. Memory(str, n)
    BY <1>1, MallocMemory
<1> HIDE DEF str
<1>4. PICK free \in Nat : free = n - Len(data)
    BY <1>1
<1>5. Len(data) + free <= n /\ Len(data) + free >= MinLen
    BY <1>1, <1>4
<1>6. QED BY <1>1, <1>2, <1>3, <1>4, <1>5, CopySound

LEMMA CreateEmptyHolds ==
    ASSUME NEW len \in Nat
    PROVE  /\ Sound(bss_create_empty(len)) /\ Contents(bss_create_empty(len)) = <<>>
           /\ bss_create_empty(len).len = 0
           /\ bss_create_empty(len).str = calloc(MaxOf(len, MinLen) + 1)
<1> DEFINE n == MaxOf(len, MinLen)
           b == bss_create_empty(len)
<1>1. n \in Nat /\ n >= MinLen
    BY MinLenNat DEF MaxOf
<1>2. b = Bss(0, n, calloc(n + 1))
    BY DEF bss_create_empty
<1> HIDE DEF n, b
<1>3. Memory(calloc(n + 1), n) /\ calloc(n + 1)[0] = NUL
    <2>1. 0 \in 0..n
        BY <1>1
    <2>2. QED BY <1>1, <2>1, CallocMemory
<1>4. Sound(b)
    BY <1>1, <1>2, <1>3, MakeSound
<1>5. b.len = 0 /\ b.str = calloc(n + 1)
    BY <1>2 DEF Bss
<1>6. Contents(b) = <<>>
    BY <1>4, <1>5, ContentsIs
<1>7. QED BY <1>4, <1>5, <1>6 DEF b, n

LEMMA SetHolds ==
    ASSUME NEW b, Sound(b), NEW data \in Seq(Byte), NEW f \in Byte
    PROVE  Sound(bss_set(b, data, f)) /\ Contents(bss_set(b, data, f)) = data
<1> DEFINE size == b.len + b.free
           new_len == MaxOf(2 * size, Len(data))
<1>1. PICK len \in Nat : len = Len(data)
    OBVIOUS
<1>2. size \in Nat /\ bsssize(b) = size /\ size >= MinLen
    BY SoundHas
<1>3. CASE len > size
    <2> DEFINE str == malloc(new_len + 2, f)
    <2>1. new_len \in Nat /\ new_len >= len /\ new_len >= MinLen
        BY <1>1, <1>2, <1>3, MinLenNat DEF MaxOf
    <2>2. bss_set(b, data, f) =
              Bss(Len(data), new_len - len, [memcpy(str, 0, data) EXCEPT ![Len(data)] = NUL])
        BY <1>1, <1>2, <1>3 DEF bss_set
    <2> HIDE DEF new_len
    <2>3. PICK n \in Nat, free \in Nat : n = new_len + 1 /\ free = new_len - len
        BY <2>1
    <2>4. n + 1 = new_len + 2 /\ len + free <= n /\ len + free >= MinLen
        BY <2>1, <2>3, MinLenNat
    <2>5. Memory(str, n)
        BY <2>4, MallocMemory
    <2> HIDE DEF str
    <2>6. QED BY <1>1, <2>2, <2>3, <2>4, <2>5, CopySound
<1>4. CASE ~(len > size)
    <2>1. PICK n \in Nat : size <= n /\ Memory(b.str, n)
        BY SoundHas
    <2>2. bss_set(b, data, f) =
              Bss(Len(data), size - len, [memcpy(b.str, 0, data) EXCEPT ![Len(data)] = NUL])
        BY <1>1, <1>2, <1>4 DEF bss_set
    <2> HIDE DEF size
    <2>3. PICK free \in Nat : free = size - len
        BY <1>2, <1>4
    <2>4. len + free <= n /\ len + free >= MinLen
        BY <1>2, <1>4, <2>1, <2>3, MinLenNat
    <2>5. QED BY <1>1, <2>1, <2>2, <2>3, <2>4, CopySound
<1>5. QED BY <1>3, <1>4

\* An append that does not fit returns NULL, any other what it should.
LEMMA AppendHolds ==
    ASSUME NEW b, Sound(b), NEW data \in Seq(Byte)
    PROVE  LET r == bss_append(b, data)
           IN  IF b.free < Len(data) THEN r = NULL
               ELSE Sound(r) /\ Contents(r) = Contents(b) \o data
<1>1. SUFFICES ASSUME ~(b.free < Len(data))
               PROVE  /\ Sound(bss_append(b, data))
                      /\ Contents(bss_append(b, data)) = Contents(b) \o data
    BY DEF bss_append
<1> DEFINE old == b.len
           str == memcpy(b.str, old, data)
           end == [str EXCEPT ![old + Len(data)] = NUL]
           r == Bss(old + Len(data), b.free - Len(data), end)
<1>2. bss_append(b, data) = r
    BY <1>1 DEF bss_append
<1>3. /\ old \in Nat /\ b.free \in Nat /\ old + b.free >= MinLen /\ Len(data) \in Nat
      /\ \A i \in 1..Len(data) : data[i] \in Byte
    BY SoundHas, MinLenNat
<1>4. PICK len \in Nat, free \in Nat :
          len = old + Len(data) /\ free = b.free - Len(data) /\ len + free = old + b.free
    BY <1>1, <1>3
<1>5. PICK n \in Nat : old + b.free <= n /\ Memory(b.str, n)
    BY SoundHas
<1>6. len \in 0..n
    BY <1>4, <1>5
<1>7. Memory(str, n) /\ IsCopy(str, b.str, old, data, n)
    BY <1>3, <1>5, CopyIs
<1> HIDE DEF str
<1>8. /\ Memory(end, n) /\ end[len] = NUL
      /\ \A i \in 1..len : end[i - 1] = IF i <= old THEN b.str[i - 1] ELSE data[i - old]
    <2>1. Memory(end, n) /\ end[len] = NUL
        BY <1>4, <1>6, <1>7, NULByte, MemoryKept
    <2>2. DOMAIN str = 0..n
        BY <1>7 DEF Memory
    <2>3. ASSUME NEW i \in 1..len
          PROVE  end[i - 1] = IF i <= old THEN b.str[i - 1] ELSE data[i - old]
        <3>1. PICK j \in 0..n : j = i - 1 /\ j # len
            BY <1>6
        <3>2. end[j] = str[j]
            BY <1>4, <2>2, <3>1
        <3>3. str[j] = IF j >= old /\ j < old + Len(data) THEN data[j - old + 1] ELSE b.str[j]
            BY <1>7 DEF IsCopy
        <3>4. CASE i <= old
            <4>1. ~(j >= old)
                BY <1>3, <3>1, <3>4
            <4>2. QED BY <3>1, <3>2, <3>3, <3>4, <4>1
        <3>5. CASE ~(i <= old)
            <4>1. j >= old /\ j < old + Len(data) /\ j - old + 1 = i - old
                BY <1>3, <1>4, <3>1, <3>5
            <4>2. QED BY <3>1, <3>2, <3>3, <3>5, <4>1
        <3>6. QED BY <3>4, <3>5
    <2>4. QED BY <2>1, <2>3
<1> HIDE DEF end
<1>9. Sound(r) /\ r.len = len /\ r.str = end
    <2>1. Sound(Bss(len, free, end))
        BY <1>3, <1>4, <1>5, <1>8, MakeSound
    <2>2. r = Bss(len, free, end)
        BY <1>4
    <2>3. QED BY <2>1, <2>2 DEF Bss
<1> HIDE DEF r
<1>10. Contents(r) = Contents(b) \o data
    <2> DEFINE s == Contents(b)
               t == Contents(r)
    <2>1. s \in Seq(Byte) /\ Len(s) = old /\ \A i \in 1..old : s[i] = b.str[i - 1]
        BY ContentsIs
    <2>2. t \in Seq(Byte) /\ Len(t) = len /\ \A i \in 1..len : t[i] = end[i - 1]
        BY <1>9, ContentsIs
    <2> HIDE DEF s, t, old
    <2>3. /\ s \o data \in Seq(Byte) /\ Len(s \o data) = len
          /\ \A i \in 1..len : (s \o data)[i] = IF i <= old THEN s[i] ELSE data[i - old]
        BY <1>3, <1>4, <2>1, ConcatProperties
    <2>4. ASSUME NEW i \in 1..len PROVE t[i] = (s \o data)[i]
        <3>1. i <= old => i \in 1..old
            BY <1>3
        <3>2. QED BY <1>8, <2>1, <2>2, <2>3, <3>1
    <2>5. t = s \o data
        BY <2>2, <2>3, <2>4, SameBytes
    <2>6. QED BY <2>5 DEF s, t
<1>11. QED BY <1>2, <1>9, <1>10

\* A text of a float has one dot, which is not in front.
LEMMA FloatTextHas ==
    ASSUME NEW t \in FloatText
    PROVE  /\ t \in Seq(Byte)
           /\ \E dot \in 2..Len(t) : /\ t[dot] = CharDot
                                     /\ \A j \in 1..Len(t) : t[j] = CharDot => j = dot
<1>1. t \in Seq(Byte) /\ t[1] # CharDot /\ CharDot \notin Digit
    BY StringAssumption
<1>2. PICK i \in 1..Len(t) : /\ t[i] = CharDot
                             /\ \A j \in 1..Len(t) : t[j] \in Digit \/ j = i
    BY StringAssumption
<1>3. i \in 2..Len(t)
    BY <1>1, <1>2
<1>4. QED BY <1>1, <1>2, <1>3

\* There is a first place from which only zeros follow, so that the choice that
\* bss_cut_zero makes exists; the dot stops it, and goes if only zeros follow.  What is
\* cut is room that the string keeps.
LEMMA CutHolds ==
    ASSUME NEW b, Sound(b), Contents(b) \in FloatText
    PROVE  /\ Sound(bss_cut_zero(b))
           /\ Abs!Canonical(Contents(b), Contents(bss_cut_zero(b)))
<1> DEFINE t == Contents(b)
           Zeros(n) == \A i \in n..(b.len - 1) : b.str[i] = CharZero
           First(n) == Zeros(n) /\ (n = 1 \/ ~Zeros(n - 1))
           cut == CHOOSE n \in 1..b.len : First(n)
           len == IF b.str[cut - 1] = CharDot THEN cut - 1 ELSE cut
           size == b.len + b.free
           end == [b.str EXCEPT ![len] = NUL]
           r == Bss(len, size - len, end)
<1>1. b.len \in Nat /\ b.free \in Nat /\ size \in Nat /\ size >= MinLen /\ b.len <= size
    BY SoundHas
<1>2. /\ t \in Seq(Byte) /\ Len(t) = b.len
      /\ \A i \in 1..b.len : t[i] = b.str[i - 1]
    BY ContentsIs
<1>3. PICK dot \in 2..b.len : /\ t[dot] = CharDot
                              /\ \A j \in 1..b.len : t[j] = CharDot => j = dot
    BY <1>2, FloatTextHas
<1> HIDE DEF t
<1>4. \E n \in 1..b.len : First(n)
    <2> DEFINE T == {n \in 1..b.len : Zeros(n)}
    <2>1. b.len \in 1..b.len
        BY <1>1, <1>3
    <2>2. CASE Zeros(b.len)
        <3>1. T \subseteq Nat /\ T # {}
            BY <2>1, <2>2
        <3>2. PICK x \in T : \A y \in T : x <= y
            <4> HIDE DEF T
            <4>1. QED BY <3>1, MinOfNats
        <3>3. x \in 1..b.len /\ Zeros(x)
            BY <3>2
        <3>4. CASE x = 1
            BY <3>3, <3>4
        <3>5. CASE x # 1
            <4>1. x - 1 \in 1..b.len /\ ~(x <= x - 1)
                BY <1>1, <3>3, <3>5
            <4>2. x - 1 \notin T
                <5> HIDE DEF T
                <5>1. QED BY <3>2, <4>1
            <4>3. ~Zeros(x - 1)
                BY <4>1, <4>2 DEF T
            <4>4. QED BY <3>3, <4>3
        <3>6. QED BY <3>4, <3>5
    <2>3. Zeros(b.len)
        BY <1>1
    <2>4. QED BY <2>2, <2>3
<1> HIDE DEF First
<1>5. cut \in 1..b.len /\ First(cut)
    BY <1>4
<1>6. bss_cut_zero(b) = r
    BY DEF bss_cut_zero, bsssize, First
<1> HIDE DEF cut
<1>7. \A i \in (cut + 1)..b.len : t[i] = CharZero
    <2>1. ASSUME NEW i \in (cut + 1)..b.len PROVE t[i] = CharZero
        <3>1. i - 1 \in cut..(b.len - 1) /\ i \in 1..b.len
            BY <1>1, <1>5
        <3>2. QED BY <1>2, <1>5, <3>1 DEF First
    <2>2. QED BY <2>1
<1>8. cut >= dot
    <2>1. SUFFICES ASSUME cut < dot PROVE FALSE
        BY <1>3, <1>5
    <2>2. dot \in (cut + 1)..b.len
        BY <1>3, <1>5, <2>1
    <2>3. t[dot] = CharZero
        BY <1>7, <2>2
    <2>4. QED BY <1>3, <2>3, BssAssumption
<1>9. b.str[cut - 1] = t[cut] /\ (t[cut] = CharDot <=> cut = dot)
    BY <1>2, <1>3, <1>5
<1>10. len = (IF cut = dot THEN cut - 1 ELSE cut) /\ len \in 0..b.len /\ len \in Nat
    BY <1>1, <1>5, <1>9
<1>11. cut # dot => t[cut] # CharZero
    <2>1. SUFFICES ASSUME cut # dot PROVE t[cut] # CharZero
        OBVIOUS
    <2>2. cut # 1 /\ cut - 1 \in Nat /\ cut \in Nat
        BY <1>3, <1>5, <1>8, <2>1
    <2>3. PICK i \in (cut - 1)..(b.len - 1) : b.str[i] # CharZero
        BY <1>5, <2>2 DEF First
    <2>4. i + 1 \in 1..b.len /\ (i + 1) - 1 = i /\ i + 1 >= cut
        BY <1>1, <1>5, <2>2, <2>3
    <2>5. t[i + 1] # CharZero
        BY <1>2, <2>3, <2>4
    <2>6. i + 1 \notin (cut + 1)..b.len
        BY <1>7, <2>5
    <2>7. i + 1 = cut
        BY <2>2, <2>4, <2>6
    <2>8. QED BY <2>5, <2>7
<1> HIDE DEF len
<1>12. Sound(r) /\ r.len = len /\ \A i \in 1..len : r.str[i - 1] = b.str[i - 1]
    <2>1. PICK n \in Nat : size <= n /\ Memory(b.str, n)
        BY SoundHas
    <2>2. len \in 0..n /\ size - len \in Nat /\ len + (size - len) = size
        BY <1>1, <1>10, <2>1
    <2>3. Memory(end, n) /\ end[len] = NUL
        BY <2>1, <2>2, NULByte, MemoryKept
    <2>4. \A i \in 1..len : end[i - 1] = b.str[i - 1]
        <3>1. \A i \in 1..len : i - 1 \in 0..n /\ i - 1 # len
            BY <2>2
        <3>2. QED BY <2>1, <3>1 DEF Memory
    <2> HIDE DEF end
    <2>5. Sound(Bss(len, size - len, end))
        BY <1>1, <1>10, <2>1, <2>2, <2>3, MakeSound
    <2>6. QED BY <2>4, <2>5 DEF Bss
<1> HIDE DEF r
<1> DEFINE s == Contents(r)
<1>13. s \in Seq(Byte) /\ Len(s) = len /\ \A i \in 1..len : s[i] = t[i]
    <2>1. s \in Seq(Byte) /\ Len(s) = len /\ \A i \in 1..len : s[i] = r.str[i - 1]
        BY <1>12, ContentsIs
    <2>2. \A i \in 1..len : i \in 1..b.len
        BY <1>1, <1>10
    <2>3. QED BY <1>2, <1>12, <2>1, <2>2
<1> HIDE DEF s
<1>14. s = SubSeq(t, 1, len)
    <2>1. /\ SubSeq(t, 1, len) \in Seq(Byte) /\ Len(SubSeq(t, 1, len)) = len
          /\ \A i \in 1..len : SubSeq(t, 1, len)[i] = t[i]
        BY <1>2, <1>10
    <2>2. QED BY <1>13, <2>1, SameBytes
<1>15. dot = CHOOSE i \in 1..Len(t) : t[i] = CharDot
    BY <1>2, <1>3
<1>16. Abs!Canonical(t, s)
    <2>1. len >= dot - 1 /\ len <= b.len /\ len # dot
        BY <1>1, <1>3, <1>5, <1>8, <1>10
    <2>2. \A i \in (len + 1)..b.len : t[i] = CharZero \/ i = dot
        <3>1. \A i \in (len + 1)..b.len : i \in (cut + 1)..b.len \/ i = dot
            BY <1>1, <1>3, <1>5, <1>8, <1>10
        <3>2. QED BY <1>7, <3>1
    <2>3. len > dot => s[len] # CharZero
        <3>1. SUFFICES ASSUME len > dot PROVE s[len] # CharZero
            OBVIOUS
        <3>2. len = cut /\ cut # dot /\ len \in 1..len
            BY <1>3, <1>5, <1>10, <3>1
        <3>3. QED BY <1>11, <1>13, <3>2
    <2>4. QED BY <1>2, <1>13, <1>14, <1>15, <2>1, <2>2, <2>3 DEF Abs!Canonical
<1>17. QED BY <1>6, <1>12, <1>16 DEF s, t

\* r is b with the bytes of data written from offset on; what is between the end of b
\* and offset is left open.
IsWritten(r, b, offset, data) ==
    /\ Sound(r)
    /\ r.len = MaxOf(b.len, offset + Len(data))
    /\ \A i \in 1..r.len :
          /\ i > offset /\ i <= offset + Len(data) => r.str[i - 1] = data[i - offset]
          /\ ~(i > offset /\ i <= offset + Len(data)) /\ i <= b.len => r.str[i - 1] = b.str[i - 1]

\* Memory that has the data at offset and what was there before elsewhere is enough.
LEMMA MakeWritten ==
    ASSUME NEW b, Sound(b), NEW offset \in Nat, NEW data \in Seq(Byte),
           NEW r, Sound(r), r.len = MaxOf(b.len, offset + Len(data)),
           NEW n \in Nat, r.len <= n, NEW str, IsCopy(r.str, str, offset, data, n),
           \A i \in 0..(b.len - 1) : i < offset \/ i >= offset + Len(data) => str[i] = b.str[i]
    PROVE  IsWritten(r, b, offset, data)
<1>1. b.len \in Nat /\ r.len \in Nat /\ Len(data) \in Nat
    BY SoundHas
<1>2. ASSUME NEW i \in 1..r.len
      PROVE  /\ i > offset /\ i <= offset + Len(data) => r.str[i - 1] = data[i - offset]
             /\ ~(i > offset /\ i <= offset + Len(data)) /\ i <= b.len => r.str[i - 1] = b.str[i - 1]
    <2>1. PICK j \in 0..n : j = i - 1
        BY <1>1
    <2>2. r.str[j] = IF j >= offset /\ j < offset + Len(data) THEN data[j - offset + 1] ELSE str[j]
        BY DEF IsCopy
    <2>3. CASE i > offset /\ i <= offset + Len(data)
        <3>1. j >= offset /\ j < offset + Len(data) /\ j - offset + 1 = i - offset
            BY <1>1, <2>1, <2>3
        <3>2. QED BY <2>1, <2>2, <2>3, <3>1
    <2>4. CASE ~(i > offset /\ i <= offset + Len(data)) /\ i <= b.len
        <3>1. ~(j >= offset /\ j < offset + Len(data)) /\ j \in 0..(b.len - 1)
              /\ (j < offset \/ j >= offset + Len(data))
            BY <1>1, <2>1, <2>4
        <3>2. QED BY <2>1, <2>2, <2>4, <3>1
    <2>5. QED BY <2>3, <2>4
<1>3. QED BY <1>2 DEF IsWritten

LEMMA SetrangeHolds ==
    ASSUME NEW b, Sound(b), NEW offset \in Nat, NEW data \in Seq(Byte), data # <<>>
    PROVE  IsWritten(bss_setrange(b, offset, data), b, offset, data)
<1> DEFINE size == b.len + b.free
           part == IF b.len > offset THEN offset ELSE b.len
           old == SubSeq(Contents(b), 1, part)
           r == bss_setrange(b, offset, data)
<1>1. b = Bss(b.len, b.free, b.str) /\ b.len \in Nat /\ b.free \in Nat
      /\ size \in Nat /\ size >= MinLen /\ b.len <= size /\ b.str[b.len] = NUL
      /\ bsssize(b) = size
    BY SoundHas
<1>2. PICK n \in Nat : size <= n /\ Memory(b.str, n)
    BY SoundHas
<1>3. PICK new_len \in Nat : new_len = offset + Len(data) /\ new_len > offset
    <2>1. Len(data) \in Nat /\ Len(data) > 0
        OBVIOUS
    <2>2. QED BY <2>1
<1>4. Len(data) \in Nat /\ ~(offset < 0)
    OBVIOUS
<1> HIDE DEF size
<1>5. CASE new_len > size
    <2> DEFINE empty == bss_create_empty(new_len).str
               copied == memcpy(empty, 0, old)
               all == memcpy(copied, offset, data)
    <2>1. r = Bss(new_len, 0, all)
        BY <1>1, <1>3, <1>4, <1>5 DEF bss_setrange
    <2> HIDE DEF r
    <2>2. MaxOf(new_len, MinLen) = new_len /\ MaxOf(b.len, new_len) = new_len /\ new_len >= MinLen
        BY <1>1, <1>5, MinLenNat DEF MaxOf
    <2>3. Memory(empty, new_len) /\ empty[new_len] = NUL
        <3>1. empty = calloc(new_len + 1)
            BY <2>2, CreateEmptyHolds
        <3>2. new_len \in 0..new_len
            OBVIOUS
        <3>3. QED BY <3>1, <3>2, CallocMemory
    <2> HIDE DEF empty
    <2>4. /\ old \in Seq(Byte) /\ Len(old) = part /\ part \in Nat /\ part <= offset /\ part <= b.len
          /\ \A i \in 1..part : old[i] = b.str[i - 1]
        <3> DEFINE s == Contents(b)
        <3>1. s \in Seq(Byte) /\ Len(s) = b.len /\ \A i \in 1..b.len : s[i] = b.str[i - 1]
            BY ContentsIs
        <3>2. part \in 0..b.len /\ part <= offset
            BY <1>1
        <3> HIDE DEF s, part
        <3>3. /\ SubSeq(s, 1, part) \in Seq(Byte) /\ Len(SubSeq(s, 1, part)) = part
              /\ \A i \in 1..part : SubSeq(s, 1, part)[i] = s[i]
            BY <1>1, <3>1, <3>2
        <3>4. \A i \in 1..part : i \in 1..b.len
            BY <1>1, <3>2
        <3>5. QED BY <1>1, <3>1, <3>2, <3>3, <3>4 DEF s
    <2>5. b.len > offset => part = offset
        OBVIOUS
    <2>6. ~(b.len > offset) => part = b.len
        OBVIOUS
    <2> HIDE DEF old, part
    <2>7. PICK z \in Nat : z = 0
        OBVIOUS
    <2>8. copied = memcpy(empty, z, old) /\ Memory(copied, new_len) /\ IsCopy(copied, empty, z, old, new_len)
        <3>1. copied = memcpy(empty, z, old)
            BY <2>7
        <3>2. Memory(memcpy(empty, z, old), new_len) /\ IsCopy(memcpy(empty, z, old), empty, z, old, new_len)
            BY <2>3, <2>4, CopyIs
        <3> HIDE DEF copied
        <3>3. QED BY <3>1, <3>2
    <2> HIDE DEF copied
    <2>9. ASSUME NEW i \in 0..new_len
          PROVE copied[i] = IF i < part THEN b.str[i] ELSE empty[i]
        <3>1. copied[i] = IF i >= z /\ i < z + Len(old) THEN old[i - z + 1] ELSE empty[i]
            BY <2>8 DEF IsCopy
        <3>2. (i >= z /\ i < z + Len(old)) <=> i < part
            BY <2>4, <2>7
        <3>3. i < part => i - z + 1 \in 1..part /\ (i - z + 1) - 1 = i
            BY <2>4, <2>7
        <3>4. i < part => old[i - z + 1] = b.str[i]
            <4>1. SUFFICES ASSUME i < part PROVE old[i - z + 1] = b.str[i]
                OBVIOUS
            <4>2. PICK j \in 1..part : j = i - z + 1 /\ j - 1 = i
                BY <3>3, <4>1
            <4>3. QED BY <2>4, <4>2
        <3>5. QED BY <3>1, <3>2, <3>4
    <2>10. Memory(all, new_len) /\ IsCopy(all, copied, offset, data, new_len)
        BY <2>8, CopyIs
    <2> HIDE DEF all
    <2>11. all[new_len] = NUL
        <3>1. new_len \in 0..new_len /\ ~(new_len < offset + Len(data)) /\ ~(new_len < part)
            BY <1>3, <2>4
        <3>2. all[new_len] = copied[new_len]
            BY <2>10, <3>1 DEF IsCopy
        <3>3. QED BY <2>3, <2>9, <3>1, <3>2
    <2>12. Sound(r) /\ r.len = new_len /\ r.str = all
        <3>1. 0 \in Nat /\ new_len + 0 <= new_len /\ new_len + 0 >= MinLen
            BY <2>2
        <3>2. Sound(Bss(new_len, 0, all))
            BY <2>10, <2>11, <3>1, MakeSound
        <3>3. QED BY <2>1, <3>2 DEF Bss
    <2>13. ASSUME NEW i \in 0..(b.len - 1), i < offset \/ i >= offset + Len(data)
           PROVE  copied[i] = b.str[i]
        <3>1. i \in 0..new_len /\ i < part
            BY <1>1, <1>3, <1>5, <2>4, <2>5, <2>6, <2>13
        <3>2. QED BY <2>9, <3>1
    <2>14. r.len = MaxOf(b.len, offset + Len(data)) /\ r.len <= new_len
        BY <1>3, <2>2, <2>12
    <2>15. IsCopy(r.str, copied, offset, data, new_len)
        BY <2>10, <2>12
    <2> HIDE DEF r
    <2>16. IsWritten(r, b, offset, data)
        BY <2>12, <2>13, <2>14, <2>15, MakeWritten
    <2>17. QED BY <2>16 DEF r
<1>6. CASE ~(new_len > size)
    <2> DEFINE put == memcpy(b.str, offset, data)
               end == [put EXCEPT ![new_len] = NUL]
    <2>1. Memory(put, n) /\ IsCopy(put, b.str, offset, data, n)
        BY <1>2, CopyIs
    <2> HIDE DEF put
    <2>2. CASE new_len > b.len
        <3>1. r = Bss(new_len, size - new_len, end)
            BY <1>1, <1>3, <1>4, <1>6, <2>2 DEF bss_setrange, put
        <3> HIDE DEF r
        <3>2. new_len \in 0..n /\ size - new_len \in Nat /\ new_len + (size - new_len) = size
            BY <1>1, <1>2, <1>6
        <3>3. Memory(end, n) /\ end[new_len] = NUL
            BY <2>1, <3>2, NULByte, MemoryKept
        <3>4. \A i \in 0..n : i # new_len => end[i] = put[i]
            BY <2>1 DEF Memory
        <3> HIDE DEF end
        <3>5. Sound(r) /\ r.len = new_len /\ r.str = end
            <4>1. Sound(Bss(new_len, size - new_len, end))
                BY <1>1, <1>2, <3>2, <3>3, MakeSound
            <4>2. QED BY <3>1, <4>1 DEF Bss
        <3>6. IsCopy(end, [b.str EXCEPT ![new_len] = NUL], offset, data, n)
            <4>1. ASSUME NEW i \in 0..n
                  PROVE end[i] = IF i >= offset /\ i < offset + Len(data) THEN data[i - offset + 1]
                                 ELSE [b.str EXCEPT ![new_len] = NUL][i]
                <5>1. CASE i = new_len
                    <6>1. ~(i < offset + Len(data))
                        BY <1>3, <1>4, <5>1
                    <6>2. DOMAIN b.str = 0..n
                        BY <1>2 DEF Memory
                    <6>3. [b.str EXCEPT ![new_len] = NUL][i] = NUL
                        BY <3>2, <5>1, <6>2
                    <6>4. QED BY <3>3, <5>1, <6>1, <6>3
                <5>2. CASE i # new_len
                    <6>1. end[i] = put[i] /\ [b.str EXCEPT ![new_len] = NUL][i] = b.str[i]
                        BY <1>2, <3>4, <5>2 DEF Memory
                    <6>2. QED BY <2>1, <6>1 DEF IsCopy
                <5>3. QED BY <5>1, <5>2
            <4>2. QED BY <4>1 DEF IsCopy
        <3>7. \A i \in 0..(b.len - 1) : [b.str EXCEPT ![new_len] = NUL][i] = b.str[i]
            <4>1. \A i \in 0..(b.len - 1) : i \in 0..n /\ i # new_len
                BY <1>1, <1>2, <2>2
            <4>2. QED BY <1>2, <4>1 DEF Memory
        <3>8. r.len = MaxOf(b.len, offset + Len(data)) /\ r.len <= n
            BY <1>1, <1>3, <2>2, <3>2, <3>5 DEF MaxOf
        <3>9. PICK str : str = [b.str EXCEPT ![new_len] = NUL]
            OBVIOUS
        <3>10. /\ IsCopy(r.str, str, offset, data, n)
               /\ \A i \in 0..(b.len - 1) : i < offset \/ i >= offset + Len(data) => str[i] = b.str[i]
            BY <3>5, <3>6, <3>7, <3>9
        <3>11. IsWritten(r, b, offset, data)
            BY <3>5, <3>8, <3>10, MakeWritten
        <3>12. QED BY <3>11 DEF r
    <2>3. CASE ~(new_len > b.len)
        <3>1. r = Bss(b.len, b.free, put)
            <4>1. r = [b EXCEPT !.str = put]
                BY <1>1, <1>3, <1>4, <1>6, <2>3 DEF bss_setrange, put
            <4>2. QED BY <1>1, <4>1 DEF Bss
        <3> HIDE DEF r
        <3>2. b.len \in 0..n /\ ~(b.len < offset + Len(data))
            BY <1>1, <1>2, <1>3, <2>3
        <3>3. put[b.len] = NUL
            BY <1>1, <2>1, <3>2 DEF IsCopy
        <3>4. Sound(r) /\ r.len = b.len /\ r.str = put
            <4>1. Sound(Bss(b.len, b.free, put))
                BY <1>1, <1>2, <2>1, <3>3, MakeSound DEF size
            <4>2. QED BY <3>1, <4>1 DEF Bss
        <3>5. r.len = MaxOf(b.len, offset + Len(data)) /\ r.len <= n
            BY <1>1, <1>3, <2>3, <3>2, <3>4 DEF MaxOf
        <3>6. IsCopy(r.str, b.str, offset, data, n)
            BY <2>1, <3>4
        <3>7. IsWritten(r, b, offset, data)
            BY <3>4, <3>5, <3>6, MakeWritten
        <3>8. QED BY <3>7 DEF r
    <2>4. QED BY <2>2, <2>3
<1>7. QED BY <1>5, <1>6

\* The arithmetic of bss_getbit and bss_setbit on an offset that is not negative.
LEMMA BitPlace ==
    ASSUME NEW offset \in Nat
    PROVE  /\ ByteOf(offset) = offset \div ByteBits
           /\ BitMask(offset) = {ByteBits - (offset % ByteBits)}
           /\ offset \div ByteBits \in Nat
           /\ offset % ByteBits \in 0..(ByteBits - 1)
           /\ ByteBits - (offset % ByteBits) \in 1..ByteBits
           /\ offset = ByteBits * (offset \div ByteBits) + (offset % ByteBits)
<1> DEFINE B == ByteBits
           q == offset \div B
           r == offset % B
           p == (offset + 1) \div B
           u == (offset + 1) % B
<1>1. B \in Nat /\ B > 0
    BY BssAssumption
<1>2. q \in Nat /\ r \in 0..(B - 1) /\ offset = B * q + r
    BY <1>1
<1>3. p \in Nat /\ u \in 0..(B - 1) /\ offset + 1 = B * p + u
    BY <1>1
<1>4. ByteOf(offset) = p + (IF u # 0 THEN 1 ELSE 0) - 1
    BY DEF ByteOf
<1>5. BitMask(offset) = {B + 1 - (IF u = 0 THEN B ELSE u)}
    BY DEF BitMask, BitOf
<1> HIDE DEF q, r, p, u
<1>6. PICK x \in Int : x = p - q
    BY <1>2, <1>3
<1>7. B * x = r + 1 - u
    BY <1>1, <1>2, <1>3, <1>6
<1>8. x \in {0, 1}
    <2>1. B * x <= B /\ B * x > -B
        BY <1>1, <1>2, <1>3, <1>7
    <2>2. ~(x >= 2) /\ ~(x <= -1)
        BY <1>1, <2>1
    <2>3. QED BY <2>2
<1> HIDE DEF B
<1>9. CASE x = 0
    <2>1. p = q /\ u = r + 1 /\ u # 0
        BY <1>1, <1>2, <1>3, <1>6, <1>7, <1>9
    <2>2. p + 1 - 1 = q /\ B + 1 - u = B - r
        BY <1>1, <1>2, <1>3, <2>1
    <2>3. ByteOf(offset) = q /\ BitMask(offset) = {B - r}
        BY <1>4, <1>5, <2>1, <2>2
    <2>4. B - r \in 1..B
        BY <1>1, <1>2
    <2>5. QED BY <1>2, <2>3, <2>4 DEF B, q, r
<1>10. CASE x = 1
    <2>1. p = q + 1 /\ u = 0 /\ r = B - 1
        BY <1>1, <1>2, <1>3, <1>6, <1>7, <1>10
    <2>2. p + 0 - 1 = q /\ B + 1 - B = B - r
        BY <1>1, <1>2, <1>3, <2>1
    <2>3. ByteOf(offset) = q /\ BitMask(offset) = {B - r}
        BY <1>4, <1>5, <2>1, <2>2
    <2>4. B - r \in 1..B
        BY <1>1, <1>2
    <2>5. QED BY <1>2, <2>3, <2>4 DEF B, q, r
<1>11. QED BY <1>8, <1>9, <1>10

\* r has the byte of b at offset i with the bit set, and the bytes of b elsewhere, NUL after
\* its end; unless r did not fit into b and has NUL for all of them.
IsBitSet(r, b, offset, val) ==
    LET Kept(i) == IF i < b.len THEN b.str[i] ELSE NUL
        byte == ByteOf(offset)
    IN  /\ Sound(r)
        /\ r.len = MaxOf(b.len, byte + 1)
        /\ \/ \A i \in 0..(r.len - 1) :
                 r.str[i] = IF i = byte THEN WithBit(Kept(i), BitMask(offset), val) ELSE Kept(i)
           \/ /\ r.len > b.len /\ r.len > MinLen
              /\ \A i \in 0..(r.len - 1) :
                    r.str[i] = IF i = byte THEN WithBit(NUL, BitMask(offset), val) ELSE NUL

LEMMA WithBitByte ==
    ASSUME NEW offset \in Nat, NEW byte \in Byte, NEW val
    PROVE  WithBit(byte, BitMask(offset), val) \in Byte
BY BitPlace DEF WithBit, Byte

\* Writing a byte of a sound string.
LEMMA WriteHolds ==
    ASSUME NEW b, Sound(b), NEW byte \in Nat, byte < b.len, NEW v \in Byte
    PROVE  LET r == [b EXCEPT !.str[byte] = v]
           IN  /\ Sound(r) /\ r.len = b.len
               /\ \A i \in 0..(b.len - 1) : r.str[i] = IF i = byte THEN v ELSE b.str[i]
<1> DEFINE str == [b.str EXCEPT ![byte] = v]
           r == [b EXCEPT !.str[byte] = v]
<1>1. b = Bss(b.len, b.free, b.str) /\ b.len \in Nat /\ b.free \in Nat
      /\ b.len + b.free >= MinLen /\ b.str[b.len] = NUL
    BY SoundHas
<1>2. PICK n \in Nat : b.len + b.free <= n /\ Memory(b.str, n)
    BY SoundHas
<1>3. r = Bss(b.len, b.free, str)
    BY <1>1 DEF Bss
<1> HIDE DEF r
<1>4. byte \in 0..n /\ b.len \in 0..n /\ b.len # byte /\ \A i \in 0..(b.len - 1) : i \in 0..n
    BY <1>1, <1>2
<1>5. Memory(str, n)
    BY <1>2, <1>4, MemoryKept
<1>6. \A i \in 0..n : str[i] = IF i = byte THEN v ELSE b.str[i]
    BY <1>2 DEF Memory
<1> HIDE DEF str
<1>7. str[b.len] = NUL
    BY <1>1, <1>4, <1>6
<1>8. Sound(r) /\ r.len = b.len /\ r.str = str
    <2>1. Sound(Bss(b.len, b.free, str))
        BY <1>1, <1>2, <1>5, <1>7, MakeSound
    <2>2. QED BY <1>3, <2>1 DEF Bss
<1>9. QED BY <1>4, <1>6, <1>8 DEF r

LEMMA SetbitHolds ==
    ASSUME NEW b, Sound(b), NEW offset \in Nat, NEW val
    PROVE  IsBitSet(bss_setbit(b, offset, val), b, offset, val)
<1> DEFINE byte == ByteOf(offset)
           size == b.len + b.free
           grown == Bss(byte + 1, 0, bss_create_empty(byte + 1).str)
           zeros == memset(b.str, b.len, b.free)
           end == [zeros EXCEPT ![byte + 1] = NUL]
           stretched == Bss(byte + 1, size - (byte + 1), end)
           long == IF byte + 1 > size THEN grown
                   ELSE IF byte + 1 > b.len THEN stretched
                   ELSE b
           v == WithBit(long.str[byte], BitMask(offset), val)
           r == [long EXCEPT !.str[byte] = v]
           Kept(i) == IF i < b.len THEN b.str[i] ELSE NUL
<1>1. bss_setbit(b, offset, val) = r
    <2>1. offset # -1 /\ ~(offset < 0) /\ bsssize(b) = size
        BY SoundHas
    <2>2. QED BY <2>1 DEF bss_setbit
<1>2. byte \in Nat
    BY BitPlace
<1> HIDE DEF byte
<1>3. b.len \in Nat /\ b.free \in Nat /\ size \in Nat /\ size >= MinLen /\ b.len <= size
    BY SoundHas
<1>4. PICK n \in Nat : size <= n /\ Memory(b.str, n)
    BY SoundHas
<1>5. /\ Sound(long) /\ byte < long.len /\ long.len = MaxOf(b.len, byte + 1)
      /\ \/ \A i \in 0..(long.len - 1) : long.str[i] = Kept(i)
         \/ /\ long.len > b.len /\ long.len > MinLen
            /\ \A i \in 0..(long.len - 1) : long.str[i] = NUL
    <2>1. CASE byte + 1 > size
        <3>1. byte + 1 \in Nat /\ byte + 1 > MinLen /\ byte + 1 > b.len
            BY <1>2, <1>3, <2>1, MinLenNat
        <3>2. MaxOf(byte + 1, MinLen) = byte + 1 /\ MaxOf(b.len, byte + 1) = byte + 1
            BY <1>3, <3>1, MinLenNat DEF MaxOf
        <3>3. PICK str : str = calloc((byte + 1) + 1)
            OBVIOUS
        <3>4. Memory(str, byte + 1) /\ \A i \in 0..(byte + 1) : str[i] = NUL
            BY <3>1, <3>3, CallocMemory
        <3>5. str[byte + 1] = NUL
            BY <3>1, <3>4
        <3>6. long = Bss(byte + 1, 0, str)
            BY <2>1, <3>1, <3>2, <3>3, CreateEmptyHolds
        <3>7. Sound(Bss(byte + 1, 0, str))
            BY <3>1, <3>4, <3>5, MinLenNat, MakeSound
        <3> HIDE DEF long
        <3>8. long.len = byte + 1 /\ long.str = str /\ Sound(long)
            BY <3>6, <3>7 DEF Bss
        <3>9. \A i \in 0..(long.len - 1) : long.str[i] = NUL
            <4>1. \A i \in 0..(long.len - 1) : i \in 0..(byte + 1)
                BY <1>2, <3>8
            <4>2. QED BY <3>4, <3>8, <4>1
        <3>10. QED BY <1>2, <3>1, <3>2, <3>8, <3>9
    <2>2. CASE ~(byte + 1 > size) /\ byte + 1 > b.len
        <3>1. Memory(zeros, n)
            BY <1>4, MemoryKept
        <3>2. \A i \in 0..n : zeros[i] = IF i \in b.len..(b.len + b.free - 1) THEN NUL ELSE b.str[i]
            BY <1>4 DEF memset, Memory
        <3> HIDE DEF zeros
        <3>3. byte + 1 \in 0..n
            BY <1>2, <1>3, <1>4, <2>2
        <3>4. Memory(end, n) /\ end[byte + 1] = NUL
            BY <3>1, <3>3, NULByte, MemoryKept
        <3>5. \A i \in 0..n : i # byte + 1 => end[i] = zeros[i]
            BY <3>1 DEF Memory
        <3> HIDE DEF end
        <3>6. byte + 1 \in Nat /\ size - (byte + 1) \in Nat
              /\ (byte + 1) + (size - (byte + 1)) = size
            BY <1>2, <1>3, <2>2
        <3>7. long = Bss(byte + 1, size - (byte + 1), end)
            BY <2>2
        <3>8. Sound(Bss(byte + 1, size - (byte + 1), end))
            BY <1>3, <1>4, <3>4, <3>6, MakeSound
        <3> HIDE DEF long
        <3>9. long.len = byte + 1 /\ long.str = end /\ Sound(long)
            BY <3>7, <3>8 DEF Bss
        <3>10. ASSUME NEW i \in 0..(long.len - 1) PROVE long.str[i] = Kept(i)
            <4>1. i \in 0..n /\ i # byte + 1 /\ (i < b.len <=> i \notin b.len..(b.len + b.free - 1))
                BY <1>2, <1>3, <1>4, <2>2, <3>9
            <4>2. long.str[i] = zeros[i]
                BY <3>5, <3>9, <4>1
            <4>3. QED BY <3>2, <4>1, <4>2
        <3>11. long.len = MaxOf(b.len, byte + 1)
            BY <1>2, <1>3, <2>2, <3>9 DEF MaxOf
        <3>12. QED BY <1>2, <3>9, <3>10, <3>11
    <2>3. CASE ~(byte + 1 > size) /\ ~(byte + 1 > b.len)
        <3>1. long = b
            BY <2>3
        <3> HIDE DEF long
        <3>2. \A i \in 0..(b.len - 1) : i < b.len
            BY <1>3
        <3>3. MaxOf(b.len, byte + 1) = b.len /\ byte < b.len
            BY <1>2, <1>3, <2>3 DEF MaxOf
        <3>4. QED BY <3>1, <3>2, <3>3
    <2>4. QED BY <1>3, <2>1, <2>2, <2>3
<1>6. long.str[byte] \in Byte /\ long.len \in Nat
    <2> HIDE DEF long
    <2>1. PICK m \in Nat : long.len <= m /\ long.str \in [0..m -> Byte] /\ long.len \in Nat
        BY <1>5, SoundHas DEF Memory
    <2>2. byte \in 0..m
        BY <1>2, <1>5, <2>1
    <2>3. QED BY <2>1, <2>2
<1> HIDE DEF long
<1>7. v \in Byte
    BY <1>6, WithBitByte
<1>8. /\ Sound(r) /\ r.len = long.len
      /\ \A i \in 0..(long.len - 1) : r.str[i] = IF i = byte THEN v ELSE long.str[i]
    <2> HIDE DEF v
    <2>1. QED BY <1>2, <1>5, <1>7, WriteHolds
<1>9. byte \in 0..(long.len - 1)
    BY <1>2, <1>5, <1>6
<1> HIDE DEF r
<1>10. CASE \A i \in 0..(long.len - 1) : long.str[i] = Kept(i)
    <2>1. v = WithBit(Kept(byte), BitMask(offset), val)
        BY <1>9, <1>10
    <2> HIDE DEF v
    <2>2. \A i \in 0..(r.len - 1) :
             r.str[i] = IF i = byte THEN WithBit(Kept(i), BitMask(offset), val) ELSE Kept(i)
        BY <1>8, <1>10, <2>1
    <2>3. IsBitSet(r, b, offset, val)
        BY <1>5, <1>8, <2>2 DEF IsBitSet, byte
    <2>4. QED BY <1>1, <2>3
<1>11. CASE /\ long.len > b.len /\ long.len > MinLen
            /\ \A i \in 0..(long.len - 1) : long.str[i] = NUL
    <2>1. v = WithBit(NUL, BitMask(offset), val)
        BY <1>9, <1>11
    <2> HIDE DEF v
    <2>2. \A i \in 0..(r.len - 1) :
             r.str[i] = IF i = byte THEN WithBit(NUL, BitMask(offset), val) ELSE NUL
        BY <1>8, <1>11, <2>1
    <2>3. IsBitSet(r, b, offset, val)
        BY <1>5, <1>8, <1>11, <2>2 DEF IsBitSet, byte
    <2>4. QED BY <1>1, <2>3
<1>12. QED BY <1>5, <1>10, <1>11

-----------------------------------------------------------------------------
(* The commands: each keeps the invariant, and is a step of ByteString *)

\* The bytes that ByteString is about.
Held == IF type = "string" THEN Contents(bss) ELSE <<>>

LEMMA HeldSeq == StringInv => Held \in Seq(Byte)
BY ContentsIs DEF StringInv, Held

\* What the ways for a command to end do.
LEMMA StoresIs ==
    ASSUME NEW b, Sound(b), NEW r, r.ret \in {"ok", "int", "str"}, Stores(b, r)
    PROVE  StringInv' /\ type' = "string" /\ Held' = Contents(b) /\ reply' = r
BY DEF Stores, StringInv, Held, Sound, Contents

LEMMA LeavesIs ==
    ASSUME StringInv, NEW r, r.ret \in {"fail", "down"}, Leaves(r)
    PROVE  StringInv' /\ type' = type /\ Held' = Held /\ reply' = r
BY DEF Leaves, StringInv, Held, Sound, Contents

LEMMA FailIs ==
    ASSUME StringInv, fail_reply
    PROVE  StringInv' /\ Abs!Fails
<1>1. Leaves(Reply("fail", <<>>)) /\ Reply("fail", <<>>).ret = "fail"
    BY DEF fail_reply, Reply
<1>2. StringInv' /\ type' = type /\ Held' = Held /\ reply' = Reply("fail", <<>>)
    BY <1>1, LeavesIs
<1>3. QED BY <1>2 DEF Held, Abs!Fails, Abs!Same, Abs!Reply, Reply

LEMMA DownIs ==
    ASSUME StringInv, Leaves(Reply("down", <<>>))
    PROVE  StringInv' /\ Abs!Down
<1>1. Reply("down", <<>>).ret = "down"
    BY DEF Reply
<1>2. StringInv' /\ type' = type /\ Held' = Held /\ reply' = Reply("down", <<>>)
    BY <1>1, LeavesIs
<1>3. QED BY <1>2 DEF Held, Abs!Down, Abs!Same, Abs!Reply, Reply

\* The string that setbit and setrange begin with holds what the key does.
LEMMA StringOrNewHolds ==
    ASSUME StringInv, type # "other"
    PROVE  Sound(StringOrNew) /\ Contents(StringOrNew) = Held
<1>1. CASE type = "string"
    BY <1>1 DEF StringInv, StringOrNew, Held
<1>2. CASE type = "none"
    BY <1>2, CreateEmptyHolds DEF StringOrNew, Held
<1>3. QED BY <1>1, <1>2 DEF StringInv

LEMMA SetStep ==
    ASSUME StringInv, NEW data \in Seq(Byte), NEW f \in Byte, set_command(data, f)
    PROVE  StringInv' /\ Abs!Set(data)
<1>1. Sound(bss_create(data, f)) /\ Contents(bss_create(data, f)) = data
    BY CreateHolds
<1>2. Stores(bss_create(data, f), Reply("ok", <<>>)) /\ Reply("ok", <<>>).ret = "ok"
    BY DEF set_command, Reply
<1>3. StringInv' /\ type' = "string" /\ Held' = data /\ reply' = Reply("ok", <<>>)
    BY <1>1, <1>2, StoresIs
<1>4. QED BY <1>3 DEF Held, Abs!Set, Abs!Stored, Abs!Reply, Reply

LEMMA DelStep ==
    ASSUME StringInv, del_command
    PROVE  StringInv' /\ Abs!Del
BY DEF del_command, StringInv, Abs!Del, Abs!Reply, Reply

LEMMA OtherStep ==
    ASSUME StringInv, other_command
    PROVE  StringInv' /\ Abs!Other
BY DEF other_command, StringInv, Abs!Other, Abs!Reply, Reply

LEMMA AppendStep ==
    ASSUME StringInv, NEW data \in Seq(Byte), NEW f \in Byte, append_command(data, f)
    PROVE  StringInv' /\ Abs!AppendTo(data)
<1>1. CASE WrongType
    <2>1. StringInv' /\ Abs!Fails /\ type = "other"
        BY <1>1, FailIs DEF WrongType
    <2>2. QED BY <2>1 DEF Abs!AppendTo
<1>2. ASSUME type = "none", Stores(bss_create(data, f), Reply("int", <<Len(data)>>))
      PROVE  StringInv' /\ Abs!AppendTo(data)
    <2>1. Sound(bss_create(data, f)) /\ Contents(bss_create(data, f)) = data
        BY CreateHolds
    <2>2. PICK r : r = Reply("int", <<Len(data)>>)
        OBVIOUS
    <2>3. r.ret = "int"
        BY <2>2 DEF Reply
    <2>4. StringInv' /\ type' = "string" /\ Held' = data /\ reply' = r
        BY <1>2, <2>1, <2>2, <2>3, StoresIs
    <2>5. <<>> \o data = data /\ Len(<<>>) + Len(data) = Len(data)
        OBVIOUS
    <2>6. QED BY <1>2, <2>2, <2>4, <2>5 DEF Held, Abs!AppendTo, Abs!Stored, Abs!Reply, Reply
<1>3. ASSUME type = "string"
      PROVE  /\ bss.free < Len(data) => bss_append(bss, data) = NULL
             /\ ~(bss.free < Len(data)) => /\ bss_append(bss, data) # NULL
                                           /\ Sound(bss_append(bss, data))
                                           /\ Contents(bss_append(bss, data)) = Held \o data
             /\ Held \in Seq(Byte) /\ Len(Held) = bss.len
             /\ bss.len \in Nat /\ bss.free \in Nat /\ bss.len + bss.free >= MinLen
    <2>1. Sound(bss)
        BY <1>3 DEF StringInv
    <2>2. Held = Contents(bss)
        BY <1>3 DEF Held
    <2>3. QED BY <2>1, <2>2, AppendHolds, ContentsIs, SoundHas, SoundIsString
<1>4. ASSUME type = "string", bss_append(bss, data) = NULL, Leaves(Reply("down", <<>>))
      PROVE  StringInv' /\ Abs!AppendTo(data)
    <2>1. StringInv' /\ Abs!Down
        BY <1>4, DownIs
    <2>2. Len(Held) + Len(data) > MinLen
        <3>1. bss.free < Len(data) /\ Len(data) \in Nat
            BY <1>3, <1>4
        <3>2. QED BY <1>3, <1>4, <3>1, MinLenNat
    <2>3. QED BY <1>4, <2>1, <2>2 DEF Held, Abs!AppendTo
<1>5. ASSUME type = "string", bss_append(bss, data) # NULL,
             Stores(bss_append(bss, data), Reply("int", <<bss_append(bss, data).len>>))
      PROVE  StringInv' /\ Abs!AppendTo(data)
    <2>1. PICK b : b = bss_append(bss, data)
        OBVIOUS
    <2>2. Sound(b) /\ Contents(b) = Held \o data
        BY <1>3, <1>5, <2>1
    <2>3. b.len = Len(Held) + Len(data)
        <3>1. Len(Contents(b)) = b.len
            BY <2>2, ContentsIs
        <3>2. QED BY <1>3, <1>5, <2>2, <3>1
    <2>4. PICK r : r = Reply("int", <<b.len>>)
        OBVIOUS
    <2>5. r.ret = "int"
        BY <2>4 DEF Reply
    <2>6. StringInv' /\ type' = "string" /\ Held' = Held \o data /\ reply' = r
        BY <1>5, <2>1, <2>2, <2>4, <2>5, StoresIs
    <2>7. QED BY <1>5, <2>3, <2>4, <2>6 DEF Held, Abs!AppendTo, Abs!Stored, Abs!Reply, Reply
<1>6. QED BY <1>1, <1>2, <1>4, <1>5 DEF append_command

\* A negative offset fails or is a write outside, and an empty string changes nothing.
LEMMA SetrangeStep ==
    ASSUME StringInv, NEW offset \in Int, NEW data \in Seq(Byte), setrange_command(offset, data)
    PROVE  StringInv' /\ Abs!SetRange(offset, data)
<1>1. CASE WrongType
    <2>1. StringInv' /\ Abs!Fails /\ type = "other"
        BY <1>1, FailIs DEF WrongType
    <2>2. QED BY <2>1 DEF Abs!SetRange
<1>2. CASE ~WrongType
    <2> DEFINE old == StringOrNew
    <2>1. PICK b : b = bss_setrange(old, offset, data)
        OBVIOUS
    <2>2. PICK r : r = Reply("int", <<IF b \in {Wild, NULL} THEN 0 ELSE b.len>>)
        OBVIOUS
    <2>3. type # "other" /\ StoresResult(b, r)
        BY <1>2, <2>1, <2>2, Zenon DEF setrange_command
    <2>4. Sound(old) /\ Contents(old) = Held /\ r.ret = "int"
        BY <2>2, <2>3, StringOrNewHolds DEF Reply
    <2> HIDE DEF old
    <2>5. CASE data = <<>>
        <3>1. b = old
            BY <2>1, <2>5 DEF bss_setrange
        <3>2. b \notin {Wild, NULL} /\ Stores(b, r) /\ r = Reply("int", <<b.len>>)
            BY <2>2, <2>3, <2>4, <3>1, SoundIsString DEF StoresResult
        <3>3. StringInv' /\ type' = "string" /\ Held' = Held /\ reply' = r
            BY <2>4, <3>1, <3>2, StoresIs
        <3>4. b.len = Len(Held)
            BY <2>4, <3>1, ContentsIs
        <3>5. QED BY <2>3, <2>5, <3>2, <3>3, <3>4
                  DEF Held, Abs!SetRange, Abs!Stored, Abs!Reply, Reply
    <2>6. CASE data # <<>> /\ offset < 0
        <3>1. b \in {Wild, NULL}
            BY <2>1, <2>6 DEF bss_setrange
        <3>2. Leaves(Reply("down", <<>>)) \/ fail_reply
            BY <2>3, <3>1 DEF StoresResult
        <3>3. StringInv' /\ (Abs!Fails \/ Abs!Down)
            BY <3>2, FailIs, DownIs
        <3>4. QED BY <2>6, <3>3 DEF Abs!SetRange
    <2>7. CASE data # <<>> /\ ~(offset < 0)
        <3>1. offset \in Nat
            BY <2>7
        <3>2. IsWritten(b, old, offset, data)
            BY <2>1, <2>4, <2>7, <3>1, SetrangeHolds
        <3>3. Sound(b) /\ b.len = MaxOf(old.len, offset + Len(data))
            BY <3>2 DEF IsWritten
        <3>4. b \notin {Wild, NULL} /\ Stores(b, r) /\ r = Reply("int", <<b.len>>)
            BY <2>2, <2>3, <3>3, SoundIsString DEF StoresResult
        <3>5. StringInv' /\ type' = "string" /\ Held' = Contents(b) /\ reply' = r
            BY <2>4, <3>3, <3>4, StoresIs
        <3>6. /\ Held \in Seq(Byte) /\ Len(Held) = old.len /\ old.len \in Nat
              /\ \A i \in 1..old.len : Held[i] = old.str[i - 1]
            BY <2>4, ContentsIs, SoundHas
        <3>7. b.len = Abs!Longer(Len(Held), offset + Len(data))
            BY <3>3, <3>6 DEF MaxOf, Abs!Longer
        <3> DEFINE s == Contents(b)
        <3>8. /\ s \in Seq(Byte) /\ Len(s) = b.len /\ DOMAIN s = 1..b.len
              /\ \A i \in 1..b.len : s[i] = b.str[i - 1] /\ s[i] \in Byte
            BY <3>3, ContentsIs
        <3> HIDE DEF s
        <3>9. ASSUME NEW i \in 1..b.len
              PROVE  IF i > offset /\ i <= offset + Len(data) THEN s[i] = data[i - offset]
                     ELSE IF i <= Len(Held) THEN s[i] = Held[i] ELSE s[i] \in Byte
            <4>1. /\ i > offset /\ i <= offset + Len(data) => s[i] = data[i - offset]
                  /\ ~(i > offset /\ i <= offset + Len(data)) /\ i <= old.len
                        => s[i] = old.str[i - 1]
                BY <3>2, <3>8 DEF IsWritten
            <4>2. i <= old.len => i \in 1..old.len
                BY <3>6
            <4>3. QED BY <3>6, <3>8, <4>1, <4>2
        <3>10. Held' = s
            BY <3>5 DEF s
        <3>11. Abs!Byte = Byte
            BY DEF Abs!Byte, Byte
        <3> DEFINE len == Abs!Longer(Len(Held), offset + Len(data))
        <3>12. /\ type # "other" /\ offset >= 0 /\ data # <<>>
               /\ type' = "string" /\ reply' = Abs!Reply("int", <<len>>)
               /\ DOMAIN Held' = 1..len
               /\ \A i \in 1..len :
                     IF i > offset /\ i <= offset + Len(data) THEN Held'[i] = data[i - offset]
                     ELSE IF i <= Len(Held) THEN Held'[i] = Held[i] ELSE Held'[i] \in Abs!Byte
            <4>1. reply' = Abs!Reply("int", <<len>>)
                BY <3>4, <3>5, <3>7 DEF Abs!Reply, Reply
            <4> HIDE DEF len
            <4>2. len = b.len
                BY <3>7 DEF len
            <4>3. QED BY <2>3, <2>7, <3>1, <3>5, <3>8, <3>9, <3>10, <3>11, <4>1, <4>2
        <3>13. QED BY <3>5, <3>12 DEF Held, Abs!SetRange
    <2>8. QED BY <2>5, <2>6, <2>7
<1>3. QED BY <1>1, <1>2

-----------------------------------------------------------------------------
(* Bits *)

\* Which bit of which byte a bit is, with the places counted from 0.
Place(x) == x \div ByteBits
Rank(x) == ByteBits - (x % ByteBits)

LEMMA PlaceIs ==
    ASSUME NEW x \in Nat
    PROVE  /\ Place(x) \in Nat /\ Rank(x) \in 1..ByteBits
           /\ x = ByteBits * Place(x) + (ByteBits - Rank(x))
           /\ ByteOf(x) = Place(x) /\ BitMask(x) = {Rank(x)}
<1> DEFINE q == x \div ByteBits
           r == x % ByteBits
<1>1. /\ ByteOf(x) = q /\ BitMask(x) = {ByteBits - r} /\ q \in Nat /\ r \in 0..(ByteBits - 1)
      /\ ByteBits - r \in 1..ByteBits /\ x = ByteBits * q + r
    BY BitPlace
<1>2. Place(x) = q /\ Rank(x) = ByteBits - r
    BY DEF Place, Rank
<1> HIDE DEF q, r
<1>3. ByteBits \in Nat
    BY BssAssumption
<1>4. ByteBits - (ByteBits - r) = r
    BY <1>1, <1>3
<1>5. QED BY <1>1, <1>2, <1>4

LEMMA SamePlace ==
    ASSUME NEW x \in Nat, NEW y \in Nat
    PROVE  x = y <=> Place(x) = Place(y) /\ Rank(x) = Rank(y)
<1>1. Place(x) = Place(y) /\ Rank(x) = Rank(y) => x = y
    <2>1. x = ByteBits * Place(x) + (ByteBits - Rank(x))
        BY PlaceIs
    <2>2. y = ByteBits * Place(y) + (ByteBits - Rank(y))
        BY PlaceIs
    <2>3. QED BY <2>1, <2>2
<1>2. QED BY <1>1

\* The bits of len bytes are in those bytes.
LEMMA PlaceBelow ==
    ASSUME NEW len \in Nat, NEW x \in 0..(len * ByteBits - 1)
    PROVE  x \in Nat /\ Place(x) < len
<1>1. PICK B \in Nat : B = ByteBits /\ B > 0
    BY BssAssumption
<1>2. x \in Nat /\ x < B * len
    <2>1. len * B = B * len /\ B * len \in Nat
        BY <1>1
    <2>2. x \in 0..(len * B - 1)
        BY <1>1
    <2>3. QED BY <2>1, <2>2
<1>3. PICK q \in Nat, r \in 0..(B - 1) : x = B * q + r /\ Place(x) = q
    <2>1. Place(x) \in Nat /\ Rank(x) \in 1..B /\ x = B * Place(x) + (B - Rank(x))
        BY <1>1, <1>2, PlaceIs
    <2>2. B - Rank(x) \in 0..(B - 1)
        BY <1>1, <2>1
    <2>3. QED BY <2>1, <2>2
<1>4. PICK d \in Int : d = q - len
    BY <1>3
<1>5. q = len + d /\ B * q = B * len + B * d
    BY <1>1, <1>3, <1>4
<1>6. ~(d >= 0)
    <2>1. SUFFICES ASSUME d >= 0 PROVE FALSE
        OBVIOUS
    <2>2. B * d >= 0
        BY <1>1, <2>1
    <2>3. QED BY <1>1, <1>2, <1>3, <1>5, <2>2
<1>7. QED BY <1>2, <1>3, <1>4, <1>6

\* Abs!Bit in these terms.
LEMMA BitIs ==
    ASSUME NEW s \in Seq(Byte), NEW x \in Nat
    PROVE  Abs!Bit(s, x) = IF Place(x) < Len(s) /\ Rank(x) \in s[Place(x) + 1] THEN 1 ELSE 0
<1>1. Place(x) + 1 <= Len(s) <=> Place(x) < Len(s)
    <2>1. Place(x) \in Nat
        BY PlaceIs
    <2>2. QED BY <2>1
<1>2. Abs!Bit(s, x) = IF Place(x) + 1 <= Len(s) /\ Rank(x) \in s[Place(x) + 1] THEN 1 ELSE 0
    BY DEF Abs!Bit, Place, Rank
<1>3. QED BY <1>1, <1>2

\* What becomes of one bit of a byte in which one is written.
LEMMA WithBitIs ==
    ASSUME NEW byte \in Byte, NEW p, NEW q, NEW val \in {0, 1}
    PROVE  p \in WithBit(byte, {q}, val) <=> IF p = q THEN val = 1 ELSE p \in byte
BY DEF WithBit

\* bss_getbit reads the bit.
LEMMA GetbitIs ==
    ASSUME NEW b, Sound(b), NEW x \in Nat
    PROVE  bss_getbit(b, x) = Abs!Bit(Contents(b), x)
<1> DEFINE s == Contents(b)
<1>1. /\ s \in Seq(Byte) /\ Len(s) = b.len /\ b.len \in Nat
      /\ \A i \in 1..b.len : s[i] = b.str[i - 1]
    BY ContentsIs, SoundHas
<1> HIDE DEF s
<1>2. Place(x) \in Nat /\ ByteOf(x) = Place(x) /\ BitMask(x) = {Rank(x)}
    BY PlaceIs
<1>3. Abs!Bit(s, x) = IF Place(x) < Len(s) /\ Rank(x) \in s[Place(x) + 1] THEN 1 ELSE 0
    BY <1>1, BitIs
<1>4. x # -1 /\ ~(x < 0)
    OBVIOUS
<1>5. bss_getbit(b, x) = IF Place(x) + 1 > b.len THEN 0
                         ELSE IF IsSet(b.str[Place(x)], {Rank(x)}) THEN 1 ELSE 0
    BY <1>2, <1>4 DEF bss_getbit
<1>6. CASE Place(x) + 1 > b.len
    <2>1. ~(Place(x) < Len(s))
        BY <1>1, <1>2, <1>6
    <2>2. QED BY <1>3, <1>5, <1>6, <2>1 DEF s
<1>7. CASE ~(Place(x) + 1 > b.len)
    <2>1. Place(x) < Len(s) /\ Place(x) + 1 \in 1..b.len /\ (Place(x) + 1) - 1 = Place(x)
        BY <1>1, <1>2, <1>7
    <2>2. s[Place(x) + 1] = b.str[Place(x)]
        BY <1>1, <2>1
    <2>3. IsSet(b.str[Place(x)], {Rank(x)}) <=> Rank(x) \in s[Place(x) + 1]
        BY <2>2 DEF IsSet
    <2>4. QED BY <1>3, <1>5, <1>7, <2>1, <2>3 DEF s
<1>8. QED BY <1>6, <1>7

\* t has bit offset of s set to val, and the others as in s or, if they were lost, 0.
BitsSet(t, s, offset, val) ==
    LET len == Len(t)
    IN  /\ len = Abs!Longer(Len(s), Place(offset) + 1)
        /\ \/ \A x \in 0..(len * ByteBits - 1) :
                 Abs!Bit(t, x) = IF x = offset THEN val ELSE Abs!Bit(s, x)
           \/ /\ len > Len(s) /\ len > MinLen
              /\ \A x \in 0..(len * ByteBits - 1) :
                    Abs!Bit(t, x) = IF x = offset THEN val ELSE 0

\* The byte of bit x of s, or NUL, and with bit offset set to val.
ByteAt(s, x) == IF Place(x) < Len(s) THEN s[Place(x) + 1] ELSE NUL
ByteSet(s, x, offset, val) ==
    IF Place(x) = Place(offset) THEN WithBit(ByteAt(s, x), {Rank(offset)}, val) ELSE ByteAt(s, x)

\* The bits of a byte that is as it was, or 0, but for the bit that is set.
LEMMA BitSetIs ==
    ASSUME NEW t \in Seq(Byte), NEW s \in Seq(Byte), NEW offset \in Nat, NEW val \in {0, 1},
           NEW x \in Nat, Place(x) < Len(t),
           t[Place(x) + 1] = ByteSet(s, x, offset, val)
    PROVE  Abs!Bit(t, x) = IF x = offset THEN val ELSE Abs!Bit(s, x)
<1> DEFINE kept == ByteAt(s, x)
<1>1. Place(x) < Len(s) => Place(x) + 1 \in 1..Len(s)
    <2>1. Place(x) \in Nat
        BY PlaceIs
    <2>2. QED BY <2>1
<1>2. kept \in Byte
    BY <1>1, NULByte DEF ByteAt
<1>3. Abs!Bit(s, x) = IF Rank(x) \in kept THEN 1 ELSE 0
    <2>1. Abs!Bit(s, x) = IF Place(x) < Len(s) /\ Rank(x) \in s[Place(x) + 1] THEN 1 ELSE 0
        BY BitIs
    <2>2. QED BY <2>1 DEF NUL, ByteAt
<1>4. Abs!Bit(t, x) = IF Rank(x) \in t[Place(x) + 1] THEN 1 ELSE 0
    <2>1. Abs!Bit(t, x) = IF Place(x) < Len(t) /\ Rank(x) \in t[Place(x) + 1] THEN 1 ELSE 0
        BY BitIs
    <2>2. QED BY <2>1
<1>5. t[Place(x) + 1] = IF Place(x) = Place(offset)
                        THEN WithBit(kept, {Rank(offset)}, val) ELSE kept
    BY DEF ByteSet
<1> HIDE DEF kept
<1>6. Rank(x) \in WithBit(kept, {Rank(offset)}, val)
          <=> IF Rank(x) = Rank(offset) THEN val = 1 ELSE Rank(x) \in kept
    BY <1>2, WithBitIs
<1>7. x = offset <=> Place(x) = Place(offset) /\ Rank(x) = Rank(offset)
    BY SamePlace
<1>8. CASE Place(x) = Place(offset)
    BY <1>3, <1>4, <1>5, <1>6, <1>7, <1>8
<1>9. CASE Place(x) # Place(offset)
    BY <1>3, <1>4, <1>5, <1>7, <1>9
<1>10. QED BY <1>8, <1>9

LEMMA NulBit ==
    ASSUME NEW x \in Nat, NEW e \in Seq(Byte), e = <<>>
    PROVE  Abs!Bit(e, x) = 0
<1>1. Len(e) = 0 /\ ~(Place(x) < 0)
    BY PlaceIs
<1>2. QED BY <1>1, BitIs

\* bss_setbit, as IsBitSet has it, in terms of bits.
LEMMA SetbitBits ==
    ASSUME NEW b, Sound(b), NEW r, NEW offset \in Nat, NEW val \in {0, 1},
           IsBitSet(r, b, offset, val)
    PROVE  Sound(r) /\ BitsSet(Contents(r), Contents(b), offset, val)
<1> DEFINE s == Contents(b)
           t == Contents(r)
           byte == Place(offset)
           Kept(i) == IF i < b.len THEN b.str[i] ELSE NUL
<1>1. Sound(r) /\ r.len = MaxOf(b.len, byte + 1)
    BY PlaceIs DEF IsBitSet
<1>2. /\ s \in Seq(Byte) /\ Len(s) = b.len /\ b.len \in Nat
      /\ \A i \in 1..b.len : s[i] = b.str[i - 1]
    BY ContentsIs, SoundHas
<1>3. /\ t \in Seq(Byte) /\ Len(t) = r.len /\ r.len \in Nat
      /\ \A i \in 1..r.len : t[i] = r.str[i - 1]
    BY <1>1, ContentsIs, SoundHas
<1>4. \/ \A i \in 0..(r.len - 1) :
            r.str[i] = IF i = byte THEN WithBit(Kept(i), {Rank(offset)}, val) ELSE Kept(i)
      \/ /\ r.len > b.len /\ r.len > MinLen
         /\ \A i \in 0..(r.len - 1) :
               r.str[i] = IF i = byte THEN WithBit(NUL, {Rank(offset)}, val) ELSE NUL
    BY PlaceIs DEF IsBitSet
<1> HIDE DEF s, t
<1>5. Len(t) = Abs!Longer(Len(s), byte + 1)
    BY <1>1, <1>2, <1>3 DEF MaxOf, Abs!Longer
<1>6. ASSUME NEW x \in 0..(Len(t) * ByteBits - 1)
      PROVE  /\ x \in Nat /\ Place(x) \in Nat /\ Place(x) < Len(t)
             /\ Place(x) \in 0..(r.len - 1) /\ t[Place(x) + 1] = r.str[Place(x)]
             /\ Kept(Place(x)) = ByteAt(s, x)
    <2>1. x \in Nat /\ Place(x) < r.len /\ Place(x) \in Nat
        BY <1>3, PlaceBelow, PlaceIs
    <2>2. Place(x) + 1 \in 1..r.len /\ (Place(x) + 1) - 1 = Place(x) /\ Place(x) \in 0..(r.len - 1)
          /\ (Place(x) < b.len => Place(x) + 1 \in 1..b.len)
        BY <1>2, <1>3, <2>1
    <2>3. QED BY <1>2, <1>3, <2>1, <2>2 DEF ByteAt
<1> HIDE DEF Kept
<1>7. CASE \A i \in 0..(r.len - 1) :
              r.str[i] = IF i = byte THEN WithBit(Kept(i), {Rank(offset)}, val) ELSE Kept(i)
    <2>1. ASSUME NEW x \in 0..(Len(t) * ByteBits - 1)
          PROVE  Abs!Bit(t, x) = IF x = offset THEN val ELSE Abs!Bit(s, x)
        <3>1. x \in Nat /\ Place(x) < Len(t)
            BY <1>6
        <3>2. t[Place(x) + 1] = ByteSet(s, x, offset, val)
            BY <1>6, <1>7 DEF ByteSet
        <3>3. QED BY <1>2, <1>3, <3>1, <3>2, BitSetIs
    <2>2. QED BY <1>1, <1>5, <2>1 DEF BitsSet, s, t
<1>8. CASE /\ r.len > b.len /\ r.len > MinLen
           /\ \A i \in 0..(r.len - 1) :
                 r.str[i] = IF i = byte THEN WithBit(NUL, {Rank(offset)}, val) ELSE NUL
    <2>0. PICK e \in Seq(Byte) : e = <<>>
        <3>1. <<>> \in Seq(Byte)
            OBVIOUS
        <3>2. QED BY <3>1
    <2>1. ASSUME NEW x \in 0..(Len(t) * ByteBits - 1)
          PROVE  Abs!Bit(t, x) = IF x = offset THEN val ELSE 0
        <3>1. x \in Nat /\ Place(x) < Len(t)
            BY <1>6
        <3>2. t[Place(x) + 1] = ByteSet(e, x, offset, val)
            <4>1. ~(Place(x) < Len(e))
                BY <1>6, <2>0
            <4>2. QED BY <1>6, <1>8, <4>1 DEF ByteSet, ByteAt
        <3>3. Abs!Bit(t, x) = IF x = offset THEN val ELSE Abs!Bit(e, x)
            BY <1>3, <3>1, <3>2, BitSetIs
        <3>4. QED BY <2>0, <3>1, <3>3, NulBit
    <2>2. QED BY <1>1, <1>2, <1>3, <1>5, <1>8, <2>1 DEF BitsSet, s, t
<1>9. QED BY <1>4, <1>7, <1>8

\* A negative offset fails or is a write outside.
LEMMA SetbitStep ==
    ASSUME StringInv, NEW offset \in Int, NEW val \in {0, 1}, setbit_command(offset, val)
    PROVE  StringInv' /\ Abs!SetBit(offset, val)
<1>1. CASE WrongType
    <2>1. StringInv' /\ Abs!Fails /\ type = "other"
        BY <1>1, FailIs DEF WrongType
    <2>2. QED BY <2>1 DEF Abs!SetBit
<1>2. CASE ~WrongType
    <2>1. PICK old : old = IF type = "none" THEN 0 ELSE bss_getbit(bss, offset)
        OBVIOUS
    <2>2. PICK r : r = Reply("int", <<old>>)
        OBVIOUS
    <2>3. PICK b : b = StringOrNew
        OBVIOUS
    <2>4. PICK t : t = bss_setbit(b, offset, val)
        OBVIOUS
    <2>5. type # "other" /\ StoresResult(t, r)
        BY <1>2, <2>1, <2>2, <2>3, <2>4, Zenon DEF setbit_command
    <2>6. Sound(b) /\ Contents(b) = Held /\ r.ret = "int"
        BY <2>2, <2>3, <2>5, StringOrNewHolds DEF Reply
    <2>7. CASE offset < 0
        <3>1. t \in {Wild, NULL}
            BY <2>4, <2>7 DEF bss_setbit
        <3>2. Leaves(Reply("down", <<>>)) \/ fail_reply
            BY <2>5, <3>1 DEF StoresResult
        <3>3. StringInv' /\ (Abs!Fails \/ Abs!Down)
            BY <3>2, FailIs, DownIs
        <3>4. QED BY <2>7, <3>3 DEF Abs!SetBit
    <2>8. CASE ~(offset < 0)
        <3>1. offset \in Nat
            BY <2>8
        <3>2. Sound(t) /\ BitsSet(Contents(t), Held, offset, val)
            BY <2>4, <2>6, <3>1, SetbitHolds, SetbitBits
        <3>3. StringInv' /\ type' = "string" /\ Held' = Contents(t) /\ reply' = r
            <4>1. Stores(t, r)
                BY <2>5, <3>2, SoundIsString DEF StoresResult
            <4>2. QED BY <2>6, <3>2, <4>1, StoresIs
        <3>4. old = Abs!Bit(Held, offset)
            <4>1. CASE type = "none"
                <5>1. Held = <<>> /\ Held \in Seq(Byte)
                    BY <4>1, HeldSeq DEF Held
                <5>2. QED BY <2>1, <3>1, <4>1, <5>1, NulBit
            <4>2. CASE type = "string"
                <5>1. Sound(bss) /\ Held = Contents(bss)
                    BY <4>2 DEF StringInv, Held
                <5>2. QED BY <2>1, <3>1, <4>2, <5>1, GetbitIs
            <4>3. QED BY <2>5, <4>1, <4>2 DEF StringInv
        <3>5. BitsSet(Held', Held, offset, val)
            BY <3>2, <3>3
        <3>6. reply' = Abs!Reply("int", <<Abs!Bit(Held, offset)>>)
            BY <2>2, <3>3, <3>4 DEF Abs!Reply, Reply
        <3> DEFINE len == Abs!Longer(Len(Held), offset \div ByteBits + 1)
        <3>7. /\ Len(Held') = len
              /\ \/ \A x \in 0..(len * ByteBits - 1) :
                       Abs!Bit(Held', x) = IF x = offset THEN val ELSE Abs!Bit(Held, x)
                 \/ /\ len > Len(Held) /\ len > MinLen
                    /\ \A x \in 0..(len * ByteBits - 1) :
                          Abs!Bit(Held', x) = IF x = offset THEN val ELSE 0
            BY <3>5, Zenon DEF BitsSet, Place
        <3>8. offset >= 0
            BY <3>1
        <3> HIDE DEF Held, StringInv
        <3>9. StringInv' /\ type # "other" /\ offset >= 0 /\ type' = "string"
            BY <2>5, <3>3, <3>8
        <3>10. Abs!SetBit(offset, val)
            BY <3>6, <3>7, <3>9, Zenon DEF Abs!SetBit, Held
        <3>11. QED BY <3>9, <3>10
    <2>9. QED BY <2>7, <2>8
<1>3. QED BY <1>1, <1>2

\* The text of the sum fits into any string, so that the assertion of bss_add_sub holds.
LEMMA IncrbyStep ==
    ASSUME StringInv, NEW arg \in DataSet, NEW text \in IntText, NEW f \in Byte,
           incrby_command(arg, text, f)
    PROVE  StringInv' /\ Abs!IncrBy
<1>1. /\ arg \in Seq(Byte) /\ text \in Seq(Byte) /\ Len(text) <= MinLen
    BY StringAssumption, MinLenNat
<1>2. CASE fail_reply
    BY <1>2, FailIs DEF Abs!IncrBy
<1>3. ASSUME type # "other", NEW b, Sound(b), NEW v, Contents(b) = v,
             \/ v \in IntText
             \/ type = "none" /\ v \in DataSet,
             Stores(b, Reply("int", <<>>))
      PROVE  StringInv' /\ Abs!IncrBy
    <2>1. PICK r : r = Reply("int", <<>>)
        OBVIOUS
    <2>2. r.ret = "int"
        BY <2>1 DEF Reply
    <2>3. StringInv' /\ type' = "string" /\ Held' = v /\ reply' = r
        BY <1>3, <2>1, <2>2, StoresIs
    <2>4. QED BY <1>3, <2>1, <2>3, Zenon DEF Held, Abs!IncrBy, Abs!Stored, Abs!Reply, Reply
<1>4. ASSUME type = "none",
             NEW b \in {bss_create(arg, f), bss_set(bss_create(arg, f), text, f)},
             Stores(b, Reply("int", <<>>))
      PROVE  StringInv' /\ Abs!IncrBy
    <2>1. PICK new : new = bss_create(arg, f)
        OBVIOUS
    <2>2. Sound(new) /\ Contents(new) = arg
        BY <1>1, <2>1, CreateHolds
    <2>3. Sound(bss_set(new, text, f)) /\ Contents(bss_set(new, text, f)) = text
        BY <1>1, <2>2, SetHolds
    <2>4. QED BY <1>3, <1>4, <2>1, <2>2, <2>3
<1>5. ASSUME type = "string", Len(text) > bsssize(bss)
      PROVE  FALSE
    <2>1. Sound(bss)
        BY <1>5 DEF StringInv
    <2>2. bsssize(bss) \in Nat /\ bsssize(bss) >= MinLen
        BY <2>1, SoundHas
    <2>3. QED BY <1>1, <1>5, <2>2, MinLenNat
<1>6. ASSUME type = "string", Stores(bss_set(bss, text, f), Reply("int", <<>>))
      PROVE  StringInv' /\ Abs!IncrBy
    <2>1. Sound(bss)
        BY <1>6 DEF StringInv
    <2>2. Sound(bss_set(bss, text, f)) /\ Contents(bss_set(bss, text, f)) = text
        BY <1>1, <2>1, SetHolds
    <2>3. QED BY <1>3, <1>6, <2>2
<1>7. QED BY <1>2, <1>4, <1>5, <1>6, Zenon DEF incrby_command, WrongType

LEMMA IncrbyfloatStep ==
    ASSUME StringInv, NEW text \in FloatText, NEW f \in Byte, incrbyfloat_command(text, f)
    PROVE  StringInv' /\ Abs!IncrByFloat
<1>1. text \in Seq(Byte)
    BY FloatTextHas
<1>2. CASE fail_reply
    BY <1>2, FailIs DEF Abs!IncrByFloat
<1>3. ASSUME type # "other", NEW b, Sound(b), Contents(b) = text, NEW c, c = bss_cut_zero(b),
             Stores(c, Reply("str", Contents(c)))
      PROVE  StringInv' /\ Abs!IncrByFloat
    <2>1. Sound(c) /\ Abs!Canonical(text, Contents(c))
        BY <1>3, CutHolds
    <2>2. PICK r : r = Reply("str", Contents(c))
        OBVIOUS
    <2>3. r.ret = "str"
        BY <2>2 DEF Reply
    <2>4. StringInv' /\ type' = "string" /\ Held' = Contents(c) /\ reply' = r
        BY <1>3, <2>1, <2>2, <2>3, StoresIs
    <2>5. Abs!Canonical(text, Held') /\ reply' = Abs!Reply("str", Held')
        BY <2>1, <2>2, <2>4 DEF Abs!Reply, Reply
    <2>6. Abs!IncrByFloat
        BY <1>3, <2>4, <2>5, Zenon DEF Abs!IncrByFloat, Held
    <2>7. QED BY <2>4, <2>6
<1>4. ASSUME type = "none", Stores(bss_cut_zero(bss_create(text, f)),
                                   Reply("str", Contents(bss_cut_zero(bss_create(text, f)))))
      PROVE  StringInv' /\ Abs!IncrByFloat
    <2>1. PICK b, c : b = bss_create(text, f) /\ c = bss_cut_zero(b)
        OBVIOUS
    <2>2. Sound(b) /\ Contents(b) = text
        BY <1>1, <2>1, CreateHolds
    <2>3. QED BY <1>3, <1>4, <2>1, <2>2
<1>5. ASSUME type = "string", Stores(bss_cut_zero(bss_set(bss, text, f)),
                                     Reply("str", Contents(bss_cut_zero(bss_set(bss, text, f)))))
      PROVE  StringInv' /\ Abs!IncrByFloat
    <2>1. PICK b, c : b = bss_set(bss, text, f) /\ c = bss_cut_zero(b)
        OBVIOUS
    <2>2. Sound(bss)
        BY <1>5 DEF StringInv
    <2>3. Sound(b) /\ Contents(b) = text
        BY <1>1, <2>1, <2>2, SetHolds
    <2>4. QED BY <1>3, <1>5, <2>1, <2>3
<1>6. QED BY <1>2, <1>4, <1>5, Zenon DEF incrbyfloat_command, WrongType

-----------------------------------------------------------------------------
(* The theorems about steps *)

LEMMA StringInvInit == Init => StringInv /\ Abs!Init
BY DEF Init, StringInv, Reply, Abs!Init, Abs!Reply

LEMMA StringInvNext == StringInv /\ [Next]_vars => StringInv' /\ [Abs!Next]_Abs!vars
<1>1. CASE UNCHANGED vars
    <2>1. StringInv /\ UNCHANGED vars => StringInv'
        BY DEF StringInv, vars, Sound, Contents
    <2>2. UNCHANGED vars => UNCHANGED Abs!vars
        BY DEF vars, Abs!vars, Contents
    <2>3. QED BY <1>1, <2>1, <2>2
<1>2. ASSUME StringInv, NEW data \in DataSet, NEW f \in Fill, set_command(data, f)
      PROVE  StringInv' /\ Abs!Next
    <2>1. data \in Seq(Byte) /\ f \in Byte
        BY StringAssumption
    <2>2. StringInv' /\ Abs!Set(data)
        BY <1>2, <2>1, SetStep
    <2>3. QED BY <2>2, Zenon DEF Abs!Next
<1>3. ASSUME StringInv, NEW data \in DataSet, NEW f \in Fill, append_command(data, f)
      PROVE  StringInv' /\ Abs!Next
    <2>1. data \in Seq(Byte) /\ f \in Byte
        BY StringAssumption
    <2>2. StringInv' /\ Abs!AppendTo(data)
        BY <1>3, <2>1, AppendStep
    <2>3. QED BY <2>2, Zenon DEF Abs!Next
<1>4. ASSUME StringInv, NEW data \in DataSet, NEW offset \in RangeOffset,
             setrange_command(offset, data)
      PROVE  StringInv' /\ Abs!Next
    <2>1. data \in Seq(Byte) /\ offset \in Int
        BY StringAssumption
    <2>2. StringInv' /\ Abs!SetRange(offset, data)
        BY <1>4, <2>1, SetrangeStep
    <2>3. QED BY <2>2, Zenon DEF Abs!Next
<1>5. ASSUME StringInv, NEW data \in DataSet, NEW text \in IntText, NEW f \in Fill,
             incrby_command(data, text, f)
      PROVE  StringInv' /\ Abs!Next
    <2>1. f \in Byte
        BY StringAssumption
    <2>2. StringInv' /\ Abs!IncrBy
        BY <1>5, <2>1, IncrbyStep
    <2>3. QED BY <2>2, Zenon DEF Abs!Next
<1>6. ASSUME StringInv, NEW offset \in BitOffset, NEW val \in {0, 1}, setbit_command(offset, val)
      PROVE  StringInv' /\ Abs!Next
    <2>1. offset \in Int
        BY StringAssumption
    <2>2. StringInv' /\ Abs!SetBit(offset, val)
        BY <1>6, <2>1, SetbitStep
    <2>3. QED BY <2>2, Zenon DEF Abs!Next
<1>7. ASSUME StringInv, NEW f \in Fill, NEW text \in FloatText, incrbyfloat_command(text, f)
      PROVE  StringInv' /\ Abs!Next
    <2>1. f \in Byte
        BY StringAssumption
    <2>2. StringInv' /\ Abs!IncrByFloat
        BY <1>7, <2>1, IncrbyfloatStep
    <2>3. QED BY <2>2, Zenon DEF Abs!Next
<1>8. ASSUME StringInv, del_command \/ other_command
      PROVE  StringInv' /\ Abs!Next
    <2>1. StringInv' /\ (Abs!Del \/ Abs!Other)
        BY <1>8, DelStep, OtherStep
    <2>2. QED BY <2>1, Zenon DEF Abs!Next
<1>9. QED BY <1>1, <1>2, <1>3, <1>4, <1>5, <1>6, <1>7, <1>8, Zenon DEF Next

-----------------------------------------------------------------------------
(* The commands that read *)

\* What getrange is to reply.
Picked(i, j) == {n \in 1..bss.len : n - 1 >= FromEnd(i) /\ n - 1 <= FromEnd(j)}

LEMMA GetrangeIs ==
    ASSUME type = "string", Sound(bss), NEW i \in Int, NEW j \in Int
    PROVE  getrange_command(i, j) =
               [n \in 1..Cardinality(Picked(i, j)) |-> Contents(bss)[Min(Picked(i, j)) + n - 1]]
<1> DEFINE s == Contents(bss)
           size == bss.len
           first == MaxOf(FromEnd(i), 0)
           last == FromEnd(j)
           len == IF last > size - 1 THEN size - first ELSE last - first + 1
           picked == Picked(i, j)
<1>1. size \in Nat /\ \A n \in 1..size : s[n] = bss.str[n - 1]
    BY ContentsIs, SoundHas
<1>2. FromEnd(i) \in Int /\ last \in Int /\ first \in Nat
    BY <1>1 DEF FromEnd, MaxOf
<1>3. \A n \in 1..size : n - 1 >= FromEnd(i) <=> n - 1 >= first
    BY <1>1, <1>2 DEF MaxOf
<1>4. picked = {n \in 1..size : n - 1 >= first /\ n - 1 <= last}
    BY <1>3 DEF Picked
<1>5. getrange_command(i, j) = IF size = 0 \/ last < first \/ first >= size THEN <<>>
                               ELSE [n \in 1..len |-> bss.str[first + n - 1]]
    BY DEF getrange_command
<1> HIDE DEF s, size, first, last, picked
<1>6. CASE size = 0 \/ last < first \/ first >= size
    <2>1. picked = {}
        BY <1>1, <1>2, <1>4, <1>6
    <2>2. Cardinality(picked) = 0
        BY <2>1, FS_EmptySet
    <2>3. PICK none : none = [n \in 1..Cardinality(picked) |-> s[Min(picked) + n - 1]]
        OBVIOUS
    <2>4. none = <<>>
        <3>1. 1..Cardinality(picked) = {}
            BY <2>2
        <3>2. QED BY <2>3, <3>1
    <2>5. QED BY <1>5, <1>6, <2>3, <2>4 DEF s, picked
<1>7. CASE ~(size = 0 \/ last < first \/ first >= size)
    <2>1. len \in Nat /\ len >= 1 /\ first + len <= size
        BY <1>1, <1>2, <1>7
    <2>2. picked = (first + 1)..(first + len)
        <3>1. ASSUME NEW n \in 1..size
              PROVE  n - 1 >= first /\ n - 1 <= last <=> n >= first + 1 /\ n <= first + len
            BY <1>1, <1>2, <1>7
        <3> HIDE DEF len
        <3>2. \A n \in (first + 1)..(first + len) : n \in 1..size
            BY <1>1, <1>2, <2>1
        <3>3. QED BY <1>1, <1>2, <1>4, <2>1, <3>1, <3>2
    <2>3. getrange_command(i, j) = [n \in 1..len |-> bss.str[first + n - 1]]
        BY <1>5, <1>7
    <2> HIDE DEF len
    <2>4. Cardinality(picked) = len
        <3>1. PICK a \in Int, c \in Int : a = first + 1 /\ c = first + len
            BY <1>2, <2>1
        <3>2. Cardinality(a..c) = IF a > c THEN 0 ELSE c - a + 1
            BY FS_Interval
        <3>3. ~(a > c) /\ c - a + 1 = len
            BY <1>2, <2>1, <3>1
        <3>4. QED BY <2>2, <3>1, <3>2, <3>3
    <2>5. Min(picked) = first + 1
        <3>1. picked \subseteq Nat /\ first + 1 \in picked
            BY <1>2, <2>1, <2>2
        <3>2. Min(picked) \in picked /\ Min(picked) <= first + 1
            BY <3>1, MinOfNats
        <3>3. QED BY <1>2, <2>1, <2>2, <3>2
    <2>6. ASSUME NEW n \in 1..len PROVE bss.str[first + n - 1] = s[(first + 1) + n - 1]
        <3>1. PICK k \in 1..size : k = first + n
            BY <1>1, <1>2, <2>1
        <3>2. (first + 1) + n - 1 = k /\ first + n - 1 = k - 1
            BY <1>2, <3>1
        <3>3. QED BY <1>1, <3>2
    <2>7. QED BY <2>3, <2>4, <2>5, <2>6 DEF s, picked
<1>8. QED BY <1>6, <1>7

\* A bit has one place.
LEMMA PlaceOf ==
    ASSUME NEW k \in Nat, NEW p \in 1..ByteBits, NEW x \in Nat, x = ByteBits * k + (ByteBits - p)
    PROVE  Place(x) = k /\ Rank(x) = p
<1>1. PICK B \in Nat : B = ByteBits /\ B > 0
    BY BssAssumption
<1>2. PICK q \in Nat, r \in 1..B : q = Place(x) /\ r = Rank(x) /\ x = B * q + (B - r)
    BY <1>1, PlaceIs
<1>3. PICK d \in Int : d = q - k
    BY <1>2
<1>4. B * d = r - p
    <2>1. B * q = B * k + B * d /\ B * k \in Nat /\ B * d \in Int
        BY <1>1, <1>2, <1>3
    <2>2. x = B * k + (B - p) /\ p \in Int
        BY <1>1
    <2>3. QED BY <1>1, <1>2, <2>1, <2>2
<1>5. B * d < B /\ B * d > -B
    BY <1>1, <1>2, <1>4
<1>6. ~(d >= 1) /\ ~(d <= -1)
    BY <1>1, <1>5
<1>7. d = 0
    BY <1>6
<1>8. r = p /\ q = k
    <2>1. B * d = 0 /\ p \in Int
        BY <1>1, <1>7
    <2>2. r = p
        <3>1. r - p = 0
            BY <1>4, <2>1
        <3>2. r \in Int
            BY <1>2
        <3>3. QED BY <2>1, <3>1, <3>2
    <2>3. q = k
        BY <1>2, <1>3, <1>7
    <2>4. QED BY <2>2, <2>3
<1>9. QED BY <1>2, <1>8

\* The bits of the first m bytes of s that are set, and those of byte m.
Ones(s, m) == {x \in Nat : Place(x) < m /\ Rank(x) \in s[Place(x) + 1]}
OnesOf(s, m) == {x \in Nat : Place(x) = m - 1 /\ Rank(x) \in s[m]}

LEMMA OnesOfIs ==
    ASSUME NEW s \in Seq(Byte), NEW m \in 1..Len(s)
    PROVE  /\ IsFiniteSet(s[m]) /\ Cardinality(s[m]) \in Nat
           /\ IsFiniteSet(OnesOf(s, m)) /\ Cardinality(OnesOf(s, m)) = Cardinality(s[m])
<1>1. PICK B \in Nat : B = ByteBits /\ B > 0
    BY BssAssumption
<1>2. PICK k \in Nat : k = m - 1
    OBVIOUS
<1>3. PICK byte \in SUBSET (1..B) : byte = s[m]
    BY <1>1 DEF Byte
<1>4. IsFiniteSet(byte) /\ Cardinality(byte) \in Nat
    <2>1. PICK one \in Int : one = 1
        OBVIOUS
    <2>2. IsFiniteSet(one..B)
        BY <1>1, FS_Interval
    <2>3. IsFiniteSet(byte)
        BY <2>1, <2>2, FS_Subset
    <2>4. QED BY <2>3, FS_CardinalityType
<1> DEFINE T == OnesOf(s, m)
           f == [p \in byte |-> B * k + (B - p)]
<1>5. ASSUME NEW p \in byte
      PROVE  /\ f[p] \in Nat /\ Place(f[p]) = k /\ Rank(f[p]) = p
    <2>1. B * k \in Nat /\ p \in 1..B
        BY <1>1
    <2>2. PICK x \in Nat : x = B * k + (B - p)
        BY <1>1, <2>1
    <2>3. Place(x) = k /\ Rank(x) = p
        BY <1>1, <2>1, <2>2, PlaceOf
    <2>4. QED BY <2>2, <2>3
<1>6. \A x \in T : /\ x \in Nat /\ Place(x) = k /\ Rank(x) \in byte
    BY <1>2, <1>3 DEF OnesOf
<1>7. \A x \in Nat : Place(x) = k /\ Rank(x) \in byte => x \in T
    BY <1>2, <1>3 DEF OnesOf
<1>8. DOMAIN f = byte
    OBVIOUS
<1>9. f = [p \in byte |-> f[p]]
    OBVIOUS
<1> HIDE DEF f, T
<1>10. f \in [byte -> T]
    BY <1>5, <1>7, <1>9
<1>11. f \in Injection(byte, T)
    BY <1>5, <1>10 DEF Injection, IsInjective
<1>12. f \in Surjection(byte, T)
    <2>1. ASSUME NEW x \in T PROVE \E p \in byte : f[p] = x
        <3>1. PICK p \in byte : p = Rank(x)
            BY <1>6
        <3>2. x \in Nat /\ f[p] \in Nat /\ Place(x) = Place(f[p]) /\ Rank(x) = Rank(f[p])
            BY <1>5, <1>6, <3>1
        <3>3. f[p] = x
            BY <3>2, SamePlace
        <3>4. QED BY <3>3
    <2>2. QED BY <1>10, <2>1 DEF Surjection
<1>13. ExistsBijection(byte, T)
    BY <1>11, <1>12 DEF ExistsBijection, Bijection
<1>14. QED BY <1>3, <1>4, <1>13, FS_Bijection DEF T

LEMMA OnesGrow ==
    ASSUME NEW s \in Seq(Byte), NEW m \in 1..Len(s), IsFiniteSet(Ones(s, m - 1))
    PROVE  /\ IsFiniteSet(Ones(s, m))
           /\ Cardinality(Ones(s, m)) = Cardinality(Ones(s, m - 1)) + BitsIn(s[m])
           /\ BitsIn(s[m]) \in Nat
<1> DEFINE S == Ones(s, m - 1)
           T == OnesOf(s, m)
<1>1. \A x \in Nat : Place(x) \in Nat
    BY PlaceIs
<1>2. Ones(s, m) = S \cup T
    <2>1. ASSUME NEW x \in Nat
          PROVE  /\ Place(x) < m <=> Place(x) < m - 1 \/ Place(x) = m - 1
                 /\ Place(x) = m - 1 => Place(x) + 1 = m
        <3>1. PICK q \in Nat : q = Place(x)
            BY <1>1
        <3>2. QED BY <3>1
    <2>2. QED BY <2>1 DEF Ones, OnesOf
<1>3. S \cap T = {}
    <2>1. \A x \in Nat : Place(x) < m - 1 => Place(x) # m - 1
        BY <1>1
    <2>2. QED BY <2>1 DEF Ones, OnesOf
<1>4. IsFiniteSet(T) /\ Cardinality(T) = Cardinality(s[m]) /\ Cardinality(s[m]) \in Nat
    BY OnesOfIs
<1> HIDE DEF S, T
<1>5. IsFiniteSet(S) /\ Cardinality(S) \in Nat
    BY FS_CardinalityType DEF S
<1>6. IsFiniteSet(S \cup T) /\ Cardinality(S \cup T) = Cardinality(S) + Cardinality(T) - Cardinality({})
    BY <1>3, <1>4, <1>5, FS_Union
<1>7. Cardinality(S \cup T) = Cardinality(S) + Cardinality(T)
    BY <1>4, <1>5, <1>6, FS_EmptySet
<1>8. QED BY <1>2, <1>4, <1>6, <1>7 DEF S, BitsIn

\* Adding up the bits of the bytes of s.
BitSum(s) == FoldLeft(LAMBDA n, b : n + BitsIn(b), 0, s)

LEMMA BitSumIs ==
    ASSUME NEW s \in Seq(Byte)
    PROVE  BitSum(s) = Cardinality(Ones(s, Len(s)))
<1> DEFINE n == Len(s)
           Eq(g) == g = [t \in SUBSET (DOMAIN s) |->
                            IF t = {} THEN 0 ELSE g[t \ {Max(t)}] + BitsIn(s[Max(t)])]
           iter == CHOOSE g : Eq(g)
           F == [i \in 1..n |-> [v \in Nat |-> v + BitsIn(s[i])]]
           W == [m \in 0..n |-> {v \in Nat : /\ IsFiniteSet(Ones(s, m))
                                             /\ v = Cardinality(Ones(s, m))}]
<1>1. n \in Nat /\ DOMAIN s = 1..n
    OBVIOUS
<1>2. BitSum(s) = iter[1..n]
    <2>1. BitSum(s) = iter[DOMAIN s]
        BY DEF BitSum, FoldLeft, MapThenFoldSet
    <2> HIDE DEF iter
    <2>2. QED BY <1>1, <2>1
<1>3. ASSUME NEW i \in 1..n PROVE BitsIn(s[i]) \in Nat
    BY OnesOfIs DEF BitsIn
<1> HIDE DEF n
<1>4. F \in [1..n -> [Nat -> Nat]]
    BY <1>3
<1>5. PICK g \in [SUBSET (1..n) -> Nat] : FoldsTo(g, n, F, 0)
    <2> HIDE DEF F
    <2>1. PICK z \in Nat : z = 0
        OBVIOUS
    <2>2. \E g \in [SUBSET (1..n) -> Nat] : FoldsTo(g, n, F, z)
        BY <1>1, <1>4, FoldExists
    <2>3. QED BY <2>1, <2>2
<1>6. ASSUME NEW t \in SUBSET (1..n), t # {} PROVE Max(t) \in 1..n /\ Max(t) \in t
    BY <1>1, <1>6, MaxOfNats
<1>7. Eq(g)
    <2>1. ASSUME NEW t \in SUBSET (1..n), t # {}
          PROVE  g[t] = g[t \ {Max(t)}] + BitsIn(s[Max(t)])
        <3>1. Max(t) \in 1..n
            BY <1>6, <2>1
        <3>2. g[t] = F[Max(t)][g[t \ {Max(t)}]]
            BY <1>5, <2>1 DEF FoldsTo
        <3>3. g[t \ {Max(t)}] \in Nat
            BY <1>5
        <3>4. QED BY <3>1, <3>2, <3>3
    <2>2. g[{}] = 0
        BY <1>5 DEF FoldsTo
    <2>3. g = [t \in SUBSET (1..n) |-> g[t]]
        BY <1>5
    <2>4. QED BY <1>1, <2>1, <2>2, <2>3
<1>8. Eq(iter)
    <2> HIDE DEF Eq
    <2>1. QED BY <1>7
<1>9. /\ iter[{}] = 0
      /\ \A t \in SUBSET (1..n) : t # {} => iter[t] = iter[t \ {Max(t)}] + BitsIn(s[Max(t)])
    <2> HIDE DEF iter
    <2>1. QED BY <1>1, <1>8
<1> HIDE DEF iter, Eq, F
<1>10. iter[{}] \in W[0]
    <2>1. Ones(s, 0) = {}
        BY PlaceIs DEF Ones
    <2>2. 0 \in 0..n
        BY <1>1
    <2>3. IsFiniteSet(Ones(s, 0)) /\ 0 = Cardinality(Ones(s, 0))
        BY <2>1, FS_EmptySet
    <2>4. QED BY <1>9, <2>2, <2>3
<1>11. ASSUME NEW m \in 1..n, iter[(1..m) \ {Max(1..m)}] \in W[m - 1]
       PROVE  iter[1..m] \in W[m]
    <2> DEFINE v == iter[(1..m) \ {Max(1..m)}]
    <2>1. Max(1..m) = m /\ 1..m # {}
        BY MaxOfFirst
    <2>2. iter[1..m] = v + BitsIn(s[m])
        <3>1. 1..m \in SUBSET (1..n)
            BY <1>1
        <3>2. iter[1..m] = iter[(1..m) \ {Max(1..m)}] + BitsIn(s[Max(1..m)])
            BY <1>9, <2>1, <3>1
        <3>3. QED BY <2>1, <3>2
    <2>3. m - 1 \in 0..n /\ m \in 0..n /\ m \in 1..Len(s)
        BY <1>1 DEF n
    <2>4. v \in Nat /\ IsFiniteSet(Ones(s, m - 1)) /\ v = Cardinality(Ones(s, m - 1))
        <3> HIDE DEF v
        <3>1. v \in W[m - 1]
            BY <1>11 DEF v
        <3>2. QED BY <2>3, <3>1
    <2> HIDE DEF v, W
    <2>5. /\ IsFiniteSet(Ones(s, m)) /\ BitsIn(s[m]) \in Nat
          /\ Cardinality(Ones(s, m)) = Cardinality(Ones(s, m - 1)) + BitsIn(s[m])
        BY <2>3, <2>4, OnesGrow
    <2>6. v + BitsIn(s[m]) \in Nat
        BY <2>4, <2>5
    <2>7. QED BY <2>2, <2>3, <2>4, <2>5, <2>6 DEF W
<1>12. iter[1..n] \in W[n]
    <2> HIDE DEF W
    <2>1. QED BY <1>1, <1>10, <1>11, FoldClimbs
<1>13. n \in 0..n
    BY <1>1
<1>14. iter[1..n] = Cardinality(Ones(s, n))
    BY <1>12, <1>13
<1>15. QED BY <1>2, <1>14 DEF n

\* The bits that are set, as Abs!Bit has them.
LEMMA OnesAre ==
    ASSUME NEW s \in Seq(Byte)
    PROVE  {x \in 0..(Len(s) * ByteBits) : Abs!Bit(s, x) = 1} = Ones(s, Len(s))
<1>1. PICK B \in Nat : B = ByteBits /\ B > 0
    BY BssAssumption
<1>2. PICK n \in Nat : n = Len(s)
    OBVIOUS
<1>3. ASSUME NEW x \in Nat
      PROVE  Abs!Bit(s, x) = 1 <=> Place(x) < n /\ Rank(x) \in s[Place(x) + 1]
    BY <1>2, BitIs
<1>4. ASSUME NEW x \in Nat, Place(x) < n PROVE x \in 0..(n * B)
    <2>1. PICK q \in Nat, r \in 1..B : q = Place(x) /\ x = B * q + (B - r)
        BY <1>1, PlaceIs
    <2>2. q < n
        BY <1>4, <2>1
    <2>3. PICK d \in Nat : n = q + 1 + d
        <3>1. n - 1 - q \in Nat /\ n = q + 1 + (n - 1 - q)
            BY <2>2
        <3>2. QED BY <3>1
    <2>4. PICK u \in Nat, v \in Nat : u = B * q /\ v = B * d
        OBVIOUS
    <2>5. n * B = u + B + v
        BY <2>3, <2>4
    <2>6. x = u + (B - r) /\ r <= B
        BY <2>1, <2>4
    <2>7. QED BY <2>5, <2>6
<1>5. \A x \in 0..(n * B) : x \in Nat
    BY <1>2
<1>6. QED BY <1>1, <1>2, <1>3, <1>4, <1>5 DEF Ones

LEMMA BitcountIs ==
    ASSUME type = "string", Sound(bss),
           \A n \in 1..Len(Contents(bss)) : Abs!Bit(Contents(bss), (n - 1) * ByteBits) = 0
    PROVE  bitcount_command = Cardinality(Ones(Contents(bss), Len(Contents(bss))))
<1> DEFINE s == Contents(bss)
<1>1. s \in Seq(Byte) /\ Len(s) = bss.len
    BY ContentsIs
<1>2. \A n \in 1..Len(s) : Abs!Bit(s, (n - 1) * ByteBits) = 0
    OBVIOUS
<1>3. bitcount_command = bss_count_bit(bss)
    BY DEF bitcount_command
<1>4. bss_count_bit(bss) = IF \E i \in 1..bss.len : OutsideTable(s[i]) THEN Wild ELSE BitSum(s)
    BY DEF bss_count_bit, BitSum
<1> HIDE DEF s
<1>5. ASSUME NEW n \in 1..Len(s) PROVE ~OutsideTable(s[n])
    <2>1. PICK B \in Nat : B = ByteBits /\ B > 0
        BY BssAssumption
    <2>2. PICK k \in Nat : k = n - 1
        BY <1>1
    <2>3. PICK x \in Nat : x = k * B
        OBVIOUS
    <2>4. x = B * k + (B - B) /\ B \in 1..B
        BY <2>1, <2>3
    <2>5. Place(x) = k /\ Rank(x) = B
        BY <2>1, <2>4, PlaceOf
    <2>6. Abs!Bit(s, x) = 0
        BY <1>2, <2>1, <2>2, <2>3
    <2>7. Abs!Bit(s, x) = IF Place(x) < Len(s) /\ Rank(x) \in s[Place(x) + 1] THEN 1 ELSE 0
        BY <1>1, BitIs
    <2>8. k < Len(s) /\ k + 1 = n
        BY <1>1, <2>2
    <2>9. QED BY <2>1, <2>5, <2>6, <2>7, <2>8 DEF OutsideTable
<1>6. bss_count_bit(bss) = BitSum(s)
    BY <1>1, <1>4, <1>5
<1>7. QED BY <1>1, <1>3, <1>6, BitSumIs DEF s

-----------------------------------------------------------------------------
(* The parser *)

\* What an argument can be, and the states of the parser.
Sendable == {t \in Seq(Byte) : CharQuote \notin ToSet(t) \/ Word(t)}
ParseState ==
    {p \in [mode : {"between", "quoted", "word"}, arg : Seq(Byte), args : Seq(Sendable)] :
        /\ p.mode = "quoted" => CharQuote \notin ToSet(p.arg)
        /\ p.mode = "word" => Word(p.arg)}

ParseFirst == Parse("between", <<>>, <<>>)

LEMMA ToSetOne ==
    ASSUME NEW c
    PROVE  ToSet(<<c>>) = {c}
BY DEF ToSet

LEMMA ToSetAppend ==
    ASSUME NEW s \in Seq(Byte), NEW c \in Byte
    PROVE  /\ Append(s, c) \in Seq(Byte)
           /\ ToSet(Append(s, c)) = ToSet(s) \cup {c}
           /\ s # <<>> => Append(s, c)[1] = s[1]
           /\ Append(s, c) # <<>>
<1> DEFINE t == Append(s, c)
           n == Len(s)
<1>1. /\ t \in Seq(Byte) /\ Len(t) = n + 1 /\ n \in Nat /\ t[n + 1] = c
      /\ \A i \in 1..n : t[i] = s[i]
    OBVIOUS
<1>2. DOMAIN t = 1..(n + 1) /\ DOMAIN s = 1..n
    BY <1>1
<1> HIDE DEF t, n
<1>3. 1..(n + 1) = (1..n) \cup {n + 1}
    BY <1>1
<1>4. ToSet(t) = ToSet(s) \cup {c}
    BY <1>1, <1>2, <1>3 DEF ToSet
<1>5. s # <<>> => t[1] = s[1]
    <2>1. SUFFICES ASSUME s # <<>> PROVE t[1] = s[1]
        OBVIOUS
    <2>2. n >= 1
        BY <1>1, <2>1 DEF n
    <2>3. QED BY <1>1, <2>2
<1>6. t # <<>>
    BY <1>1
<1>7. QED BY <1>1, <1>4, <1>5, <1>6 DEF t

\* What a byte does, in each mode.
LEMMA ParseByteIs ==
    ASSUME NEW p \in ParseState, NEW c \in Byte
    PROVE  /\ p.mode = "between" /\ c \in Space => ParseByte(p, c) = p
           /\ p.mode = "between" /\ c = CharQuote =>
                 ParseByte(p, c) = Parse("quoted", <<>>, p.args)
           /\ p.mode = "between" /\ c \notin Space /\ c # CharQuote =>
                 ParseByte(p, c) = Parse("word", <<c>>, p.args)
           /\ (p.mode = "quoted" /\ c = CharQuote) \/ (p.mode = "word" /\ c \in Space) =>
                 ParseByte(p, c) = Parse("between", <<>>, Append(p.args, p.arg))
           /\ (p.mode = "quoted" /\ c # CharQuote) \/ (p.mode = "word" /\ c \notin Space) =>
                 ParseByte(p, c) = Parse(p.mode, Append(p.arg, c), p.args)
<1>1. CharQuote \notin Space
    BY StringAssumption
<1>2. p = [mode |-> p.mode, arg |-> p.arg, args |-> p.args]
    BY DEF ParseState
<1>3. [p EXCEPT !.arg = Append(@, c)] = Parse(p.mode, Append(p.arg, c), p.args)
    BY <1>2 DEF Parse
<1>4. QED BY <1>1, <1>3 DEF ParseByte

LEMMA ParseStates ==
    /\ ParseFirst \in ParseState
    /\ \A p \in ParseState, c \in Byte : ParseByte(p, c) \in ParseState
<1>1. ParseFirst \in ParseState
    <2>1. <<>> \in Seq(Byte) /\ <<>> \in Seq(Sendable)
        OBVIOUS
    <2>2. QED BY <2>1 DEF ParseFirst, Parse, ParseState
<1>2. ASSUME NEW p \in ParseState, NEW c \in Byte PROVE ParseByte(p, c) \in ParseState
    <2>1. /\ p.mode \in {"between", "quoted", "word"} /\ p.arg \in Seq(Byte) /\ p.args \in Seq(Sendable)
          /\ p.mode = "quoted" => CharQuote \notin ToSet(p.arg)
          /\ p.mode = "word" => Word(p.arg)
        BY DEF ParseState
    <2>2. ASSUME NEW mode \in {"between", "quoted", "word"}, NEW arg \in Seq(Byte),
                 NEW args \in Seq(Sendable),
                 mode = "quoted" => CharQuote \notin ToSet(arg), mode = "word" => Word(arg)
          PROVE  Parse(mode, arg, args) \in ParseState
        BY <2>2 DEF Parse, ParseState
    <2>3. CASE p.mode = "between" /\ c \in Space
        BY <2>3, ParseByteIs
    <2>4. CASE p.mode = "between" /\ c = CharQuote
        <3>1. PICK none \in Seq(Byte) : none = <<>>
            <4>1. <<>> \in Seq(Byte)
                OBVIOUS
            <4>2. QED BY <4>1
        <3>2. CharQuote \notin ToSet(none)
            BY <3>1 DEF ToSet
        <3>3. Parse("quoted", none, p.args) \in ParseState
            BY <2>1, <2>2, <3>2
        <3>4. QED BY <2>4, <3>1, <3>3, ParseByteIs
    <2>5. CASE p.mode = "between" /\ c \notin Space /\ c # CharQuote
        <3>1. PICK one \in Seq(Byte) : one = <<c>>
            <4>1. <<c>> \in Seq(Byte)
                OBVIOUS
            <4>2. QED BY <4>1
        <3>2. Word(one)
            BY <2>5, <3>1, ToSetOne DEF Word
        <3>3. Parse("word", one, p.args) \in ParseState
            BY <2>1, <2>2, <3>2
        <3>4. QED BY <2>5, <3>1, <3>3, ParseByteIs
    <2>6. CASE (p.mode = "quoted" /\ c = CharQuote) \/ (p.mode = "word" /\ c \in Space)
        <3>1. p.arg \in Sendable
            BY <2>1, <2>6 DEF Sendable
        <3>2. PICK args \in Seq(Sendable) : args = Append(p.args, p.arg)
            <4>1. Append(p.args, p.arg) \in Seq(Sendable)
                BY <2>1, <3>1
            <4>2. QED BY <4>1
        <3>3. PICK none \in Seq(Byte) : none = <<>>
            <4>1. <<>> \in Seq(Byte)
                OBVIOUS
            <4>2. QED BY <4>1
        <3>4. Parse("between", none, args) \in ParseState
            BY <2>2
        <3>5. QED BY <2>6, <3>2, <3>3, <3>4, ParseByteIs
    <2>7. CASE (p.mode = "quoted" /\ c # CharQuote) \/ (p.mode = "word" /\ c \notin Space)
        <3> DEFINE t == Append(p.arg, c)
        <3>1. /\ t \in Seq(Byte) /\ ToSet(t) = ToSet(p.arg) \cup {c} /\ t # <<>>
              /\ p.arg # <<>> => t[1] = p.arg[1]
            BY <2>1, ToSetAppend
        <3> HIDE DEF t
        <3>2. p.mode = "quoted" => CharQuote \notin ToSet(t)
            BY <2>1, <2>7, <3>1
        <3>3. p.mode = "word" => Word(t)
            BY <2>1, <2>7, <3>1 DEF Word
        <3>4. Parse(p.mode, t, p.args) \in ParseState
            BY <2>1, <2>2, <3>1, <3>2, <3>3
        <3>5. QED BY <2>7, <3>4, ParseByteIs DEF t
    <2>8. QED BY <2>1, <2>3, <2>4, <2>5, <2>6, <2>7
<1>3. QED BY <1>1, <1>2

\* The bytes of data take the parser from p to q, through the states of a trace.
IsTrace(tr, p, data) ==
    /\ tr \in [0..Len(data) -> ParseState]
    /\ tr[0] = p
    /\ \A i \in 1..Len(data) : tr[i] = ParseByte(tr[i - 1], data[i])
Leads(p, data, q) == \E tr : IsTrace(tr, p, data) /\ tr[Len(data)] = q

LEMMA LeadsOne ==
    ASSUME NEW p \in ParseState, NEW c \in Byte
    PROVE  Leads(p, <<c>>, ParseByte(p, c)) /\ ParseByte(p, c) \in ParseState
<1> DEFINE q == ParseByte(p, c)
           tr == [i \in 0..1 |-> IF i = 0 THEN p ELSE q]
<1>1. q \in ParseState
    BY ParseStates
<1>2. Len(<<c>>) = 1 /\ <<c>>[1] = c
    OBVIOUS
<1>3. tr \in [0..1 -> ParseState] /\ tr[0] = p /\ tr[1] = q
    <2> HIDE DEF q
    <2>1. QED BY <1>1
<1> HIDE DEF tr
<1>4. \A i \in 1..1 : i = 1 /\ i - 1 = 0
    OBVIOUS
<1>5. IsTrace(tr, p, <<c>>)
    BY <1>2, <1>3, <1>4 DEF IsTrace
<1>6. QED BY <1>1, <1>2, <1>3, <1>5 DEF Leads

LEMMA LeadsConcat ==
    ASSUME NEW p, NEW q, NEW r, NEW a \in Seq(Byte), NEW b \in Seq(Byte),
           Leads(p, a, q), Leads(q, b, r)
    PROVE  Leads(p, a \o b, r)
<1> DEFINE m == Len(a)
           n == Len(b)
           c == a \o b
<1>1. m \in Nat /\ n \in Nat
    OBVIOUS
<1>2. /\ c \in Seq(Byte) /\ Len(c) = m + n
      /\ \A i \in 1..(m + n) : c[i] = IF i <= m THEN a[i] ELSE b[i - m]
    BY ConcatProperties
<1>3. PICK t : IsTrace(t, p, a) /\ t[m] = q
    BY DEF Leads
<1>4. PICK u : IsTrace(u, q, b) /\ u[n] = r
    BY DEF Leads
<1>5. /\ t \in [0..m -> ParseState] /\ t[0] = p /\ t[m] = q
      /\ \A i \in 1..m : t[i] = ParseByte(t[i - 1], a[i])
    BY <1>3 DEF IsTrace
<1>6. /\ u \in [0..n -> ParseState] /\ u[0] = q /\ u[n] = r
      /\ \A i \in 1..n : u[i] = ParseByte(u[i - 1], b[i])
    BY <1>4 DEF IsTrace
<1> HIDE DEF m, n, c
<1> DEFINE tr == [i \in 0..(m + n) |-> IF i <= m THEN t[i] ELSE u[i - m]]
<1>7. ASSUME NEW i \in 0..(m + n)
      PROVE  /\ tr[i] \in ParseState
             /\ i <= m => tr[i] = t[i]
             /\ i >= m => tr[i] = u[i - m]
    <2>1. i <= m => i \in 0..m
        BY <1>1
    <2>2. i > m => i - m \in 0..n
        BY <1>1
    <2>3. i = m => i - m = 0
        BY <1>1
    <2>4. i <= m \/ i > m
        BY <1>1
    <2>5. QED BY <1>1, <1>5, <1>6, <2>1, <2>2, <2>3, <2>4
<1>8. tr = [i \in 0..(m + n) |-> tr[i]]
    OBVIOUS
<1> HIDE DEF tr
<1>9. tr \in [0..(m + n) -> ParseState] /\ tr[0] = p /\ tr[m + n] = r
    <2>1. tr \in [0..(m + n) -> ParseState]
        BY <1>7, <1>8
    <2>2. tr[0] = p
        <3>1. 0 \in 0..(m + n) /\ 0 <= m
            BY <1>1
        <3>2. QED BY <1>5, <1>7, <3>1
    <2>3. tr[m + n] = r
        <3>1. PICK e \in 0..(m + n) : e = m + n
            BY <1>1
        <3>2. e >= m /\ e - m = n
            BY <1>1, <3>1
        <3>3. QED BY <1>6, <1>7, <3>1, <3>2
    <2>4. QED BY <2>1, <2>2, <2>3
<1>10. ASSUME NEW i \in 1..(m + n) PROVE tr[i] = ParseByte(tr[i - 1], c[i])
    <2>1. PICK j \in 0..(m + n) : j = i - 1
        BY <1>1
    <2>2. i \in 0..(m + n)
        BY <1>1
    <2>3. CASE i <= m
        <3>1. i \in 1..m /\ j <= m
            BY <1>1, <2>1, <2>3
        <3>2. tr[i] = t[i] /\ tr[j] = t[j] /\ c[i] = a[i]
            BY <1>2, <1>7, <2>2, <2>3, <3>1
        <3>3. QED BY <1>5, <2>1, <3>1, <3>2
    <2>4. CASE ~(i <= m)
        <3>1. PICK k \in 1..n : k = i - m
            BY <1>1, <2>4
        <3>2. i >= m /\ j >= m /\ j - m = k - 1
            BY <1>1, <2>1, <2>4, <3>1
        <3>3. tr[i] = u[k] /\ tr[j] = u[k - 1] /\ c[i] = b[k]
            BY <1>2, <1>7, <2>2, <2>4, <3>1, <3>2
        <3>4. QED BY <1>6, <2>1, <3>1, <3>3
    <2>5. QED BY <2>3, <2>4
<1>11. IsTrace(tr, p, c) /\ tr[Len(c)] = r
    BY <1>2, <1>9, <1>10 DEF IsTrace
<1>12. QED BY <1>11 DEF Leads, c

\* The parser goes from byte to byte.
ParseAll(data) == FoldLeft(ParseByte, ParseFirst, data)

LEMMA ParseAllIs ==
    ASSUME NEW data \in Seq(Byte)
    PROVE  /\ ParseAll(data) \in ParseState
           /\ \A q : Leads(ParseFirst, data, q) => ParseAll(data) = q
<1> DEFINE n == Len(data)
           Eq(g) == g = [t \in SUBSET (DOMAIN data) |->
                            IF t = {} THEN ParseFirst
                            ELSE ParseByte(g[t \ {Max(t)}], data[Max(t)])]
           iter == CHOOSE g : Eq(g)
           F == [i \in 1..n |-> [p \in ParseState |-> ParseByte(p, data[i])]]
<1>1. n \in Nat /\ DOMAIN data = 1..n /\ \A i \in 1..n : data[i] \in Byte
    OBVIOUS
<1>2. ParseAll(data) = iter[1..n]
    <2>1. ParseAll(data) = iter[DOMAIN data]
        BY DEF ParseAll, FoldLeft, MapThenFoldSet
    <2> HIDE DEF iter
    <2>2. QED BY <1>1, <2>1
<1> HIDE DEF n
<1>3. ParseFirst \in ParseState /\ \A i \in 1..n : \A p \in ParseState : ParseByte(p, data[i]) \in ParseState
    BY <1>1, ParseStates
<1>4. F \in [1..n -> [ParseState -> ParseState]]
    BY <1>3
<1>5. PICK g \in [SUBSET (1..n) -> ParseState] : FoldsTo(g, n, F, ParseFirst)
    <2> HIDE DEF F
    <2>1. QED BY <1>1, <1>3, <1>4, FoldExists
<1>6. ASSUME NEW t \in SUBSET (1..n), t # {} PROVE Max(t) \in 1..n /\ Max(t) \in t
    BY <1>1, <1>6, MaxOfNats
<1>7. Eq(g)
    <2>1. ASSUME NEW t \in SUBSET (1..n), t # {}
          PROVE  g[t] = ParseByte(g[t \ {Max(t)}], data[Max(t)])
        <3>1. Max(t) \in 1..n
            BY <1>6, <2>1
        <3>2. g[t] = F[Max(t)][g[t \ {Max(t)}]]
            BY <1>5, <2>1 DEF FoldsTo
        <3>3. g[t \ {Max(t)}] \in ParseState
            BY <1>5
        <3>4. QED BY <3>1, <3>2, <3>3
    <2>2. g[{}] = ParseFirst
        BY <1>5 DEF FoldsTo
    <2>3. g = [t \in SUBSET (1..n) |-> g[t]]
        BY <1>5
    <2>4. QED BY <1>1, <2>1, <2>2, <2>3
<1>8. Eq(iter)
    <2> HIDE DEF Eq
    <2>1. QED BY <1>7
<1>9. /\ iter[{}] = ParseFirst
      /\ \A t \in SUBSET (1..n) :
            t # {} => iter[t] = ParseByte(iter[t \ {Max(t)}], data[Max(t)])
    <2> HIDE DEF iter
    <2>1. QED BY <1>1, <1>8
<1> HIDE DEF iter, Eq, F
<1>10. ASSUME NEW m \in 1..n
       PROVE  iter[1..m] = ParseByte(iter[(1..m) \ {Max(1..m)}], data[m])
    <2>1. Max(1..m) = m /\ 1..m # {} /\ 1..m \in SUBSET (1..n)
        BY <1>1, MaxOfFirst
    <2>2. iter[1..m] = ParseByte(iter[(1..m) \ {Max(1..m)}], data[Max(1..m)])
        BY <1>9, <2>1
    <2>3. QED BY <2>1, <2>2
<1>11. iter[1..n] \in ParseState
    <2> DEFINE W == [m \in 0..n |-> ParseState]
    <2>1. iter[{}] \in W[0]
        BY <1>1, <1>3, <1>9
    <2>2. ASSUME NEW m \in 1..n, iter[(1..m) \ {Max(1..m)}] \in W[m - 1]
          PROVE  iter[1..m] \in W[m]
        <3>1. m \in 0..n /\ m - 1 \in 0..n
            BY <1>1
        <3>2. iter[(1..m) \ {Max(1..m)}] \in ParseState
            BY <2>2, <3>1
        <3>3. ParseByte(iter[(1..m) \ {Max(1..m)}], data[m]) \in ParseState
            BY <1>3, <3>2
        <3>4. QED BY <1>10, <3>1, <3>3
    <2>3. iter[1..n] \in W[n]
        <3> HIDE DEF W
        <3>1. QED BY <1>1, <2>1, <2>2, FoldClimbs
    <2>4. QED BY <1>1, <2>3
<1>12. ASSUME NEW q, Leads(ParseFirst, data, q) PROVE iter[1..n] = q
    <2>1. PICK tr : IsTrace(tr, ParseFirst, data) /\ tr[n] = q
        BY <1>12 DEF Leads, n
    <2>2. tr[0] = ParseFirst /\ \A i \in 1..n : tr[i] = ParseByte(tr[i - 1], data[i])
        BY <2>1 DEF IsTrace, n
    <2> DEFINE W == [m \in 0..n |-> {tr[m]}]
    <2>3. iter[{}] \in W[0]
        BY <1>1, <1>9, <2>2
    <2>4. ASSUME NEW m \in 1..n, iter[(1..m) \ {Max(1..m)}] \in W[m - 1]
          PROVE  iter[1..m] \in W[m]
        <3>1. m \in 0..n /\ m - 1 \in 0..n
            BY <1>1
        <3>2. iter[(1..m) \ {Max(1..m)}] = tr[m - 1]
            BY <2>4, <3>1
        <3>3. iter[1..m] = tr[m]
            BY <1>10, <2>2, <3>2
        <3>4. QED BY <3>1, <3>3
    <2>5. iter[1..n] \in W[n]
        <3> HIDE DEF W
        <3>1. QED BY <1>1, <2>3, <2>4, FoldClimbs
    <2>6. QED BY <1>1, <2>1, <2>5
<1>13. QED BY <1>2, <1>11, <1>12

\* The parser is done with the arguments args, or will be when the data ends.
Has(q, args) ==
    \/ q.mode = "between" /\ q.args = args
    \/ q.mode = "word" /\ Append(q.args, q.arg) = args

LEMMA ParsedIs ==
    ASSUME NEW data \in Seq(Byte), NEW q, Leads(ParseFirst, data, q), NEW args, Has(q, args)
    PROVE  parse_args(data) = Parsed("ok", args)
<1>1. PICK p : p = ParseAll(data)
    OBVIOUS
<1>2. parse_args(data) = CASE p.mode = "quoted"  -> Parsed("E_INV_ARGS", <<>>)
                           [] p.mode = "word"    -> Parsed("ok", Append(p.args, p.arg))
                           [] p.mode = "between" -> Parsed("ok", p.args)
    BY <1>1 DEF parse_args, ParseAll, ParseFirst
<1>3. p = q
    BY <1>1, ParseAllIs
<1>4. CASE q.mode = "between" /\ q.args = args
    BY <1>2, <1>3, <1>4
<1>5. CASE q.mode = "word" /\ Append(q.args, q.arg) = args
    BY <1>2, <1>3, <1>5
<1>6. QED BY <1>4, <1>5 DEF Has

\* A space after an argument.
LEMMA SpaceLeads ==
    ASSUME NEW q \in ParseState, NEW args, Has(q, args), NEW c \in Space
    PROVE  \E r \in ParseState : Leads(q, <<c>>, r) /\ r.mode = "between" /\ r.args = args
<1>1. c \in Byte
    BY StringAssumption
<1>2. PICK r \in ParseState : r = ParseByte(q, c) /\ Leads(q, <<c>>, r)
    BY <1>1, LeadsOne
<1>3. r.mode = "between" /\ r.args = args
    <2>1. CASE q.mode = "between" /\ q.args = args
        BY <1>1, <1>2, <2>1, ParseByteIs
    <2>2. CASE q.mode = "word" /\ Append(q.args, q.arg) = args
        <3>1. r = Parse("between", <<>>, args)
            BY <1>1, <1>2, <2>2, ParseByteIs
        <3>2. QED BY <3>1 DEF Parse
    <2>3. QED BY <2>1, <2>2 DEF Has
<1>4. QED BY <1>2, <1>3

\* The first m bytes of t, and one more.
LEMMA Prefix ==
    ASSUME NEW t \in Seq(Byte), NEW m \in 0..Len(t)
    PROVE  /\ SubSeq(t, 1, m) \in Seq(Byte) /\ Len(SubSeq(t, 1, m)) = m
           /\ ToSet(SubSeq(t, 1, m)) \subseteq ToSet(t)
           /\ m >= 1 => SubSeq(t, 1, m)[1] = t[1] /\ SubSeq(t, 1, m) # <<>>
           /\ m >= 1 => SubSeq(t, 1, m) = Append(SubSeq(t, 1, m - 1), t[m])
<1> DEFINE u == SubSeq(t, 1, m)
<1>1. m \in Nat /\ u \in Seq(Byte) /\ Len(u) = m /\ \A i \in 1..m : u[i] = t[i]
    OBVIOUS
<1>2. DOMAIN u = 1..m /\ DOMAIN t = 1..Len(t) /\ \A i \in 1..m : i \in 1..Len(t)
    BY <1>1
<1> HIDE DEF u
<1>3. ToSet(u) \subseteq ToSet(t)
    BY <1>1, <1>2 DEF ToSet
<1>4. m >= 1 => u[1] = t[1] /\ u # <<>>
    BY <1>1
<1>5. ASSUME m >= 1 PROVE u = Append(SubSeq(t, 1, m - 1), t[m])
    <2> DEFINE v == SubSeq(t, 1, m - 1)
               w == Append(v, t[m])
    <2>1. m - 1 \in 0..Len(t) /\ t[m] \in Byte
        BY <1>1, <1>5
    <2>2. v \in Seq(Byte) /\ Len(v) = m - 1 /\ \A i \in 1..(m - 1) : v[i] = t[i]
        BY <2>1
    <2> HIDE DEF v
    <2>3. /\ w \in Seq(Byte) /\ Len(w) = m /\ w[m] = t[m]
          /\ \A i \in 1..(m - 1) : w[i] = v[i]
        BY <1>1, <2>1, <2>2
    <2> HIDE DEF w
    <2>4. ASSUME NEW i \in 1..m PROVE u[i] = w[i]
        <3>1. i = m \/ i \in 1..(m - 1)
            BY <1>1
        <3>2. QED BY <1>1, <2>2, <2>3, <3>1
    <2>5. u = w
        BY <1>1, <2>3, <2>4, SameBytes
    <2>6. QED BY <2>5 DEF w, v
<1>6. QED BY <1>1, <1>3, <1>4, <1>5 DEF u

\* The bytes of a word, between arguments.
LEMMA WordLeads ==
    ASSUME NEW t \in Seq(Byte), Word(t), NEW p \in ParseState, p.mode = "between"
    PROVE  \E q \in ParseState : Leads(p, t, q) /\ Has(q, Append(p.args, t))
<1> DEFINE n == Len(t)
           Pre(m) == SubSeq(t, 1, m)
           At(m) == IF m = 0 THEN p ELSE Parse("word", Pre(m), p.args)
           tr == [m \in 0..n |-> At(m)]
<1>1. n \in Nat /\ n >= 1 /\ \A i \in 1..n : t[i] \in Byte /\ t[i] \in ToSet(t)
    BY DEF Word, ToSet
<1>2. ASSUME NEW m \in 0..n, m # 0 PROVE Word(Pre(m)) /\ Pre(m) \in Seq(Byte)
    <2>1. m >= 1
        BY <1>2
    <2>2. QED BY <2>1, Prefix DEF Word
<1>3. p.args \in Seq(Sendable)
    BY DEF ParseState
<1>4. ASSUME NEW m \in 0..n PROVE At(m) \in ParseState
    <2>1. CASE m = 0
        BY <2>1
    <2>2. CASE m # 0
        <3>1. PICK u \in Seq(Byte) : u = Pre(m) /\ Word(u)
            BY <1>2, <2>2
        <3>2. Parse("word", u, p.args) \in ParseState
            BY <1>3, <3>1 DEF Parse, ParseState
        <3>3. QED BY <2>2, <3>1, <3>2
    <2>3. QED BY <2>1, <2>2
<1>5. ASSUME NEW i \in 1..n PROVE At(i) = ParseByte(At(i - 1), t[i])
    <2>1. t[i] \in Byte /\ t[i] \notin Space /\ i \in 0..n /\ i # 0
        BY <1>1 DEF Word
    <2>2. At(i) = Parse("word", Pre(i), p.args)
        BY <2>1
    <2>3. Pre(i) = Append(Pre(i - 1), t[i])
        <3>1. i >= 1
            BY <2>1
        <3>2. QED BY <2>1, <3>1, Prefix
    <2>4. CASE i = 1
        <3>1. t[i] # CharQuote
            BY <2>4 DEF Word
        <3>2. At(i - 1) = p
            BY <2>4
        <3>3. ParseByte(p, t[i]) = Parse("word", <<t[i]>>, p.args)
            BY <2>1, <3>1, ParseByteIs
        <3>4. Pre(i) = <<t[i]>>
            <4>1. Pre(0) = <<>>
                OBVIOUS
            <4>2. i - 1 = 0
                BY <2>4
            <4>3. Pre(i - 1) = <<>>
                BY <4>1, <4>2
            <4>4. Append(<<>>, t[i]) = <<t[i]>>
                OBVIOUS
            <4> HIDE DEF Pre
            <4>5. QED BY <2>3, <4>3, <4>4
        <3>5. QED BY <2>2, <3>2, <3>3, <3>4
    <2>5. CASE i # 1
        <3>1. i - 1 \in 0..n /\ i - 1 # 0
            BY <1>1, <2>5
        <3>2. PICK u : u = At(i - 1)
            OBVIOUS
        <3>3. u \in ParseState /\ u = Parse("word", Pre(i - 1), p.args)
            BY <1>4, <3>1, <3>2
        <3>4. u.mode = "word" /\ u.arg = Pre(i - 1) /\ u.args = p.args
            BY <3>3 DEF Parse
        <3>5. ParseByte(u, t[i]) = Parse("word", Append(Pre(i - 1), t[i]), p.args)
            BY <2>1, <3>3, <3>4, ParseByteIs
        <3>6. QED BY <2>2, <2>3, <3>2, <3>5
    <2>6. QED BY <2>4, <2>5
<1> HIDE DEF At
<1>6. tr \in [0..n -> ParseState]
    BY <1>4
<1>7. 0 \in 0..n /\ n \in 0..n /\ \A i \in 1..n : i \in 0..n /\ i - 1 \in 0..n
    BY <1>1
<1>8. IsTrace(tr, p, t)
    BY <1>5, <1>6, <1>7 DEF IsTrace, At
<1>9. PICK q \in ParseState : q = At(n) /\ tr[n] = q
    BY <1>4, <1>7
<1>10. Leads(p, t, q)
    <2> HIDE DEF tr
    <2>1. QED BY <1>8, <1>9 DEF Leads
<1>11. q = Parse("word", t, p.args)
    <2>1. Pre(n) = t
        <3>1. Pre(n) \in Seq(Byte) /\ Len(Pre(n)) = n /\ \A i \in 1..n : Pre(n)[i] = t[i]
            OBVIOUS
        <3>2. QED BY <3>1, SameBytes
    <2>2. n # 0
        BY <1>1
    <2>3. QED BY <1>9, <2>1, <2>2 DEF At
<1>12. Has(q, Append(p.args, t))
    BY <1>11 DEF Has, Parse
<1>13. QED BY <1>10, <1>12

\* The bytes of a value in quotes, between arguments.
LEMMA QuotedLeads ==
    ASSUME NEW t \in Seq(Byte), CharQuote \notin ToSet(t),
           NEW p \in ParseState, p.mode = "between"
    PROVE  \E q \in ParseState : Leads(p, Quoted(t), q) /\ Has(q, Append(p.args, t))
<1> DEFINE n == Len(t)
           Pre(m) == SubSeq(t, 1, m)
           At(m) == Parse("quoted", Pre(m), p.args)
           tr == [m \in 0..n |-> At(m)]
<1>1. n \in Nat /\ \A i \in 1..n : t[i] \in Byte /\ t[i] # CharQuote
    BY DEF ToSet
<1>2. p.args \in Seq(Sendable)
    BY DEF ParseState
<1>3. ASSUME NEW m \in 0..n PROVE At(m) \in ParseState
    <2>1. PICK u \in Seq(Byte) : u = Pre(m) /\ CharQuote \notin ToSet(u)
        BY Prefix
    <2>2. Parse("quoted", u, p.args) \in ParseState
        BY <1>2, <2>1 DEF Parse, ParseState
    <2>3. QED BY <2>1, <2>2
<1>4. ASSUME NEW i \in 1..n PROVE At(i) = ParseByte(At(i - 1), t[i])
    <2>1. t[i] \in Byte /\ t[i] # CharQuote /\ i \in 0..n /\ i >= 1 /\ i - 1 \in 0..n
        BY <1>1
    <2>2. Pre(i) = Append(Pre(i - 1), t[i])
        BY <2>1, Prefix
    <2>3. PICK u : u = At(i - 1)
        OBVIOUS
    <2>4. u \in ParseState
        BY <1>3, <2>1, <2>3
    <2>5. u.mode = "quoted" /\ u.arg = Pre(i - 1) /\ u.args = p.args
        BY <2>3 DEF Parse
    <2>6. ParseByte(u, t[i]) = Parse("quoted", Append(Pre(i - 1), t[i]), p.args)
        BY <2>1, <2>4, <2>5, ParseByteIs
    <2>7. QED BY <2>2, <2>3, <2>6
<1>5. Pre(0) = <<>>
    OBVIOUS
<1>6. Pre(n) = t
    <2>1. Pre(n) \in Seq(Byte) /\ Len(Pre(n)) = n /\ \A i \in 1..n : Pre(n)[i] = t[i]
        OBVIOUS
    <2>2. QED BY <2>1, SameBytes
<1> HIDE DEF Pre
<1>7. PICK first : first = At(0)
    OBVIOUS
<1>8. PICK last : last = At(n)
    OBVIOUS
<1>9. first = Parse("quoted", <<>>, p.args) /\ last = Parse("quoted", t, p.args)
    BY <1>5, <1>6, <1>7, <1>8
<1> HIDE DEF At
<1>10. tr \in [0..n -> ParseState] /\ tr[0] = first /\ tr[n] = last
    <2>1. 0 \in 0..n /\ n \in 0..n
        BY <1>1
    <2>2. QED BY <1>3, <1>7, <1>8, <2>1
<1>11. \A i \in 1..n : tr[i] = ParseByte(tr[i - 1], t[i])
    <2>1. \A i \in 1..n : i \in 0..n /\ i - 1 \in 0..n
        BY <1>1
    <2>2. QED BY <1>4, <2>1
<1>12. Leads(first, t, last)
    <2> HIDE DEF tr
    <2>1. QED BY <1>10, <1>11 DEF IsTrace, Leads
<1>13. CharQuote \in Byte /\ CharQuote \notin Space
    BY StringAssumption
<1>14. PICK quote \in Seq(Byte) : quote = <<CharQuote>>
    <2>1. <<CharQuote>> \in Seq(Byte)
        BY <1>13
    <2>2. QED BY <2>1
<1>15. Leads(p, quote, first)
    BY <1>9, <1>13, <1>14, LeadsOne, ParseByteIs
<1>16. PICK q \in ParseState : Leads(last, quote, q) /\ q = ParseByte(last, CharQuote)
    <2>1. last \in ParseState
        <3>1. n \in 0..n
            BY <1>1
        <3>2. QED BY <1>3, <1>8, <3>1
    <2>2. QED BY <1>13, <1>14, <2>1, LeadsOne
<1>17. q = Parse("between", <<>>, Append(p.args, t))
    <2>1. last \in ParseState
        <3>1. n \in 0..n
            BY <1>1
        <3>2. QED BY <1>3, <1>8, <3>1
    <2>2. last.mode = "quoted" /\ last.arg = t /\ last.args = p.args
        BY <1>9 DEF Parse
    <2>3. QED BY <1>13, <1>16, <2>1, <2>2, ParseByteIs
<1>18. quote \o t \in Seq(Byte)
    OBVIOUS
<1>19. Leads(p, quote \o t, last)
    BY <1>12, <1>15, LeadsConcat
<1>20. Leads(p, (quote \o t) \o quote, q)
    BY <1>16, <1>18, <1>19, LeadsConcat
<1>21. Quoted(t) = (quote \o t) \o quote
    BY <1>14 DEF Quoted
<1>22. Has(q, Append(p.args, t))
    BY <1>17 DEF Has, Parse
<1>23. QED BY <1>20, <1>21, <1>22

\* The ways in which a value can be sent.
Forms(t) == (IF CharQuote \in ToSet(t) THEN {} ELSE {Quoted(t)}) \cup (IF Word(t) THEN {t} ELSE {})

LEMMA FormLeads ==
    ASSUME NEW t \in Seq(Byte), NEW a \in Forms(t), NEW p \in ParseState, p.mode = "between"
    PROVE  a \in Seq(Byte) /\ \E q \in ParseState : Leads(p, a, q) /\ Has(q, Append(p.args, t))
<1>1. CASE CharQuote \notin ToSet(t) /\ a = Quoted(t)
    <2>1. Quoted(t) \in Seq(Byte)
        BY StringAssumption DEF Quoted
    <2>2. QED BY <1>1, <2>1, QuotedLeads
<1>2. CASE Word(t) /\ a = t
    BY <1>2, WordLeads
<1>3. QED BY <1>1, <1>2 DEF Forms

LEMMA PairIs ==
    ASSUME NEW S, NEW t \in S, NEW u \in S
    PROVE  Append(<<t>>, u) = <<t, u>> /\ <<t>> \o <<u>> = <<t, u>>
<1> DEFINE x == Append(<<t>>, u)
           y == <<t, u>>
           z == <<t>> \o <<u>>
<1>1. y \in Seq(S) /\ Len(y) = 2 /\ y[1] = t /\ y[2] = u
    OBVIOUS
<1>2. <<t>> \in Seq(S) /\ <<u>> \in Seq(S) /\ Len(<<t>>) = 1 /\ Len(<<u>>) = 1
      /\ <<t>>[1] = t /\ <<u>>[1] = u
    OBVIOUS
<1>3. x \in Seq(S) /\ Len(x) = 2 /\ x[1] = t /\ x[2] = u
    BY <1>2
<1>4. z \in Seq(S) /\ Len(z) = 2 /\ z[1] = t /\ z[2] = u
    BY <1>2
<1> HIDE DEF x, y, z
<1>5. ASSUME NEW v \in Seq(S), NEW w \in Seq(S), Len(v) = 2, Len(w) = 2, v[1] = w[1], v[2] = w[2]
      PROVE  v = w
    <2>1. \A i \in 1..2 : v[i] = w[i]
        <3>1. \A i \in 1..2 : i = 1 \/ i = 2
            OBVIOUS
        <3>2. QED BY <1>5, <3>1
    <2>2. QED BY <1>5, <2>1
<1>6. x = y /\ z = y
    BY <1>1, <1>3, <1>4, <1>5
<1>7. QED BY <1>6 DEF x, y, z

\* Two values, with or without a second space and one behind them.
LEMMA TwoSent ==
    ASSUME NEW t \in Seq(Byte), NEW u \in Seq(Byte), NEW a \in Forms(t), NEW b \in Forms(u),
           NEW c \in Space
    PROVE  /\ parse_args(a \o <<c>> \o b) = Parsed("ok", <<t, u>>)
           /\ parse_args(a \o <<c, c>> \o b \o <<c>>) = Parsed("ok", <<t, u>>)
<1>1. PICK sp \in Seq(Byte) : sp = <<c>>
    <2>1. <<c>> \in Seq(Byte)
        BY StringAssumption
    <2>2. QED BY <2>1
<1>2. PICK p \in ParseState : p = ParseFirst /\ p.mode = "between" /\ p.args = <<>>
    BY ParseStates DEF ParseFirst, Parse
<1>3. a \in Seq(Byte) /\ b \in Seq(Byte)
    BY <1>2, FormLeads
<1>4. PICK q \in ParseState : Leads(p, a, q) /\ Has(q, Append(p.args, t))
    BY <1>2, FormLeads
<1>5. Append(p.args, t) = <<t>>
    BY <1>2
<1>6. PICK r \in ParseState : Leads(q, sp, r) /\ r.mode = "between" /\ r.args = <<t>>
    BY <1>1, <1>4, <1>5, SpaceLeads
<1>7. Append(r.args, u) = <<t, u>>
    <2>1. Append(<<t>>, u) = <<t, u>>
        BY PairIs
    <2>2. QED BY <1>6, <2>1
<1>8. PICK d : d = a \o sp
    OBVIOUS
<1>9. d \in Seq(Byte) /\ Leads(p, d, r)
    BY <1>3, <1>4, <1>6, <1>8, LeadsConcat
<1>10. parse_args(d \o b) = Parsed("ok", <<t, u>>)
    <2>1. PICK e \in ParseState : Leads(r, b, e) /\ Has(e, <<t, u>>)
        BY <1>6, <1>7, FormLeads
    <2>2. Leads(p, d \o b, e) /\ d \o b \in Seq(Byte)
        BY <1>3, <1>9, <2>1, LeadsConcat
    <2>3. QED BY <1>2, <2>1, <2>2, ParsedIs
<1>11. parse_args(((d \o sp) \o b) \o sp) = Parsed("ok", <<t, u>>)
    <2>1. PICK f \in ParseState : Leads(r, sp, f) /\ f.mode = "between" /\ f.args = <<t>>
        <3>1. Has(r, <<t>>)
            BY <1>6 DEF Has
        <3>2. QED BY <1>1, <3>1, SpaceLeads
    <2>2. PICK e \in ParseState : Leads(f, b, e) /\ Has(e, <<t, u>>)
        <3>1. Append(f.args, u) = <<t, u>>
            BY <1>6, <1>7, <2>1
        <3>2. QED BY <2>1, <3>1, FormLeads
    <2>3. PICK g \in ParseState : Leads(e, sp, g) /\ g.mode = "between" /\ g.args = <<t, u>>
        BY <1>1, <2>2, SpaceLeads
    <2>4. Has(g, <<t, u>>)
        BY <2>3 DEF Has
    <2>5. PICK h : h = d \o sp
        OBVIOUS
    <2>6. h \in Seq(Byte) /\ Leads(p, h, f)
        BY <1>9, <2>1, <2>5, LeadsConcat
    <2>7. PICK i : i = h \o b
        OBVIOUS
    <2>8. i \in Seq(Byte) /\ Leads(p, i, e)
        BY <1>3, <2>2, <2>6, <2>7, LeadsConcat
    <2>9. i \o sp \in Seq(Byte) /\ Leads(p, i \o sp, g)
        BY <2>3, <2>8, LeadsConcat
    <2>10. parse_args(i \o sp) = Parsed("ok", <<t, u>>)
        BY <1>2, <2>4, <2>9, ParsedIs
    <2>11. QED BY <2>5, <2>7, <2>10
<1>12. d \o sp = a \o <<c, c>>
    <2>1. sp \o sp = <<c, c>>
        BY <1>1, PairIs
    <2>2. (a \o sp) \o sp = a \o (sp \o sp)
        BY <1>3
    <2>3. QED BY <1>8, <2>1, <2>2
<1>13. QED BY <1>1, <1>8, <1>10, <1>11, <1>12

\* What cannot be sent is never among the arguments.
LEMMA NeverSent ==
    ASSUME NEW data \in Seq(Byte), NEW t, CharQuote \in ToSet(t), ~Word(t)
    PROVE  parse_args(data).args # <<t>>
<1>1. PICK p \in ParseState : p = ParseAll(data)
    BY ParseAllIs
<1>2. parse_args(data) = CASE p.mode = "quoted"  -> Parsed("E_INV_ARGS", <<>>)
                           [] p.mode = "word"    -> Parsed("ok", Append(p.args, p.arg))
                           [] p.mode = "between" -> Parsed("ok", p.args)
    BY <1>1 DEF parse_args, ParseAll, ParseFirst
<1>3. /\ p.mode \in {"between", "quoted", "word"} /\ p.args \in Seq(Sendable)
      /\ p.mode = "word" => p.arg \in Sendable
    BY DEF ParseState, Sendable
<1>4. parse_args(data).args \in Seq(Sendable)
    <2>1. CASE p.mode = "quoted"
        <3>1. parse_args(data).args = <<>>
            BY <1>2, <2>1 DEF Parsed
        <3>2. QED BY <3>1
    <2>2. CASE p.mode = "word"
        <3>1. parse_args(data).args = Append(p.args, p.arg)
            BY <1>2, <2>2 DEF Parsed
        <3>2. QED BY <1>3, <2>2, <3>1
    <2>3. CASE p.mode = "between"
        <3>1. parse_args(data).args = p.args
            BY <1>2, <2>3 DEF Parsed
        <3>2. QED BY <1>3, <3>1
    <2>4. QED BY <1>3, <2>1, <2>2, <2>3
<1>5. t \notin Sendable
    BY DEF Sendable
<1>6. ASSUME NEW args \in Seq(Sendable) PROVE args # <<t>>
    <2>1. SUFFICES ASSUME args = <<t>> PROVE FALSE
        OBVIOUS
    <2>2. Len(args) = 1 /\ args[1] = t
        BY <2>1
    <2>3. args[1] \in Sendable
        BY <2>2
    <2>4. QED BY <1>5, <2>2, <2>3
<1>7. QED BY <1>4, <1>6

-----------------------------------------------------------------------------
(* The theorems *)

\* For every set of values, texts and offsets: a key has a string if and only if its type
\* says so, and commands never make the length of a string negative or leave anything but
\* bytes in its memory.
THEOREM TypeCorrect == Spec => []TypeOK
<1>1. StringInv => TypeOK
    <2>1. SUFFICES ASSUME StringInv PROVE TypeOK
        OBVIOUS
    <2>2. ASSUME type = "string"
          PROVE  /\ bss.len \in 0..MaxLen /\ bss.free \in Nat
                 /\ \A i \in DOMAIN bss.str : bss.str[i] \in Byte
        <3>1. Sound(bss) /\ bss.len <= MaxLen
            BY <2>1, <2>2 DEF StringInv
        <3>2. PICK n \in Nat : bss.str \in [0..n -> Byte]
            BY <3>1, SoundHas DEF Memory
        <3>3. bss.len \in Nat /\ bss.free \in Nat
            BY <3>1, SoundHas
        <3>4. QED BY <3>1, <3>2, <3>3, StringAssumption
    <2>3. QED BY <2>1, <2>2 DEF StringInv, TypeOK
<1>2. QED BY <1>1, StringInvInit, StringInvNext, PTL DEF Spec

\* For every length of bytes, of values and of integers: whatever commands have made
\* a string grow and shrink, its memory has room for len + free bytes and for the
\* terminator, which is in place, and the string always has room for an integer.
THEOREM RoomKeptAlways == Spec => []RoomKept
<1>1. StringInv => RoomKept
    <2>1. SUFFICES ASSUME StringInv, type = "string"
                   PROVE  /\ 0..bsssize(bss) \subseteq DOMAIN bss.str
                          /\ bss.str[bss.len] = NUL
                          /\ bsssize(bss) >= MinLen
        BY DEF RoomKept
    <2>2. Sound(bss)
        BY <2>1 DEF StringInv
    <2>3. PICK n \in Nat : bsssize(bss) <= n /\ bss.str \in [0..n -> Byte]
        BY <2>2, SoundHas DEF Memory
    <2>4. bsssize(bss) \in Nat /\ bsssize(bss) >= MinLen /\ bss.str[bss.len] = NUL
        BY <2>2, SoundHas
    <2>5. QED BY <2>3, <2>4
<1>2. QED BY <1>1, StringInvInit, StringInvNext, PTL DEF Spec

\* For every set of values, texts and offsets: the commands of strings do to the bytes of
\* the string what ByteString says, and reply what it says, however often the memory
\* behind them has been written, replaced, shortened and grown.
THEOREM StringIsBytes == Spec => IsString
<1>1. StringInv /\ [Next]_vars => StringInv' /\ [Abs!Next]_Abs!vars
    BY StringInvNext
<1>2. QED BY <1>1, StringInvInit, PTL DEF Spec, IsString, Abs!Spec

\* For every string and every offset: getbit, getrange and bitcount, which each do their
\* own arithmetic, read the bytes of the string.
THEOREM ReadsAgreeAlways == Spec => []ReadsAgree
<1>1. StringInv => ReadsAgree
    <2>1. SUFFICES ASSUME StringInv, type = "string" PROVE ReadsAgree
        BY DEF ReadsAgree
    <2>2. Sound(bss) /\ Contents(bss) \in Seq(Byte) /\ Len(Contents(bss)) = bss.len
        BY <2>1, ContentsIs DEF StringInv
    <2>3. ASSUME NEW x \in 0..((MaxLen + 1) * ByteBits)
          PROVE  getbit_command(x) = Abs!Bit(Contents(bss), x)
        <3>1. x \in Nat
            OBVIOUS
        <3>2. QED BY <2>1, <2>2, <3>1, GetbitIs DEF getbit_command
    <2>4. ASSUME NEW i \in -(MaxLen + 2)..(MaxLen + 2), NEW j \in -(MaxLen + 2)..(MaxLen + 2)
          PROVE  getrange_command(i, j) =
                     LET At(n) == n - 1 >= FromEnd(i) /\ n - 1 <= FromEnd(j)
                         picked == {n \in 1..Len(Contents(bss)) : At(n)}
                     IN  [n \in 1..Cardinality(picked) |-> Contents(bss)[Min(picked) + n - 1]]
        <3>1. i \in Int /\ j \in Int
            BY StringAssumption
        <3>2. PICK range : range = getrange_command(i, j)
            OBVIOUS
        <3>3. range = [n \in 1..Cardinality(Picked(i, j)) |->
                          Contents(bss)[Min(Picked(i, j)) + n - 1]]
            BY <2>1, <2>2, <3>1, <3>2, GetrangeIs
        <3>4. Picked(i, j) = {n \in 1..Len(Contents(bss)) :
                                  n - 1 >= FromEnd(i) /\ n - 1 <= FromEnd(j)}
            BY <2>2 DEF Picked
        <3>5. QED BY <3>2, <3>3, <3>4
    <2>5. ASSUME \A n \in 1..Len(Contents(bss)) : Abs!Bit(Contents(bss), (n - 1) * ByteBits) = 0
          PROVE  bitcount_command = Cardinality({x \in 0..(Len(Contents(bss)) * ByteBits) :
                                                    Abs!Bit(Contents(bss), x) = 1})
        BY <2>1, <2>2, <2>5, BitcountIs, OnesAre
    <2>6. QED BY <2>3, <2>4, <2>5, Zenon DEF ReadsAgree
<1>2. QED BY <1>1, StringInvInit, StringInvNext, PTL DEF Spec

\* For every string: what get returns can be sent back as one argument, in quotes or as it
\* stands, wherever it comes among the arguments; and what has a quote and is not a word
\* cannot.
THEOREM SentBackAlways == Spec => []SentBack
<1>1. StringInv => SentBack
    <2>1. SUFFICES ASSUME StringInv, type = "string" PROVE SentBack
        BY DEF SentBack
    <2> DEFINE s == Contents(bss)
    <2>2. s \in Seq(Byte)
        BY <2>1, ContentsIs DEF StringInv
    <2> HIDE DEF s
    <2>3. ASSUME NEW d \in DataSet, NEW a \in Forms(d), NEW b \in Forms(s), NEW sp \in Space
          PROVE  /\ parse_args(a \o <<sp>> \o b) = Parsed("ok", <<d, s>>)
                 /\ parse_args(b \o <<sp, sp>> \o a \o <<sp>>) = Parsed("ok", <<s, d>>)
        <3>1. d \in Seq(Byte)
            BY StringAssumption
        <3>2. QED BY <2>2, <3>1, TwoSent
    <2>4. ASSUME Forms(s) = {}
          PROVE  parse_args(Quoted(s)).args # <<s>> /\ parse_args(s).args # <<s>>
        <3>1. CharQuote \in ToSet(s) /\ ~Word(s)
            BY <2>4 DEF Forms
        <3>2. PICK data \in Seq(Byte) : data = Quoted(s)
            <4>1. Quoted(s) \in Seq(Byte)
                BY <2>2, StringAssumption DEF Quoted
            <4>2. QED BY <4>1
        <3>3. parse_args(data).args # <<s>>
            BY <3>1, NeverSent
        <3>4. QED BY <2>2, <3>1, <3>2, <3>3, NeverSent
    <2>5. QED BY <2>3, <2>4, Zenon DEF SentBack, Forms, s
<1>2. QED BY <1>1, StringInvInit, StringInvNext, PTL DEF Spec
=============================================================================
