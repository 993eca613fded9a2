-------------------------------- MODULE Utf8 --------------------------------
(***************************************************************************)
(* The conversions of src/qwen3_tokenizer.cpp between wide characters      *)
(* (code points), their UTF-8 bytes, and the visible characters that stand *)
(* for bytes in the vocabulary.                                            *)
(***************************************************************************)
EXTENDS Integers, SequencesExt

LastCode == 1114111

CodePoints == 0 .. LastCode

Tail6(bits) == 128 + (bits % 64)

\* wideToUtf8, of one character; nothing for what is no code point
BytesOf(wc) ==
    IF wc < 128 THEN <<wc>>
    ELSE IF wc < 2048 THEN <<192 + wc \div 64, Tail6(wc)>>
    ELSE IF wc < 65536 THEN <<224 + wc \div 4096, Tail6(wc \div 64), Tail6(wc)>>
    ELSE IF wc \in CodePoints
         THEN <<240 + wc \div 262144, Tail6(wc \div 4096), Tail6(wc \div 64), Tail6(wc)>>
    ELSE << >>

WideToUtf8(wide) == FlattenSeq([i \in DOMAIN wide |-> BytesOf(wide[i])])

\* How many bytes a first byte announces; none of a character starts with others.
Announced(byte) ==
    IF byte < 128 THEN 1
    ELSE IF byte \in 192 .. 223 THEN 2
    ELSE IF byte \in 224 .. 239 THEN 3
    ELSE IF byte \in 240 .. 247 THEN 4
    ELSE 0

\* The character of n bytes that begins at i.
Assembled(bytes, i, n) ==
    LET low(k) == bytes[i + k] % 64 IN
    IF n = 1 THEN bytes[i]
    ELSE IF n = 2 THEN (bytes[i] % 32) * 64 + low(1)
    ELSE IF n = 3 THEN (bytes[i] % 16) * 4096 + low(1) * 64 + low(2)
    ELSE (bytes[i] % 8) * 262144 + low(1) * 4096 + low(2) * 64 + low(3)

\* Mutant: a character that ends with the bytes counts as cut off.
LostAtEnd(bytes) ==
    LET from[i \in 1 .. Len(bytes) + 1] ==
            IF i > Len(bytes) THEN << >>
            ELSE LET n == Announced(bytes[i]) IN
                 IF n = 0 \/ i + n > Len(bytes) THEN from[i + 1]
                 ELSE <<Assembled(bytes, i, n)>> \o from[i + n]
    IN from[1]

\* A first byte whose character is not complete is skipped, as are the bytes
\* that follow a skipped one.
Utf8ToWide(bytes) ==
    LET from[i \in 1 .. Len(bytes) + 1] ==
            IF i > Len(bytes) THEN << >>
            ELSE LET n == Announced(bytes[i]) IN
                 IF n = 0 \/ i + n > Len(bytes) + 1 THEN from[i + 1]
                 ELSE <<Assembled(bytes, i, n)>> \o from[i + n]
    IN from[1]

\* makeBytesToUnicode: a visible Latin-1 byte stands for itself, the others
\* are numbered from 256 on.
Visible == (33 .. 126) \cup (161 .. 172) \cup (174 .. 255)

BytesToUnicode ==
    [b \in 0 .. 255 |-> IF b \in Visible THEN b
                        ELSE 256 + Cardinality((0 .. b - 1) \ Visible)]

UnicodeToBytes == AntiFunction(BytesToUnicode)
=============================================================================
