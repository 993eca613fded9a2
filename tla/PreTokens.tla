------------------------------ MODULE PreTokens ------------------------------
(***************************************************************************)
(* qwen3TokenizerMatchPattern of src/qwen3_tokenizer.cpp: where the piece  *)
(* that starts at a place of a text ends.  Each alternative answers with   *)
(* an end, or with the start itself when it does not match; the first one  *)
(* that matches counts.  The upper-case contractions of the pattern in     *)
(* tokenizer.json are left out of the alphabet.                            *)
(***************************************************************************)
EXTENDS Integers, Sequences, FiniteSetsExt

CONSTANTS Letters, Digits, Spaces, Contractions

Blank    == 32
Newlines == {10, 13}

ASSUME ClassesAssumption ==
    /\ Letters \cap Digits = {} /\ (Letters \cup Digits) \cap Spaces = {}
    /\ Newlines \cup {Blank} \subseteq Spaces
    /\ \A c \in Contractions :
            c \in Seq(Int) \ {<< >>} /\ \A i \in DOMAIN c : c[i] \notin Spaces \cup Digits

At(str, i, class) == i < Len(str) /\ str[i + 1] \in class

Not(str, i, class) == i < Len(str) /\ str[i + 1] \notin class

\* The end of the longest run of a class, or of its complement, from i on.
RunEnd(str, i, class) == Min({j \in i .. Len(str) : ~At(str, j, class)})

RunEndOutside(str, i, class) == Min({j \in i .. Len(str) : ~Not(str, j, class)})

Wordlike == Letters \cup Digits

Contraction(str, pos) ==
    LET here == {c \in Contractions : /\ pos + Len(c) <= Len(str)
                                      /\ SubSeq(str, pos + 1, pos + Len(c)) = c}
    IN pos + Max({0} \cup {Len(c) : c \in here})

\* Letters, with one other character before them.
Word(str, pos) ==
    LET first == IF Not(str, pos, Wordlike \cup Newlines) THEN pos + 1 ELSE pos IN
    IF At(str, first, Letters) THEN RunEnd(str, first, Letters) ELSE pos

Digit(str, pos) == IF At(str, pos, Digits) THEN pos + 1 ELSE pos

\* Symbols, with a blank before and newlines behind them.
Symbols(str, pos) ==
    LET first == IF At(str, pos, {Blank}) THEN pos + 1 ELSE pos
        last  == RunEndOutside(str, first, Wordlike \cup Spaces)
    IN IF last > first THEN RunEnd(str, last, Newlines) ELSE pos

\* White space is read to its end before a newline is looked for.
Break(str, pos) ==
    LET last == RunEnd(str, pos, Spaces) IN
    IF At(str, last, Newlines) THEN RunEnd(str, last, Newlines) ELSE pos

Trailing(str, pos) ==
    LET last == RunEnd(str, pos, Spaces) IN
    IF last = Len(str) \/ At(str, last, Spaces) THEN last ELSE pos

Space(str, pos) == RunEnd(str, pos, Spaces)

FirstMatch(pos, ends) ==
    LET matches == {k \in DOMAIN ends : ends[k] > pos} IN
    IF matches = {} THEN pos ELSE ends[Min(matches)]

MatchEnd(str, pos) ==
    FirstMatch(pos, << Contraction(str, pos), Word(str, pos), Digit(str, pos), Symbols(str, pos),
                       Break(str, pos), Trailing(str, pos), Space(str, pos) >>)
-----------------------------------------------------------------------------
(***************************************************************************)
(* The pattern of tokenizer.json, whose white-space alternatives give back *)
(* what they need: \s*[\r\n]+ ends with the last newline of the run, and   *)
(* \s+(?!\S) leaves the last character to what follows.                    *)
(***************************************************************************)
PatternBreak(str, pos) ==
    Max({pos} \cup {j \in pos + 1 .. RunEnd(str, pos, Spaces) : str[j] \in Newlines})

PatternTrailing(str, pos) ==
    LET last == RunEnd(str, pos, Spaces) IN IF last = Len(str) THEN last ELSE Max({pos, last - 1})

PatternEnd(str, pos) ==
    FirstMatch(pos, << Contraction(str, pos), Word(str, pos), Digit(str, pos), Symbols(str, pos),
                       PatternBreak(str, pos), PatternTrailing(str, pos), Space(str, pos) >>)
=============================================================================
