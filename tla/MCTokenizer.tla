----------------------------- MODULE MCTokenizer -----------------------------
(***************************************************************************)
(* An alphabet with a character of every class and of every UTF-8 length,  *)
(* two added tokens that begin alike, a template made of them, and merges  *)
(* that sometimes divide a character.                                      *)
(***************************************************************************)
EXTENDS Tokenizer

CONSTANTS MaxAll, MaxSome

Lt == 60
Gt == 62
S  == 115
Quote  == 39
LF     == 10
One    == 49
Acute  == 233     \* two bytes
Zhong  == 20013   \* three bytes
Smile  == 128512  \* four bytes, not a letter

MCSpecials == {<<Lt, S, Gt>>, <<Lt, Quote, Gt>>}

Frame(prompt) == <<Lt, S, Gt, S, LF>> \o prompt \o <<Lt, Quote, Gt, LF>>

\* Every short prompt, and longer ones over the characters that interact most.
MCTexts ==
    {Frame(p) : p \in BoundedSeq({Lt, Gt, S, Quote, LF, Blank, One, Acute, Zhong, Smile}, MaxAll)
                      \cup BoundedSeq({Lt, S, Gt, Blank, Acute}, MaxSome)}

MCLetters == {S, Acute, Zhong}
MCDigits  == {One}
MCSpaces  == {Blank, LF, 13}
MCContractions == {<<Quote, S>>}

\* The visible characters of a blank, a newline and the bytes of Acute.
VBlank == BytesToUnicode[Blank]
VLF    == BytesToUnicode[LF]
A1     == BytesToUnicode[195]
A2     == BytesToUnicode[169]

MCMerges == << << <<S>>, <<S>> >>, << <<VBlank>>, <<S>> >>, << <<S>>, <<A1>> >>, << <<A1>>, <<A2>> >>,
               << <<S, S>>, <<S, S>> >>, << <<VLF>>, <<VLF>> >>, << <<A1, A2>>, <<S, S>> >> >>

MCVocabulary ==
    [i \in 1 .. 256 |-> <<BytesToUnicode[i - 1]>>]
        \o [k \in DOMAIN MCMerges |-> MCMerges[k][1] \o MCMerges[k][2]]
        \o SetToSeq(MCSpecials)
=============================================================================
