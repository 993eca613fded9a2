------------------------------ MODULE Tokenizer ------------------------------
(***************************************************************************)
(* Qwen3Tokenizer::Impl of src/qwen3_tokenizer.cpp.  A text, already       *)
(* framed by the chat template, is encoded: the added tokens are cut out   *)
(* (SpecialTokens), every other piece is split by the pattern (PreTokens), *)
(* each part becomes bytes (Utf8) and is merged (BytePair).  The ids are   *)
(* then decoded one by one.  The runtime decodes the ids the model has     *)
(* chosen; the client here decodes what it has encoded, so that both       *)
(* directions can be compared.                                             *)
(***************************************************************************)
EXTENDS SpecialTokens, PreTokens, BytePair, Utf8

\* A text is one of Unicode.  The table has the character of every byte, and the
\* added tokens, which are visible ASCII.
ASSUME TableAssumption ==
    /\ Texts \subseteq Seq(CodePoints)
    /\ \A b \in 0 .. 255 : <<BytesToUnicode[b]>> \in Range(Vocabulary)
    /\ Specials \subseteq Range(Vocabulary)
    /\ \A s \in Specials : s \in Seq(33 .. 126)

VARIABLES
    pc,
    pieces,     \* pieces of the text that are not encoded yet
    piece, pos, \* the piece the pattern is matched in, and where
    word,       \* the symbols of the part that is merged
    all,        \* tokens so far
    ids,        \* what encodeText returns
    out,        \* characters decoded so far
    shown       \* ids decoded so far

vars == <<scan, pc, pieces, piece, pos, word, all, ids, out, shown>>

match == <<piece, pos, word>>
answer == <<ids, out, shown>>

Init ==
    /\ ScanInit
    /\ pc = "scan"
    /\ pieces = << >> /\ piece = << >> /\ pos = 0
    /\ word = << >> /\ all = << >>
    /\ ids = << >> /\ out = << >> /\ shown = 0

Scan ==
    /\ pc = "scan"
    /\ ScanChar
    /\ UNCHANGED <<pc, pieces, match, all, answer>>

\* The k-th place the text is cut at.
CutPlace(k) == CHOOSE o \in FinalOffsets : Cardinality({p \in FinalOffsets : p < o}) = k - 1

\* The rest of split: sort, then cut between neighbouring offsets.
ScanEnd ==
    /\ pc = "scan"
    /\ current = Len(text)
    /\ pieces' = [k \in 1 .. Cardinality(FinalOffsets) - 1 |-> Piece(CutPlace(k), CutPlace(k + 1))]
    /\ pc' = "piece"
    /\ UNCHANGED <<scan, match, all, answer>>

TakeSpecial ==
    /\ pc = "piece" /\ pieces # << >>
    /\ Head(pieces) \in Specials
    /\ all' = Append(all, Head(pieces))
    /\ pieces' = Tail(pieces)
    /\ UNCHANGED <<scan, pc, match, answer>>

TakeText ==
    /\ pc = "piece" /\ pieces # << >>
    /\ Head(pieces) \notin Specials
    /\ piece' = Utf8ToWide(WideToUtf8(Head(pieces))) /\ pos' = 0
    /\ pieces' = Tail(pieces)
    /\ pc' = "match"
    /\ UNCHANGED <<scan, word, all, answer>>

\* What the pattern matched, as the visible characters of its bytes.  When it
\* matched nothing a character is skipped.
Visibly(wide) ==
    LET bytes == WideToUtf8(wide) IN [i \in DOMAIN bytes |-> BytesToUnicode[bytes[i]]]

MatchPattern ==
    LET end == MatchEnd(piece, pos) IN
    /\ pc = "match" /\ pos < Len(piece)
    /\ word' = Characters(Visibly(SubSeq(piece, pos + 1, end)))
    /\ pos' = Max({end, pos + 1})
    /\ pc' = "merge"
    /\ UNCHANGED <<scan, pieces, piece, all, answer>>

PieceEnd ==
    /\ pc = "match" /\ pos >= Len(piece)
    /\ pc' = "piece"
    /\ UNCHANGED <<scan, pieces, match, all, answer>>

\* One round of bpe.
Merge ==
    /\ pc = "merge" /\ Ranked(word) # {}
    /\ word' = Merged(word, Best(word))
    /\ UNCHANGED <<scan, pc, pieces, piece, pos, all, answer>>

MergeEnd ==
    /\ pc = "merge" /\ Ranked(word) = {}
    /\ all' = all \o word
    /\ word' = << >>
    /\ pc' = "match"
    /\ UNCHANGED <<scan, pieces, piece, pos, answer>>

Encoded ==
    /\ pc = "piece" /\ pieces = << >>
    /\ ids' = [i \in DOMAIN all |-> IdForToken(all[i])]
    /\ pc' = "decode"
    /\ UNCHANGED <<scan, pieces, match, all, out, shown>>

\* The bytes a token stands for; other characters are dropped.
TokenBytes(token) ==
    FlattenSeq([i \in DOMAIN token |-> IF token[i] \in DOMAIN UnicodeToBytes
                                       THEN <<UnicodeToBytes[token[i]]>> ELSE << >>])

DecodeToken ==
    /\ pc = "decode" /\ shown < Len(ids)
    /\ out' = out \o Utf8ToWide(TokenBytes(TokenForId(ids[shown + 1])))
    /\ shown' = shown + 1
    /\ UNCHANGED <<scan, pc, pieces, match, all, ids>>

Terminating == pc = "decode" /\ shown = Len(ids) /\ UNCHANGED vars

Next ==
    \/ Scan \/ ScanEnd
    \/ TakeSpecial \/ TakeText \/ MatchPattern \/ PieceEnd \/ Merge \/ MergeEnd
    \/ Encoded \/ DecodeToken
    \/ Terminating

Spec == Init /\ [][Next]_vars
-----------------------------------------------------------------------------
TypeOK ==
    /\ ScanTypeOK
    /\ pc \in {"scan", "piece", "match", "merge", "decode"}
    /\ pos \in 0 .. Len(piece)
    /\ \A i \in DOMAIN ids : ids[i] \in 0 .. Len(Vocabulary) - 1
    /\ shown \in 0 .. Len(ids)

(***************************************************************************)
(* When no pair is left to merge, the word is what single merges from the  *)
(* left would have made of it: merging all occurrences of a pair at once   *)
(* (first, second and the overlap of a run of equal symbols) takes no      *)
(* symbol from a pair of lower rank.                                       *)
(***************************************************************************)
MergesByRank ==
    pc = "merge" /\ Ranked(word) = {} => word = MergedByRank(FlattenSeq(word))

\* Byte positions at which a token ends.
Boundaries(tokens) == {Len(FlattenSeq(SubSeq(tokens, 1, k))) : k \in 0 .. Len(tokens)}

\* Byte position of character i.
Offset(i) == Len(WideToUtf8(SubSeq(text, 1, i)))

\* The characters whose bytes all lie in one token.
Unsplit(tokens) ==
    LET ends     == Boundaries(tokens)
        Whole(i) == ends \cap (Offset(i - 1) + 1 .. Offset(i) - 1) = {}
    IN FlattenSeq([i \in DOMAIN text |-> IF Whole(i) THEN <<text[i]>> ELSE << >>])

(***************************************************************************)
(* Decoding token by token gives the text back, but for the characters     *)
(* whose bytes the merges have divided between two tokens: exactly those   *)
(* are lost.  Nothing else is lost, repeated or moved on the way through   *)
(* the pieces, the pattern, the bytes and the merges.                      *)
(***************************************************************************)
DecodeKeepsText ==
    pc = "decode" /\ shown = Len(ids) => out = Unsplit(all)

(***************************************************************************)
(* docs/deploy.md:15: prompts are consumed "using the packaged             *)
(* tokenizer.json", so the parts a piece is split into are those of its    *)
(* pre_tokenizer pattern.                                                  *)
(***************************************************************************)
PartsFollowPattern ==
    pc = "match" /\ pos < Len(piece) => MatchEnd(piece, pos) = PatternEnd(piece, pos)
=============================================================================
