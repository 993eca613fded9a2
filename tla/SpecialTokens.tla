---------------------------- MODULE SpecialTokens ----------------------------
(***************************************************************************)
(* Trie::split of src/qwen3_tokenizer.cpp: one pass over a text that cuts  *)
(* out the added tokens, with a set of open candidates.  A candidate is    *)
(* the place where it starts; its trie node is the text read since.        *)
(*                                                                         *)
(* An added token opens with a character that no added token has at        *)
(* another place, and none begins another.  That holds for the built-in    *)
(* list ("<"), and it means that at most one candidate is open: the        *)
(* look-ahead for an earlier or a longer token finds nothing and never     *)
(* moves skip, so both are left out.                                       *)
(***************************************************************************)
EXTENDS Integers, Sequences, FiniteSets

CONSTANTS
    Specials,   \* added tokens, sequences of characters
    Texts       \* what may be tokenized

ASSUME SpecialsAssumption ==
    /\ Specials \subseteq Seq(Int) \ {<< >>}
    /\ \A s, t \in Specials : \A i \in 2 .. Len(s) : s[i] # t[1]
    /\ \A s, t \in Specials :
            Len(s) <= Len(t) /\ SubSeq(t, 1, Len(s)) = s => s = t

ASSUME TextsAssumption == Texts \subseteq Seq(Int)

VARIABLES
    text,
    current,    \* characters read
    states,     \* starts of the open candidates
    offsets     \* where the text is cut; sorting and dropping empty pieces
                \* make it a set

scan == <<text, current, states, offsets>>

ScanInit ==
    /\ text \in Texts
    /\ current = 0 /\ states = {} /\ offsets = {0}

\* The trie has a node at the end of path.
InTrie(path) == \E s \in Specials : Len(path) <= Len(s) /\ SubSeq(s, 1, Len(path)) = path

Node(start) == SubSeq(text, start + 1, current)

Ended == {start \in states : Node(start) \in Specials}

Following(c) == {start \in states : InTrie(Append(Node(start), c))}

Opened(c) == IF InTrie(<<c>>) THEN {current} ELSE {}

\* Mutant: a candidate that fails takes the character that opens the next.
NotReopened(c) == IF Following(c) = {} /\ states # {} THEN {} ELSE Opened(c)

\* The candidates open after character c.
StillOpen(c) == (IF Ended = {} THEN Following(c) ELSE {}) \cup Opened(c)

Cuts == UNION {{start, current} : start \in Ended}

\* One character of the loop.
ScanChar ==
    /\ current < Len(text)
    /\ offsets' = offsets \cup Cuts
    /\ states' = StillOpen(text[current + 1])
    /\ current' = current + 1
    /\ UNCHANGED text

\* Where the text is cut after the pass: a candidate may end with the text.
FinalOffsets == offsets \cup Cuts \cup {Len(text)}

Piece(i, j) == SubSeq(text, i + 1, j)
-----------------------------------------------------------------------------
\* Places where an added token stands in the first n characters.
Occurrences(n) == {p \in (0 .. n) \X (0 .. n) : p[1] < p[2] /\ Piece(p[1], p[2]) \in Specials}

CutBy(occurrences) == {0} \cup UNION {{p[1], p[2]} : p \in occurrences}

ScanTypeOK ==
    /\ text \in Texts
    /\ current \in 0 .. Len(text)
    /\ states \subseteq 0 .. current - 1 /\ Cardinality(states) <= 1
    /\ offsets \subseteq 0 .. current

(***************************************************************************)
(* The text is cut at both ends of every added token that stands anywhere  *)
(* in it, however it is surrounded by other tokens or beginnings of        *)
(* tokens, and nowhere else: so each is one piece and text is never cut    *)
(* into pieces of its own.                                                 *)
(***************************************************************************)
AddedTokensCutOut ==
    offsets \cup Cuts = CutBy(Occurrences(current))
=============================================================================
