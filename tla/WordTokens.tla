------------------------------- MODULE WordTokens -------------------------------
(***************************************************************************)
(* How worddiff_v1 cuts the text of a segment into words: canonical        *)
(* composition, case folding, then one pass over the folded characters     *)
(* that drops joiners between letters and breaks at punctuation and space. *)
(* Every word keeps the span of the raw text it came from.                 *)
(*                                                                         *)
(* Seven characters stand for Unicode, each for what the pass asks of a    *)
(* character: "a" and its capital, "mark" (composes with either, is no     *)
(* letter of its own), "apostrophe" (joins letters), "napostrophe" (one    *)
(* character, like U+0149, whose folding is an apostrophe and a letter),   *)
(* "stop" (breaks words; so does a space) and "digit".                     *)
(***************************************************************************)
EXTENDS Naturals, Sequences, SequencesExt

Char == {"a", "A", "mark", "apostrophe", "napostrophe", "stop", "digit"}

\* A mark composes with the plain letter before it, and with nothing else.
Composes(t, k) == k > 1 /\ t[k] = "mark" /\ t[k - 1] \in {"a", "A"}

\* The composed character that begins at the raw one, with its raw span.
Composed(t, k) ==
    IF k < Len(t) /\ Composes(t, k + 1)
    THEN [char |-> IF t[k] = "a" THEN "amark" ELSE "Amark", from |-> k - 1, to |-> k + 1]
    ELSE [char |-> t[k], from |-> k - 1, to |-> k]

CaseFold(char) ==
    CASE char = "A"           -> <<"a">>
      [] char = "Amark"       -> <<"amark">>
      [] char = "napostrophe" -> <<"apostrophe", "n">>
      [] OTHER                -> <<char>>

\* Every character a composed one folds to inherits its span.
Spread(item) ==
    [j \in 1 .. Len(CaseFold(item.char)) |-> [item EXCEPT !.char = CaseFold(item.char)[j]]]

\* The folded characters of the first k raw ones.
FoldedTo(t) ==
    LET upto[k \in 0 .. Len(t)] ==
          IF k = 0 THEN <<>>
          ELSE IF Composes(t, k) THEN upto[k - 1]
          ELSE upto[k - 1] \o Spread(Composed(t, k))
    IN  upto

Folded(t) == FoldedTo(t)[Len(t)]

IsLetter(char) == char \in {"a", "amark", "n"}
IsJoiner(char) == char = "apostrophe"
Breaks(char) == char = "stop"

-----------------------------------------------------------------------------
\* buf, span_start and span_end of the word under way, and the words so far.
NoWord == [word |-> <<>>, from |-> 0, to |-> 0, tokens |-> <<>>]

\* flush: the word under way, if there is one, becomes a token.
Flushed(s) == IF s.word = <<>> THEN s.tokens
              ELSE Append(s.tokens, [word |-> s.word, from |-> s.from, to |-> s.to])

AnyNext(f, k) == TRUE

NextIsLetter(f, k) == k < Len(f) /\ IsLetter(f[k + 1].char)

Joins(f, s, k) ==
    /\ IsJoiner(f[k].char)
    /\ s.word # <<>> /\ IsLetter(Last(s.word))
    /\ NextIsLetter(f, k)

Larger(m, n) == IF m < n THEN n ELSE m

Grown(s, item) ==
    [s EXCEPT !.word = Append(@, item.char),
              !.from = IF s.word = <<>> \/ item.from < @ THEN item.from ELSE @,
              !.to   = IF s.word = <<>> THEN item.to ELSE Larger(@, item.to)]

\* One folded character: a joiner between letters goes and the span grows over it; any
\* other joiner, punctuation or space ends the word; anything else belongs to one.
Read(f, s, k) ==
    IF Joins(f, s, k) THEN [s EXCEPT !.to = Larger(@, f[k].to)]
    ELSE IF IsJoiner(f[k].char) \/ Breaks(f[k].char) THEN [NoWord EXCEPT !.tokens = Flushed(s)]
    ELSE Grown(s, f[k])

\* Where the pass is after the first k folded characters.
Pass(f) == LET pass[k \in 0 .. Len(f)] == IF k = 0 THEN NoWord ELSE Read(f, pass[k - 1], k)
           IN  pass

\* The end of the text ends the last word.
Tokens(t) == LET f == Folded(t) IN Flushed(Pass(f)[Len(f)])
=============================================================================
