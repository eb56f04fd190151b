---------------------------- MODULE WordProperties ----------------------------
(***************************************************************************)
(* What a reviewer may rely on in a verdict of worddiff_v1, against a      *)
(* definition of the distance that knows no table.                         *)
(***************************************************************************)
EXTENDS WordDiff

\* What a word is, without the pass: joiners between letters do not count, the other
\* joiners and punctuation separate, and a word is a longest run of what is left.
Dropped(f, k) == /\ IsJoiner(f[k].char) /\ k > 1 /\ IsLetter(f[k - 1].char)
                 /\ k < Len(f) /\ IsLetter(f[k + 1].char)
InWord(f, k) == k \in 1 .. Len(f) /\
                (Dropped(f, k) \/ ~ (IsJoiner(f[k].char) \/ Breaks(f[k].char)))
Runs(f) == {r \in (1 .. Len(f)) \X (1 .. Len(f)) :
              /\ r[1] <= r[2] /\ \A k \in r[1] .. r[2] : InWord(f, k)
              /\ ~ InWord(f, r[1] - 1) /\ ~ InWord(f, r[2] + 1)}
\* A word spells a run if it is what the run's joiners leave, in order.
Kept(f, m, n) == {k \in m .. n : ~ IsJoiner(f[k].char)}
Spells(word, f, r) ==
    /\ Len(word) = Cardinality(Kept(f, r[1], r[2]))
    /\ \A k \in Kept(f, r[1], r[2]) : word[Cardinality(Kept(f, r[1], k))] = f[k].char

\* The words are the ones the definition gives (plan of the comparison, 6.3: joiners
\* between letters are deleted, other punctuation becomes a space, words split at spaces).
WordsInOrder(f, words) ==
    \E order \in [1 .. Len(words) -> Runs(f)] :
        /\ \A k \in 1 .. Len(words) : Spells(words[k].word, f, order[k])
        /\ \A j, k \in 1 .. Len(words) : j < k => order[j][2] < order[k][1]
        /\ {order[k] : k \in 1 .. Len(words)} = Runs(f)

\* A word's span is a non-empty piece of the raw text, and the spans follow each other
\* without overlap, so that highlighting a word never marks another one.
SpansInOrder(text, words) ==
    /\ \A k \in 1 .. Len(words) : words[k].from < words[k].to /\ words[k].to <= Len(text)
    /\ \A k \in 2 .. Len(words) : words[k - 1].to <= words[k].from

\* No raw character of a word lies outside its span: a composed letter, a dropped joiner
\* and a letter that folded into two are covered whole.
SpansCover(f, words) ==
    \A j \in 1 .. Len(f) :
        InWord(f, j) => \E k \in 1 .. Len(words) :
                            words[k].from <= f[j].from /\ f[j].to <= words[k].to

\* A text is cut into the words it is defined to have, each found again in the raw text.
WordsAsDefined ==
    stage = "fill" /\ at = <<1, 1>> =>
        \A t \in {original, secondary} :
            LET f == Folded(t.text) IN
            /\ WordsInOrder(f, t.words)
            /\ SpansInOrder(t.text, t.words)
            /\ SpansCover(f, t.words)

\* Every way to put words of the one text opposite words of the other, in order.
Alignment ==
    UNION {{f \in [chosen -> 1 .. M] : \A i, j \in chosen : i < j => f[i] < f[j]} :
              chosen \in SUBSET (1 .. N)}

\* Words opposite a different one, and words opposite none.
Cost(f) == LET pairs == Cardinality(DOMAIN f) IN
           Cardinality({i \in DOMAIN f : ~ SameWord(i, f[i])}) + (N - pairs) + (M - pairs)

BestCost == Min({Cost(f) : f \in Alignment})

Count(op) == Cardinality({k \in 1 .. Len(ops) : ops[k].op = op})
Compared == stage = "done" /\ "comparison_unavailable" \notin result.reasons

\* The distance is the least number of replacements, insertions and deletions, and the
\* operations that are stored with the round are that many.
DistanceIsLeast ==
    Compared => /\ result.distance = BestCost
                /\ Count("replace") + Count("insert") + Count("delete") = result.distance

\* The walk back always finds an operation: the RuntimeError after its four cases, which
\* would turn a comparison that was made into one that was unavailable, is never raised.
WalkGoesOn ==
    stage = "walk" /\ at # <<0, 0>> =>
        LET i == at[1]  j == at[2] IN
        CanMatch(i, j) \/ CanReplace(i, j) \/ CanDelete(i, j) \/ CanInsert(i, j)

\* How many of the first k operations use a word of the original, or of the other text.
OriginalUsed(k)  == Cardinality({m \in 1 .. k : ops[m].op # "insert"})
SecondaryUsed(k) == Cardinality({m \in 1 .. k : ops[m].op # "delete"})

\* The stored operations tell both texts in full: read for one side they are its words.
OpsTellBothTexts ==
    Compared =>
        /\ OriginalUsed(Len(ops)) = N /\ SecondaryUsed(Len(ops)) = M
        /\ \A k \in 1 .. Len(ops) :
              /\ ops[k].op # "insert" => ops[k].original = Of(OriginalUsed(k))
              /\ ops[k].op # "delete" => ops[k].secondary = By(SecondaryUsed(k))

\* A round is queued for its words exactly if no alignment keeps to the threshold, which
\* meeting it does: 10000 times the cost against the longer text's words, never rounded.
WordReviewExact ==
    Compared /\ N > 0 /\ M > 0 =>
        ("word_difference_exceeded" \in result.reasons
         <=> \A f \in Alignment : 10000 * Cost(f) > Threshold * Larger(N, M))

\* A comparison that could not be made never lets a round pass.
NothingPassesUnread ==
    stage = "done" /\ result.reasons = {} =>
        /\ N > 0 /\ M > 0
        /\ \E f \in Alignment : 10000 * Cost(f) <= Threshold * Larger(N, M)

\* The verdict, the distance and the stored operations are what the texts say.
VerdictExact ==
    /\ DistanceIsLeast /\ WalkGoesOn /\ OpsTellBothTexts
    /\ WordReviewExact /\ NothingPassesUnread

\* The excluded time is one set of milliseconds however it is cut into segments: the
\* merged ranges cover what the segments cover and leave a gap between any two.
Covered(r) == r[1] .. r[2] - 1
UnionExact ==
    \A t \in {original, secondary} :
        LET merged == BadQuality(t.excluded) IN
        /\ UNION {Covered(r) : r \in t.excluded} = UNION {Covered(merged[k]) : k \in 1 .. Len(merged)}
        /\ \A k \in 2 .. Len(merged) : merged[k - 1][2] < merged[k][1]

\* Two transcripts that leave out the same milliseconds do not disagree about them,
\* however differently their segments are cut.
CutsDoNotConflict ==
    /\ stage = "done"
    /\ UNION {Covered(r) : r \in original.excluded} = UNION {Covered(r) : r \in secondary.excluded}
    => "bad_quality_conflict" \notin result.reasons

ExcludedTimeExact == UnionExact /\ CutsDoNotConflict

\* Both sides have the same excluded segments but for endpoints that lie a millisecond
\* apart (the plan, 6.4, promises a tolerance of 1 ms for the union of the ranges).
WithinTolerance ==
    \E f \in [original.excluded -> secondary.excluded] :
        /\ \A r, t \in original.excluded : f[r] = f[t] => r = t
        /\ {f[r] : r \in original.excluded} = secondary.excluded
        /\ \A r \in original.excluded : Near(r[1], f[r][1]) /\ Near(r[2], f[r][2])
ToleranceKept ==
    stage = "done" /\ WithinTolerance => "bad_quality_conflict" \notin result.reasons
=============================================================================
