-------------------------------- MODULE WordDiff --------------------------------
(***************************************************************************)
(* worddiff_v1: two transcripts of one recording are compared, and the     *)
(* verdict says whether the round passes or goes to a reviewer.            *)
(*                                                                         *)
(* A transcript is the text of its usable segments, with the words it is   *)
(* cut into, and the time ranges of its excluded ones (Bad Quality), in     *)
(* milliseconds.  The comparison fills the table of distances cell by cell, *)
(* walks back through it collecting the edit operations, and judges.        *)
(***************************************************************************)
EXTENDS WordTokens, Integers, FiniteSets, FiniteSetsExt

CONSTANTS
    Pairs,        \* the pairs of transcripts that are compared
    Threshold,    \* threshold_bps
    MaxCells      \* MAX_COMPARISON_CELLS

ASSUME NumbersAssumption == {Threshold, MaxCells} \subseteq Nat

VARIABLES
    original,   \* the published transcript
    secondary,  \* the one handed in for comparison
    stage,      \* "fill", "walk", "done"
    dp,         \* the table of distances, as far as it is filled
    at,         \* the cell that is next: <<i, j>>
    ops,        \* the operations found so far, first one first
    result      \* reasons, distance and counts once done

vars == <<original, secondary, stage, dp, at, ops, result>>

Status == {"annotated", "skipped"}
Transcript(text, excluded, status) ==
    [words |-> Tokens(text), text |-> text, excluded |-> excluded, status |-> status]

\* Segments follow each other; they may overlap by a millisecond
\* (_validate_segment_timeline), and a gap is no error.
Timeline(excluded) ==
    \A r, t \in excluded : r # t => (r[1] - t[2] >= -1 \/ t[1] - r[2] >= -1)

IsTranscript(t) ==
    /\ t = Transcript(t.text, t.excluded, t.status)
    /\ t.text \in Seq(Char) /\ t.status \in Status
    /\ IsFiniteSet(t.excluded) /\ t.excluded \subseteq Nat \X Nat
    /\ \A r \in t.excluded : r[1] < r[2]
    /\ Timeline(t.excluded)

ASSUME PairsAssumption ==
    \A pair \in Pairs : IsTranscript(pair[1]) /\ IsTranscript(pair[2])

NoResult == [reasons |-> {}, distance |-> -1]

Of(w) == original.words[w]
By(w) == secondary.words[w]
N == Len(original.words)
M == Len(secondary.words)

-----------------------------------------------------------------------------
\* The excluded time of a transcript.

Earlier(r, t) == r[1] < t[1] \/ (r[1] = t[1] /\ r[2] < t[2])

Touches(r, t) == t[1] <= r[2]

\* One more range, which starts no earlier than the last one merged.
Absorb(merged, t) ==
    IF merged # <<>> /\ Touches(Last(merged), t)
    THEN [merged EXCEPT ![Len(merged)] = <<@[1], Larger(@[2], t[2])>>]
    ELSE Append(merged, t)

\* The segments in order: as many come before the k-th as its place says.
Sorted(excluded) ==
    [k \in 1 .. Cardinality(excluded) |->
        CHOOSE r \in excluded : Cardinality({t \in excluded : Earlier(t, r)}) = k - 1]

\* The ranges the first k segments make.
MergedTo(raw) == LET merged[k \in 0 .. Len(raw)] ==
                       IF k = 0 THEN <<>> ELSE Absorb(merged[k - 1], raw[k])
                 IN  merged

Unmerged(excluded) == Sorted(excluded)

BadQuality(excluded) == LET raw == Sorted(excluded) IN MergedTo(raw)[Len(raw)]

Near(m, n) == m - n \in -1 .. 1

BadQualityConflict(left, right) ==
    \/ Len(left) # Len(right)
    \/ \E k \in 1 .. Len(left) : ~ Near(left[k][1], right[k][1]) \/ ~ Near(left[k][2], right[k][2])

-----------------------------------------------------------------------------
\* The table.

SameWord(i, j) == Of(i).word = By(j).word

ForgotInsert(d, i, j) == Min({d[<<i - 1, j - 1>>] + (IF SameWord(i, j) THEN 0 ELSE 1), d[<<i - 1, j>>] + 1})

Cell(d, i, j) ==
    Min({d[<<i - 1, j - 1>>] + (IF SameWord(i, j) THEN 0 ELSE 1), d[<<i - 1, j>>] + 1, d[<<i, j - 1>>] + 1})

\* What the array holds before the loop: the first row and column, zeros elsewhere.
EmptyTable == [c \in (0 .. N) \X (0 .. M) |->
                  IF c[1] = 0 THEN c[2] ELSE IF c[2] = 0 THEN c[1] ELSE 0]

\* More than the threshold, compared without rounding the rate.
Exceeds(distance, n) == distance * 10000 > n * Threshold

\* The reasons that do not need the distance.
PlainReasons ==
    (IF original.status = "annotated" /\ secondary.status = "skipped"
     THEN {"submission_status_conflict"} ELSE {})
    \cup (IF N = 0 THEN {"empty_original_text"} ELSE {})
    \cup (IF M = 0 THEN {"empty_secondary_text"} ELSE {})
    \cup (IF BadQualityConflict(BadQuality(original.excluded), BadQuality(secondary.excluded))
          THEN {"bad_quality_conflict"} ELSE {})

\* A comparison that cannot be made is a reason of its own, with no distance.
Unavailable == [reasons |-> PlainReasons \cup {"comparison_unavailable"}, distance |-> -1]

\* The product of the lengths is beyond the budget: nothing is computed.
TooLarge ==
    /\ stage = "fill" /\ at = <<1, 1>> /\ N * M > MaxCells
    /\ stage' = "done" /\ result' = Unavailable
    /\ UNCHANGED <<original, secondary, dp, at, ops>>

OutOfMemory ==
    /\ stage = "fill" /\ at = <<1, 1>> /\ N * M <= MaxCells
    /\ stage' = "done" /\ result' = Unavailable
    /\ UNCHANGED <<original, secondary, dp, at, ops>>

Fill ==
    LET i == at[1]  j == at[2] IN
    /\ stage = "fill" /\ N * M <= MaxCells /\ i <= N /\ j <= M
    /\ dp' = [dp EXCEPT ![<<i, j>>] = Cell(dp, i, j)]
    /\ at' = IF j < M THEN <<i, j + 1>> ELSE <<i + 1, 1>>
    /\ UNCHANGED <<original, secondary, stage, ops, result>>

Filled ==
    /\ stage = "fill" /\ N * M <= MaxCells /\ (at[1] > N \/ at[2] > M)
    /\ stage' = "walk" /\ at' = <<N, M>>
    /\ UNCHANGED <<original, secondary, dp, ops, result>>

-----------------------------------------------------------------------------
\* The walk back, in the order match, replace, delete, insert.

CanMatch(i, j) == i > 0 /\ j > 0 /\ SameWord(i, j) /\ dp[<<i, j>>] = dp[<<i - 1, j - 1>>]

CanReplace(i, j) == i > 0 /\ j > 0 /\ ~ SameWord(i, j) /\ dp[<<i, j>>] = dp[<<i - 1, j - 1>>] + 1

CanDelete(i, j) == i > 0 /\ dp[<<i, j>>] = dp[<<i - 1, j>>] + 1

CanInsert(i, j) == j > 0 /\ dp[<<i, j>>] = dp[<<i, j - 1>>] + 1

Step(op, i, j) ==
    /\ ops' = <<op>> \o ops /\ at' = <<i, j>>
    /\ UNCHANGED <<original, secondary, stage, dp, result>>

Match ==
    /\ stage = "walk" /\ CanMatch(at[1], at[2])
    /\ Step([op |-> "match", original |-> Of(at[1]), secondary |-> By(at[2])], at[1] - 1, at[2] - 1)

Replace ==
    /\ stage = "walk" /\ ~ CanMatch(at[1], at[2]) /\ CanReplace(at[1], at[2])
    /\ Step([op |-> "replace", original |-> Of(at[1]), secondary |-> By(at[2])], at[1] - 1, at[2] - 1)

Delete ==
    /\ stage = "walk" /\ ~ CanMatch(at[1], at[2]) /\ ~ CanReplace(at[1], at[2])
    /\ CanDelete(at[1], at[2])
    /\ Step([op |-> "delete", original |-> Of(at[1])], at[1] - 1, at[2])

Insert ==
    /\ stage = "walk" /\ ~ CanMatch(at[1], at[2]) /\ ~ CanReplace(at[1], at[2])
    /\ ~ CanDelete(at[1], at[2]) /\ CanInsert(at[1], at[2])
    /\ Step([op |-> "insert", secondary |-> By(at[2])], at[1], at[2] - 1)

\* The verdict on two texts: the distance is judged if there are words on both sides.
Verdict ==
    [distance |-> dp[<<N, M>>],
     reasons |-> PlainReasons \cup
         (IF N > 0 /\ M > 0 /\ Exceeds(dp[<<N, M>>], Larger(N, M))
          THEN {"word_difference_exceeded"} ELSE {})]

\* Nothing is left to walk.
Judge ==
    /\ stage = "walk" /\ at = <<0, 0>>
    /\ stage' = "done" /\ result' = Verdict
    /\ UNCHANGED <<original, secondary, dp, at, ops>>

Init ==
    /\ \E pair \in Pairs : original = pair[1] /\ secondary = pair[2]
    /\ stage = "fill" /\ dp = EmptyTable /\ at = <<1, 1>>
    /\ ops = <<>> /\ result = NoResult

Next ==
    \/ TooLarge \/ OutOfMemory \/ Fill \/ Filled
    \/ Match \/ Replace \/ Delete \/ Insert \/ Judge

Spec == Init /\ [][Next]_vars
=============================================================================
