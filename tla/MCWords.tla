-------------------------------- MODULE MCWords --------------------------------
(***************************************************************************)
(* The pairs of transcripts that are compared: any short text with a word; *)
(* texts of few words with each other, where the distance has something to *)
(* decide; and recordings of a few milliseconds with excluded segments.    *)
(***************************************************************************)
EXTENDS WordProperties

CONSTANTS
    MaxText,      \* bound: characters of an arbitrary text
    MaxWords,     \* bound: words of the texts compared with each other
    MaxMs,        \* bound: milliseconds of the recording
    MaxExcluded   \* bound: excluded segments of a transcript

Texts == UNION {[1 .. n -> Char] : n \in 0 .. MaxText}
Spelled == {<<Transcript(t, {}, "annotated"), Transcript(<<"a">>, {}, "annotated")>> : t \in Texts}

\* Words of one character each, told apart.
Spaced(w) == FlattenSeq([k \in 1 .. Len(w) |-> <<w[k], "stop">>])
Worded == {Transcript(Spaced(w), {}, s) : w \in UNION {[1 .. n -> {"a", "digit"}] : n \in 0 .. MaxWords},
                                          s \in Status}

Interval == {r \in (0 .. MaxMs) \X (0 .. MaxMs) : r[1] < r[2]}
Excluded == {e \in SUBSET Interval : Cardinality(e) <= MaxExcluded /\ Timeline(e)}
Cut == {Transcript(<<"a">>, e, "annotated") : e \in Excluded}

MCPairs == Spelled \cup (Worded \X Worded) \cup (Cut \X Cut)

=============================================================================
