------------------------------- MODULE SavedWork -------------------------------
(***************************************************************************)
(* What saving promises, seen from the server alone: the work on a task    *)
(* only moves forward while somebody holds it, and is final once handed    *)
(* in.  Segments carry the number of the edit that last changed them, so   *)
(* an older number is an older text.                                       *)
(***************************************************************************)
EXTENDS Naturals

CONSTANTS
    Seg,     \* the segments of the task (its scene review counts as one)
    Edit     \* numbers of edits; 0 is the text the task started with

VARIABLES
    text,    \* what the server has for each segment
    stage    \* "held" by an annotator, "pooled" between holders, "done"

Text == [Seg -> Edit]
NotBehind(new, old) == \A s \in Seg : new[s] >= old[s]

Init == text = [s \in Seg |-> 0] /\ stage = "held"

\* Only the holder's work arrives, and never an older one.
Save ==
    /\ stage = "held"
    /\ text' \in Text /\ NotBehind(text', text)
    /\ stage' = stage

HandIn ==
    /\ stage = "held"
    /\ text' \in Text /\ NotBehind(text', text)
    /\ stage' = "done"

Release == stage = "held" /\ stage' = "pooled" /\ text' = text
Claim == stage = "pooled" /\ stage' = "held" /\ text' = text

Next == Save \/ HandIn \/ Release \/ Claim

Spec == Init /\ [][Next]_<<text, stage>>
=============================================================================
