------------------------------ MODULE MCRanker ------------------------------
(***************************************************************************)
(* Ranker on small inputs.                                                 *)
(***************************************************************************)
EXTENDS Ranker

CONSTANTS FirstTimes, SecondTimes, MaxFirst, MaxSecond

ListsOf(submissions, most) == UNION {[1 .. n -> submissions] : n \in 0 .. most}

Contest(participants, submissions) ==
    [participants |-> participants, submissions |-> submissions]

\* Three handles, one of them in the first contest only, where its submissions to the
\* second count for nobody.  In the second there is one problem, and the third handle
\* does not try it.
Judging ==
    LET Tried == [handle : {1, 2, 3}, problem : Problems, accepted : BOOLEAN, time : FirstTimes]
        TriedLater == [handle : {1, 2}, problem : {1}, accepted : BOOLEAN, time : SecondTimes]
    IN {<<Contest({1, 2, 3}, f), Contest({2, 3}, s)>> :
            f \in ListsOf(Tried, MaxFirst), s \in ListsOf(TriedLater, MaxSecond)}

\* Nobody submits: all that matters is how many rows there are.
Printing == {<<Contest(1 .. k, <<>>), Contest(1 .. k, <<>>)>> : k \in PdfRows}

MCAnswers == Judging \cup Printing

\* No merge, one of two handles, one with a handle twice, two that share a handle,
\* and one without any.
MCMergeLists ==
    {<<>>, <<<<2, 1>>>>, <<<<1, 1>>, <<>>>>, <<<<2, 1>>, <<2, 1>>, <<3, 1>>>>}

\* By the first handle, then by the second.
MCText ==
    [t \in Texts |-> IF t = <<>> THEN 0 ELSE 10 * t[1] + (IF Len(t) = 2 THEN t[2] ELSE 0)]

=============================================================================
