-------------------------------- MODULE MCTRM --------------------------------
(* Constants of the server for model checking.                             *)
EXTENDS TRM, TLC

\* One programme, running from the start.
OneProgramme == {<<0, 1>>}

\* Programmes back to back: each starts when the one before ends.
TwoProgrammes == {<<0, 1>>, <<1, 1>>}
ThreeProgrammes == {<<0, 1>>, <<1, 1>>, <<2, 1>>}

\* A pending recording starts when it is granted and keeps its end.
AnyWindow == {w \in (0 .. MaxTime) \X (0 .. MaxTime + 1) : w[1] + w[2] <= MaxTime + 1}

\* No channel and no Record request is treated differently from another.
Interchangeable == Permutations(Locators) \cup Permutations(RecordIds)
=============================================================================
