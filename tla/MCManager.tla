------------------------------ MODULE MCManager ------------------------------
(* Constants of the Manager for model checking.                            *)
EXTENDS Manager

\* One programme, running from the start.
OneProgramme == {<<0, 1>>}
=============================================================================
