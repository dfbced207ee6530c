----------------------------- MODULE MCQtTimer -----------------------------
EXTENDS QtTimer

\* Relative times below, at and beyond the width of the int.
MCIntervals == {0, 2, 3, 4, 7}
============================================================================
