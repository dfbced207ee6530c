------------------------------- MODULE MCDiag -------------------------------
EXTENDS Diag

\* A call that gives its text on, and one that gives on the list of the devices
\* and whose answer may be too long for the reader.
MCKinds == {"version", "devices"}
=============================================================================
