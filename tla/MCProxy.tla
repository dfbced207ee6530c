------------------------------ MODULE MCProxy ------------------------------
EXTENDS Proxy

\* Two addresses, so that an iterator may have an entry behind it and before it.
MCAddrs == 1..2
============================================================================
