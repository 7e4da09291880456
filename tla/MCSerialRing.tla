---------------------------- MODULE MCSerialRing ----------------------------
\* The serial ring on a buffer of a few bytes, so that blocks wrap and fill it.
EXTENDS SerialRing
=============================================================================
