----------------------------- MODULE MCRtpSession -----------------------------
\* The session with a few packets and collisions; each .cfg picks the waits.
EXTENDS RtpSession
=============================================================================
