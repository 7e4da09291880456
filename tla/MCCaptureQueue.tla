--------------------------- MODULE MCCaptureQueue ---------------------------
EXTENDS CaptureQueue
=============================================================================
