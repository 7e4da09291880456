--------------------------- MODULE MCVideoPipeline ---------------------------
\* The main loop with few frames; each .cfg picks the modes.
EXTENDS VideoPipeline
=============================================================================
