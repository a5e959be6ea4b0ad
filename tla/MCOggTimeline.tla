---- MODULE MCOggTimeline ----
EXTENDS OggTimeline
====
