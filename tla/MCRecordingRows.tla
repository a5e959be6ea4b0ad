---- MODULE MCRecordingRows ----
EXTENDS RecordingRows
====
