---- MODULE MCVoiceSession ----
EXTENDS VoiceSession
====
