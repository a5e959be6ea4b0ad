---- MODULE MCVoicePresence ----
EXTENDS VoicePresence
====
