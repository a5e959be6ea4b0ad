---- MODULE MCVoiceReceiver ----
(***************************************************************************)
(* Instances of VoiceReceiver for TLC.  SSRCs and recordings are numbered  *)
(* per user, <<user, n>>.  A bot always has two SSRCs, so that a known bot *)
(* can come back under another one.                                        *)
(***************************************************************************)
EXTENDS VoiceReceiverBook

CONSTANTS SsrcsPerUser, RecsPerUser

MCSsrcs    == {s \in Users \X (1..SsrcsPerUser + 1) :
                 s[1] \in Bots \/ s[2] <= SsrcsPerUser}
MCSsrcUser == [s \in MCSsrcs |-> s[1]]
MCRecs     == Users \X (1..RecsPerUser)
MCRecUser  == [r \in MCRecs |-> r[1]]
====
