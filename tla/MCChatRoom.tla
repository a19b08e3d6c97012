----------------------------- MODULE MCChatRoom -----------------------------
\* Instances of ChatRoom for TLC.
EXTENDS ChatRoom, TLC

CONSTANTS u1, u2, s1, s2, s3

\* One session for each user.
Two == (s1 :> u1) @@ (s2 :> u2)

\* The first user opens a second one: another tab, a reload, a reconnection.
Reload == (s1 :> u1) @@ (s2 :> u2) @@ (s3 :> u1)
=============================================================================
