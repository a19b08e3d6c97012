---------------------------- MODULE MCMatching -----------------------------
(* Instances of Matching for TLC.  The visits of Strangers are by different *)
(* users on two servers; in Tabs one user makes two of the three visits.    *)
EXTENDS Matching, TLC

CONSTANTS a, b, c, s1, s2, s3, v1, v2

StrangersUserOf == s1 :> a @@ s2 :> b @@ s3 :> c
TabsUserOf == s1 :> a @@ s2 :> a @@ s3 :> b
TwoServers == s1 :> v1 @@ s2 :> v1 @@ s3 :> v2
=============================================================================
