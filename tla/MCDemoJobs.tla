----------------------------- MODULE MCDemoJobs -----------------------------
\* Two submissions of one job and one of another.
EXTENDS DemoJobs, TLC

CONSTANTS s1, s2, s3, j1, j2

MCJobOf == s1 :> j1 @@ s2 :> j1 @@ s3 :> j2
=============================================================================
