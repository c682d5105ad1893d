----------------------------- MODULE MCTraffic -----------------------------
EXTENDS Traffic
CONSTANTS i1, j1, k1, l1, s1, t1
MCScopes  == {{"clock"}, {"churn"}}
MCSteady  == {{}}
MCReuse   == {{"churn", "reuse"}}
MCOverlap == {{"overlap"}}
=============================================================================
