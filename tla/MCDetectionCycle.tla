--------------------------- MODULE MCDetectionCycle ---------------------------
\* Instances of DetectionCycle for TLC.
EXTENDS DetectionCycle

Pair == {"US1", "US2"}

\* At most one of the twins is not clean.
OneMayFail == {m \in [Pair -> {"clean", "faulty"}] : \E s \in Pair : m[s] = "clean"}
OneGlitch  == {[s \in Pair |-> IF s = "US1" THEN "glitch" ELSE "clean"]}
===============================================================================
