------------------------------- MODULE MCFusion -------------------------------
\* Instances of Fusion for TLC.
EXTENDS Fusion

\* No usable IMU, noise below the deadband, and a push either way.
Braking == {0, 2, 20, -20}
===============================================================================
