------------------------------ MODULE MCInertial ------------------------------
\* Instances of Inertial for TLC.
EXTENDS Inertial

Drift == {-1, 0, 1}
Push == {-2, 0, 2}
===============================================================================
