---------------------------- MODULE MCFdiHistory ----------------------------
\* Instances of FdiHistory for TLC, with the sets of MCFdiThreads.
EXTENDS FdiHistory, MCFdiThreads
===============================================================================
