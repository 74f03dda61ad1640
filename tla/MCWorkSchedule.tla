--------------------------- MODULE MCWorkSchedule ---------------------------
\* Instances of WorkSchedule for TLC.
EXTENDS WorkSchedule, TLC

HandleSymmetry == Permutations(Handles)
=============================================================================
