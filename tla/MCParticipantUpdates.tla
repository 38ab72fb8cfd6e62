------------------------ MODULE MCParticipantUpdates ------------------------
EXTENDS ParticipantUpdates, TLC

TaskSymmetry == Permutations(Task)
=============================================================================
