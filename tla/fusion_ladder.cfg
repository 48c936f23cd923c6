SPECIFICATION Spec
CONSTANTS
    Distances = {120, 300, 1100}
    Ages = {2, 3}
    States = {"HEALTHY", "SUSPECT", "EXCLUDED"}
    Accelerations <- Braking
    Pauses = {1, 3, 6}
    StaleSample = 2
    HoldoverMax = 5
INVARIANTS
    TypeOK
    EvidenceIsBounded
    EdgeBeforeNearest
PROPERTY BlindZoneNeverRelaxes
