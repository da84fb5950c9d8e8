SPECIFICATION DetectorSpec
CONSTANTS
    Tasks = {t1, t2}
    Findings = {{"spend_spike"}, {"spend_spike", "rapid_acceleration"}}
    Window = 1
    MaxTime = 2
    MaxRows = 4
SYMMETRY Symmetry
INVARIANTS
    BoundedDuplicates
