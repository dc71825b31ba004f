\* Starts, signals, failing listeners and requests under every accepted file.
SPECIFICATION Spec
CONSTANTS
    Edits <- SmallEdits
INVARIANTS
    TypeOK
    RunsWhole
    StopsForAReason
    AcceptedIsServable
    WizardFilesLoad
PROPERTIES
    CutsAreVisible
    SignalEndsIt
