SPECIFICATION Spec
CONSTANTS
    OtherPorts = {"SPDIF"}
    Modes = {"PASSTHRU", "SURROUND"}
    Overlap = TRUE
    MaxRuns = 3
INVARIANT AlertIsHeard
