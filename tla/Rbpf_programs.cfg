\* All programs of up to three instructions, in fresh and in used structs.
CONSTANTS
    MaxLength = 3
    RBPF_BRANCHES_ALLOWED = 3
SPECIFICATION Spec
INVARIANTS
    RegularStaysInChecked
    RunsChecked
PROPERTIES
    RunEnds
