\* Two commands on either file, one edit by hand, one of them killed.
CONSTANTS
    Commands = {c1, c2}
    Users = {1, 2}
    Fields = {f1, f2}
    HandWritten <- WithComments
    MaxMinute = 1
    MaxEdits = 1
    MaxKills = 1
CHECK_DEADLOCK FALSE
SYMMETRY Symmetry
SPECIFICATION Spec
INVARIANTS
    TypeOK
    AddedStays
    ReservedStays
    ReplacedIsArchived
