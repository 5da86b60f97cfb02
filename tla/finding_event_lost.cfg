\* Redis takes every job and no worker dies; sessions end with or without
\* another commit after their last event.
SPECIFICATION FairSpec
CONSTANTS
    Events = {e1, e2}
    Endpoints = {x1, x2}
    Sessions = {p1}
    LastTry = 2
    MaxTry = 3
    MaxChanges = 2
    MaxCrashes = 0
    MaxRefusals = 0
INVARIANTS
    NoEventLost
CHECK_DEADLOCK FALSE
