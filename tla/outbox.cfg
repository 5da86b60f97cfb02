\* A job's or a webhook's session tells of two events; two
\* endpoints come and go; workers die twice.
SPECIFICATION FairSpec
CONSTANTS
    Events = {e1, e2}
    Endpoints = {x1, x2}
    Sessions = {p1}
    LastTry = 2
    MaxTry = 3
    MaxChanges = 2
    MaxCrashes = 2
    MaxRefusals = 1
INVARIANTS
    OutboxTypeOK
PROPERTIES
    KeepsPromise
    EventSettles
\* Everything may be told, delivered and settled.
CHECK_DEADLOCK FALSE
