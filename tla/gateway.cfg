\* Two requests of one tenant, two dashboard requests on its keys, one
\* idempotency key, one slot of each kind, two minutes.
SPECIFICATION Spec
CONSTANTS
    Managers = {m1, m2}
    TenantSlots <- OneColumn
    ProjectSlots <- OneRow
    MaxTasks = 2
    FirstKeys <- OneKey
    FirstIssued = 1
    ts = ts
    ps = ps
    NoTask = NoTask
    Requests = {r1, r2}
    Ops = {o1}
    NoOp = NoOp
    Jwt = Jwt
    Limits = {1, 2}
    DefaultLimit = 2
    NoLimit = NoLimit
    NoReply = NoReply
    MaxMinute = 1
    MaxChanges = 1
SYMMETRY Symmetry
INVARIANTS
    GatewayTypeOK
    RetiredKeyRefused
    WithinLimit
    ReplayIsFaithful
\* Every request may have been answered.
CHECK_DEADLOCK FALSE
