SPECIFICATION Spec
CONSTANTS
    c1 = c1
    c2 = c2
    u1 = u1
    u2 = u2
    Clients = {c1, c2}
    Emails = {u1, u2}
    Members = {u1}
    ZoneNames = {z}
    LocationNames = {l}
    RTypes = {a, bad}
    SupportedTypes = {a}
    Ops <- MCOps
    Speaks <- MCSpeaks
    Waiting = {u2}
    Ids <- MCIds
INVARIANTS
    TypeOK
    CodesWork
    AnswerOfAMoment
PROPERTIES
    OwnRowsOnly
