SPECIFICATION Spec
CONSTANTS
    v1 = v1
    v2 = v2
    v3 = v3
    e0 = e0
    e1 = e1
    e2 = e2
    e3 = e3
    s1 = s1
    s2 = s2
    NoVersion = NoVersion
    Versions = {v1, v2, v3}
    InitialVersion = v1
    Events = {e0, e1, e2, e3}
    Segments = {s1, s2}
    Operators = {o1, o2}
    FilledAt <- MCFilledAt
    AvailableAt <- MCAvailableAt
    RoomBaseline <- MCRoomBaseline
    SegmentOf <- MCSegmentOf
    RoomSize <- MCRoomSize
    BrierChange <- MCBrierChange
    LogLossChange <- MCLogLossChange
    CalibrationChange <- MCCalibrationChange
    Cutoff <- MCCutoff
    MinimumRooms = 1
    MinimumImprovement = 1
    MaximumBrier = 1
    MaximumLogLoss = 1
    MaximumCalibration = 1
    MaxTime = 5
    MaxRevision = 4
SYMMETRY OperatorSymmetry
INVARIANTS
    TypeOK
    ActivationIsEarned
    EvidenceIsUnseen
    AuditIsAChain
    RollbackUndoesActivation
CHECK_DEADLOCK FALSE
