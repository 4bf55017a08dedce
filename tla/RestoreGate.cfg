SPECIFICATION FairGateSpec
CONSTANTS
    Request = {r1, r2, r3}
    Worker = {w1}
    Carries = TRUE
    NoOne = NoOne
INVARIANTS GateTypeOK ExclusiveIsAlone ClosedForARestore SleepsForSomebody
PROPERTIES NobodySlipsIn GateReopens ImplementsAccess
