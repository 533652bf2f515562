\* Every failure and a crash anywhere in notificationLockMarkSent.
SPECIFICATION Spec
CONSTANTS
    Time = {1, 2}
    NoFile = NoFile
    Partial = Partial
    IOFaults = {"read", "close", "remove", "rename"}
INVARIANTS
    TypeOK
    NeverPartial
    ReadsToldOrNothing
    SlotsKeptUnlessHurt
