\* A crash between remove(path) and rename loses both slots.
SPECIFICATION Spec
CONSTANTS
    Time = {1, 2}
    NoFile = NoFile
    Partial = Partial
    IOFaults = {}
INVARIANT
    SlotsKept
