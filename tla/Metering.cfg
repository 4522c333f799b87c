SPECIFICATION Spec
CONSTANTS
    BinaryChain = 1
    SlotsPerUnit = 4
    FixedSlots = 2
    MaxIterations = 1
    Inputs <- SmallInputs
INVARIANT SameBehaviour
INVARIANT EverythingCharged
INVARIANT DepthTracksFrames
INVARIANT NothingAfterFault
INVARIANT StaticReadsFlagged
INVARIANT ScanBoundsDepth
CHECK_DEADLOCK FALSE
