SPECIFICATION Spec
CONSTANTS
    x = x
    cr = cr
    lf = lf
    Bytes = {x, cr, lf}
    Separators <- TwoSeparators
    MaxFrame = 1
    MaxStream = 7
INVARIANTS
    FramesAreTheStreams
    BufferBounded
    NothingLostSilently
CHECK_DEADLOCK FALSE
