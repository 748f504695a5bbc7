SPECIFICATION Spec
CONSTANTS
    MinWindow = 5
    WindowArg = 3
    OverlapArg = 5
    MaxText = 13
    Contents <- ShortContents
\* flush ends the stream
CHECK_DEADLOCK FALSE
INVARIANT NoShortLeak
PROPERTY BlockIsFinal
PROPERTY PushTerminates
