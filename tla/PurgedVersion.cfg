SPECIFICATION DocumentsSpec
CONSTANTS
    Handlers = {h1, h2}
    MaxStamp = 5
INVARIANT PurgedStaysPurged
CHECK_DEADLOCK FALSE
