SPECIFICATION FlvSpec
INVARIANT
    KeysCurrent
CHECK_DEADLOCK FALSE
