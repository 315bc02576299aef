SPECIFICATION Spec
CONSTANTS
    Nothing = Nothing
    t1 = t1
    t2 = t2
    s1 = s1
PROPERTIES
    RunsEnd
    RunnersEnd
CHECK_DEADLOCK FALSE
