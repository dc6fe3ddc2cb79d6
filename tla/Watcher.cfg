\* Watcher: two processes, two timers, two versions, one edit, one fault.
CONSTANTS
    w1 = w1
    w2 = w2
    t1 = t1
    t2 = t2
    None = None
    Pid = {w1, w2}
    Thread = {t1, t2}
    MaxWrites = 2
    MaxEdits = 1
    MaxStarts = 2
    MaxFaults = 1
SPECIFICATION Spec
SYMMETRY Alike
CONSTRAINT Few
INVARIANTS WatcherSound QuietIsCurrent UserTextKept
CHECK_DEADLOCK FALSE
