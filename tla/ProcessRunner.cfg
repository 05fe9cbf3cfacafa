CONSTANTS
    big = big
    mid = mid
    small = small
    Procs = {big, mid, small}
    Need <- MCNeed
    Expected0 <- MCExpected
    Timed <- MCTimed
    Chatty <- MCChatty
    MemLevels = {0, 4, 8}
    TotalMem = 15
    MaxMems = {0, 12, 14}
    MAX_RUNNING = 2
SPECIFICATION FairSpec
INVARIANT NoneLost
PROPERTIES OldestKeepsRunning EveryShellAnswered CancelRespected
