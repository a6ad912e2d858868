CONSTANTS
    p1 = p1
    p2 = p2
    Keys = {p1, p2}
    Window = 2
    MaxWait = 4
    Prompt = TRUE
    MaxEvents = 6
SPECIFICATION FairSpec
INVARIANTS DebouncerInv EmittedInOrder NothingForgotten FewStrayTimers BoundedDelay
PROPERTIES EventuallyEmitted
