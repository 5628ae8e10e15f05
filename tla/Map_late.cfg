SPECIFICATION McSpec
CONSTANTS
    User = {u1, u2}
    Free = Free
    MaxOpens = 2
    McMayFail = FALSE
    TimeOuts = TRUE
INVARIANTS MapAnswerIsOwn
CHECK_DEADLOCK FALSE
