\* The options of a kind do not look at each other, so one of each is enough;
\* Unmarshal fails for any of them.
SPECIFICATION Spec
CONSTANTS
    Numbers = {"max_requests"}
    Flags = {"enabled"}
    Names = {"header_name"}
    EnvTexts <- MCEnvTexts
    DotEnvTexts <- MCDotEnvTexts
    FileValues <- MCFileValues
INVARIANTS LoadedIsUsable FirstSourceDecides FailsForAReason
CHECK_DEADLOCK FALSE
