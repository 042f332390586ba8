SPECIFICATION Spec
CONSTANTS
    Processes = {q1, q2}
    Aliases = {"", "deepseek", "openai", "mine"}
    DefaultConfig <- MCDefault
    UserConfigs <- MCUserConfigs
    Malformed = Malformed
    Environments <- MCEnvironments
    Invocations <- MCInvocations
    Unset = Unset
    MaxSaves = 2
SYMMETRY Symmetric
INVARIANTS ConfigIsWhole KeysGoHome InputIsUsedOnce
CHECK_DEADLOCK FALSE
