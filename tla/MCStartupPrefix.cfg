SPECIFICATION Spec
CONSTANTS
    Processes = {q1, q2}
    Aliases = {"", "deepseek", "openai", "mine"}
    DefaultConfig <- MCDefault
    UserConfigs <- MCUserConfigs
    Malformed = Malformed
    Environments <- MCEnvironments
    Invocations <- GatewayInvocations
    Unset = Unset
    MaxSaves = 2
SYMMETRY Symmetric
INVARIANT AliasIsOfPrefix
CHECK_DEADLOCK FALSE
