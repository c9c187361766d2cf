CONSTANTS
    MaxPolls <- MCMaxPolls
    RpcMayFail = TRUE
    AsyncRestart = TRUE
SPECIFICATION Spec
INVARIANT UpgradeNotRejected
