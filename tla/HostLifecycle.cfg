CONSTANTS
    MaxPolls <- MCMaxPolls
    RpcMayFail = TRUE
    AsyncRestart = TRUE
SPECIFICATION Spec
INVARIANT TypeOK
INVARIANT RejectionHasNoSideEffect
INVARIANT OkImpliesConfirmed
PROPERTY VerbTerminates
PROPERTY AbstractHostSpec
