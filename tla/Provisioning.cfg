CONSTANTS
    LabelChoices <- MCLabelChoices
    Provider <- MCProvider
    Insecure <- MCInsecure
    Mirrors <- MCMirrors
    Flags <- MCFlags
    MaxOps <- MCMaxOps
SPECIFICATION Spec
INVARIANT DiskFollowsHost
PROPERTY ServiceAppliesDisk
\* A caller stops issuing operations after MaxOps of them.
CHECK_DEADLOCK FALSE
