CONSTANTS
    MaxLength <- MCMaxLength
SPECIFICATION Spec
INVARIANT TypeOK
INVARIANT ProgressIsReference
CHECK_DEADLOCK FALSE
