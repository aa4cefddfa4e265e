SPECIFICATION Spec
CONSTANTS
    None = None
    Op <- MCOp
    AssetsOf <- MCAssetsOf
    Mandatory <- MCMandatory
    MaxChanges = 1
    Asked = "v"
    Empty = ""
    NameOf <- MCNameOf
    Requests <- MCRequests
    MaxMemory = 4
INVARIANTS AnswersAreTrue SuccessIsTrue CodeTellsTheOutcome TreeIsRestored ContextsAreReturned
PROPERTY ActionsEnd
