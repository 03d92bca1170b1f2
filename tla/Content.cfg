SPECIFICATION Spec
CONSTANTS
    VarKeys <- MCVarKeys
    Words <- MCWords
    Templates = {t1, t2}
    Calls = {c1, c2}
    None = None
    Requests = {r1}
    Channels = {email, sms}
    Inputs <- MCInputs
    EncryptionKeys = {k1, k2}
    MaxEdits = 2
    MaxFaults = 1
SYMMETRY MCSymmetry
INVARIANTS
    TypeOK
    HandledIsSent
    HandledFits
    AnswerTellsOutcome
    MaskedRevealsLittle
PROPERTIES
    UsableIsServed
    ServedWasUsable
CHECK_DEADLOCK FALSE
