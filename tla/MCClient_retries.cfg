SPECIFICATION FewSpec
CONSTANTS
    u1 = u1
    u2 = u2
    v0 = v0
    v1 = v1
    v2 = v2
    p1 = p1
    p2 = p2
    Push <- Pushes
    Sends <- Again
    User <- Users
    Version <- Versions
    First = v1
    Past <- Older
    Attempts = 2
    Late = 1
    Regular = {TRUE, FALSE}
    None = None
INVARIANTS
    OneVerdictPerUpload
    ToldIsTrue
PROPERTIES
    AnswerIsFinal
    ChoiceIsAnswered
