\* Requests up to two changes away from a well-formed one; a request that was
\* refused or answered is finished.
SPECIFICATION Spec
CONSTANTS
    SPAClients = {"spa1", "spa2"}
    ServiceClients = {"svc"}
    Origins <- MCOrigins
    MaxEdits = 2
    MaxWrites = 2
CHECK_DEADLOCK FALSE
INVARIANTS
    MandatoryParametersHold
    OneClientIdentity
    UserinfoAnswers
