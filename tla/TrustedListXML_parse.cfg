\* Every list of two services and two certificate elements each.
SPECIFICATION Spec
CONSTANTS
    ec = ec
    ecRenewed = ecRenewed
    other = other
    keyEC = keyEC
    Cert = {ecRenewed, other}
    NoJkt = nojkt
    Malformed = malformed
    Blank = blank
    ServiceType = {"RemoteQSigCDManagement/Q", "AgentRuntimeEndorser/Q"}
    Status = {"TrustedList/granted", "granted"}
    GrantedStatus = "TrustedList/granted"
    jkt <- MC_jkt
    Lists <- MC_Lists
INVARIANT TypeOK
INVARIANT ListedExactly
INVARIANT IdentitiesAgree
INVARIANT CensusComplete
PROPERTY RefinesList
\* a parse ends
CHECK_DEADLOCK FALSE
