\* One session.
SPECIFICATION Spec
CONSTANTS
    Outcome = {"done", "open"}
    Statuses = {"affirming", "contraindicated"}
    Nothing = nothing
    AUD = ours
    Broken = broken
    NotText = none
    none = none
    endorser = endorser
    qtsp = qtsp
    rogue = rogue
    Ttl = 1
    Leeway = 0
    Text <- MC_Text
    nfc <- MC_nfc
    Anchors <- EndorserAndQtsp
    Mandates <- MC_Mandates
    Requests <- MC_Requests
    Nonce = {n1}
    Holder = {h1}
    Issuer = {endorser, qtsp}
    MaxTime = 2
    MaxCredentials = 1
INVARIANT AmountWithinLimit
\* the bounds end every behaviour
CHECK_DEADLOCK FALSE
