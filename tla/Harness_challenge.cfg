\* The demo's cases, on the nonce its main drew.
SPECIFICATION Spec
CONSTANTS
    Harnesses = {"run_case"}
    Nonce = {n1}
    Challenge = {c1}
    SessionNonce = cmain
    StaleChallenge = stale
    Holder = h1
    Listed = endorser
    Unlisted = rogue
    OtherRole = qtsp
    Issuer = {endorser, qtsp, rogue}
    Outcome = {"done", "open"}
    AUD = ours
    Broken = broken
    NotText = none
    none = none
    endorser = endorser
    qtsp = qtsp
    rogue = rogue
    Ttl = 2
    Leeway = 1
    MaxTime = 4
    Anchors <- EndorserAndQtsp
    Actions <- SeveralActions
    Scope <- TheScope
    Text <- MC_Text
    nfc <- MC_nfc
    Requests = {}
    ActScope <- NoActs
INVARIANT RelyingPartyChoseChallenge
\* a run ends
CHECK_DEADLOCK FALSE
