\* One credential, one session, two verifications.
SPECIFICATION Spec
CONSTANTS
    RP = {r1}
    Holder = {h1}
    Nonce = {n1}
    Challenge = {c1}
    Salt = {s1}
    Issuer = {endorser}
    Audience = {ours}
    AUD = ours
    StaleChallenge = stale
    NoNonce = nil
    Nothing = nothing
    Broken = broken
    NotText = none
    none = none
    r1 = r1
    r2 = r2
    endorser = endorser
    qtsp = qtsp
    rogue = rogue
    ours = ours
    theirs = theirs
    Leeway = 0
    Ttl = 2
    MaxTime = 1
    MaxPresentations = 1
    MaxAltered = 0
    MaxEvidence = 2
    MaxAccepted = 2
    EarStatus = {"affirming"}
    Text <- MC_Text
    nfc <- MC_nfc
    aud <- SameAud
    Anchors <- EndorserOnly
    Actions <- OneAction
    Scopes <- OneScope
    Reveals <- AllRevealed
INVARIANT SingleUseJti
\* the bounds end every behaviour: no more requests, no more time
CHECK_DEADLOCK FALSE
