\* Two credentials, two holders, partial disclosure, altered tokens, two appraisals, look-alikes of the action.
SPECIFICATION Spec
CONSTANTS
    RP = {r1}
    Holder = {h1, h2}
    Nonce = {n1}
    Challenge = {c1}
    Salt = {s1, s2}
    Issuer = {endorser}
    Audience = {ours}
    AUD = ours
    StaleChallenge = stale
    NoNonce = nil
    Nothing = nothing
    Broken = broken
    NotText = none
    none = none
    r1 = r1
    r2 = r2
    endorser = endorser
    qtsp = qtsp
    rogue = rogue
    ours = ours
    theirs = theirs
    Leeway = 0
    Ttl = 2
    MaxTime = 0
    MaxPresentations = 2
    MaxAltered = 1
    MaxEvidence = 2
    MaxAccepted = 1
    EarStatus = {"affirming", "contraindicated"}
    Text <- MC_Text
    nfc <- MC_nfc
    aud <- SameAud
    Anchors <- EndorserOnly
    Actions <- Lookalikes
    Scopes <- OneEncoding
    Reveals <- SomeRevealed
SYMMETRY Symmetry
INVARIANT TypeOK
INVARIANT AcceptedAsPresented
INVARIANT ExecutedActionWasMandated
\* the bounds end every behaviour: no more requests, no more time
CHECK_DEADLOCK FALSE
