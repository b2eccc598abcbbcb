\* Two relying parties, one with an audience of its own, while time passes between asking,
\* issuing, presenting, attesting, L1 and L4; a tool in two encodings, under scopes that name either.
SPECIFICATION Spec
CONSTANTS
    RP = {r1, r2}
    Holder = {h1}
    Nonce = {n1, n2}
    Challenge = {c1, c2}
    Salt = {s1}
    Issuer = {endorser}
    Audience = {ours, theirs}
    AUD = ours
    StaleChallenge = stale
    NoNonce = nil
    Nothing = nothing
    Broken = broken
    NotText = none
    none = none
    r1 = r1
    r2 = r2
    endorser = endorser
    qtsp = qtsp
    rogue = rogue
    ours = ours
    theirs = theirs
    Leeway = 1
    Ttl = 1
    MaxTime = 4
    MaxPresentations = 1
    MaxAltered = 0
    MaxEvidence = 2
    MaxAccepted = 2
    EarStatus = {"affirming"}
    Text <- MC_Text
    nfc <- MC_nfc
    aud <- TwoAuds
    Anchors <- EndorserOnly
    Actions <- ToolEncodings
    Scopes <- EncodedScopes
    Reveals <- AllRevealed
SYMMETRY Symmetry
INVARIANT ExecutedWithinLifetime
INVARIANT HonestAnswerPasses
\* the bounds end every behaviour: no more requests, no more time
CHECK_DEADLOCK FALSE
