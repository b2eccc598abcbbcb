\* Two relying parties with different audiences, two requests: answers, some
\* signed for the wrong audience, to one meet another.
SPECIFICATION Spec
CONSTANTS
    RP = {r1, r2}
    Holder = {h1}
    Nonce = {n1, n2}
    Challenge = {c1, c2}
    Salt = {s1}
    Issuer = {endorser, qtsp}
    Audience = {ours, theirs}
    AUD = ours
    StaleChallenge = stale
    NoNonce = nil
    Nothing = nothing
    Broken = broken
    NotText = none
    none = none
    r1 = r1
    r2 = r2
    endorser = endorser
    qtsp = qtsp
    rogue = rogue
    ours = ours
    theirs = theirs
    Leeway = 0
    Ttl = 2
    MaxTime = 1
    MaxPresentations = 2
    MaxAltered = 0
    MaxEvidence = 3
    MaxAccepted = 2
    EarStatus = {"affirming"}
    Text <- MC_Text
    nfc <- MC_nfc
    aud <- TwoAuds
    Anchors <- EndorserAndQtsp
    Actions <- TwoEncodings
    Scopes <- OneScope
    Reveals <- AllRevealed
INVARIANT NoReplay
INVARIANT AnswersOneRequest
INVARIANT IInv
PROPERTY RefinesGate
\* the bounds end every behaviour: no more requests, no more time
CHECK_DEADLOCK FALSE
