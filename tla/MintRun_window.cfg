\* One mint, the clock moving.
SPECIFICATION Spec
CONSTANTS
    i1 = i1
    i2 = i2
    h1 = h1
    h2 = h2
    Issuer = {i1, i2}
    Holder = {h1, h2}
    Outcome = {"done"}
    AUD = ours
    Broken = broken
    NotText = none
    Absent = absent
    Truncated = truncated
    Nothing = nothing
    Ttl = 300
    Leeway = 1
    Exps = {1}
    MaxTime = 3
    Text <- MC_Text
    nfc <- MC_nfc
    Anchors <- AllEndorsers
    Manifests <- OnlyGood
INVARIANT RecordedWindowIsSigned
\* the keys run out
CHECK_DEADLOCK FALSE
