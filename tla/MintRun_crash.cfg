\* Two mints into one directory, killed anywhere, expiring under the self-check,
\* and the invariance check reading the directory all the while.
SPECIFICATION CheckSpec
CONSTANTS
    i1 = i1
    i2 = i2
    h1 = h1
    h2 = h2
    Issuer = {i1, i2}
    Holder = {h1, h2}
    Outcome = {"done"}
    AUD = ours
    Broken = broken
    NotText = none
    Absent = absent
    Truncated = truncated
    Nothing = nothing
    Ttl = 300
    Leeway = 1
    Exps = {1}
    MaxTime = 3
    Text <- MC_Text
    nfc <- MC_nfc
    Anchors <- AllEndorsers
    Manifests <- MC_Manifests
SYMMETRY Symmetry
INVARIANT CheckTypeOK
INVARIANT FrozenStaysUsable
INVARIANT SuccessIsChecked
INVARIANT AbortLeavesDirectory
INVARIANT CheckIsRight
\* the keys run out
CHECK_DEADLOCK FALSE
