\* Every program with its whole table, killed anywhere and started again, the
\* clock passing expiry; every harness called by anyone with anything.
SPECIFICATION MainsSpec
CONSTANTS
    Harnesses = {"evaluate", "run_case", "forged_credential", "untrusted_issuer",
                 "mock_verifier", "verify_scoped"}
    Programs = {"agent_demo", "run_ablation", "mock_verifier", "scope_enforce", "library"}
    MaxStarts = 2
    Endpoints = 2
    DefaultTool = "pay"
    Nonce = {n1}
    Challenge = {c1}
    SessionNonce = cmain
    StaleChallenge = stale
    Holder = h1
    Listed = endorser
    Unlisted = rogue
    OtherRole = qtsp
    Issuer = {endorser, qtsp, rogue}
    Outcome = {"done", "open"}
    AUD = ours
    Broken = broken
    NotText = none
    none = none
    endorser = endorser
    qtsp = qtsp
    rogue = rogue
    Ttl = 2
    Leeway = 1
    MaxTime = 4
    Anchors <- EndorserAndQtsp
    Actions <- SeveralActions
    Scope <- TheScope
    Text <- Mains_Text
    nfc <- Mains_nfc
    payee_of <- Tail_of
    RawText <- Texts
    strip <- MC_strip
    Answers <- MC_Answers
    Tasks <- TheTasks
    GOOD <- PayCafe
    OverLimit <- PayTwo
    Injected <- Wire
    Swapped <- ToThief
    Requests <- MC_Requests
    ActScope <- MC_ActScope
    InScope <- Review
    OverScope <- Transfer
    OverSpend <- Costly
INVARIANT MainsTypeOK
INVARIANT AcceptsOnlySound
INVARIANT DenierNamesCause
INVARIANT RowsAsExpected
INVARIANT PlanReadsTask
INVARIANT SuccessMeansTable
INVARIANT WholeOrInPlace
PROPERTY EndsClean
\* a program ends
CHECK_DEADLOCK FALSE
