SPECIFICATION Spec
CONSTANTS
    NoOp = NoOp
    Ops <- RuleOps
    Deps <- RuleDeps
    Rule <- RuleRule
    Over <- RuleOver
    Retries <- RuleRetries
    Isolated = {"fetch", "load"}
    Cap = 2
    Ceiling = 5
    Reused = {}
    MaxFan = 0
    Timeouts = {"load"}
    Unread = {"load"}
    Endless = {}
    Faults = {"put", "die", "mark", "let"}
    MayCancel = TRUE
INVARIANTS
    RulesObeyed
    NoOpLeft
    VerdictTells
    DepsDone
    StatusesAgreeWithRows
PROPERTIES
    OutcomeIsKept
