SPECIFICATION LockSpec
CONSTANTS
    Annotators = {1, 2}
    Admins = {x, y}
    Transactions = {c1, c2}
    Operations = {"claim", "abandon", "save_draft", "complete", "reopen", "heartbeat",
                  "login", "release", "cli_release", "scope", "deactivate",
                  "revoke", "decide", "cancel", "correct", "store"}
    None = None
SYMMETRY Interchangeable
INVARIANT LocksSuffice
