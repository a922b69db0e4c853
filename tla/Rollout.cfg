\* Two handlers of one bot next to the upgrade of all of two bots, one at a time.
SPECIFICATION Spec
CONSTANTS
    Requests = {r1, r2}
    Bots = {b1, b2}
    Asked = {b1}
    Images = {old, new}
    Configured = old
    Limit = 1
    MaxTokens = 1
INVARIANTS TypeOK NoLostUpdate TokenDeployed
PROPERTY UpgradeAllAnswers
