SPECIFICATION FairSpec
CONSTANTS
    u1 = u1
    u2 = u2
    w1 = w1
    cr1 = cr1
    cr2 = cr2
    k1 = k1
    k2 = k2
    k3 = k3
    acc1 = acc1
    acc2 = acc2
    None = None
    Users = {u1}
    Workers = {w1}
    Creds = {cr1, cr2}
    Keys = {k1, k2, k3}
    Accounts = {acc1, acc2}
    AccountOf <- MCAccountOf
    FirstKey <- MCFirstKey
    ResetAt <- MCResetAt
    Slots = 1
    OkTTL = 2
    FailTTL = 1
    RefreshTTL = 1
    BackoffTTL = 3
    MaxTime = 1
    Budgets <- MCBudgets
INVARIANTS FlightsAccounted ValuesStayInTheirAccount
PROPERTIES ReadersSeeAppliedState EverythingEnds
