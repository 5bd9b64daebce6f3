SPECIFICATION Spec
CONSTANTS
    cr1 = cr1
    cr2 = cr2
    k1 = k1
    k2 = k2
    k3 = k3
    acc1 = acc1
    acc2 = acc2
    Creds = {cr1, cr2}
    Keys = {k1, k2, k3}
    Accounts = {acc1, acc2}
    AccountOf <- MCAccountOf
    FirstKey <- MCFirstKey
    Windows = {"weekly"}
    ErrorTypes = {"weekly"}
    MaxTime = 3
    Budgets <- MCGuarded
    NoKey = NoKey
    NoBlock = NoBlock
    Absent = Absent
INVARIANTS ExhaustedStaysPaused BlockStaysInItsAccount ManualChoiceKept
PROPERTIES DeletedStaysDeleted
\* The only credential may be deleted and every bound used up.
CHECK_DEADLOCK FALSE
