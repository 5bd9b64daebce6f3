SPECIFICATION FairSpec
CONSTANTS
    cr1 = cr1
    cr2 = cr2
    k1 = k1
    k2 = k2
    k3 = k3
    acc1 = acc1
    acc2 = acc2
    Creds = {cr1}
    Keys = {k1}
    Accounts = {acc1, acc2}
    AccountOf <- MCAccountOf
    FirstKey <- MCFirstKey
    Windows = {"weekly"}
    ErrorTypes = {"weekly"}
    MaxTime = 2
    Budgets <- MCRestarted
    NoKey = NoKey
    NoBlock = NoBlock
    Absent = Absent
PROPERTIES DivergenceHeals
