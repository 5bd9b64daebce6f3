SPECIFICATION FairSpec
CONSTANTS
    cr1 = cr1
    cr2 = cr2
    None = None
    Stable = Stable
    Name = Name
    Creds = {cr1, cr2}
    Rules = {0, 1}
    DefaultRules = 0
    MaxRotations = 1
    Worlds <- MCWorlds
INVARIANTS IdentitiesBackedUp RotationAnswersAreTrue SyncedRulesOnFile
PROPERTIES EditsSurvive RotationEnds
CHECK_DEADLOCK FALSE
