CONSTANTS
    Servers = {fs}
    Names = {ROOT, KEY, STRAY}
    Declared = {ROOT, KEY}
    SecretNames = {KEY}
    RootName = ROOT
    InsideRoots = {inside}
    Values = {inside, outside}
    RootDefault = inside
    Unset = Unset
    None = None
    Absent = Absent
    Torn = Torn
    LoadError = LoadError
    MaxRevision = 2
    MaxDamage = 1
SPECIFICATION Spec
INVARIANTS TypeOK AckedSurvives EnvironmentValid NeverTakenForNew
