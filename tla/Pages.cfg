SPECIFICATION Spec
CONSTANTS
    Object = {"t", "u"}
    Grantee = {"a", "b"}
    Role = {"a", "b", "r"}
    Privilege = {"SELECT", "MAINTAIN"}
    Owner = "owner"
    Maintain = "MAINTAIN"
    Profile = {"p", "q"}
    User = {"me", "you"}
    Me = "me"
    None = None
    MaxForeign <- MCMaxForeign
    MaxSaves <- MCMaxSaves
    Start <- MCStart
INVARIANTS SendsWhatIsTouched
PROPERTIES UntouchedKept SavedIsApplied
CHECK_DEADLOCK FALSE
