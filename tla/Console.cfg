SPECIFICATION FairSpec
CONSTANTS
    Profile = {"a", "b"}
    Page = {"overview"}
    Watched = "a"
    Polled = {"overview"}
    MaxSignIns = 2
    MaxVersion = 1
    MaxErrors = 1
    None = None
INVARIANTS OwnChangesShown OneSignInCached
PROPERTIES ThrownOutWhenOver RevokedIsNoticed
