SPECIFICATION FairSpec
CONSTANTS
    Sessions = {s1}
    LocalIds = {a, b}
    Requests = {r1, r2}
    None = None
INVARIANTS
    Gapless
    ReplayStable
    AnnouncedAtMostOnce
PROPERTIES
    ImplementsLog
    HandlersFinish
