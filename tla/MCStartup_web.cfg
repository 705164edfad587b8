CONSTANTS
    Requests = {r1, r2}
    Names = {"demo", "admin", "bob"}
    Emails = {"demo@example.com", "admin@example.com", "demo@shellter.local"}
    Distros = {"Alpine", "Arch"}
    Defaults = {"Alpine"}
    Starters = {"web", "seed"}
    MaxCopies = 3
SPECIFICATION StartSpec
INVARIANTS
    StartTypeOK
    ReadyWhenServing
    NamesBounded
PROPERTIES
    ImplementsRegistry
    WebComesBack
