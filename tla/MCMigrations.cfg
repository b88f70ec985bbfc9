\* Two processes of any two releases, racing, failing and restarting.
CONSTANTS
    p1 = p1
    p2 = p2
    a = a
    b = b
    Process = {p1, p2}
    Version = {a, b}
    NoProcess = NoProcess
    Releases <- MCReleases
SPECIFICATION Spec
SYMMETRY Symmetry
INVARIANTS
    TypeOK
    SchemaMatchesLog
    ServingIsCurrent
    ReadinessIsExact
PROPERTIES
    OnlySuccessorsMigrate
