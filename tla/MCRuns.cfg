CONSTANTS
    Providers = {p1, p2}
    UpdateProviders = {p1, p2, p3}
    NoProvider = NoProvider
    MaxEdits = 1
SPECIFICATION MCSpec
INVARIANTS
    ManifestMatchesChain
    SuccessIsReal
    NoSilentOrphan
    ReportedProvidersHoldUpdate
PROPERTIES
    RoundIsComplete
    RunsEnd
