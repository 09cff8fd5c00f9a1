CONSTANTS
    Providers = {p1}
    NoProvider = NoProvider
    MaxEdits = 1
SPECIFICATION Spec
INVARIANTS
    RetrySuggestedAfterLease
