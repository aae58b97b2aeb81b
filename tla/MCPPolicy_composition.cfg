CONSTANTS
    d1 = d1
    d2 = d2
    Digests = {d1, d2}
    NoDigest = NoDigest
    NoOverride = NoOverride
    NoPolicy = NoPolicy
    Policies <- MCPolicies
    Baseline <- MCBaseline
    Tools <- MCTools
    MaxAdditional = 2
SPECIFICATION Spec
INVARIANTS
    OrderIsIrrelevant
    ExpectedDigestHolds
    MappingIsRespected
PROPERTIES
    SelectionTightens
