SPECIFICATION SelectionSpec
CONSTANTS
    NProfiles = 3
    NEndpoints = 10
    Keys <- Texts
    FamilyOf <- MCFamilyOf
    ScopeOf <- MCScopeOf
    Sanitized <- MCSanitized
    Bundled <- MCBundled
    Inputs <- MCInputs
INVARIANTS
    TypeOK
    GroupsAreCaches
    OneEndpointPerCache
    ResolverMeasuredOnce
    FamilyHonoured
    EndpointsAccounted
