SPECIFICATION DocSpec
CONSTANTS
    None = None
    Entity = light
    kitchen = kitchen
    Areas = {kitchen}
    Labels = {private}
    Devices = {hub}
    FloorOf <- MCFloorOf
    Known <- AllStaticFields
    States <- MCStates
    DocumentedSettings <- MCDocumentedSettings
INVARIANTS
    AnyTargetMatches
    EveryFieldIsMapped
    AttributeKeysAreNormal
    PublishedAsConfigured
    AttributesYieldToLaterOnes
PROPERTIES
    ExcludingMoreNeverAdmits
