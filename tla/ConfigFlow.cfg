SPECIFICATION Spec
CONSTANTS
    None = None
    Urls = {plain, tls}
    PlainUrls = {plain}
    Credentials = {c1, c2}
    CaFiles = {ca}
    Options = {o1, o2}
    DefaultOptions = o1
INVARIANTS
    TypeOK
    EntryIsTested
    FormsFitTheFault
    EntryAcceptsWhatWasTested
PROPERTIES
    ReauthKeepsTheRest
    FlowsRefineTheLifecycle
