SPECIFICATION Spec
CONSTANTS
    None = None
    Urls = {tls}
    PlainUrls = {}
    Credentials = {c1}
    CaFiles = {ca}
    Options = {o1}
    DefaultOptions = o1
INVARIANT
    EntryRunsAsTested
