\* Two realms of at most two users and two clients, entries sound and not,
\* and one client with a URL of every shape.
SPECIFICATION Spec
CONSTANTS
    Byte = 4
    Catalogues <- MCCatalogues
CHECK_DEADLOCK FALSE
INVARIANTS
    StoreFindsEveryone
    ServerFitsConfiguration
    SuggestedHostIsTheHost
    PolicyNamesRedirects
    RejectsWhatRulesForbid
