SPECIFICATION FairSpec
CONSTANTS
    e1 = e1
    e2 = e2
    e3 = e3
    e4 = e4
    web = web
    cli = cli
    api = api
    Process = {web, cli}
    Resident = {web}
    Event = {e1, e2, e3, e4}
    Seeded = {e2}
    Endless = {e4}
    Catalogues <- MCCatalogues
    Size = 2
    MaxVersion = 2
INVARIANTS TypeOK PlanOnce SyncComplete
PROPERTY SyncEnds
