SPECIFICATION FairSpec
CONSTANTS
    e1 = e1
    e2 = e2
    e3 = e3
    e4 = e4
    web = web
    cli = cli
    api = api
    Process = {web, api}
    Resident = {web, api}
    Event = {e1, e2, e3}
    Seeded = {e2}
    Endless = {e3}
    Catalogues <- MCTwoLists
    Size = 2
    MaxVersion = 2
PROPERTY SyncEnds
