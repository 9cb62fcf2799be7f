SPECIFICATION FairSpec
CONSTANTS
    b1 = b1 b2 = b2 query = query dcc = dcc boss = boss mate = mate nick1 = nick1 nick2 = nick2 letter1 = letter1 letter2 = letter2
    None = None Torn = Torn
    Crew <- MCCrew
    Chats = {query, dcc}
    Queries = {query}
    Peer <- MCPeer
    Clients = {client}
    Names = {nick1, nick2, letter1, letter2}
    Letters <- MCLetters
    StoredNicks <- MCNicks
    Rooms = {1, 2}
    MaxNicks = 2
    Masks = {boss, mate}
    StoredOwners <- MCOwners
    Room = 0
    MaxOwners = 2
    Growth = 1
    MayFail = TRUE
    Boss = boss
    Commands <- MCCommands
    Plays <- MCPlays
INVARIANT TypeOK
INVARIANT CombinedLists
INVARIANT PanelInStep
INVARIANT OwnersOnDisk
INVARIANT BotsInStep
INVARIANT AppliedInOrder
INVARIANT MassOnce
PROPERTY ErrorsToldAgain
CHECK_DEADLOCK FALSE
