SPECIFICATION Spec
CONSTANTS
    ada = ada
    bo = bo
    cai = cai
    r1 = r1
    r2 = r2
    vic = vic
    t1 = t1
    c1 = c1
    c2 = c2
    e1 = e1
    e2 = e2
    w1 = w1
    w2 = w2
    f1 = f1
    f2 = f2
    Null = Null
    Nothing = Nothing
    Kinds <- AllKinds
    Mixes <- EnvyMixes
    Residents <- ThreeResidents
    Rooms <- TwoRooms
    Groups <- OneGroup
    GroupRole <- GroupOfCaretakers
    GroupSize <- OfOneMember
    Rosters <- OneRoster
    LastMonth = 3
    MovedIn <- MovedInOrder
    Studies <- OneStudy
    Wishes <- FourWishes
    AkWorkers <- TwoWorkers
    Krydser <- TwoKrydser
    Tickets <- OneTicket
    Statuses <- ThreeColumns
    Boards <- TwoBoards
    ArchiveAfter = 1
    LastDay = 3
    Posts <- TwoPosts
    Channels <- TwoChannels
    MainChannel = c1
    Durations <- OneHour
    Emoji <- TwoEmoji
    DhWorkers <- TwoWorkers
    LastTick = 2
    Notices <- TwoNotices
    Pictures <- OnePicture
    MaxPinned = 1
    Grace = 1
    LastDate = 2
    Threads <- TwoThreads
    Mine <- OwnMessage
    Fingers <- TwoFingers
    Spots <- FiveSpots
    Letters <- OneLetter
    KeepFor = 1
    LastSeason = 2
    Pages <- ThreePages
    Addresses <- FourAddresses
    Segments <- SomeSegments
    Reserved <- TheIntern
    Texts <- TwoTexts
    Legacy <- TwoImported
    Cap = 3
    Numbers <- NineReports
    Dates <- TwoDays
    Dumps <- ThreeDumps
    House <- TwoRooms
    Photos <- ThreePhotos
    Names <- ThreeNames
    OldPhotos <- OldAt3
    Paths <- FivePaths
    PublicPrefix = "cms"
    PresignTtl = 2
    RedirectMaxAge = 1
    LastQuarter = 2
    Parties <- OneParty
    Seats = 1
    MinInvitees = 1
    FormsAtOnce = 2
    AccessRoles = Null
INVARIANT NoEnvy
CHECK_DEADLOCK FALSE
