SPECIFICATION MCSpec
CONSTANTS
    d1 = d1
    d2 = d2
    u1 = u1
    u2 = u2
    chat = chat
    s1 = s1
    s2 = s2
    k1 = k1
    k2 = k2
    a1 = a1
    a2 = a2
    e1 = e1
    i1 = i1
    m1 = m1
    m2 = m2
    Torn = Torn
    None = None
    Nobody = Nobody
    Daemons <- MCDaemons
    Callers <- MCCallers
    Home <- MCHome
    Chats <- MCChats
    MaxOps = 2
    MaxServers = 2
    MaxFaults = 1
    Sessions <- MCSessions
    Clients <- MCClients
    MaxStoreOps = 3
    MaxEvents = 3
    MaxKills = 1
    Accounts <- MCAccounts
    First <- MCFirst
    Limit = 1
    Window = 1
    Retries = 1
    Threshold = 2
    OpenFor = 1
    MaxCalls = 3
    MaxEdits = 2
    MaxTime = 1
    MaxRequests = 3
    MaxWriteFaults = 1
    Editors <- MCEditors
    Runs <- MCRuns
    Marks <- MCMarks
    Kept = 2
    MaxRev = 4
    MaxAdmin = 3
    MaxSaveFaults = 1
INVARIANTS NoServerLeaks SettledAtRest CountExact IndexTruthful FlagKept HealthExact OrphanSessionsWereLate AckedKept ReferencesResolve NoLostEdit ListedIsThere
PROPERTIES ValidIsKept RevokedStaysOut
SYMMETRY Alike
CHECK_DEADLOCK FALSE
