SPECIFICATION FairSpec
CONSTANTS
    Clients <- FourClients
    Main = Main
    Nil = Nil
    Peers <- MCPeers
INVARIANTS
    TypeOK
    ClosedOnce
    ListExact
    HalfClosed
    RefsBalanced
PROPERTIES
    ImplementsClientSet
    LeavesCleanly
    CloseReturns
