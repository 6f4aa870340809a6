SPECIFICATION FairSpec
CONSTANTS
    Users <- mcUsers
    Referrer <- mcReferrer
    Mults <- mcMults
    InitReal <- mcInitReal
    InitDemo <- mcInitDemo
    Requests <- mcLiveRequests
    NoUser = 0
    Refs = {"r1", "r2"}
    NoRef = NoRef
    RakeBP = 500
    ReferralBP = 200
    RTPBP = 9000
    MinStake = 50
    MaxStake = 60
    DemoTarget = 60
    InitBankroll = 10100
    Procs = {p1, p2}
    NoProc = NoProc
    NoReq = NoReq
    Suspendable = {1}
PROPERTIES
    TransactionsEnd
