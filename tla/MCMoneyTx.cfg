SPECIFICATION Spec
CONSTANTS
    Users <- mcUsers
    Referrer <- mcReferrer
    Mults <- mcMults
    InitReal <- mcInitReal
    InitDemo <- mcInitDemo
    Requests <- mcRequests
    NoUser = 0
    Refs = {"r1", "w1"}
    NoRef = NoRef
    RakeBP = 500
    ReferralBP = 200
    RTPBP = 9000
    MinStake = 50
    MaxStake = 60
    DemoTarget = 60
    InitBankroll = 10100
    Procs = {p1, p2, p3}
    NoProc = NoProc
    NoReq = NoReq
    Suspendable = {}
SYMMETRY ProcSymmetry
INVARIANTS
    LedgerExplainsBalances
    SpinsFullyRecorded
    ReferralsEarned
    RefPlayedOnce
    ChecksNeverFire
    NoDeadlock
    RealMoneyConserved
    AlwaysHealthy
PROPERTIES
    LedgerAppendOnly
    BankSpec
