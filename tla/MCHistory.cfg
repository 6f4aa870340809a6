SPECIFICATION Spec
CONSTANTS
    Users = {1, 2}
    NoUser = 0
    Referrer <- MCReferrer
    Procs = {p, q}
    Reader = 2
    RawLimits = {0, 1, 9}
    DefLimit <- MCDefLimit
    MaxLimit <- MCMaxLimit
    MaxRounds = 3
INVARIANTS
    TypeOK
    PagesAreFaithful
    StatementAddsUp
PROPERTIES
    CommitsInOrder
    ReadingEnds
\* The rounds are bounded.
CHECK_DEADLOCK FALSE
