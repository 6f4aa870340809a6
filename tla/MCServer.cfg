SPECIFICATION Spec
CONSTANTS
    MaxInt64 = 4095
    BP = 20
    Slots = 4
    Old = 1
    New = 2
    RealWheel <- MCRealWheel
    DemoWheel <- MCDemoWheel
    Envs <- MCEnvs
    Reqs = {r1}
    Bankrolls <- MCBankrolls
    Stakes <- MCStakes
    Draws <- MCDraws
INVARIANTS
    ServerTypeOK
    ExactPayouts
    PromisesKept
    HouseKeepsItsEdge
    SchemaKeepsUp
    DeployedIsRunning
PROPERTIES
    DeploymentEnds
\* A deployment with a bad environment fails, and nothing serves.
CHECK_DEADLOCK FALSE
