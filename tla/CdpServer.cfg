SPECIFICATION CdpFairSpec
CONSTANTS
  a = a  b = b  c = c
  Conns = {a, b, c}
  Slots <- MCSlots
  MaxFrag = 2
  MaxPauses = 2
  Flaky = {c}
  Scenarios <- MCScenarios
  NoConn = NoConn
INVARIANTS
    StreamsStayWhole
    AnswersReachTheAsker
PROPERTIES
    StoppedUntilResumed
    ClientsAreServed
