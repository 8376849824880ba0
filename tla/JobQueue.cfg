CONSTANTS
  a = a  b = b  a1 = a1  b1 = b1  session = session
  Job = {j, k}
  Login = {j}
  Session = {session}
  SessionOf <- OneSession
  Agent = {a, b}
  Run = {a1, b1}
  AgentOf <- Slots
  Nobody = nobody
  NoJob = nojob
  MaxAttempts = 2
  Overlap = {"claim", "progress"}
  MaxAsked = 1
  MaxFaults = 1
\* once every job ended nothing is left to do
CHECK_DEADLOCK FALSE
SPECIFICATION FairSpec
INVARIANTS TypeOK ActiveIsLeased NoSecretsAtRest
PROPERTIES EndedStaysEnded NeverAfterCredential EveryJobEnds
