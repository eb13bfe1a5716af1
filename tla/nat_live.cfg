SPECIFICATION FairSpec
CONSTANTS
  c1 = c1
  c2 = c2
  t1 = t1
  tcp = tcp
  udp = udp
  cpu1 = cpu1
  cpu2 = cpu2
  None = None
  CPU = {cpu1}
  Client = {c1, c2}
  Target = {t1}
  Proto <- OneProto
  RulePort = {8}
  BasePort = 1
  PortSpan = 2
  Probes = 2
  HashMod = 4
  Hash <- TwoHashes
  MaxRules = 1
  MaxSessions = 2
  MaxReverse = 2
  Traffic <- BothClients
  Steer <- SingleQueue
  Seconds = {1}
  NsPerSec = 1
  U64 = 8
  DefaultTimeout <- TimeoutTwo
  MaxClock = 3
  MaxRun = 1
INVARIANTS SessionAgeLeads AgeInv
PROPERTIES ExpiredPurged OrphansPurged
