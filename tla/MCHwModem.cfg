CONSTANTS
  Commands = {c1, c2}
  None = None
  Error = Error
  Hosts <- BothHosts
SPECIFICATION FairSpec
INVARIANTS TypeOK NeverStuck BusyHonest OwnAnswer
PROPERTIES CommandsServed
