SPECIFICATION FairDemoSpec
CONSTANTS
  None = None
  alice = alice
  bob = bob
  demoKey = demoKey
  serverKeyFile = serverKeyFile
  s1 = s1
  s2 = s2
  Requests <- MCRequests
  Inputs = {}
  UserIds <- MCUserIds
  ClientKeys <- MCClientKeys
  ServerKeys <- MCServerKeys
  PublicKeyOf <- MCPublicKeyOf
  KeyChanges = {}
  Instances = {i1}
  SharedCache = FALSE
  Sessions = {s1, s2}
  MaxTroubles = 2
  UserOf <- MCUserOf
  HostOf <- MCHostOf
  ClientKeyOf <- MCClientKeyOf
  ServerKeyOf <- MCServerKeyOf
INVARIANTS ServedOnlyAfterHandshake UndisturbedProgramIsServed
PROPERTIES ServedInTime EveryRequestEnds EveryProgramReports UndisturbedProgramSucceeds
