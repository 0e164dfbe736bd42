SPECIFICATION FairSpec
CONSTANTS
  wow = wow
  tbc = tbc
  realm = realm
  lan = lan
  v1 = v1
  v2 = v2
  Clients = {wow, tbc}
  BuildOf <- Builds
  Fresh = {tbc}
  Addresses = {realm, lan}
  Versions = {v1, v2}
  Manifests <- Published
  Platform = "wine"
  Flows = {one}
  Mishaps = {"crash", "stop", "republish", "meddle"}
  NoClient = NoClient
  NoAddress = NoAddress
  NoManifest = NoManifest
  NoReport = NoReport
  Absent = Absent
  Unreadable = Unreadable
  Own = Own
  Torn = Torn
INVARIANTS OriginalNotLost
PROPERTIES  ButtonReachesLaunch PatchesArrive
