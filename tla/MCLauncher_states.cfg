SPECIFICATION Spec
CONSTANTS
  wow = wow
  tbc = tbc
  realm = realm
  lan = lan
  v1 = v1
  v2 = v2
  Clients = {wow, tbc}
  BuildOf <- Builds
  Fresh = {}
  Addresses = {realm}
  Versions = {v1, v2}
  Manifests <- OnlyPlain
  Platform = "windows"
  Flows = {one, two}
  Mishaps = {"crash", "save", "cut", "meddle"}
  NoClient = NoClient
  NoAddress = NoAddress
  NoManifest = NoManifest
  NoReport = NoReport
  Absent = Absent
  Unreadable = Unreadable
  Own = Own
  Torn = Torn
INVARIANTS TypeOK ReportOfThisClient
