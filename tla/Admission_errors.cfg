\* The same admissions, objects that cannot be extracted among them.
CONSTANTS
  Requests <- SomeRequests
  ScanInfosOf <- SomeScanInfosOf
  ScanKey = "scan"
  OwnNamespace = "own"
  HandlerKinds = {"Pod"}
  ExtractorKinds = {"Pod"}
  NoRequest = NoRequest
  parameters <- SomeParameters
  NoObject = NoObject
  NoEntry = NoEntry
  ErrorStored = ErrorStored
SPECIFICATION AdmissionSpec
INVARIANTS
  ErrorsNeverBlock
