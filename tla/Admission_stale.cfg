\* Three pod specs, admitted one after the other with each other's annotations.
CONSTANTS
  Requests <- SomeRequests
  ScanInfosOf <- SomeScanInfosOf
  ScanKey = "scan"
  OwnNamespace = "own"
  HandlerKinds = {"Pod"}
  ExtractorKinds = {"Pod"}
  NoRequest = NoRequest
  parameters <- SomeParameters
  NoObject = NoObject
  NoEntry = NoEntry
  ErrorStored = ErrorStored
SPECIFICATION AdmissionSpec
INVARIANTS
  JudgedByItsOwnResults
  ErrorLeavesNoScanInfo
  OtherAnnotationsKept
  DryRunAddsNothing
