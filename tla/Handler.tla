------------------------------ MODULE Handler -------------------------------
(***************************************************************************)
(* The mutating webhook's handler (cmd/webhook/handler.go) with the        *)
(* extractor of workload resources and the generator of annotation patches *)
(* it calls. Requests are handled independently of each other: the module  *)
(* follows one at a time, from its arrival to the response.                *)
(*                                                                         *)
(* The annotations of the workload are one Go map: the patch refers to it, *)
(* so it is read when the response is sent, not when the patch is built.   *)
(***************************************************************************)
EXTENDS FiniteSets

CONSTANTS
  Requests,        \* admission requests
  ScanInfosOf,     \* what the provider may return for each pod spec
  ScanKey,         \* contracts.ContainersVulnerabilityScanInfoAnnotationName
  OwnNamespace,    \* the namespace of the webhook's deployment
  HandlerKinds,    \* HandlerConfiguration.SupportedKubernetesWorkloadResources
  ExtractorKinds,  \* ExtractorConfiguration.SupportedKubernetesWorkloadResources
  NoRequest

ScanInfos == UNION {ScanInfosOf[spec] : spec \in DOMAIN ScanInfosOf}

\* A request's object is empty (DELETE), not what the extractor expects, or a
\* workload; annotations is a function from the keys the object has.
ASSUME HandlerAssumption ==
  /\ HandlerKinds # {}  \* a log line looks at the first kind
  /\ NoRequest \notin Requests
  /\ \A r \in Requests :
       /\ r.spec \in DOMAIN ScanInfosOf
       /\ r.operation \in {"CREATE", "UPDATE", "DELETE", "CONNECT"}
       /\ r.object \in {"empty", "unconvertible", "workload"}
       /\ ScanKey \in DOMAIN r.annotations => r.annotations[ScanKey] \in ScanInfos

VARIABLES
  dryRun,       \* HandlerConfiguration.DryRun of the replica that handles it:
                \* while the configuration is changed, replicas differ
  request,      \* the request being handled
  stage,        \* where Handle stands
  annotations,  \* workloadResource.Metadata.Annotations
  response      \* what Handle returned

vars == <<dryRun, request, stage, annotations, response>>

\* patched: the response has the patch that replaces the object's annotations
\* by the map above.
NoResponse == [allowed |-> FALSE, code |-> 0, patched |-> FALSE]
Allowed == [allowed |-> TRUE, code |-> 200, patched |-> FALSE]
Patched == [allowed |-> TRUE, code |-> 200, patched |-> TRUE]
admissionErrorResponse == [allowed |-> TRUE, code |-> 500, patched |-> FALSE]

Stages == {"idle", "received", "provider", "answered"}

NoAnnotations == [key \in {} |-> ScanKey]

Init ==
  /\ dryRun \in BOOLEAN
  /\ request = NoRequest
  /\ stage = "idle"
  /\ annotations = NoAnnotations
  /\ response = NoResponse

-----------------------------------------------------------------------------
Receive(r) ==
  /\ stage = "idle"
  /\ dryRun' \in BOOLEAN
  /\ request' = r
  /\ stage' = "received"
  /\ annotations' = NoAnnotations
  /\ response' = NoResponse

Return(answer) ==
  /\ stage' = "answered"
  /\ response' = answer

InOwnNamespace(r) == r.namespace = OwnNamespace

isOperationAllowed(operation) == operation \in {"CREATE", "UPDATE"}

shouldRequestBeFiltered(r) ==
  \/ InOwnNamespace(r)
  \/ r.kind \notin HandlerKinds
  \/ ~isOperationAllowed(r.operation)

AnswerFiltered ==
  /\ stage = "received"
  /\ shouldRequestBeFiltered(request)
  /\ Return(Allowed)
  /\ UNCHANGED <<dryRun, request, annotations>>

isRequestValid(r) == r.object # "empty" /\ r.kind \in ExtractorKinds

\* Owner references, containers and pull secrets have the types expected.
Convertible(r) == r.object # "unconvertible"

Extractable(r) == isRequestValid(r) /\ Convertible(r)

AnswerNotExtracted ==
  /\ stage = "received"
  /\ ~shouldRequestBeFiltered(request)
  /\ ~Extractable(request)
  /\ Return(admissionErrorResponse)
  /\ UNCHANGED <<dryRun, request, annotations>>

\* The workload is extracted and the provider of scan results called.
CallProvider ==
  /\ stage = "received"
  /\ ~shouldRequestBeFiltered(request)
  /\ Extractable(request)
  /\ stage' = "provider"
  /\ annotations' = request.annotations
  /\ UNCHANGED <<dryRun, request, response>>

\* Defect: the patch holds nothing but the new annotation.
updateAnnotationsOnlyScan(info) ==
  annotations' = [key \in {ScanKey} |-> info]

\* Defect: an annotation that is already there is not overridden.
updateAnnotationsIfMissing(info) ==
  annotations' = [key \in DOMAIN annotations \cup {ScanKey} |->
                    IF key \in DOMAIN annotations THEN annotations[key] ELSE info]

updateAnnotations(info) ==
  annotations' = [key \in DOMAIN annotations \cup {ScanKey} |->
                    IF key = ScanKey THEN info ELSE annotations[key]]

\* Defect: the response of a dry run keeps its patch.
AnswerResultsInDryRun(info) ==
  /\ stage = "provider"
  /\ updateAnnotations(info)
  /\ Return(Patched)
  /\ UNCHANGED <<dryRun, request>>

\* The provider returned results.
AnswerResults(info) ==
  /\ stage = "provider"
  /\ updateAnnotations(info)
  /\ Return(IF dryRun THEN Allowed ELSE Patched)
  /\ UNCHANGED <<dryRun, request>>

isDeleteStaleAzdAnnotationsNeeded == ScanKey \in DOMAIN annotations

deleteAzdAnnotations ==
  annotations' = [key \in DOMAIN annotations \ {ScanKey} |-> annotations[key]]

\* Defect: the stale annotation is left where it is.
AnswerErrorKeepingStale ==
  /\ stage = "provider"
  /\ Return(admissionErrorResponse)
  /\ UNCHANGED <<dryRun, request, annotations>>

\* getResponseWhenErrorEncountered, after the provider returned an error: the
\* response is returned as it is, in dry run too.
AnswerError ==
  /\ stage = "provider"
  /\ \/ /\ isDeleteStaleAzdAnnotationsNeeded
        /\ deleteAzdAnnotations
        /\ Return([admissionErrorResponse EXCEPT !.patched = TRUE])
     \/ /\ ~isDeleteStaleAzdAnnotationsNeeded
        /\ Return(admissionErrorResponse)
        /\ UNCHANGED annotations
  /\ UNCHANGED <<dryRun, request>>

\* The response is sent.
Close ==
  /\ stage = "answered"
  /\ stage' = "idle"
  /\ UNCHANGED <<dryRun, request, annotations, response>>

\* Up to the call of the provider, whose answer the module is not about.
Handle ==
  \/ AnswerFiltered
  \/ AnswerNotExtracted
  \/ CallProvider

-----------------------------------------------------------------------------
(* Properties                                                              *)

Others(map) == DOMAIN map \ {ScanKey}

TypeOK ==
  /\ dryRun \in BOOLEAN
  /\ request \in Requests \cup {NoRequest}
  /\ stage \in Stages
  /\ DOMAIN annotations \subseteq
       {ScanKey} \cup UNION {DOMAIN r.annotations : r \in Requests}
  /\ response \in {NoResponse, Allowed, Patched, admissionErrorResponse,
                   [admissionErrorResponse EXCEPT !.patched = TRUE]}

\* What the object's annotations are once the API server has applied the
\* response.
Applied == IF response.patched THEN annotations ELSE request.annotations

Handled == Extractable(request) /\ ~shouldRequestBeFiltered(request)

\* An object whose results could not be obtained does not keep those of an
\* earlier admission ("deletes previous ContainersVulnerabilityScan
\* annotations"): after an error the object has no scan info at all.
ErrorLeavesNoScanInfo ==
  stage = "answered" /\ response.code = 500 /\ Handled =>
    ScanKey \notin DOMAIN Applied

\* "the annotations are updated with no override of the existing values": the
\* patch replaces the whole map, and still every other annotation survives.
OtherAnnotationsKept ==
  stage = "answered" =>
    /\ Others(Applied) = Others(request.annotations)
    /\ \A key \in Others(Applied) : Applied[key] = request.annotations[key]

\* HandlerConfiguration.DryRun: "if it's true, it handles request but doesn't
\* mutate the workLoadResource podSpec". Whatever the provider has, a dry run
\* gives the object no scan info, new or other than it had. (It may take away
\* what the object had: an error returns before the flag is read.)
DryRunAddsNothing ==
  dryRun /\ stage = "answered" =>
    \A key \in DOMAIN Applied :
      key \in DOMAIN request.annotations /\ Applied[key] = request.annotations[key]
=============================================================================
