-------------------------- MODULE Admission_proofs --------------------------
(***************************************************************************)
(* Theorems about Admission, for every set of requests, of results and     *)
(* every parameters of the constraint.                                     *)
(*                                                                         *)
(* A response has one of four outcomes for the annotations; what redis has *)
(* stored under a key tells of the containers that the key is made of. The *)
(* object of an admission that was answered is the request's with its      *)
(* response applied, until the next admission. The policy decides on that  *)
(* object, which ties the decision to the containers of its own pod spec.  *)
(***************************************************************************)
EXTENDS Admission, Naturals, TLAPS

\* What a response does to the annotations of the request.
Outcome ==
  \/ response.code = 200 /\ ~response.patched /\ (Handled => dryRun)
  \/ /\ response.code = 500 /\ ~response.patched
     /\ ~shouldRequestBeFiltered(request)
     /\ Handled => ScanKey \notin DOMAIN request.annotations
  \/ /\ response.code = 500 /\ response.patched
     /\ annotations = [key \in DOMAIN request.annotations \ {ScanKey} |->
                         request.annotations[key]]
  \/ /\ response.code = 200 /\ response.patched /\ ~dryRun
     /\ \E info \in ScanInfos :
          /\ ToldOf(info) = Containers(request.spec)
          /\ annotations = [key \in DOMAIN request.annotations \cup {ScanKey} |->
                              IF key = ScanKey THEN info ELSE request.annotations[key]]

RedisInv ==
  /\ DOMAIN scanResults = Keys
  /\ \A key \in Keys :
       scanResults[key] \in ScanInfos => ToldOf(scanResults[key]) = key

StageInv ==
  /\ phase # "mutating" => stage = "idle"
  /\ phase = "mutating" =>
       /\ stage \in {"received", "provider", "answered"}
       /\ request \in Requests
       /\ object = ObjectOf(request)
       /\ answer = "none"
       /\ decision = "none"
  /\ stage = "provider" => annotations = request.annotations /\ Handled
  /\ stage = "answered" => Outcome

AnswerInv ==
  /\ answer = "answered" =>
       /\ phase # "mutating"
       /\ Outcome
       /\ object = [spec |-> request.spec, annotations |-> Applied]
  /\ decision = "denied" => phase = "idle" /\ Blocked(object)
  /\ decision = "admitted" => phase = "idle" /\ ~Blocked(object)

IInv == RedisInv /\ StageInv /\ AnswerInv

-----------------------------------------------------------------------------

(* What the assumptions say of requests and of what a scan returns.        *)
LEMMA Assumed ==
  /\ \A r \in Requests : r.spec \in DOMAIN ScanInfosOf
  /\ \A spec \in DOMAIN ScanInfosOf : \A info \in ScanInfosOf[spec] :
       info \in ScanInfos /\ ToldOf(info) = Containers(spec)
  /\ NoEntry \notin ScanInfos /\ ErrorStored \notin ScanInfos
BY HandlerAssumption, AdmissionAssumption DEF ScanInfos

LEMMA InitIInv == AdmissionInit => IInv
BY Assumed DEF AdmissionInit, Init, IInv, RedisInv, StageInv, AnswerInv

(* An error leaves a workload without scan info.                           *)
LEMMA ErrorOutcome ==
  ASSUME stage = "provider", annotations = request.annotations, Handled, AnswerError
  PROVE  /\ Outcome'
         /\ stage' = "answered" /\ UNCHANGED <<dryRun, request>>
<1>1. CASE /\ isDeleteStaleAzdAnnotationsNeeded
           /\ deleteAzdAnnotations
           /\ Return([admissionErrorResponse EXCEPT !.patched = TRUE])
  BY <1>1 DEF AnswerError, deleteAzdAnnotations, Return, admissionErrorResponse, Outcome
<1>2. CASE /\ ~isDeleteStaleAzdAnnotationsNeeded
           /\ Return(admissionErrorResponse)
           /\ UNCHANGED annotations
  BY <1>2 DEF AnswerError, isDeleteStaleAzdAnnotationsNeeded, Return,
     admissionErrorResponse, Outcome, Handled
<1> QED BY <1>1, <1>2 DEF AnswerError

(* Results of the pod spec replace what the annotations said.              *)
LEMMA ResultsOutcome ==
  ASSUME stage = "provider", annotations = request.annotations,
         NEW info \in ScanInfos, ToldOf(info) = Containers(request.spec),
         AnswerResults(info)
  PROVE  /\ Outcome'
         /\ stage' = "answered" /\ UNCHANGED <<dryRun, request>>
<1>1. /\ annotations' = [key \in DOMAIN request.annotations \cup {ScanKey} |->
                           IF key = ScanKey THEN info ELSE request.annotations[key]]
      /\ stage' = "answered" /\ dryRun' = dryRun /\ request' = request
      /\ response' = IF dryRun THEN Allowed ELSE Patched
  BY DEF AnswerResults, updateAnnotations, Return
<1>2. CASE dryRun
  BY <1>1, <1>2 DEF Outcome, Allowed
<1>3. CASE ~dryRun
  <2>1. response'.code = 200 /\ response'.patched /\ ~dryRun'
    BY <1>1, <1>3 DEF Patched
  <2> QED BY <1>1, <2>1 DEF Outcome
<1> QED BY <1>2, <1>3

LEMMA HandleKept ==
  ASSUME StageInv, AnswerInv, HandleMutation
  PROVE  StageInv' /\ AnswerInv'
<1>1. CASE AnswerFiltered
  <2>1. Outcome'
    BY <1>1 DEF AnswerFiltered, Return, Outcome, Allowed, Handled, Extractable,
       shouldRequestBeFiltered
  <2> QED BY <1>1, <2>1 DEF HandleMutation, AnswerFiltered, Return, StageInv, AnswerInv
<1>2. CASE AnswerNotExtracted
  <2>1. Outcome'
    BY <1>2 DEF AnswerNotExtracted, Return, Outcome, admissionErrorResponse, Handled
  <2> QED BY <1>2, <2>1 DEF HandleMutation, AnswerNotExtracted, Return, StageInv, AnswerInv
<1>3. CASE CallProvider
  BY <1>3 DEF HandleMutation, CallProvider, StageInv, AnswerInv, Handled
<1> QED BY <1>1, <1>2, <1>3 DEF HandleMutation, Handle

LEMMA AnswersKept ==
  ASSUME RedisInv, StageInv, AnswerInv, AnswerStored \/ AnswerScanned
  PROVE  StageInv' /\ AnswerInv'
<1>1. /\ phase = "mutating" /\ stage = "provider" /\ request \in Requests
      /\ annotations = request.annotations /\ Handled
  BY DEF AnswerStored, AnswerScanned, AnswerResults, AnswerError, StageInv
<1>2. /\ Outcome'
      /\ stage' = "answered" /\ UNCHANGED <<dryRun, request>>
  <2>1. CASE AnswerError
    BY <1>1, <2>1, ErrorOutcome
  <2>2. ASSUME NEW info \in ScanInfosOf[request.spec], AnswerResults(info)
        PROVE  Outcome' /\ stage' = "answered" /\ UNCHANGED <<dryRun, request>>
    BY <1>1, <2>2, Assumed, ResultsOutcome
  <2>3. ASSUME scanResults[GetPodSpecCacheKey(request.spec)] \in ScanInfos,
               AnswerResults(scanResults[GetPodSpecCacheKey(request.spec)])
        PROVE  Outcome' /\ stage' = "answered" /\ UNCHANGED <<dryRun, request>>
    <3>1. ToldOf(scanResults[GetPodSpecCacheKey(request.spec)]) = Containers(request.spec)
      BY <1>1, <2>3, Assumed DEF RedisInv, Keys, GetPodSpecCacheKey
    <3> QED BY <1>1, <2>3, <3>1, ResultsOutcome
  <2> QED BY <2>1, <2>2, <2>3 DEF AnswerStored, AnswerScanned
<1> QED BY <1>1, <1>2 DEF AnswerStored, AnswerScanned, StageInv, AnswerInv

LEMMA RedisKept ==
  ASSUME RedisInv, StoreResults \/ ExpireResults
  PROVE  RedisInv'
<1>1. CASE ExpireResults
  BY <1>1, Assumed DEF ExpireResults, RedisInv
<1>2. CASE StoreResults
  <2>1. PICK spec \in DOMAIN ScanInfosOf, entry \in ScanInfos \cup {ErrorStored} :
          /\ entry \in ScanInfosOf[spec] \cup {ErrorStored}
          /\ scanResults' = [scanResults EXCEPT ![GetPodSpecCacheKey(spec)] = entry]
    BY <1>2 DEF StoreResults
  <2>2. entry \in ScanInfos => ToldOf(entry) = GetPodSpecCacheKey(spec)
    BY <2>1, Assumed DEF GetPodSpecCacheKey
  <2> QED BY <2>1, <2>2 DEF RedisInv
<1> QED BY <1>1, <1>2

LEMMA NextIInv == IInv /\ [AdmissionNext]_admissionVars => IInv'
<1> SUFFICES ASSUME IInv, [AdmissionNext]_admissionVars
             PROVE  IInv'
  OBVIOUS
<1> USE DEF IInv
<1>1. CASE Submit
  <2>1. PICK r \in Requests : /\ Receive(r)
                              /\ object' = ObjectOf(r)
    BY <1>1 DEF Submit
  <2> QED BY <1>1, <2>1 DEF Submit, Receive, RedisInv, StageInv, AnswerInv
<1>2. CASE HandleMutation
  <2>1. RedisInv'
    BY <1>2 DEF HandleMutation, RedisInv
  <2> QED BY <1>2, <2>1, HandleKept
<1>3. CASE AnswerStored \/ AnswerScanned
  <2>1. RedisInv'
    BY <1>3 DEF AnswerStored, AnswerScanned, RedisInv
  <2> QED BY <1>3, <2>1, AnswersKept
<1>4. CASE StoreResults \/ ExpireResults
  <2>1. UNCHANGED <<vars, phase, object, answer, stored, decision>>
    BY <1>4 DEF StoreResults, ExpireResults
  <2>2. StageInv' /\ AnswerInv'
    BY <2>1 DEF StageInv, AnswerInv, vars, Outcome, Handled, Applied
  <2> QED BY <1>4, <2>2, RedisKept
<1>5. CASE ApplyResponse
  <2>1. /\ phase = "mutating" /\ stage = "answered" /\ phase' = "validating"
        /\ answer' = "answered" /\ stage' = "idle"
        /\ object' = [object EXCEPT !.annotations = Applied]
        /\ UNCHANGED <<dryRun, request, annotations, response, scanResults, stored,
                      decision>>
    BY <1>5 DEF ApplyResponse, Close
  <2>2. Outcome' /\ Applied' = Applied
    BY <2>1 DEF StageInv, Outcome, Handled, Applied
  <2>3. object' = [spec |-> request.spec, annotations |-> Applied]
    BY <2>1 DEF StageInv, ObjectOf
  <2> QED BY <2>1, <2>2, <2>3 DEF RedisInv, StageInv, AnswerInv
<1>6. CASE IgnoreWebhook
  BY <1>6 DEF IgnoreWebhook, RedisInv, StageInv, AnswerInv
<1>7. CASE Validate
  <2>1. /\ phase = "validating" /\ phase' = "idle"
        /\ decision' = "denied" => Blocked(object)
        /\ decision' = "admitted" => ~Blocked(object)
        /\ UNCHANGED <<vars, scanResults, object, answer>>
    BY <1>7 DEF Validate
  <2>2. RedisInv' /\ StageInv'
    BY <2>1 DEF RedisInv, StageInv, vars
  <2>3. AnswerInv'
    BY <2>1 DEF AnswerInv, vars, Outcome, Handled, Applied
  <2> QED BY <2>2, <2>3
<1>8. CASE UNCHANGED admissionVars
  BY <1>8 DEF admissionVars, vars, RedisInv, StageInv, AnswerInv, Outcome, Handled, Applied
<1> QED BY <1>1, <1>2, <1>3, <1>4, <1>5, <1>6, <1>7, <1>8 DEF AdmissionNext

LEMMA Inductive == AdmissionSpec => []IInv
BY InitIInv, NextIInv, PTL DEF AdmissionSpec

(* An object whose results could not be obtained has no scan info once the *)
(* response is applied, whatever it brought along.                         *)
THEOREM ErrorsLeaveNoScanInfo == AdmissionSpec => []ErrorLeavesNoScanInfo
<1>1. IInv => ErrorLeavesNoScanInfo
  BY DEF IInv, StageInv, Outcome, ErrorLeavesNoScanInfo, Applied
<1> QED BY Inductive, <1>1, PTL

(* No response adds, drops or changes an annotation of anyone else.        *)
THEOREM OthersKept == AdmissionSpec => []OtherAnnotationsKept
<1>1. IInv => OtherAnnotationsKept
  BY DEF IInv, StageInv, Outcome, OtherAnnotationsKept, Applied, Others
<1> QED BY Inductive, <1>1, PTL

(* Scan info of an object that the webhook has handled is the answer's.    *)
LEMMA ResultsAreOwn ==
  ASSUME IInv, Annotated, ScanKey \in DOMAIN object.annotations
  PROVE  /\ response.code = 200
         /\ ToldOf(object.annotations[ScanKey]) = Containers(object.spec)
<1>1. /\ Outcome /\ object.spec = request.spec /\ object.annotations = Applied
      /\ Handled /\ ~dryRun
  BY DEF IInv, AnswerInv, Annotated
<1>2. response.code = 200 /\ response.patched
  BY <1>1 DEF Outcome, Applied
<1>3. PICK info \in ScanInfos :
        /\ ToldOf(info) = Containers(request.spec)
        /\ annotations = [key \in DOMAIN request.annotations \cup {ScanKey} |->
                            IF key = ScanKey THEN info ELSE request.annotations[key]]
  BY <1>1, <1>2 DEF Outcome
<1> QED BY <1>1, <1>2, <1>3 DEF Applied

(* A handled object is judged by results of the containers of its own pod  *)
(* spec, whatever came back with it and whatever redis holds for others.   *)
THEOREM JudgedByOwnResults == AdmissionSpec => []JudgedByItsOwnResults
<1>1. IInv => JudgedByItsOwnResults
  BY ResultsAreOwn DEF JudgedByItsOwnResults
<1> QED BY Inductive, <1>1, PTL

(* No dry run gives an object scan info that it did not come with.         *)
THEOREM DryRunsAddNothing == AdmissionSpec => []DryRunAddsNothing
<1>1. IInv => DryRunAddsNothing
  BY DEF IInv, StageInv, Outcome, DryRunAddsNothing, Applied
<1> QED BY Inductive, <1>1, PTL

(* An object is denied although the webhook met an error only if it could  *)
(* not be extracted and came with scan info by which the policy denies it. *)
OnlyUnextractedBlocked ==
  decision = "denied" /\ answer = "answered" /\ response.code = 500 =>
    /\ ~shouldRequestBeFiltered(request) /\ ~Extractable(request)
    /\ object = ObjectOf(request) /\ Blocked(ObjectOf(request))

(* The error of the extraction is the only one that lets an old result     *)
(* block: ErrorsNeverBlock holds of the errors of the provider, dry run or *)
(* not.                                                                    *)
THEOREM OnlyUnextractedAreBlocked == AdmissionSpec => []OnlyUnextractedBlocked
<1>1. IInv => OnlyUnextractedBlocked
  <2> SUFFICES ASSUME IInv, decision = "denied", answer = "answered",
                      response.code = 500
               PROVE  /\ ~shouldRequestBeFiltered(request) /\ ~Extractable(request)
                      /\ object = ObjectOf(request) /\ Blocked(ObjectOf(request))
    BY DEF OnlyUnextractedBlocked
  <2>1. Outcome /\ Blocked(object) /\ object.annotations = Applied
    BY DEF IInv, AnswerInv
  <2>2. ~response.patched
    BY <2>1 DEF Outcome, Blocked, Applied
  <2>3. object.annotations = request.annotations
    BY <2>1, <2>2 DEF Applied
  <2>4. ~shouldRequestBeFiltered(request) /\ ~Handled
    BY <2>1, <2>2, <2>3 DEF Outcome, Blocked
  <2>5. object = ObjectOf(request)
    BY <2>3 DEF IInv, AnswerInv, ObjectOf
  <2> QED BY <2>1, <2>4, <2>5 DEF Handled
<1> QED BY Inductive, <1>1, PTL

-----------------------------------------------------------------------------
(* The decision                                                            *)

ContainerOf(info) == [name |-> info.name, image |-> info.image]

\* The results that the object under admission carries, by container.
InfosOf(o) == o.annotations[ScanKey].containers

(* The policy names containers that are listed and break the constraint;   *)
(* and if none is exempt it names one as soon as one breaks it.            *)
LEMMA PolicyNames ==
  ASSUME NEW infos, NEW p
  PROVE  /\ \A c \in Policy!violationOf(infos, p) :
              Policy!Violates(c, p) /\ \E i \in DOMAIN infos : c = infos[i]
         /\ \A i \in DOMAIN infos :
              /\ Policy!Violates(infos[i], p)
              /\ \A j \in DOMAIN infos : ~Policy!Exempt(infos[j], p)
              => infos[i] \in Policy!violationOf(infos, p)
<1> DEFINE Filtered == \E i \in DOMAIN infos : Policy!Exempt(infos[i], p)
<1>1. /\ Filtered => Policy!Applicable(infos, p) = {}
      /\ ~Filtered => Policy!Applicable(infos, p) = {infos[i] : i \in DOMAIN infos}
  <2>1. Filtered <=> \E i \in DOMAIN infos :
                       \/ Policy!hasHealthyScanStatus(infos[i])
                       \/ Policy!isImageMatchExcludedImagesPattern(infos[i].image, p)
    BY DEF Policy!Exempt, Policy!hasHealthyScanStatus,
       Policy!isImageMatchExcludedImagesPattern
  <2>2. Policy!filterContainers(infos, p) = IF Filtered THEN <<>> ELSE infos
    BY <2>1 DEF Policy!filterContainers
  <2> HIDE DEF Filtered
  <2>3. CASE Filtered
    BY <2>2, <2>3 DEF Policy!Applicable
  <2>4. CASE ~Filtered
    BY <2>2, <2>4 DEF Policy!Applicable
  <2> QED BY <2>3, <2>4
<1>2. ASSUME NEW c
      PROVE  Policy!isSeverityAboveThreshold(
                 Policy!filterScanFindings(c.scanFindings, p), p) <=>
               \E severityType \in Policy!Severities :
                 Policy!Counted(c, p, severityType) > p.severity[severityType]
  <2>1. ASSUME NEW severityType
        PROVE  {f \in Policy!filterScanFindings(c.scanFindings, p) :
                  f.severity = severityType} =
               {f \in c.scanFindings :
                 /\ f.severity = severityType
                 /\ f.id \notin p.excludeFindingIDs
                 /\ f.patchable \/ Policy!severityToLevel[f.severity] >
                      Policy!severityToLevel[p.severityThresholdForExcludingNotPatchableFindings]}
    BY DEF Policy!filterScanFindings, Policy!isScanFindingAppearsInexcludeFindingIDsList,
       Policy!isScanFindingPatchableOrAboveThresholdSeverity
  <2> QED BY <2>1 DEF Policy!isSeverityAboveThreshold, Policy!Counted
<1>3. ASSUME NEW c, ~Policy!Exempt(c, p)
      PROVE  Policy!Violates(c, p) <=>
               \/ c.scanStatus = "unscanned"
               \/ /\ c.scanStatus = "unhealthyScan"
                  /\ Policy!isSeverityAboveThreshold(
                       Policy!filterScanFindings(c.scanFindings, p), p)
  BY <1>2, <1>3 DEF Policy!Violates
<1>4. \A c \in Policy!Applicable(infos, p) :
        ~Policy!Exempt(c, p) /\ \E i \in DOMAIN infos : c = infos[i]
  BY <1>1
<1>5. \A c : c \in Policy!violationOf(infos, p) <=>
        c \in Policy!Applicable(infos, p) /\ Policy!Violates(c, p)
  BY <1>3, <1>4 DEF Policy!violationOf, Policy!unscannedViolation,
     Policy!severityViolation
<1>6. ASSUME NEW i \in DOMAIN infos, Policy!Violates(infos[i], p),
             \A j \in DOMAIN infos : ~Policy!Exempt(infos[j], p)
      PROVE  infos[i] \in Policy!violationOf(infos, p)
  BY <1>1, <1>5, <1>6
<1> QED BY <1>4, <1>5, <1>6

(* The reason for a denial is one of the object's own containers.          *)
DeniedByItsOwn ==
  decision = "denied" /\ Annotated =>
    \E i \in DOMAIN InfosOf(object) :
      /\ ContainerOf(InfosOf(object)[i]) \in Containers(object.spec)
      /\ Policy!Violates(InfosOf(object)[i], parameters)

(* From the object to the decision: a workload that the webhook has        *)
(* handled is denied only because a container of its own pod spec breaks   *)
(* the constraint by its scan info, whatever the object, redis or other    *)
(* requests had brought.                                                   *)
THEOREM DeniedByOwnContainers == AdmissionSpec => []DeniedByItsOwn
<1> DEFINE infos == InfosOf(object)
<1>1. ASSUME IInv, decision = "denied", Annotated
      PROVE  \E i \in DOMAIN infos : /\ ContainerOf(infos[i]) \in Containers(object.spec)
                                     /\ Policy!Violates(infos[i], parameters)
  <2>1. ScanKey \in DOMAIN object.annotations
        /\ Policy!violationOf(infos, parameters) # {}
    BY <1>1 DEF IInv, AnswerInv, Blocked, InfosOf
  <2>2. PICK i \in DOMAIN infos : Policy!Violates(infos[i], parameters)
    BY <2>1, PolicyNames
  <2>3. ToldOf(object.annotations[ScanKey]) = Containers(object.spec)
    BY <1>1, <2>1, ResultsAreOwn
  <2>4. ContainerOf(infos[i]) \in ToldOf(object.annotations[ScanKey])
    BY DEF ToldOf, ContainerOf, InfosOf
  <2> QED BY <2>2, <2>3, <2>4
<1>2. IInv => DeniedByItsOwn
  BY <1>1 DEF DeniedByItsOwn
<1> QED BY Inductive, <1>2, PTL

(* An admission leaves no container of the pod spec unjudged.              *)
AdmittedIsClean ==
  /\ decision = "admitted" /\ Annotated /\ response.code = 200
  /\ \A i \in DOMAIN InfosOf(object) : ~Policy!Exempt(InfosOf(object)[i], parameters)
  => \A c \in Containers(object.spec) :
       \E i \in DOMAIN InfosOf(object) :
         /\ ContainerOf(InfosOf(object)[i]) = c
         /\ ~Policy!Violates(InfosOf(object)[i], parameters)

(* And it is admitted, with results and where no container is exempt, only *)
(* if each container of its pod spec was scanned and keeps the thresholds. *)
THEOREM AdmittedKeepsTheConstraint == AdmissionSpec => []AdmittedIsClean
<1> DEFINE infos == InfosOf(object)
<1>1. ASSUME IInv, decision = "admitted", Annotated, response.code = 200,
             \A i \in DOMAIN infos : ~Policy!Exempt(infos[i], parameters),
             NEW c \in Containers(object.spec)
      PROVE  \E i \in DOMAIN infos : /\ ContainerOf(infos[i]) = c
                                     /\ ~Policy!Violates(infos[i], parameters)
  <2>1. ScanKey \in DOMAIN object.annotations
    BY <1>1 DEF IInv, AnswerInv, Annotated, Outcome, Applied
  <2>2. Policy!violationOf(infos, parameters) = {}
    BY <1>1, <2>1 DEF IInv, AnswerInv, Blocked, InfosOf
  <2>3. ToldOf(object.annotations[ScanKey]) = Containers(object.spec)
    BY <1>1, <2>1, ResultsAreOwn
  <2>4. PICK i \in DOMAIN infos : ContainerOf(infos[i]) = c
    BY <2>3 DEF ToldOf, ContainerOf, InfosOf
  <2>5. ~Policy!Violates(infos[i], parameters)
    BY <1>1, <2>2, <2>4, PolicyNames
  <2> QED BY <2>4, <2>5
<1>2. IInv => AdmittedIsClean
  BY <1>1 DEF AdmittedIsClean
<1> QED BY Inductive, <1>2, PTL
=============================================================================
