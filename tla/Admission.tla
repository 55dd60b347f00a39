----------------------------- MODULE Admission ------------------------------
(***************************************************************************)
(* A workload object through its admissions: the API server calls the      *)
(* mutating webhook (Handler), applies its patch, and has Gatekeeper       *)
(* evaluate the policy (VulnerabilityPolicy) on the annotated object. The  *)
(* annotation stays in the stored object and comes back with the next      *)
(* update, and with the objects a controller derives from it: it may then  *)
(* tell of another pod spec. And the provider (azdsecinfo) may answer with *)
(* results that any replica has stored in redis for an earlier request,    *)
(* under a key made of the names and images of the containers.             *)
(*                                                                         *)
(* The API server and Gatekeeper are external; the policy and the          *)
(* registration of the webhook (timeoutSeconds, failurePolicy: Ignore in   *)
(* charts/azdproxy/templates/mutation-configuration.yaml) are not.         *)
(***************************************************************************)
EXTENDS Handler

CONSTANTS
  parameters,  \* the constraint's parameters
  NoObject,
  NoEntry, ErrorStored

\* Containers are told apart by their name and image: a pod has no two
\* containers, init containers included, of one name.
Containers(spec) == spec.initContainers \cup spec.containers

\* The containers that scan info tells of.
ToldOf(info) ==
  {[name |-> info.containers[i].name, image |-> info.containers[i].image] :
     i \in DOMAIN info.containers}

\* A scan tells of every container of its pod spec, once (ContainerScan).
ASSUME AdmissionAssumption ==
  /\ NoEntry \notin ScanInfos /\ ErrorStored \notin ScanInfos \cup {NoEntry}
  /\ \A spec \in DOMAIN ScanInfosOf :
       \A info \in ScanInfosOf[spec] : ToldOf(info) = Containers(spec)

\* Defect: the init containers are left out of the key.
GetPodSpecCacheKeyOfContainers(spec) == spec.containers

\* The sorted list of name:image, of init containers and containers alike.
GetPodSpecCacheKey(spec) == Containers(spec)

Keys == {GetPodSpecCacheKey(spec) : spec \in DOMAIN ScanInfosOf}

VARIABLES
  scanResults, \* redis: what is stored under each key
  phase,      \* of the admission: "idle", "mutating", "validating"
  object,     \* the object under admission
  answer,     \* how the webhook call ended
  stored,     \* the object as stored by the API server
  decision    \* of the last admission

admissionVars == <<vars, scanResults, phase, object, answer, stored, decision>>

\* The operators of the policy; its variables play no part here.
Policy == INSTANCE VulnerabilityPolicy WITH
  Names <- {}, Images <- {}, Findings <- {}, Lists <- {}, Parameters <- {},
  list <- <<>>, evaluated <- FALSE, violation <- {}

Blocked(o) ==
  /\ ScanKey \in DOMAIN o.annotations
  /\ Policy!violationOf(o.annotations[ScanKey].containers, parameters) # {}

\* The object that a request is about.
ObjectOf(r) == [spec |-> r.spec, annotations |-> r.annotations]

\* The webhook may be installed, or configured anew, when the object exists.
AdmissionInit ==
  /\ Init
  /\ scanResults = [key \in Keys |-> NoEntry]
  /\ phase = "idle"
  /\ object = NoObject
  /\ answer = "none"
  /\ stored \in {NoObject} \cup {ObjectOf(r) : r \in Requests}
  /\ decision = "none"

\* The annotations that an object is submitted with: those of its author, or
\* those that the stored object has by now.
Carried == {[key \in {"author"} |-> "author"]}
             \cup (IF stored = NoObject THEN {} ELSE {stored.annotations})

Submit ==
  /\ phase = "idle"
  /\ \E r \in Requests :
       /\ r.annotations \in Carried
       /\ Receive(r)
       /\ object' = ObjectOf(r)
  /\ phase' = "mutating"
  /\ answer' = "none"
  /\ decision' = "none"
  /\ UNCHANGED <<scanResults, stored>>

HandleMutation ==
  /\ phase = "mutating"
  /\ Handle
  /\ UNCHANGED <<scanResults, phase, object, answer, stored, decision>>

\* What redis has stored for the pod spec, results or an error, is the answer.
AnswerStored ==
  /\ phase = "mutating"
  /\ LET entry == scanResults[GetPodSpecCacheKey(request.spec)]
     IN \/ entry \in ScanInfos /\ AnswerResults(entry)
        \/ entry = ErrorStored /\ AnswerError
  /\ UNCHANGED <<scanResults, phase, object, answer, stored, decision>>

\* There is no entry, or redis fails: the pod spec is scanned.
AnswerScanned ==
  /\ phase = "mutating"
  /\ \/ \E info \in ScanInfosOf[request.spec] : AnswerResults(info)
     \/ AnswerError
  /\ UNCHANGED <<scanResults, phase, object, answer, stored, decision>>

\* A worker of any replica stores what it has for a pod spec, for this request
\* or for another one with the same key.
StoreResults ==
  /\ \E spec \in DOMAIN ScanInfosOf, entry \in ScanInfos \cup {ErrorStored} :
       /\ entry \in ScanInfosOf[spec] \cup {ErrorStored}
       /\ scanResults' = [scanResults EXCEPT ![GetPodSpecCacheKey(spec)] = entry]
  /\ UNCHANGED <<vars, phase, object, answer, stored, decision>>

ExpireResults ==
  /\ \E key \in Keys : scanResults' = [scanResults EXCEPT ![key] = NoEntry]
  /\ UNCHANGED <<vars, phase, object, answer, stored, decision>>

\* The response came in time: its patch replaces the object's annotations.
ApplyResponse ==
  /\ phase = "mutating"
  /\ stage = "answered"
  /\ object' = [object EXCEPT !.annotations = Applied]
  /\ answer' = "answered"
  /\ phase' = "validating"
  /\ Close
  /\ UNCHANGED <<scanResults, stored, decision>>

\* failurePolicy: Ignore. No replica could be reached, timeoutSeconds went by
\* or the handler panicked: the admission goes on with the object as it is,
\* and what the handler may still answer is dropped.
IgnoreWebhook ==
  /\ phase = "mutating"
  /\ answer' = "ignored"
  /\ phase' = "validating"
  /\ stage' = "idle"
  /\ UNCHANGED <<dryRun, request, annotations, response, scanResults, object,
                 stored, decision>>

Validate ==
  /\ phase = "validating"
  /\ phase' = "idle"
  /\ \/ /\ Blocked(object)
        /\ decision' = "denied"
        /\ UNCHANGED stored
     \/ /\ ~Blocked(object)
        /\ decision' = "admitted"
        /\ stored' = object
  /\ UNCHANGED <<vars, scanResults, object, answer>>

AdmissionNext ==
  \/ Submit
  \/ HandleMutation
  \/ AnswerStored
  \/ AnswerScanned
  \/ StoreResults
  \/ ExpireResults
  \/ ApplyResponse
  \/ IgnoreWebhook
  \/ Validate

AdmissionSpec == AdmissionInit /\ [][AdmissionNext]_admissionVars

-----------------------------------------------------------------------------
(* Properties                                                              *)

\* The webhook decided what the object's scan info is.
Annotated == answer = "answered" /\ Handled /\ ~dryRun

\* Gatekeeper never judges a pod spec by the results of another one: whatever
\* annotations the object brought along, an answer of the webhook replaces or
\* deletes the scan info, and what it takes from redis was stored for a pod
\* spec of the same containers.
JudgedByItsOwnResults ==
  phase = "validating" /\ Annotated /\ ScanKey \in DOMAIN object.annotations =>
    /\ response.code = 200
    /\ ToldOf(object.annotations[ScanKey]) = Containers(object.spec)

\* "mutating webhook error should not block deployment": an object that the
\* webhook has answered with an error is not denied for its scan info.
ErrorsNeverBlock ==
  decision = "denied" /\ answer = "answered" => response.code # 500
=============================================================================
