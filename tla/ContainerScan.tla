--------------------------- MODULE ContainerScan ----------------------------
(***************************************************************************)
(* The scan of a pod spec (pkg/azdsecinfo/azd_sec_info_provider.go): one   *)
(* goroutine for each container looks its image up and sends what it found *)
(* on a buffered channel; the caller receives from the channel as often as *)
(* there are containers, and leaves at the first error.                    *)
(*                                                                         *)
(* The resolver of digests and the provider of scan results are the        *)
(* modules Tag2Digest and ARGDataProvider: here they return any value or   *)
(* error that those may return.                                            *)
(***************************************************************************)
EXTENDS Naturals, Sequences, FiniteSets

CONSTANT Containers  \* the init containers and the containers of a pod spec

ASSUME ContainersAssumption == IsFiniteSet(Containers)

ScanStatuses == {"unscanned", "unhealthyScan", "healthyScan"}

\* Errors that are reported as the reason why an image is unscanned, and the
\* reasons (TryParseErrToUnscannedWithReason).
unscannedReason ==
  [ImageIsNotFoundErr |-> "ImageDoesNotExist",
   UnauthorizedErr |-> "RegistryUnauthorized",
   RegistryIsNotFoundErr |-> "RegistryDoesNotExist"]

KnownErrors == DOMAIN unscannedReason
Errors == KnownErrors \cup {"unexpected"}

NoReason == "none"
Reasons == {"ImageIsNotInACR", NoReason} \cup {unscannedReason[e] : e \in KnownErrors}

\* ContainerVulnerabilityScanInfo: a digest and findings come with the results
\* of the Resource Graph only, a reason only without them.
Infos == [status : ScanStatuses, reason : Reasons]

ImageKinds == {"malformed", "other registry", "ACR"}

VARIABLES
  image,     \* each container's image
  pc,        \* where its goroutine stands
  found,     \* the info or the error that the goroutine is to send
  channel,   \* vulnerabilitySecInfoChannel: [of, found]
  closed,    \* whether it is closed
  received,  \* vulnSecInfoContainers: [of, found]
  answer     \* how getVulnSecInfoContainers returned: "none" so far, with
             \* "results", which `received' holds, or with an "error"

vars == <<image, pc, found, channel, closed, received, answer>>

\* In place of an info: the look-up failed, or goes on.
Failed == [status |-> "failed", reason |-> NoReason]
Pending == [status |-> "pending", reason |-> NoReason]

Init ==
  /\ image \in [Containers -> ImageKinds]
  /\ pc = [c \in Containers |-> "parse"]
  /\ found = [c \in Containers |-> Pending]
  /\ channel = <<>>
  /\ closed = FALSE
  /\ received = <<>>
  /\ answer = "none"

-----------------------------------------------------------------------------
(* getSingleContainerVulnerabilityScanInfo                                 *)

Find(c, o) ==
  /\ pc' = [pc EXCEPT ![c] = "send"]
  /\ found' = [found EXCEPT ![c] = o]

Unscanned(reason) == [status |-> "unscanned", reason |-> reason]

\* Known errors become results, all others fail the scan.
FindError(c, error) ==
  Find(c, IF error \in KnownErrors THEN Unscanned(unscannedReason[error]) ELSE Failed)

\* Defect: a reference that cannot be parsed counts as another registry.
ParseImageLeniently(c) ==
  /\ pc[c] = "parse"
  /\ \/ image[c] # "ACR" /\ Find(c, Unscanned("ImageIsNotInACR"))
     \/ /\ image[c] = "ACR"
        /\ pc' = [pc EXCEPT ![c] = "resolve"]
        /\ UNCHANGED found
  /\ UNCHANGED <<image, channel, closed, received, answer>>

ParseImage(c) ==
  /\ pc[c] = "parse"
  /\ \/ image[c] = "malformed" /\ Find(c, Failed)
     \/ image[c] = "other registry" /\ Find(c, Unscanned("ImageIsNotInACR"))
     \/ /\ image[c] = "ACR"
        /\ pc' = [pc EXCEPT ![c] = "resolve"]
        /\ UNCHANGED found
  /\ UNCHANGED <<image, channel, closed, received, answer>>

ResolveDigest(c) ==
  /\ pc[c] = "resolve"
  /\ \/ \E error \in Errors : FindError(c, error)
     \/ /\ pc' = [pc EXCEPT ![c] = "query"]
        /\ UNCHANGED found
  /\ UNCHANGED <<image, channel, closed, received, answer>>

GetScanResults(c) ==
  /\ pc[c] = "query"
  /\ \/ \E error \in Errors : FindError(c, error)
     \/ \E status \in ScanStatuses :
          Find(c, [status |-> status, reason |-> NoReason])
  /\ UNCHANGED <<image, channel, closed, received, answer>>

\* The channel has room for every container of the pod spec.
capacity == Cardinality(Containers)

\* Defect: a channel without a buffer, for the caller to receive from at once.
SendUnbuffered(c) ==
  /\ pc[c] = "send"
  /\ answer = "none"
  /\ channel = <<>>
  /\ channel' = Append(channel, [of |-> c, found |-> found[c]])
  /\ pc' = [pc EXCEPT ![c] = "ended"]
  /\ UNCHANGED <<image, found, closed, received, answer>>

\* Defect: the goroutines share the variable that holds what they found.
SendShared(c) ==
  /\ pc[c] = "send"
  /\ Len(channel) < capacity
  /\ \E d \in Containers :
       /\ pc[d] \in {"send", "ended"}
       /\ channel' = Append(channel, [of |-> c, found |-> found[d]])
  /\ pc' = [pc EXCEPT ![c] = "ended"]
  /\ UNCHANGED <<image, found, closed, received, answer>>

\* getSingleContainerVulnerabilityScanInfoSyncWrapper
Send(c) ==
  /\ pc[c] = "send"
  /\ Len(channel) < capacity
  /\ channel' = Append(channel, [of |-> c, found |-> found[c]])
  /\ pc' = [pc EXCEPT ![c] = "ended"]
  /\ UNCHANGED <<image, found, closed, received, answer>>

-----------------------------------------------------------------------------
(* getVulnSecInfoContainers                                                *)

Receiving == answer = "none" /\ Len(received) < Cardinality(Containers)

ReceiveInfo ==
  /\ Receiving
  /\ channel # <<>>
  /\ Head(channel).found # Failed
  /\ channel' = Tail(channel)
  /\ received' = Append(received, Head(channel))
  /\ UNCHANGED <<image, pc, found, closed, answer>>

\* Defect: the channel is closed on the way out.
ReceiveErrorClosing ==
  /\ Receiving
  /\ channel # <<>>
  /\ Head(channel).found = Failed
  /\ channel' = Tail(channel)
  /\ answer' = "error"
  /\ closed' = TRUE
  /\ UNCHANGED <<image, pc, found, received>>

\* Defect: the loop goes on until it has an info of every container.
ReceiveErrorSkipping ==
  /\ Receiving
  /\ channel # <<>>
  /\ Head(channel).found = Failed
  /\ channel' = Tail(channel)
  /\ UNCHANGED <<image, pc, found, closed, received, answer>>

\* The channel stays open, goroutines may still send on it.
ReceiveError ==
  /\ Receiving
  /\ channel # <<>>
  /\ Head(channel).found = Failed
  /\ channel' = Tail(channel)
  /\ answer' = "error"
  /\ UNCHANGED <<image, pc, found, closed, received>>

\* Defect: the loop ends one container early.
ReturnAllButOne ==
  /\ answer = "none"
  /\ Len(received) + 1 >= Cardinality(Containers)
  /\ closed' = TRUE
  /\ answer' = "results"
  /\ UNCHANGED <<image, pc, found, channel, received>>

ReturnAll ==
  /\ answer = "none"
  /\ Len(received) = Cardinality(Containers)
  /\ closed' = TRUE
  /\ answer' = "results"
  /\ UNCHANGED <<image, pc, found, channel, received>>

Receiver == ReceiveInfo \/ ReceiveError \/ ReturnAll

Worker(c) == ParseImage(c) \/ ResolveDigest(c) \/ GetScanResults(c) \/ Send(c)

Done ==
  /\ answer # "none"
  /\ \A c \in Containers : pc[c] = "ended"
  /\ UNCHANGED vars

Next == Receiver \/ (\E c \in Containers : Worker(c)) \/ Done

Spec == Init /\ [][Next]_vars

\* The Go scheduler; the look-ups of the registry and of the Resource Graph
\* return, which only this specification supposes.
RunsFairly(c) == WF_vars(Worker(c))

FairSpec ==
  /\ Spec
  /\ WF_vars(Receiver)
  /\ \A c \in Containers : RunsFairly(c)

-----------------------------------------------------------------------------
(* Properties                                                              *)

Answered == answer # "none"
HasResults == answer = "results"

TypeOK ==
  /\ image \in [Containers -> ImageKinds]
  /\ pc \in [Containers -> {"parse", "resolve", "query", "send", "ended"}]
  /\ found \in [Containers -> Infos \cup {Pending, Failed}]
  /\ channel \in Seq([of : Containers, found : Infos \cup {Failed}])
  /\ closed \in BOOLEAN
  /\ received \in Seq([of : Containers, found : Infos])
  /\ answer \in {"none", "results", "error"}

\* "Because the channel is buffered all goroutines will finish executing": a
\* goroutine that is to send finds room, and never a closed channel, which
\* would end the process with a panic.
SendsAreSafe ==
  \A c \in Containers : pc[c] = "send" => ~closed /\ Len(channel) < capacity

\* The results have one entry for each container, in some order, and each is
\* what the container's own look-up found; nothing is left in the channel.
EveryContainerOnce ==
  HasResults =>
    /\ channel = <<>>
    /\ \A c \in Containers :
         \E i \in DOMAIN received :
           /\ received[i] = [of |-> c, found |-> found[c]]
           /\ \A j \in DOMAIN received : received[j].of = c => j = i

\* A container whose image is malformed fails the pod spec; an image that is
\* not in ACR does not, and is never reported as scanned.
JudgedByImage ==
  HasResults =>
    \A i \in DOMAIN received :
      /\ image[received[i].of] # "malformed"
      /\ image[received[i].of] = "other registry" =>
           received[i].found = Unscanned("ImageIsNotInACR")

\* "No deadlock as a result of the loop because the number of receivers is
\* identical to the number of senders": the caller gets its answer.
ScanAnswers == <>Answered

\* "No goroutine leak", also when the caller left at an error.
GoroutinesEnd == \A c \in Containers : <>(pc[c] = "ended")

\* The scan implements ScanContract.
ResultOf(c) == received[CHOOSE i \in DOMAIN received : received[i].of = c].found

ByContainer == IF HasResults THEN [c \in Containers |-> ResultOf(c)] ELSE <<>>

Contract == INSTANCE ScanContract WITH outcome <- found, results <- ByContainer

ImplementsContract == Contract!Spec
=============================================================================
