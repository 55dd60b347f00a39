----------------------------- MODULE Tag2Digest -----------------------------
(***************************************************************************)
(* From the reference of an image to its digest (pkg/tag2digest and the    *)
(* registry client of pkg/infra/registry/crane): redis is asked first,     *)
(* then the registry, with one identity after the other - that of the      *)
(* cluster for registries of ACR, the pull secrets of the pod, that of the *)
(* docker configuration - until one of them has the digest or knows that   *)
(* there is none. The digest is answered, and a goroutine stores it in     *)
(* redis, where all replicas find it.                                      *)
(*                                                                         *)
(* Tags move: since[i][d] is the number of ticks, up to a cap, since d was *)
(* last the digest of i.                                                   *)
(***************************************************************************)
EXTENDS Naturals

CONSTANTS
  Images,     \* references of images
  Digests,
  Calls,      \* slots for calls of Resolve, each with the goroutine it leaves
  CacheExpirationTimeForResults,  \* in ticks
  MaxDelay    \* ticks that a digest is on its way, to a caller or to redis

ASSUME ResolverAssumption ==
  /\ CacheExpirationTimeForResults \in Nat \ {0}
  /\ MaxDelay \in Nat

Identities == {"ACR", "K8S", "default"}
Errors == {"ImageIsNotFoundErr", "RegistryIsNotFoundErr", "UnauthorizedErr", "unexpected"}

\* In place of a digest.
Absent == "absent"  \* the registry has no such image
Nothing == "nothing"
ASSUME DigestsAssumption == Digests \cap (Errors \cup {Absent, Nothing}) = {}

VARIABLES
  kind,       \* of each image: the registry is one of ACR or another, or the
              \* reference is a digest itself
  reachable,  \* whether the registry exists
  granted,    \* the identities that may read the image: each asks with its own
              \* credentials or, where it has none for the registry, with
              \* those of the docker configuration (authn.NewMultiKeychain)
  current,    \* the digest of each image in its registry
  since,
  entry,      \* the entry of each image in redis
  pc,         \* where each call stands
  image,      \* what it is to resolve
  tried,      \* what it got with each identity
  held,       \* the digest it got, and the ticks since then
  answer      \* a digest or an error

registryVars == <<kind, reachable, granted, current, since>>
vars == <<registryVars, entry, pc, image, tried, held, answer>>

NoEntry == [digest |-> Nothing, left |-> 0]
NotHeld == [digest |-> Nothing, age |-> 0]
NotTried == [a \in Identities |-> Nothing]

Pinned(i) == kind[i] = "digest"

Cap == CacheExpirationTimeForResults + MaxDelay + 1

Init ==
  /\ kind \in [Images -> {"ACR", "other", "digest"}]
  /\ reachable \in [Images -> BOOLEAN]
  /\ granted \in [Images -> SUBSET Identities]
  /\ current \in [Images -> Digests \cup {Absent}]
  /\ \A i \in Images :
       /\ Pinned(i) => current[i] # Absent
       /\ ~reachable[i] => granted[i] = {}
  /\ since = [i \in Images |-> [d \in Digests |-> IF d = current[i] THEN 0 ELSE Cap]]
  /\ entry = [i \in Images |-> NoEntry]
  /\ pc = [c \in Calls |-> "idle"]
  /\ image \in [Calls -> Images]
  /\ tried = [c \in Calls |-> NotTried]
  /\ held = [c \in Calls |-> NotHeld]
  /\ answer = [c \in Calls |-> Nothing]

-----------------------------------------------------------------------------
(* Resolve                                                                 *)

Goto(c, label) == pc' = [pc EXCEPT ![c] = label]

Call(c, i) ==
  /\ pc[c] = "idle"
  /\ image' = [image EXCEPT ![c] = i]
  /\ tried' = [tried EXCEPT ![c] = NotTried]
  /\ answer' = [answer EXCEPT ![c] = Nothing]
  /\ Goto(c, "lookup")
  /\ UNCHANGED <<registryVars, entry, held>>

\* Defect: a digest that was found in redis is stored once more.
LookupHitStoring(c) ==
  /\ pc[c] = "lookup"
  /\ entry[image[c]] # NoEntry
  /\ answer' = [answer EXCEPT ![c] = entry[image[c]].digest]
  /\ held' = [held EXCEPT ![c] = [digest |-> entry[image[c]].digest, age |-> 0]]
  /\ Goto(c, "set")
  /\ UNCHANGED <<registryVars, entry, image, tried>>

LookupHit(c) ==
  /\ pc[c] = "lookup"
  /\ entry[image[c]] # NoEntry
  /\ answer' = [answer EXCEPT ![c] = entry[image[c]].digest]
  /\ Goto(c, "idle")
  /\ UNCHANGED <<registryVars, entry, image, tried, held>>

Hold(c, d) ==
  /\ held' = [held EXCEPT ![c] = [digest |-> d, age |-> 0]]
  /\ Goto(c, "reply")

firstIdentity(i) == IF kind[i] = "ACR" THEN "ACR" ELSE "K8S"

\* No entry, or redis fails. A reference by digest needs no registry.
LookupMiss(c) ==
  /\ pc[c] = "lookup"
  /\ IF Pinned(image[c])
     THEN Hold(c, current[image[c]])
     ELSE Goto(c, firstIdentity(image[c])) /\ UNCHANGED held
  /\ UNCHANGED <<registryVars, entry, image, tried, answer>>

nextIdentity == [ACR |-> "K8S", K8S |-> "default"]

\* Defect: whoever may not read the image ends the search.
shouldContinueUnlessUnauthorized(error) == error = "unexpected"

\* Defect: the search always goes on.
shouldContinueAlways(error) == TRUE

shouldContinueOnError(error) ==
  error \notin {"ImageIsNotFoundErr", "RegistryIsNotFoundErr"}

\* What asking the registry as `a' may end with. Anything may fail on the way:
\* the token of ACR, the pull secrets, the network. Only the exchange of
\* tokens tells that a registry does not exist. And a registry may hide what
\* the identity may not read: it answers as if there were no such image.
Replies(i, a) ==
  {"unexpected"} \cup
  (CASE ~reachable[i] /\ a = "ACR" -> {"RegistryIsNotFoundErr"}
     [] reachable[i] /\ a \notin granted[i] -> {"UnauthorizedErr", "ImageIsNotFoundErr"}
     [] a \in granted[i] /\ current[i] = Absent -> {"ImageIsNotFoundErr"}
     [] a \in granted[i] /\ current[i] # Absent -> {current[i]}
     [] OTHER -> {})

\* GetDigestUsingACRAttachAuth, GetDigestUsingK8SAuth, GetDigestUsingDefaultAuth
GetDigest(c, a) ==
  /\ pc[c] = a
  /\ \E reply \in Replies(image[c], a) :
       /\ tried' = [tried EXCEPT ![c][a] = reply]
       /\ \/ /\ reply \in Digests
             /\ Hold(c, reply)
             /\ UNCHANGED answer
          \/ /\ reply \in Errors
             /\ a # "default" /\ shouldContinueOnError(reply)
             /\ Goto(c, nextIdentity[a])
             /\ UNCHANGED <<held, answer>>
          \/ /\ reply \in Errors
             /\ a = "default" \/ ~shouldContinueOnError(reply)
             /\ answer' = [answer EXCEPT ![c] = reply]
             /\ Goto(c, "idle")
             /\ UNCHANGED held
  /\ UNCHANGED <<registryVars, entry, image>>

AnswerDigest(c) ==
  /\ pc[c] = "reply"
  /\ answer' = [answer EXCEPT ![c] = held[c].digest]
  /\ Goto(c, "set")
  /\ UNCHANGED <<registryVars, entry, image, tried, held>>

Release(c) == Goto(c, "idle") /\ held' = [held EXCEPT ![c] = NotHeld]

Store(i, d) ==
  entry' = [entry EXCEPT ![i] = [digest |-> d, left |-> CacheExpirationTimeForResults]]

\* The goroutine's Set; when its reply is lost it runs once more.
SetDigest(c) ==
  /\ pc[c] = "set"
  /\ Store(image[c], held[c].digest)
  /\ Release(c) \/ UNCHANGED <<pc, held>>
  /\ UNCHANGED <<registryVars, image, tried, answer>>

\* redis fails at every try, or the replica ends.
Abandon(c) ==
  /\ pc[c] # "idle"
  /\ Release(c)
  /\ UNCHANGED <<registryVars, entry, image, tried, answer>>

-----------------------------------------------------------------------------
(* The environment                                                         *)

\* The tag is pushed or deleted.
Push(i) ==
  /\ ~Pinned(i) /\ reachable[i]
  /\ \E d \in Digests \cup {Absent} :
       /\ current' = [current EXCEPT ![i] = d]
       /\ since' = [since EXCEPT ![i] = [e \in Digests |-> IF e = d THEN 0 ELSE @[e]]]
  /\ UNCHANGED <<kind, reachable, granted, entry, pc, image, tried, held, answer>>

Min(a, b) == IF a < b THEN a ELSE b

Tick ==
  /\ \A c \in Calls : held[c] # NotHeld => held[c].age < MaxDelay
  /\ held' = [c \in Calls |->
                IF held[c] = NotHeld THEN NotHeld ELSE [held[c] EXCEPT !.age = @ + 1]]
  /\ since' = [i \in Images |-> [d \in Digests |->
                 IF d = current[i] THEN 0 ELSE Min(Cap, since[i][d] + 1)]]
  /\ entry' = [i \in Images |->
                 IF entry[i].left <= 1 THEN NoEntry ELSE [entry[i] EXCEPT !.left = @ - 1]]
  /\ UNCHANGED <<kind, reachable, granted, current, pc, image, tried, answer>>

Next ==
  \/ \E c \in Calls :
       \/ \E i \in Images : Call(c, i)
       \/ LookupHit(c)
       \/ LookupMiss(c)
       \/ \E a \in Identities : GetDigest(c, a)
       \/ AnswerDigest(c)
       \/ SetDigest(c)
       \/ Abandon(c)
  \/ \E i \in Images : Push(i)
  \/ Tick

Spec == Init /\ [][Next]_vars

-----------------------------------------------------------------------------
(* Properties                                                              *)

TypeOK ==
  /\ kind \in [Images -> {"ACR", "other", "digest"}]
  /\ reachable \in [Images -> BOOLEAN]
  /\ granted \in [Images -> SUBSET Identities]
  /\ current \in [Images -> Digests \cup {Absent}]
  /\ since \in [Images -> [Digests -> 0..Cap]]
  /\ entry \in [Images -> [digest : Digests \cup {Nothing}, left : 0..CacheExpirationTimeForResults]]
  /\ pc \in [Calls -> {"idle", "lookup", "reply", "set"} \cup Identities]
  /\ image \in [Calls -> Images]
  /\ tried \in [Calls -> [Identities -> Digests \cup Errors \cup {Nothing}]]
  /\ held \in [Calls -> [digest : Digests \cup {Nothing}, age : 0..MaxDelay]]
  /\ answer \in [Calls -> Digests \cup Errors \cup {Nothing}]

Applicable(i) == IF kind[i] = "ACR" THEN Identities ELSE Identities \ {"ACR"}

\* An image is reported unauthorized only if none of the identities may read
\* it, or those that may failed for another reason: an identity that is refused
\* never hides one that has access. (One from which the registry hides the
\* image does: MissingIsFinal.)
UnauthorizedOnlyAfterAll ==
  \A c \in Calls :
    answer[c] = "UnauthorizedErr" =>
      \A a \in Applicable(image[c]) \cap granted[image[c]] : tried[c][a] = "unexpected"

\* An image or a registry that is reported missing was missed by an identity,
\* and none was tried after it: shouldContinueOnError takes its word for it. And
\* the token of the cluster's identity is asked for on registries of ACR only.
MissingIsFinal ==
  \A c \in Calls :
    /\ answer[c] \in {"ImageIsNotFoundErr", "RegistryIsNotFoundErr"} =>
         \E a \in Applicable(image[c]) : tried[c][a] = answer[c]
    /\ \A a \in {"ACR", "K8S"} :
         tried[c][a] \in {"ImageIsNotFoundErr", "RegistryIsNotFoundErr"} =>
           tried[c][nextIdentity[a]] = Nothing
    /\ tried[c]["ACR"] # Nothing => kind[image[c]] = "ACR"

\* A digest is never answered for longer after the tag has moved than it is
\* stored and on its way, whichever replica stored it and however late.
AnswersAreRecent ==
  [][\A c \in Calls :
       answer'[c] # answer[c] /\ answer'[c] \in Digests =>
         since[image[c]][answer'[c]] <= CacheExpirationTimeForResults + MaxDelay]_vars
=============================================================================
