------------------------- MODULE Tag2Digest_proofs --------------------------
(***************************************************************************)
(* Theorems about Tag2Digest, for every set of images, digests and calls,  *)
(* every expiration time and every delay. Safety first; that calls return  *)
(* is last.                                                                *)
(***************************************************************************)
EXTENDS Tag2Digest, TLAPS

\* What never changes of the registries.
RegistriesInv ==
  \A i \in Images :
    /\ Pinned(i) => current[i] # Absent
    /\ ~reachable[i] => granted[i] = {}

Missing == {"ImageIsNotFoundErr", "RegistryIsNotFoundErr"}
Passing == {"UnauthorizedErr", "unexpected"}

\* The identities before the one that is being asked were passed, those from
\* it on were not asked.
Told(c) ==
  /\ pc[c] \in {"lookup", "reply"} \cup Identities => answer[c] = Nothing
  /\ pc[c] \in {"lookup", "ACR"} => \A a \in Identities : tried[c][a] = Nothing
  /\ pc[c] = "ACR" => kind[image[c]] = "ACR"
  /\ pc[c] \in {"K8S", "default"} /\ kind[image[c]] = "ACR" =>
       tried[c]["ACR"] \in Passing
  /\ pc[c] = "K8S" => tried[c]["K8S"] = Nothing
  /\ pc[c] = "default" => tried[c]["K8S"] \in Passing
  /\ pc[c] \in {"K8S", "default"} => tried[c]["default"] = Nothing
  /\ tried[c]["ACR"] # Nothing => kind[image[c]] = "ACR"
  /\ \A a \in Identities :
       tried[c][a] = "UnauthorizedErr" => a \notin granted[image[c]]
  /\ tried[c]["ACR"] \in Missing => tried[c]["K8S"] = Nothing
  /\ tried[c]["K8S"] \in Missing => tried[c]["default"] = Nothing
  /\ answer[c] \in Missing => \E a \in Applicable(image[c]) : tried[c][a] = answer[c]
  /\ answer[c] = "UnauthorizedErr" =>
       \A a \in Applicable(image[c]) : tried[c][a] \in Passing

TriedInv == \A c \in Calls : Told(c)

\* A digest that is held or stored left its tag no longer ago than its age.
HeldInv ==
  \A c \in Calls :
    IF pc[c] \in {"reply", "set"}
    THEN held[c].digest \in Digests /\ since[image[c]][held[c].digest] <= held[c].age
    ELSE held[c] = NotHeld

StoredInv ==
  \A i \in Images :
    /\ entry[i] # NoEntry =>
         /\ entry[i].digest \in Digests
         /\ entry[i].left >= 1
         /\ since[i][entry[i].digest] + entry[i].left
              <= CacheExpirationTimeForResults + MaxDelay
    /\ current[i] \in Digests => since[i][current[i]] = 0

-----------------------------------------------------------------------------
(* Constants and helpers                                                   *)

LEMMA ConstantTypes ==
  /\ CacheExpirationTimeForResults \in Nat /\ CacheExpirationTimeForResults >= 1
  /\ MaxDelay \in Nat
  /\ Cap \in Nat /\ Cap = CacheExpirationTimeForResults + MaxDelay + 1
BY ResolverAssumption DEF Cap

LEMMA DigestsAreNoErrors ==
  /\ \A d \in Digests : d \notin Errors /\ d # Absent /\ d # Nothing
  /\ Nothing \notin Errors
BY DigestsAssumption DEF Errors, Nothing

(* What a reply of the registry tells.                                     *)
LEMMA RepliesTell ==
  ASSUME NEW i \in Images, NEW a \in Identities, NEW reply \in Replies(i, a),
         RegistriesInv, current[i] \in Digests \cup {Absent}
  PROVE  /\ reply \in Digests \cup Errors
         /\ reply \in Digests => reply = current[i]
         /\ reply = "UnauthorizedErr" => a \notin granted[i]
<1>1. ~reachable[i] => a \notin granted[i]
  BY DEF RegistriesInv
<1>2. CASE ~reachable[i] /\ a = "ACR"
  <2>1. Replies(i, a) = {"unexpected", "RegistryIsNotFoundErr"}
    BY <1>1, <1>2 DEF Replies
  <2> QED BY <2>1, <1>1, <1>2, DigestsAreNoErrors DEF Errors
<1>3. CASE reachable[i] /\ a \notin granted[i]
  <2>1. Replies(i, a) = {"unexpected", "UnauthorizedErr", "ImageIsNotFoundErr"}
    BY <1>3 DEF Replies
  <2> QED BY <2>1, <1>3, DigestsAreNoErrors DEF Errors
<1>4. CASE a \in granted[i] /\ current[i] = Absent
  <2>1. Replies(i, a) = {"unexpected", "ImageIsNotFoundErr"}
    BY <1>1, <1>4 DEF Replies
  <2> QED BY <2>1, <1>4, DigestsAreNoErrors DEF Errors
<1>5. CASE a \in granted[i] /\ current[i] # Absent
  <2>1. Replies(i, a) = {"unexpected", current[i]}
    BY <1>1, <1>5 DEF Replies
  <2> QED BY <2>1, <1>5, DigestsAreNoErrors DEF Errors
<1>6. CASE ~reachable[i] /\ a # "ACR"
  <2>1. Replies(i, a) = {"unexpected"}
    BY <1>1, <1>6 DEF Replies
  <2> QED BY <2>1, <1>1, <1>6, DigestsAreNoErrors DEF Errors
<1> QED BY <1>2, <1>3, <1>4, <1>5, <1>6

-----------------------------------------------------------------------------
(* Types                                                                   *)

LEMMA TypesInit == ASSUME Init PROVE TypeOK
<1> USE DEF Init, TypeOK, NotTried, NotHeld, NoEntry, Nothing
<1>1. since \in [Images -> [Digests -> 0..Cap]]
  BY ConstantTypes
<1>2. /\ entry \in [Images -> [digest : Digests \cup {Nothing},
                               left : 0..CacheExpirationTimeForResults]]
      /\ held \in [Calls -> [digest : Digests \cup {Nothing}, age : 0..MaxDelay]]
  BY ConstantTypes
<1> QED BY <1>1, <1>2

LEMMA TypesNext ==
  ASSUME TypeOK, RegistriesInv, [Next]_vars
  PROVE  TypeOK'
<1> USE DEF TypeOK, registryVars, Goto, Nothing
<1>1. ASSUME NEW c \in Calls, NEW i \in Images, Call(c, i) PROVE TypeOK'
  BY <1>1 DEF Call, NotTried
<1>2. ASSUME NEW c \in Calls, LookupHit(c) PROVE TypeOK'
  BY <1>2 DEF LookupHit
<1>3. ASSUME NEW c \in Calls, LookupMiss(c) PROVE TypeOK'
  <2>1. CASE Pinned(image[c])
    <3>1. current[image[c]] \in Digests
      BY <2>1 DEF RegistriesInv
    <3>2. [digest |-> current[image[c]], age |-> 0]
            \in [digest : Digests \cup {Nothing}, age : 0..MaxDelay]
      BY <3>1, ConstantTypes
    <3>3. pc' = [pc EXCEPT ![c] = "reply"]
      BY <1>3, <2>1 DEF LookupMiss, Hold
    <3>4. held' \in [Calls -> [digest : Digests \cup {Nothing}, age : 0..MaxDelay]]
      BY <1>3, <2>1, <3>2 DEF LookupMiss, Hold
    <3> QED BY <1>3, <3>3, <3>4 DEF LookupMiss
  <2>2. CASE ~Pinned(image[c])
    <3>1. firstIdentity(image[c]) \in Identities
      BY DEF firstIdentity, Identities
    <3>2. pc' = [pc EXCEPT ![c] = firstIdentity(image[c])] /\ UNCHANGED held
      BY <1>3, <2>2 DEF LookupMiss
    <3> QED BY <1>3, <3>1, <3>2 DEF LookupMiss
  <2> QED BY <2>1, <2>2
<1>4. ASSUME NEW c \in Calls, NEW a \in Identities, GetDigest(c, a) PROVE TypeOK'
  <2>1. PICK reply \in Replies(image[c], a) :
          /\ tried' = [tried EXCEPT ![c][a] = reply]
          /\ \/ reply \in Digests /\ Hold(c, reply) /\ UNCHANGED answer
             \/ /\ a # "default"
                /\ Goto(c, nextIdentity[a])
                /\ UNCHANGED <<held, answer>>
             \/ /\ answer' = [answer EXCEPT ![c] = reply]
                /\ Goto(c, "idle")
                /\ UNCHANGED held
    BY <1>4 DEF GetDigest
  <2>2. reply \in Digests \cup Errors
    BY RepliesTell, <2>1
  <2>3. tried' \in [Calls -> [Identities -> Digests \cup Errors \cup {Nothing}]]
    BY <2>1, <2>2
  <2>4. UNCHANGED <<registryVars, entry, image>>
    BY <1>4 DEF GetDigest
  <2>5. CASE reply \in Digests /\ Hold(c, reply) /\ UNCHANGED answer
    <3>1. [digest |-> reply, age |-> 0]
            \in [digest : Digests \cup {Nothing}, age : 0..MaxDelay]
      BY <2>5, ConstantTypes
    <3> QED BY <2>3, <2>4, <2>5, <3>1 DEF Hold
  <2>6. CASE a # "default" /\ Goto(c, nextIdentity[a]) /\ UNCHANGED <<held, answer>>
    BY <2>3, <2>4, <2>6 DEF nextIdentity, Identities
  <2>7. CASE /\ answer' = [answer EXCEPT ![c] = reply]
             /\ Goto(c, "idle")
             /\ UNCHANGED held
    BY <2>2, <2>3, <2>4, <2>7
  <2> QED BY <2>1, <2>5, <2>6, <2>7
<1>5. ASSUME NEW c \in Calls, AnswerDigest(c) PROVE TypeOK'
  BY <1>5 DEF AnswerDigest
<1>6. ASSUME NEW c \in Calls, SetDigest(c) PROVE TypeOK'
  <2>1. entry' \in [Images -> [digest : Digests \cup {Nothing},
                               left : 0..CacheExpirationTimeForResults]]
    <3>1. [digest |-> held[c].digest, left |-> CacheExpirationTimeForResults]
            \in [digest : Digests \cup {Nothing}, left : 0..CacheExpirationTimeForResults]
      BY ConstantTypes
    <3> QED BY <1>6, <3>1 DEF SetDigest, Store
  <2>2. /\ pc' \in [Calls -> {"idle", "lookup", "reply", "set"} \cup Identities]
        /\ held' \in [Calls -> [digest : Digests \cup {Nothing}, age : 0..MaxDelay]]
    <3>1. NotHeld \in [digest : Digests \cup {Nothing}, age : 0..MaxDelay]
      BY ConstantTypes DEF NotHeld
    <3>2. CASE Release(c)
      BY <3>1, <3>2 DEF Release
    <3>3. CASE UNCHANGED <<pc, held>>
      BY <3>3
    <3> QED BY <1>6, <3>2, <3>3 DEF SetDigest
  <2> QED BY <1>6, <2>1, <2>2 DEF SetDigest
<1>7. ASSUME NEW c \in Calls, Abandon(c) PROVE TypeOK'
  BY <1>7, ConstantTypes DEF Abandon, Release, NotHeld
<1>8. ASSUME NEW i \in Images, Push(i) PROVE TypeOK'
  <2>1. since' \in [Images -> [Digests -> 0..Cap]]
    BY <1>8, ConstantTypes DEF Push
  <2> QED BY <1>8, <2>1 DEF Push
<1>9. ASSUME Tick PROVE TypeOK'
  <2>1. since' \in [Images -> [Digests -> 0..Cap]]
    <3>1. ASSUME NEW s \in 0..Cap PROVE Min(Cap, s + 1) \in 0..Cap
      BY ConstantTypes DEF Min
    <3> QED BY <1>9, <3>1, ConstantTypes DEF Tick
  <2>2. held' \in [Calls -> [digest : Digests \cup {Nothing}, age : 0..MaxDelay]]
    <3>1. ASSUME NEW c \in Calls, held[c] # NotHeld
          PROVE  [held[c] EXCEPT !.age = @ + 1]
                   \in [digest : Digests \cup {Nothing}, age : 0..MaxDelay]
      <4>1. held[c].age \in 0..MaxDelay /\ held[c].age < MaxDelay
        BY <1>9, <3>1 DEF Tick
      <4>2. held[c].age + 1 \in 0..MaxDelay
        BY <4>1, ConstantTypes
      <4>3. held[c] \in [digest : Digests \cup {Nothing}, age : 0..MaxDelay]
        OBVIOUS
      <4> QED BY ONLY <4>2, <4>3
    <3>2. NotHeld \in [digest : Digests \cup {Nothing}, age : 0..MaxDelay]
      BY ConstantTypes DEF NotHeld
    <3> QED BY <1>9, <3>1, <3>2 DEF Tick
  <2>3. entry' \in [Images -> [digest : Digests \cup {Nothing},
                               left : 0..CacheExpirationTimeForResults]]
    <3>1. ASSUME NEW i \in Images, ~(entry[i].left <= 1)
          PROVE  [entry[i] EXCEPT !.left = @ - 1]
                   \in [digest : Digests \cup {Nothing},
                       left : 0..CacheExpirationTimeForResults]
      <4>1. entry[i].left - 1 \in 0..CacheExpirationTimeForResults
        BY <3>1, ConstantTypes
      <4>2. entry[i] \in [digest : Digests \cup {Nothing},
                          left : 0..CacheExpirationTimeForResults]
        OBVIOUS
      <4> QED BY ONLY <4>1, <4>2
    <3>2. NoEntry \in [digest : Digests \cup {Nothing},
                       left : 0..CacheExpirationTimeForResults]
      BY ConstantTypes DEF NoEntry
    <3> QED BY <1>9, <3>1, <3>2 DEF Tick
  <2> QED BY <1>9, <2>1, <2>2, <2>3 DEF Tick
<1>10. ASSUME UNCHANGED vars PROVE TypeOK'
  BY <1>10 DEF vars
<1> QED
  BY <1>1, <1>2, <1>3, <1>4, <1>5, <1>6, <1>7, <1>8, <1>9, <1>10 DEF Next

LEMMA RegistriesStay ==
  ASSUME TypeOK, RegistriesInv, [Next]_vars
  PROVE  RegistriesInv'
<1> USE DEF RegistriesInv, Pinned, TypeOK
<1>1. ASSUME NEW i \in Images, Push(i) PROVE RegistriesInv'
  BY <1>1 DEF Push
<1>2. ASSUME UNCHANGED <<kind, reachable, granted, current>> PROVE RegistriesInv'
  BY <1>2
<1> QED
  BY <1>1, <1>2 DEF Next, vars, registryVars, Call, LookupHit, LookupMiss, GetDigest,
     AnswerDigest, SetDigest, Abandon, Tick

-----------------------------------------------------------------------------
(* Who is told what                                                        *)

LEMMA ErrorsTold ==
  /\ "UnauthorizedErr" # Nothing /\ "unexpected" # Nothing
  /\ \A e \in Missing : e # Nothing /\ e \notin Passing
  /\ Nothing \notin Passing /\ Nothing \notin Missing
  /\ Errors = Missing \cup Passing
  /\ \A e \in Errors : shouldContinueOnError(e) <=> e \in Passing
  /\ \A d \in Digests : d \notin Missing /\ d \notin Passing
BY DigestsAreNoErrors DEF Errors, Missing, Passing, Nothing, shouldContinueOnError

LEMMA TriedInit == ASSUME Init PROVE TriedInv
BY ErrorsTold DEF Init, TriedInv, Told, NotTried, Identities, Missing

(* A step leaves alone what was told to calls that it does not touch.      *)
LEMMA OthersTold ==
  ASSUME NEW d \in Calls, Told(d), UNCHANGED <<kind, granted>>,
         pc'[d] = pc[d], image'[d] = image[d], tried'[d] = tried[d],
         answer'[d] = answer[d]
  PROVE  Told(d)'
BY DEF Told, Applicable

(* A call that ends with what it was told is told no more.                 *)
LEMMA EndTold ==
  ASSUME NEW d \in Calls, Told(d), UNCHANGED <<kind, granted>>,
         pc'[d] \in {"idle", "set"}, image'[d] = image[d], tried'[d] = tried[d],
         answer'[d] = answer[d] \/ answer'[d] \in Digests \cup {Nothing}
  PROVE  Told(d)'
BY ErrorsTold DEF Told, Applicable, Identities, Passing, Missing

(* One that has got an answer from an identity has got it in its turn.     *)
LEMMA RepliesTold ==
  ASSUME TypeOK, RegistriesInv, NEW c \in Calls, Told(c), NEW a \in Identities,
         GetDigest(c, a)
  PROVE  Told(c)'
<1> USE ErrorsTold
<1>1. PICK reply \in Replies(image[c], a) :
        /\ tried' = [tried EXCEPT ![c][a] = reply]
        /\ \/ reply \in Digests /\ Hold(c, reply) /\ UNCHANGED answer
           \/ /\ reply \in Errors
              /\ a # "default" /\ shouldContinueOnError(reply)
              /\ Goto(c, nextIdentity[a])
              /\ UNCHANGED <<held, answer>>
           \/ /\ reply \in Errors
              /\ a = "default" \/ ~shouldContinueOnError(reply)
              /\ answer' = [answer EXCEPT ![c] = reply]
              /\ Goto(c, "idle")
              /\ UNCHANGED held
  BY DEF GetDigest
<1>2. /\ reply \in Digests \cup Errors
      /\ reply = "UnauthorizedErr" => a \notin granted[image[c]]
  BY RepliesTell, <1>1 DEF TypeOK
<1>3. pc[c] = a /\ UNCHANGED <<kind, granted, image>>
  BY DEF GetDigest, registryVars
<1>4. /\ tried'[c][a] = reply
      /\ \A b \in Identities : b # a => tried'[c][b] = tried[c][b]
  BY <1>1 DEF TypeOK
<1>5. a \in Applicable(image[c])
  BY <1>3 DEF Told, Applicable
<1>6. CASE reply \in Digests /\ Hold(c, reply) /\ UNCHANGED answer
  <2>1. pc'[c] = "reply" /\ answer'[c] = Nothing
    BY <1>3, <1>6 DEF Hold, Goto, TypeOK, Told
  <2> QED BY <1>2, <1>3, <1>4, <1>6, <2>1 DEF Told, Identities, Applicable
<1>7. CASE /\ reply \in Errors
           /\ a # "default" /\ shouldContinueOnError(reply)
           /\ Goto(c, nextIdentity[a])
           /\ UNCHANGED <<held, answer>>
  <2>1. pc'[c] = nextIdentity[a] /\ answer'[c] = Nothing
    BY <1>3, <1>7 DEF Goto, TypeOK, Told
  <2>2. reply \in Passing
    BY <1>7
  <2>3. CASE a = "ACR"
    <3>1. pc'[c] = "K8S"
      BY <2>1, <2>3 DEF nextIdentity
    <3> QED BY <1>2, <1>3, <1>4, <2>1, <2>2, <2>3, <3>1 DEF Told, Identities, Applicable
  <2>4. CASE a = "K8S"
    <3>1. pc'[c] = "default"
      BY <2>1, <2>4 DEF nextIdentity
    <3> QED BY <1>2, <1>3, <1>4, <2>1, <2>2, <2>4, <3>1 DEF Told, Identities, Applicable
  <2> QED BY <1>7, <2>3, <2>4 DEF Identities
<1>8. CASE /\ reply \in Errors
           /\ a = "default" \/ ~shouldContinueOnError(reply)
           /\ answer' = [answer EXCEPT ![c] = reply]
           /\ Goto(c, "idle")
           /\ UNCHANGED held
  <2>1. pc'[c] = "idle" /\ answer'[c] = reply
    BY <1>8 DEF Goto, TypeOK
  <2>2. CASE reply \in Missing
    <3>1. reply # "UnauthorizedErr" /\ reply \notin Passing
      BY <2>2 DEF Passing
    <3>2. \E b \in Applicable(image[c])' : tried'[c][b] = answer'[c]
      BY <1>3, <1>4, <1>5, <2>1 DEF Applicable
    <3>3. /\ a = "ACR" => tried[c]["K8S"] = Nothing /\ tried[c]["default"] = Nothing
          /\ a = "K8S" => tried[c]["default"] = Nothing /\ tried[c]["ACR"] \notin Missing
          /\ a = "default" => /\ tried[c]["K8S"] \notin Missing
                              /\ tried[c]["ACR"] \notin Missing
      BY <1>3 DEF Told, Identities
    <3> QED BY <1>2, <1>3, <1>4, <2>1, <2>2, <3>1, <3>2, <3>3 DEF Told, Identities
  <2>3. CASE reply \in Passing
    <3>1. a = "default"
      BY <1>8, <2>3
    <3> QED BY <1>2, <1>3, <1>4, <2>1, <2>3, <3>1 DEF Told, Identities, Applicable
  <2> QED BY <1>8, <2>2, <2>3
<1> QED BY <1>1, <1>6, <1>7, <1>8

LEMMA TriedNext ==
  ASSUME TypeOK, RegistriesInv, TriedInv, [Next]_vars
  PROVE  TriedInv'
<1> SUFFICES ASSUME NEW d \in Calls PROVE Told(d)'
  BY DEF TriedInv
<1> USE DEF TypeOK, registryVars, Goto
<1>t. Told(d)
  BY DEF TriedInv
<1>1. ASSUME NEW c \in Calls, NEW i \in Images, Call(c, i) PROVE Told(d)'
  <2>1. CASE d = c
    <3>1. /\ pc'[c] = "lookup" /\ answer'[c] = Nothing
          /\ \A a \in Identities : tried'[c][a] = Nothing
      BY <1>1 DEF Call, NotTried
    <3> QED BY <2>1, <3>1, ErrorsTold DEF Told, Identities
  <2>2. CASE d # c
    BY <1>1, <1>t, <2>2, OthersTold DEF Call
  <2> QED BY <2>1, <2>2
<1>2. ASSUME NEW c \in Calls, LookupHit(c) PROVE Told(d)'
  <2>1. CASE d = c /\ entry[image[c]].digest \in Digests \cup {Nothing}
    <3>1. /\ pc'[c] = "idle" /\ image'[c] = image[c] /\ tried'[c] = tried[c]
          /\ answer'[c] = entry[image[c]].digest
          /\ UNCHANGED <<kind, granted>>
      BY <1>2 DEF LookupHit
    <3> QED BY <1>t, <2>1, <3>1, EndTold
  <2>2. CASE d # c
    BY <1>2, <1>t, <2>2, OthersTold DEF LookupHit
  <2> QED BY <2>1, <2>2
<1>3. ASSUME NEW c \in Calls, LookupMiss(c) PROVE Told(d)'
  <2>1. CASE d = c
    <3>1. /\ pc[c] = "lookup" /\ answer'[c] = answer[c] /\ tried'[c] = tried[c]
          /\ UNCHANGED <<kind, granted, image>>
          /\ \/ pc'[c] = "reply"
             \/ pc'[c] = "ACR" /\ kind[image[c]] = "ACR"
             \/ pc'[c] = "K8S" /\ kind[image[c]] # "ACR"
      BY <1>3 DEF LookupMiss, Hold, firstIdentity
    <3> QED BY <1>t, <2>1, <3>1, ErrorsTold DEF Told, Identities, Applicable
  <2>2. CASE d # c
    BY <1>3, <1>t, <2>2, OthersTold DEF LookupMiss, Hold
  <2> QED BY <2>1, <2>2
<1>4. ASSUME NEW c \in Calls, NEW a \in Identities, GetDigest(c, a) PROVE Told(d)'
  <2>1. CASE d = c
    BY <1>4, <1>t, <2>1, RepliesTold
  <2>2. CASE d # c
    <3>1. /\ pc'[d] = pc[d] /\ image'[d] = image[d] /\ tried'[d] = tried[d]
          /\ answer'[d] = answer[d] /\ UNCHANGED <<kind, granted>>
      BY <1>4, <2>2 DEF GetDigest, Hold
    <3> QED BY <1>t, <3>1, OthersTold
  <2> QED BY <2>1, <2>2
<1>5. ASSUME NEW c \in Calls, AnswerDigest(c) PROVE Told(d)'
  <2>1. CASE d = c /\ held[c].digest \in Digests \cup {Nothing}
    <3>1. /\ pc'[c] = "set" /\ image'[c] = image[c] /\ tried'[c] = tried[c]
          /\ answer'[c] = held[c].digest
          /\ UNCHANGED <<kind, granted>>
      BY <1>5 DEF AnswerDigest
    <3> QED BY <1>t, <2>1, <3>1, EndTold
  <2>2. CASE d # c
    BY <1>5, <1>t, <2>2, OthersTold DEF AnswerDigest
  <2> QED BY <2>1, <2>2
<1>6. ASSUME NEW c \in Calls, SetDigest(c) \/ Abandon(c) PROVE Told(d)'
  <2>1. CASE pc'[d] = pc[d]
    BY <1>6, <1>t, <2>1, OthersTold DEF SetDigest, Abandon
  <2>2. CASE pc'[d] = "idle"
    BY <1>6, <1>t, <2>2, EndTold DEF SetDigest, Abandon
  <2>3. pc'[d] \in {pc[d], "idle"}
    BY <1>6 DEF SetDigest, Abandon, Release
  <2> QED BY <2>1, <2>2, <2>3
<1>7. ASSUME \/ \E i \in Images : Push(i)
             \/ Tick
             \/ UNCHANGED vars
      PROVE Told(d)'
  BY <1>7, <1>t, OthersTold DEF Push, Tick, vars
<1> QED
  BY <1>1, <1>2, <1>3, <1>4, <1>5, <1>6, <1>7 DEF Next

-----------------------------------------------------------------------------
(* How old a digest may be                                                 *)

RecentInv == HeldInv /\ StoredInv

LEMMA RecentInit == ASSUME Init PROVE RecentInv
BY DEF Init, RecentInv, HeldInv, StoredInv, NoEntry

LEMMA RecentNext ==
  ASSUME TypeOK, RegistriesInv, RecentInv, [Next]_vars
  PROVE  RecentInv'
<1> USE DEF TypeOK, RecentInv, registryVars, Goto
<1>d. \A d \in Digests : d # Nothing
  BY DigestsAreNoErrors
<1>0. ASSUME UNCHANGED <<since, entry, current>> PROVE StoredInv'
  BY <1>0 DEF StoredInv, NoEntry
<1>1. ASSUME NEW c \in Calls, NEW i \in Images, Call(c, i) PROVE RecentInv'
  BY <1>1, <1>0 DEF Call, HeldInv
<1>2. ASSUME NEW c \in Calls, LookupHit(c) PROVE RecentInv'
  BY <1>2, <1>0 DEF LookupHit, HeldInv
<1>3. ASSUME NEW c \in Calls, LookupMiss(c) PROVE RecentInv'
  <2>1. CASE Pinned(image[c])
    <3>1. current[image[c]] \in Digests /\ since[image[c]][current[image[c]]] = 0
      BY <2>1 DEF RegistriesInv, StoredInv
    <3>2. /\ pc' = [pc EXCEPT ![c] = "reply"]
          /\ held' = [held EXCEPT ![c] = [digest |-> current[image[c]], age |-> 0]]
          /\ UNCHANGED <<since, entry, current, image>>
      BY <1>3, <2>1 DEF LookupMiss, Hold
    <3>3. StoredInv'
      BY <1>0, <3>2
    <3>4. HeldInv'
      BY <3>1, <3>2 DEF HeldInv
    <3> QED BY <3>3, <3>4
  <2>2. CASE ~Pinned(image[c])
    <3>1. /\ pc' = [pc EXCEPT ![c] = firstIdentity(image[c])]
          /\ UNCHANGED <<since, entry, current, image, held>>
          /\ pc[c] = "lookup"
      BY <1>3, <2>2 DEF LookupMiss
    <3>2. firstIdentity(image[c]) \notin {"reply", "set"}
      BY DEF firstIdentity
    <3> QED BY <1>0, <3>1, <3>2 DEF HeldInv
  <2> QED BY <2>1, <2>2
<1>4. ASSUME NEW c \in Calls, NEW a \in Identities, GetDigest(c, a) PROVE RecentInv'
  <2>1. PICK reply \in Replies(image[c], a) :
          \/ reply \in Digests /\ Hold(c, reply)
          \/ /\ a # "default"
             /\ Goto(c, nextIdentity[a])
             /\ UNCHANGED held
          \/ /\ Goto(c, "idle")
             /\ UNCHANGED held
    BY <1>4 DEF GetDigest
  <2>2. /\ pc[c] = a /\ a \notin {"reply", "set"}
        /\ UNCHANGED <<since, entry, current, image>>
    BY <1>4 DEF GetDigest, Identities
  <2>3. CASE reply \in Digests /\ Hold(c, reply)
    <3>1. reply = current[image[c]]
      BY <2>1, <2>3, RepliesTell
    <3>2. since[image[c]][reply] = 0
      BY <2>3, <3>1 DEF StoredInv
    <3>3. HeldInv'
      BY <2>2, <2>3, <3>2 DEF Hold, HeldInv
    <3> QED BY <1>0, <2>2, <3>3
  <2>4. CASE a # "default" /\ Goto(c, nextIdentity[a]) /\ UNCHANGED held
    <3>1. nextIdentity[a] \notin {"reply", "set"}
      BY <2>4 DEF nextIdentity, Identities
    <3> QED BY <1>0, <2>2, <2>4, <3>1 DEF HeldInv
  <2>5. CASE Goto(c, "idle") /\ UNCHANGED held
    BY <1>0, <2>2, <2>5 DEF HeldInv
  <2> QED BY <2>1, <2>3, <2>4, <2>5
<1>5. ASSUME NEW c \in Calls, AnswerDigest(c) PROVE RecentInv'
  BY <1>5, <1>0 DEF AnswerDigest, HeldInv
<1>6. ASSUME NEW c \in Calls, SetDigest(c) PROVE RecentInv'
  <2> DEFINE i == image[c]
             d == held[c].digest
  <2>1. d \in Digests /\ since[i][d] <= held[c].age /\ held[c].age <= MaxDelay
    BY <1>6, ConstantTypes DEF SetDigest, HeldInv
  <2>2. /\ entry' = [entry EXCEPT ![i] =
                      [digest |-> d, left |-> CacheExpirationTimeForResults]]
        /\ UNCHANGED <<since, current, image>>
    BY <1>6 DEF SetDigest, Store
  <2>3. since[i][d] + CacheExpirationTimeForResults
          <= CacheExpirationTimeForResults + MaxDelay
    <3>1. since[i][d] \in Nat /\ held[c].age \in Nat
      BY <2>1, ConstantTypes
    <3> QED BY ONLY <2>1, <3>1, ConstantTypes
  <2>4. StoredInv'
    <3> SUFFICES ASSUME NEW j \in Images
                 PROVE  /\ entry'[j] # NoEntry =>
                             /\ entry'[j].digest \in Digests
                             /\ entry'[j].left >= 1
                             /\ since[j][entry'[j].digest] + entry'[j].left
                                  <= CacheExpirationTimeForResults + MaxDelay
                        /\ current[j] \in Digests => since[j][current[j]] = 0
      BY <2>2 DEF StoredInv, NoEntry
    <3>1. CASE j = i
      <4>1. entry'[j] = [digest |-> d, left |-> CacheExpirationTimeForResults]
        BY <2>2, <3>1
      <4> QED BY <2>1, <2>3, <3>1, <4>1, ConstantTypes DEF StoredInv
    <3>2. CASE j # i
      BY <2>2, <3>2 DEF StoredInv
    <3> QED BY <3>1, <3>2
  <2>5. HeldInv'
    <3>1. CASE Release(c)
      BY <2>2, <3>1 DEF Release, HeldInv
    <3>2. CASE UNCHANGED <<pc, held>>
      BY <2>2, <3>2 DEF HeldInv, NotHeld
    <3> QED BY <1>6, <3>1, <3>2 DEF SetDigest
  <2> QED BY <2>4, <2>5
<1>7. ASSUME NEW c \in Calls, Abandon(c) PROVE RecentInv'
  BY <1>7, <1>0 DEF Abandon, Release, HeldInv
<1>8. ASSUME NEW i \in Images, Push(i) PROVE RecentInv'
  <2>1. PICK d \in Digests \cup {Absent} :
          /\ current' = [current EXCEPT ![i] = d]
          /\ since' = [since EXCEPT ![i] = [e \in Digests |-> IF e = d THEN 0 ELSE @[e]]]
    BY <1>8 DEF Push
  <2>2. UNCHANGED <<entry, pc, image, held>>
    BY <1>8 DEF Push
  <2>3. \A j \in Images, e \in Digests : since'[j][e] <= since[j][e]
    BY <2>1, ConstantTypes
  <2>4. \A j \in Images, e \in Digests : since[j][e] \in Nat /\ since'[j][e] \in Nat
    BY <2>1, ConstantTypes
  <2>5. StoredInv'
    <3> SUFFICES ASSUME NEW j \in Images
                 PROVE  /\ entry[j] # NoEntry =>
                             /\ entry[j].digest \in Digests
                             /\ entry[j].left >= 1
                             /\ since'[j][entry[j].digest] + entry[j].left
                                  <= CacheExpirationTimeForResults + MaxDelay
                        /\ current'[j] \in Digests => since'[j][current'[j]] = 0
      BY <2>2 DEF StoredInv, NoEntry
    <3>1. current'[j] \in Digests => since'[j][current'[j]] = 0
      BY <2>1 DEF StoredInv
    <3>2. CASE entry[j] # NoEntry
      <4>1. /\ entry[j].digest \in Digests
            /\ entry[j].left >= 1 /\ entry[j].left \in Nat
            /\ since[j][entry[j].digest] + entry[j].left
                 <= CacheExpirationTimeForResults + MaxDelay
        BY <3>2, ConstantTypes DEF StoredInv
      <4>2. /\ since'[j][entry[j].digest] <= since[j][entry[j].digest]
            /\ since[j][entry[j].digest] \in Nat
            /\ since'[j][entry[j].digest] \in Nat
        BY <2>3, <2>4, <4>1
      <4>3. since'[j][entry[j].digest] + entry[j].left
              <= CacheExpirationTimeForResults + MaxDelay
        BY ONLY <4>1, <4>2, ConstantTypes
      <4> QED BY <3>1, <4>1, <4>3
    <3> QED BY <3>1, <3>2
  <2>6. HeldInv'
    <3> SUFFICES ASSUME NEW c \in Calls, pc[c] \in {"reply", "set"}
                 PROVE  /\ held[c].digest \in Digests
                        /\ since'[image[c]][held[c].digest] <= held[c].age
      BY <2>2 DEF HeldInv, NotHeld
    <3>1. /\ held[c].digest \in Digests
          /\ since[image[c]][held[c].digest] <= held[c].age
      BY DEF HeldInv
    <3>2. held[c].age \in Nat
      BY ConstantTypes
    <3>3. /\ since'[image[c]][held[c].digest] <= since[image[c]][held[c].digest]
          /\ since[image[c]][held[c].digest] \in Nat
          /\ since'[image[c]][held[c].digest] \in Nat
      BY <2>3, <2>4, <3>1
    <3> QED BY ONLY <3>1, <3>2, <3>3
  <2> QED BY <2>5, <2>6
<1>9. ASSUME Tick PROVE RecentInv'
  <2>1. /\ held' = [c \in Calls |->
                IF held[c] = NotHeld THEN NotHeld ELSE [held[c] EXCEPT !.age = @ + 1]]
        /\ entry' = [i \in Images |->
                IF entry[i].left <= 1 THEN NoEntry ELSE [entry[i] EXCEPT !.left = @ - 1]]
        /\ UNCHANGED <<pc, image, current>>
    BY <1>9 DEF Tick
  <2>2. \A j \in Images, e \in Digests :
          since'[j][e] = IF e = current[j] THEN 0 ELSE Min(Cap, since[j][e] + 1)
    BY <1>9 DEF Tick
  <2>3. ASSUME NEW j \in Images, NEW e \in Digests
        PROVE  since[j][e] \in Nat /\ since'[j][e] \in Nat
               /\ since'[j][e] <= since[j][e] + 1
    <3>1. since[j][e] \in Nat
      BY ConstantTypes
    <3>2. Min(Cap, since[j][e] + 1) \in Nat /\ Min(Cap, since[j][e] + 1) <= since[j][e] + 1
      BY <3>1, ConstantTypes DEF Min
    <3>3. since'[j][e] = 0 \/ since'[j][e] = Min(Cap, since[j][e] + 1)
      BY <2>2
    <3> QED BY ONLY <3>1, <3>2, <3>3
  <2>4. StoredInv'
    <3> SUFFICES ASSUME NEW j \in Images
                 PROVE  /\ entry'[j] # NoEntry =>
                             /\ entry'[j].digest \in Digests
                             /\ entry'[j].left >= 1
                             /\ since'[j][entry'[j].digest] + entry'[j].left
                                  <= CacheExpirationTimeForResults + MaxDelay
                        /\ current[j] \in Digests => since'[j][current[j]] = 0
      BY <2>1 DEF StoredInv, NoEntry
    <3>1. current[j] \in Digests => since'[j][current[j]] = 0
      BY <2>2
    <3>2. CASE ~(entry[j].left <= 1)
      <4>1. entry[j] # NoEntry
        BY <3>2 DEF NoEntry
      <4>2. /\ entry[j].digest \in Digests /\ entry[j].left \in Nat
            /\ since[j][entry[j].digest] + entry[j].left
                 <= CacheExpirationTimeForResults + MaxDelay
        BY <4>1, ConstantTypes DEF StoredInv
      <4>3. /\ entry'[j].digest = entry[j].digest
            /\ entry'[j].left = entry[j].left - 1
        BY <2>1, <3>2
      <4>4. /\ since[j][entry[j].digest] \in Nat
            /\ since'[j][entry[j].digest] \in Nat
            /\ since'[j][entry[j].digest] <= since[j][entry[j].digest] + 1
        BY <2>3, <4>2
      <4>5. /\ entry[j].left - 1 >= 1
            /\ since'[j][entry[j].digest] + (entry[j].left - 1)
                 <= CacheExpirationTimeForResults + MaxDelay
        BY ONLY <3>2, <4>2, <4>4, ConstantTypes
      <4> QED BY <3>1, <4>2, <4>3, <4>5
    <3>3. CASE entry[j].left <= 1
      BY <2>1, <3>1, <3>3
    <3> QED BY <3>2, <3>3
  <2>5. HeldInv'
    <3> SUFFICES ASSUME NEW c \in Calls
                 PROVE  IF pc[c] \in {"reply", "set"}
                        THEN /\ held'[c].digest \in Digests
                             /\ since'[image[c]][held'[c].digest] <= held'[c].age
                        ELSE held'[c] = NotHeld
      BY <2>1 DEF HeldInv, NotHeld
    <3>1. CASE pc[c] \in {"reply", "set"}
      <4>1. /\ held[c].digest \in Digests
            /\ since[image[c]][held[c].digest] <= held[c].age
        BY <3>1 DEF HeldInv
      <4>2. held[c] # NotHeld
        BY <1>d, <4>1 DEF NotHeld
      <4>3. held'[c].digest = held[c].digest /\ held'[c].age = held[c].age + 1
        BY <2>1, <4>2
      <4>4. /\ since[image[c]][held[c].digest] \in Nat
            /\ since'[image[c]][held[c].digest] \in Nat
            /\ since'[image[c]][held[c].digest] <= since[image[c]][held[c].digest] + 1
        BY <2>3, <4>1
      <4>5. held[c].age \in Nat
        BY ConstantTypes
      <4>6. since'[image[c]][held[c].digest] <= held[c].age + 1
        BY ONLY <4>1, <4>4, <4>5
      <4> QED BY <3>1, <4>1, <4>3, <4>6
    <3>2. CASE pc[c] \notin {"reply", "set"}
      BY <2>1, <3>2 DEF HeldInv
    <3> QED BY <3>1, <3>2
  <2> QED BY <2>4, <2>5
<1>10. ASSUME UNCHANGED vars PROVE RecentInv'
  BY <1>10, <1>0 DEF vars, HeldInv, NotHeld
<1> QED
  BY <1>1, <1>2, <1>3, <1>4, <1>5, <1>6, <1>7, <1>8, <1>9, <1>10 DEF Next

-----------------------------------------------------------------------------
(* Theorems                                                                *)

(* Every state has its types, and the registries that do not exist grant   *)
(* nothing.                                                                *)
THEOREM TypeCorrect == Spec => [](TypeOK /\ RegistriesInv)
<1>1. Init => TypeOK /\ RegistriesInv
  BY TypesInit DEF Init, RegistriesInv
<1>2. TypeOK /\ RegistriesInv /\ [Next]_vars => (TypeOK /\ RegistriesInv)'
  BY TypesNext, RegistriesStay
<1> QED BY <1>1, <1>2, PTL DEF Spec

LEMMA TriedAlways == Spec => []TriedInv
<1>1. Init => TriedInv
  BY TriedInit
<1>2. TypeOK /\ RegistriesInv /\ TriedInv /\ [Next]_vars => TriedInv'
  BY TriedNext
<1> QED BY <1>1, <1>2, TypeCorrect, PTL DEF Spec

(* An image is reported unauthorized only if each identity that may read   *)
(* it has failed for another reason.                                       *)
THEOREM UnauthorizedAfterAll == Spec => []UnauthorizedOnlyAfterAll
<1>1. TriedInv => UnauthorizedOnlyAfterAll
  BY ErrorsTold DEF TriedInv, Told, UnauthorizedOnlyAfterAll, Applicable, Passing,
     Identities
<1> QED BY <1>1, TriedAlways, PTL

(* What is reported missing was missed by an identity, the last one asked; *)
(* the identity of the cluster is asked for on registries of ACR only.     *)
THEOREM MissingEndsTheSearch == Spec => []MissingIsFinal
<1>1. TriedInv => MissingIsFinal
  BY DEF TriedInv, Told, MissingIsFinal, Missing, nextIdentity
<1> QED BY <1>1, TriedAlways, PTL

LEMMA RecentAlways == Spec => []RecentInv
<1>1. Init => RecentInv
  BY RecentInit
<1>2. TypeOK /\ RegistriesInv /\ RecentInv /\ [Next]_vars => RecentInv'
  BY RecentNext
<1> QED BY <1>1, <1>2, TypeCorrect, PTL DEF Spec

(* Only a call that finds a digest in redis, or holds one, answers it.     *)
LEMMA AnswersComeFrom ==
  ASSUME TypeOK, RegistriesInv, [Next]_vars, NEW c \in Calls,
         answer'[c] # answer[c], answer'[c] \in Digests
  PROVE  LookupHit(c) \/ AnswerDigest(c)
<1> USE DEF TypeOK, registryVars
<1>d. \A d \in Digests : d \notin Errors /\ d # Nothing
  BY DigestsAreNoErrors
<1>1. ASSUME NEW b \in Calls, NEW i \in Images, Call(b, i) PROVE FALSE
  BY <1>1, <1>d DEF Call
<1>2. ASSUME NEW b \in Calls, LookupHit(b) \/ AnswerDigest(b) PROVE b = c
  BY <1>2 DEF LookupHit, AnswerDigest
<1>3. ASSUME NEW b \in Calls, NEW a \in Identities, GetDigest(b, a) PROVE FALSE
  <2>1. \/ UNCHANGED answer
        \/ \E reply \in Errors : answer' = [answer EXCEPT ![b] = reply]
    BY <1>3 DEF GetDigest
  <2> QED BY <1>d, <2>1
<1>4. ASSUME UNCHANGED answer PROVE FALSE
  BY <1>4
<1> QED
  BY <1>1, <1>2, <1>3, <1>4 DEF Next, vars, LookupMiss, SetDigest, Abandon, Push, Tick

(* No digest is answered longer after its tag has moved than it is stored  *)
(* and on its way.                                                         *)
THEOREM RecentAnswers == Spec => AnswersAreRecent
<1>1. ASSUME TypeOK, RegistriesInv, RecentInv, [Next]_vars, NEW c \in Calls,
             answer'[c] # answer[c], answer'[c] \in Digests
      PROVE  since[image[c]][answer'[c]] <= CacheExpirationTimeForResults + MaxDelay
  <2> USE DEF TypeOK
  <2>1. since[image[c]][answer'[c]] \in Nat
    BY <1>1, ConstantTypes
  <2>2. CASE LookupHit(c)
    <3>1. /\ entry[image[c]] # NoEntry
          /\ answer'[c] = entry[image[c]].digest
      BY <1>1, <2>2 DEF LookupHit
    <3>2. /\ entry[image[c]].left >= 1 /\ entry[image[c]].left \in Nat
          /\ since[image[c]][answer'[c]] + entry[image[c]].left
               <= CacheExpirationTimeForResults + MaxDelay
      BY <1>1, <3>1, ConstantTypes DEF RecentInv, StoredInv
    <3> QED BY ONLY <2>1, <3>2, ConstantTypes
  <2>3. CASE AnswerDigest(c)
    <3>1. pc[c] = "reply" /\ answer'[c] = held[c].digest
      BY <1>1, <2>3 DEF AnswerDigest
    <3>2. since[image[c]][answer'[c]] <= held[c].age
      BY <1>1, <3>1 DEF RecentInv, HeldInv
    <3>3. held[c].age \in Nat /\ held[c].age <= MaxDelay
      BY <1>1, ConstantTypes
    <3> QED BY ONLY <2>1, <3>2, <3>3, ConstantTypes
  <2> QED BY <1>1, <2>2, <2>3, AnswersComeFrom
<1>2. TypeOK /\ RegistriesInv /\ RecentInv /\ [Next]_vars =>
        [\A c \in Calls :
          answer'[c] # answer[c] /\ answer'[c] \in Digests =>
            since[image[c]][answer'[c]] <= CacheExpirationTimeForResults + MaxDelay]_vars
  BY <1>1
<1> QED BY <1>2, TypeCorrect, RecentAlways, PTL DEF Spec, AnswersAreRecent

-----------------------------------------------------------------------------
(* A call returns: the goroutines of a scan wait for it (ContainerScan).   *)

(* Fairness is stated by the guard of a step, which is what weak fairness  *)
(* comes to where the guard enables the step.                              *)
LEMMA WeakFairness ==
  ASSUME STATE G, STATE f, ACTION A
  PROVE  [](G => ENABLED <<A>>_f) /\ WF_f(A) => []([]G => <><<A>>_f)
BY PTL

ResolveStep(c) ==
  \/ LookupHit(c)
  \/ LookupMiss(c)
  \/ \E a \in Identities : GetDigest(c, a)
  \/ AnswerDigest(c)
  \/ Abandon(c)

Resolving(c) == pc[c] \in {"lookup", "reply"} \cup Identities

\* Redis, registries and the identities' tokens answer, with an error if need be.
ResolveRuns(c) == []Resolving(c) => <><<ResolveStep(c)>>_vars

LEMMA Forward ==
  ASSUME TypeOK, NEW c \in Calls, [Next]_vars
  PROVE  /\ pc[c] = "lookup" => pc'[c] \in {"lookup", "ACR", "K8S", "reply", "idle"}
         /\ pc[c] = "ACR" => pc'[c] \in {"ACR", "K8S", "reply", "idle"}
         /\ pc[c] = "K8S" => pc'[c] \in {"K8S", "default", "reply", "idle"}
         /\ pc[c] = "default" => pc'[c] \in {"default", "reply", "idle"}
         /\ pc[c] = "reply" => pc'[c] \in {"reply", "set", "idle"}
<1> USE DEF TypeOK, Goto
<1>1. ASSUME NEW d \in Calls, NEW i \in Images, Call(d, i) PROVE pc[d] = "idle" /\ pc' = [pc EXCEPT ![d] = "lookup"]
  BY <1>1 DEF Call
<1>2. CASE \E d \in Calls, i \in Images : Call(d, i)
  BY <1>1, <1>2
<1>3. ASSUME NEW d \in Calls, LookupHit(d) \/ LookupMiss(d) \/ AnswerDigest(d)
               \/ SetDigest(d) \/ Abandon(d)
      PROVE  \/ d # c /\ pc'[c] = pc[c]
             \/ pc'[c] \in {pc[c], "idle"}
             \/ pc[c] = "lookup" /\ pc'[c] \in {"ACR", "K8S", "reply"}
             \/ pc[c] = "reply" /\ pc'[c] = "set"
  BY <1>3 DEF LookupHit, LookupMiss, AnswerDigest, SetDigest, Abandon, Release, Hold,
     firstIdentity
<1>4. ASSUME NEW d \in Calls, NEW a \in Identities, GetDigest(d, a)
      PROVE  \/ d # c /\ pc'[c] = pc[c]
             \/ pc[c] = a /\ pc'[c] \in {"reply", "idle"}
             \/ pc[c] = a /\ a # "default" /\ pc'[c] = nextIdentity[a]
  BY <1>4 DEF GetDigest, Hold
<1>5. nextIdentity["ACR"] = "K8S" /\ nextIdentity["K8S"] = "default"
  BY DEF nextIdentity
<1>6. CASE \E d \in Calls : \E a \in Identities : GetDigest(d, a)
  BY <1>4, <1>5, <1>6 DEF Identities
<1>7. CASE (\E i \in Images : Push(i)) \/ Tick \/ UNCHANGED vars
  BY <1>7 DEF Push, Tick, vars
<1> QED BY <1>2, <1>3, <1>6, <1>7 DEF Next

LEMMA ResolveMoves ==
  ASSUME TypeOK, NEW c \in Calls, Resolving(c), ResolveStep(c)
  PROVE  pc'[c] # pc[c]
<1> USE DEF TypeOK, Goto, Resolving
<1>1. ASSUME NEW a \in Identities, GetDigest(c, a) PROVE pc'[c] # pc[c]
  <2>1. pc[c] = a /\ pc'[c] \in {"reply", "idle", nextIdentity[a]}
    BY <1>1 DEF GetDigest, Hold
  <2>2. a # "default" => nextIdentity[a] # a
    BY DEF nextIdentity, Identities
  <2>3. a = "default" => pc'[c] \in {"reply", "idle"}
    BY <1>1 DEF GetDigest, Hold
  <2> QED BY <2>1, <2>2, <2>3 DEF Identities
<1>2. CASE LookupHit(c) \/ LookupMiss(c) \/ AnswerDigest(c) \/ Abandon(c)
  BY <1>2 DEF LookupHit, LookupMiss, AnswerDigest, Abandon, Release, Hold,
     firstIdentity, Identities
<1> QED BY <1>1, <1>2 DEF ResolveStep

(* Whatever the registries say and however tags move meanwhile, a call     *)
(* that asks returns: no identity is asked twice.                          *)
THEOREM ResolveReturns ==
  ASSUME NEW c \in Calls
  PROVE  Spec /\ []ResolveRuns(c) => (pc[c] = "lookup" ~> pc[c] \in {"idle", "set"})
<1> DEFINE Lookup == pc[c] = "lookup"
           ACR == pc[c] = "ACR"
           K8S == pc[c] = "K8S"
           Default == pc[c] = "default"
           Reply == pc[c] = "reply"
           Returned == pc[c] \in {"idle", "set"}
<1>1. TypeOK /\ [Next]_vars =>
        /\ Lookup => (Lookup \/ ACR \/ K8S \/ Reply \/ Returned)'
        /\ ACR => (ACR \/ K8S \/ Reply \/ Returned)'
        /\ K8S => (K8S \/ Default \/ Reply \/ Returned)'
        /\ Default => (Default \/ Reply \/ Returned)'
        /\ Reply => (Reply \/ Returned)'
  BY Forward
<1>2. TypeOK /\ <<ResolveStep(c)>>_vars =>
        /\ Lookup => ~Lookup'
        /\ ACR => ~ACR'
        /\ K8S => ~K8S'
        /\ Default => ~Default'
        /\ Reply => ~Reply'
  BY ResolveMoves DEF Resolving, Identities
<1>3. Lookup \/ ACR \/ K8S \/ Default \/ Reply => Resolving(c)
  BY DEF Resolving, Identities
<1> QED BY <1>1, <1>2, <1>3, TypeCorrect, PTL DEF Spec, ResolveRuns
=============================================================================
