------------------------ MODULE ContainerScan_proofs ------------------------
(***************************************************************************)
(* Theorems about ContainerScan, for every finite set of containers.       *)
(*                                                                         *)
(* What is in the channel and what was received name each container whose  *)
(* goroutine has ended once.  A sender therefore finds room, by counting;  *)
(* and once as many infos were received as there are containers, each of   *)
(* them is there, by the pigeonhole principle. Each goroutine ends; and    *)
(* the steps that are left to all of them and to the caller become fewer,  *)
(* down to the answer.                                                     *)
(***************************************************************************)
EXTENDS ContainerScan, FiniteSetTheorems, SequenceTheorems, TLAPS

\* What a goroutine has found, by how far it is and by its container's image.
LookUpInv ==
  \A c \in Containers :
    /\ found[c] = Pending <=> pc[c] \in {"parse", "resolve", "query"}
    /\ pc[c] \in {"resolve", "query"} => image[c] = "ACR"
    /\ found[c] # Pending /\ image[c] = "malformed" => found[c] = Failed
    /\ found[c] # Pending /\ image[c] = "other registry" =>
         found[c] = Unscanned("ImageIsNotInACR")

\* A message is what an ended goroutine found.
IsSent(message) ==
  pc[message.of] = "ended" /\ message.found = found[message.of]

SentInv ==
  /\ \A i \in 1..Len(channel) : IsSent(channel[i])
  /\ \A i \in 1..Len(received) : IsSent(received[i])

\* No container sent twice.
OnceInv ==
  /\ \A i, j \in 1..Len(channel) : channel[i].of = channel[j].of => i = j
  /\ \A i, j \in 1..Len(received) : received[i].of = received[j].of => i = j
  /\ \A i \in 1..Len(channel), j \in 1..Len(received) :
       channel[i].of # received[j].of

AnswerInv ==
  /\ closed <=> HasResults
  /\ HasResults => Len(received) = Cardinality(Containers)

IInv == TypeOK /\ LookUpInv /\ SentInv /\ OnceInv /\ AnswerInv

-----------------------------------------------------------------------------

(* The errors with a known reason, and what they become, are infos.        *)
LEMMA UnscannedIsInfo ==
  /\ Unscanned("ImageIsNotInACR") \in Infos
  /\ \A e \in KnownErrors : Unscanned(unscannedReason[e]) \in Infos
BY DEF Unscanned, Infos, Reasons, KnownErrors, ScanStatuses

(* An error or a pending look-up is told from every info.                  *)
LEMMA NotInfos == Failed \notin Infos /\ Pending \notin Infos /\ Failed # Pending
BY DEF Failed, Pending, Infos, ScanStatuses

(* The messages of a sequence.                                             *)
LEMMA Messages ==
  ASSUME NEW Body, NEW s \in Seq([of : Containers, found : Body])
  PROVE  /\ Len(s) \in Nat
         /\ DOMAIN s = 1..Len(s)
         /\ \A i \in 1..Len(s) :
              /\ s[i].of \in Containers /\ s[i].found \in Body
              /\ s[i] = [of |-> s[i].of, found |-> s[i].found]
<1> DEFINE Message == [of : Containers, found : Body]
<1>1. s \in Seq(Message)
  OBVIOUS
<1>2. \A m \in Message :
        /\ m.of \in Containers /\ m.found \in Body
        /\ m = [of |-> m.of, found |-> m.found]
  OBVIOUS
<1> HIDE DEF Message
<1>3. Len(s) \in Nat /\ s \in [1..Len(s) -> Message]
  BY <1>1, LenProperties
<1> QED BY <1>2, <1>3

(* A sequence of messages that names no container twice, nor those of D,   *)
(* is no longer than the other containers are many; one that is as long as *)
(* the containers are many names all of them.                              *)
LEMMA Pigeonhole ==
  ASSUME NEW D \in SUBSET Containers, NEW Body,
         NEW s \in Seq([of : Containers, found : Body]),
         \A i, j \in 1..Len(s) : s[i].of = s[j].of => i = j,
         \A i \in 1..Len(s) : s[i].of \notin D
  PROVE  /\ Len(s) <= Cardinality(Containers \ D)
         /\ Len(s) = Cardinality(Containers \ D) =>
              \A c \in Containers \ D : \E i \in 1..Len(s) : s[i].of = c
<1> DEFINE n == Len(s)
           T == Containers \ D
           f == [i \in 1..n |-> s[i].of]
<1>1. n \in Nat /\ \A i \in 1..n : s[i].of \in Containers
  BY Messages
<1>2. IsFiniteSet(T)
  BY ContainersAssumption, FS_Subset
<1>3. f \in Injection(1..n, T)
  <2>1. f \in [1..n -> T]
    BY <1>1
  <2>2. \A i, j \in 1..n : f[i] = f[j] => i = j
    OBVIOUS
  <2> QED BY <2>1, <2>2 DEF Injection, IsInjective
<1>4. IsFiniteSet(1..n) /\ Cardinality(1..n) = n
  <2>1. 1 \in Int /\ n \in Int
    BY <1>1
  <2> HIDE DEF n
  <2>2. IsFiniteSet(1..n) /\ Cardinality(1..n) = IF 1 > n THEN 0 ELSE n - 1 + 1
    BY <2>1, FS_Interval
  <2> QED BY <1>1, <2>2
<1>5. /\ Cardinality(1..n) <= Cardinality(T)
      /\ Cardinality(1..n) = Cardinality(T) <=> f \in Surjection(1..n, T)
  <2> HIDE DEF f, T, n
  <2> QED BY <1>2, <1>3, FS_Injection
<1>6. f \in Surjection(1..n, T) => \A c \in T : \E i \in 1..n : f[i] = c
  BY DEF Surjection
<1> QED BY <1>4, <1>5, <1>6

-----------------------------------------------------------------------------

LEMMA InitIInv == Init => IInv
<1> SUFFICES ASSUME Init PROVE IInv
  OBVIOUS
<1>1. TypeOK
  <2>1. /\ channel \in Seq([of : Containers, found : Infos \cup {Failed}])
        /\ received \in Seq([of : Containers, found : Infos])
    BY EmptySeq DEF Init
  <2> QED BY <2>1 DEF Init, TypeOK
<1>2. LookUpInv
  BY DEF Init, LookUpInv
<1>3. SentInv /\ OnceInv
  BY DEF Init, SentInv, OnceInv
<1>4. AnswerInv
  BY DEF Init, AnswerInv, HasResults
<1> QED BY <1>1, <1>2, <1>3, <1>4 DEF IInv

(* What a step of a goroutine changes of its look-up: it finds nothing yet *)
(* and goes on, or finds one thing for good.                               *)
GoesOn(c) ==
  /\ pc[c] \in {"parse", "resolve"}
  /\ pc' = [pc EXCEPT ![c] = IF pc[c] = "parse" THEN "resolve" ELSE "query"]
  /\ pc[c] = "parse" => image[c] = "ACR"
  /\ UNCHANGED found

Finds(c) ==
  /\ pc[c] \in {"parse", "resolve", "query"}
  /\ pc[c] # "parse" => image[c] = "ACR"
  /\ \E o \in Infos \cup {Failed} :
       /\ Find(c, o)
       /\ image[c] = "malformed" => o = Failed
       /\ image[c] = "other registry" => o = Unscanned("ImageIsNotInACR")

LEMMA LookUpSteps ==
  ASSUME IInv, NEW c \in Containers,
         ParseImage(c) \/ ResolveDigest(c) \/ GetScanResults(c)
  PROVE  /\ GoesOn(c) \/ Finds(c)
         /\ UNCHANGED <<image, channel, closed, received, answer>>
<1> USE DEF IInv, TypeOK
<1>1. image[c] \in ImageKinds
  OBVIOUS
<1>2. \A e \in Errors : FindError(c, e) =>
        \E o \in Infos \cup {Failed} : Find(c, o)
  BY UnscannedIsInfo DEF FindError
<1>3. CASE ParseImage(c)
  <2>1. CASE image[c] = "malformed"
    BY <1>3, <2>1, <1>1 DEF ParseImage, Finds
  <2>2. CASE image[c] = "other registry"
    BY <1>3, <2>2, <1>1, UnscannedIsInfo DEF ParseImage, Finds
  <2>3. CASE image[c] = "ACR"
    BY <1>3, <2>3 DEF ParseImage, GoesOn
  <2> QED BY <2>1, <2>2, <2>3, <1>1 DEF ImageKinds
<1>4. CASE ResolveDigest(c)
  <2>1. pc[c] = "resolve" /\ image[c] = "ACR"
    BY <1>4 DEF ResolveDigest, LookUpInv
  <2>2. CASE \E e \in Errors : FindError(c, e)
    BY <1>2, <1>4, <2>1, <2>2 DEF ResolveDigest, Finds
  <2>3. CASE pc' = [pc EXCEPT ![c] = "query"] /\ UNCHANGED found
    BY <1>4, <2>1, <2>3 DEF ResolveDigest, GoesOn
  <2> QED BY <1>4, <2>2, <2>3 DEF ResolveDigest
<1>5. CASE GetScanResults(c)
  <2>1. pc[c] = "query" /\ image[c] = "ACR"
    BY <1>5 DEF GetScanResults, LookUpInv
  <2>2. CASE \E e \in Errors : FindError(c, e)
    BY <1>2, <1>5, <2>1, <2>2 DEF GetScanResults, Finds
  <2>3. CASE \E status \in ScanStatuses :
               Find(c, [status |-> status, reason |-> NoReason])
    <3>1. \A status \in ScanStatuses : [status |-> status, reason |-> NoReason] \in Infos
      BY DEF Infos, Reasons
    <3> QED BY <1>5, <2>1, <2>3, <3>1 DEF GetScanResults, Finds
  <2> QED BY <1>5, <2>2, <2>3 DEF GetScanResults
<1> QED BY <1>3, <1>4, <1>5

LEMMA LookUpKeepsIInv ==
  ASSUME IInv, NEW c \in Containers, GoesOn(c) \/ Finds(c),
         UNCHANGED <<image, channel, closed, received, answer>>
  PROVE  IInv'
<1>1. /\ pc \in [Containers -> {"parse", "resolve", "query", "send", "ended"}]
      /\ found \in [Containers -> Infos \cup {Pending, Failed}]
  BY DEF IInv, TypeOK
<1>2. /\ pc[c] \notin {"send", "ended"} /\ pc'[c] # "ended"
      /\ \A d \in Containers \ {c} : pc'[d] = pc[d] /\ found'[d] = found[d]
  BY <1>1 DEF GoesOn, Finds, Find
<1>3. TypeOK'
  BY <1>1 DEF IInv, TypeOK, GoesOn, Finds, Find
<1>4. LookUpInv'
  <2> SUFFICES ASSUME NEW d \in Containers
               PROVE  /\ found'[d] = Pending <=> pc'[d] \in {"parse", "resolve", "query"}
                      /\ pc'[d] \in {"resolve", "query"} => image[d] = "ACR"
                      /\ found'[d] # Pending /\ image[d] = "malformed" => found'[d] = Failed
                      /\ found'[d] # Pending /\ image[d] = "other registry" =>
                           found'[d] = Unscanned("ImageIsNotInACR")
    BY DEF LookUpInv
  <2>1. CASE d # c
    BY <1>2, <2>1 DEF IInv, LookUpInv
  <2>2. CASE d = c /\ GoesOn(c)
    BY <1>1, <2>2 DEF IInv, LookUpInv, GoesOn
  <2>3. CASE d = c /\ Finds(c)
    BY <1>1, <2>3, NotInfos DEF IInv, LookUpInv, Finds, Find
  <2> QED BY <2>1, <2>2, <2>3
<1>5. SentInv'
  <2>1. /\ \A i \in 1..Len(channel) : channel[i].of \in Containers
        /\ \A i \in 1..Len(received) : received[i].of \in Containers
    BY Messages DEF IInv, TypeOK
  <2> QED BY <1>2, <2>1 DEF IInv, SentInv, IsSent
<1>6. OnceInv' /\ AnswerInv'
  BY DEF IInv, OnceInv, AnswerInv, HasResults
<1> QED BY <1>3, <1>4, <1>5, <1>6 DEF IInv

LEMMA SendKeepsIInv ==
  ASSUME IInv, NEW c \in Containers, Send(c)
  PROVE  IInv'
<1> DEFINE m == [of |-> c, found |-> found[c]]
           n == Len(channel)
<1>1. /\ pc \in [Containers -> {"parse", "resolve", "query", "send", "ended"}]
      /\ pc[c] = "send" /\ pc' = [pc EXCEPT ![c] = "ended"]
      /\ channel' = Append(channel, m)
      /\ UNCHANGED <<image, found, closed, received, answer>>
  BY DEF Send, IInv, TypeOK
<1>2. m \in [of : Containers, found : Infos \cup {Failed}]
  BY <1>1 DEF IInv, TypeOK, LookUpInv
<1>3. /\ n \in Nat /\ Len(channel') = n + 1
      /\ channel' \in Seq([of : Containers, found : Infos \cup {Failed}])
      /\ channel'[n + 1] = m
      /\ \A i \in 1..n : channel'[i] = channel[i]
  <2>1. channel \in Seq([of : Containers, found : Infos \cup {Failed}])
    BY DEF IInv, TypeOK
  <2> DEFINE Message == [of : Containers, found : Infos \cup {Failed}]
  <2> HIDE DEF Message, m
  <2>2. channel \in Seq(Message) /\ m \in Message
    BY <1>2, <2>1 DEF Message
  <2> QED BY <1>1, <2>2, AppendProperties DEF Message
<1>4. /\ \A i \in 1..n : channel[i].of \in Containers /\ channel[i].of # c
      /\ \A i \in 1..Len(received) : received[i].of \in Containers /\ received[i].of # c
  BY <1>1, Messages DEF IInv, TypeOK, SentInv, IsSent
<1>5. TypeOK'
  BY <1>1, <1>3 DEF IInv, TypeOK
<1>6. LookUpInv'
  BY <1>1 DEF IInv, LookUpInv
<1>7. SentInv'
  <2>1. \A i \in 1..n : pc'[channel[i].of] = "ended" /\ channel[i].found = found[channel[i].of]
    BY <1>1, <1>4 DEF IInv, SentInv, IsSent
  <2>2. \A i \in 1..Len(received) : IsSent(received[i])'
    BY <1>1, <1>4 DEF IInv, SentInv, IsSent
  <2>3. \A i \in 1..n + 1 : IsSent(channel[i])'
    BY <1>1, <1>3, <2>1 DEF IsSent
  <2> QED BY <1>1, <1>3, <2>2, <2>3 DEF SentInv
<1>8. OnceInv'
  BY <1>1, <1>3, <1>4 DEF IInv, OnceInv
<1>9. AnswerInv'
  BY <1>1 DEF IInv, AnswerInv, HasResults
<1> QED BY <1>5, <1>6, <1>7, <1>8, <1>9 DEF IInv

(* What is left of a channel of which the head was taken.                  *)
LEMMA TakenHead ==
  ASSUME IInv, channel # <<>>
  PROVE  /\ Head(channel) = channel[1] /\ Len(channel) \in Nat \ {0}
         /\ Head(channel) \in [of : Containers, found : Infos \cup {Failed}]
         /\ Tail(channel) \in Seq([of : Containers, found : Infos \cup {Failed}])
         /\ Len(Tail(channel)) = Len(channel) - 1
         /\ \A i \in 1..Len(Tail(channel)) : Tail(channel)[i] = channel[i + 1]
<1> DEFINE Message == [of : Containers, found : Infos \cup {Failed}]
<1>1. channel \in Seq(Message)
  BY DEF IInv, TypeOK
<1> HIDE DEF Message
<1>2. Len(channel) \in Nat \ {0} /\ Head(channel) = channel[1]
  BY <1>1, EmptySeq
<1> QED BY <1>1, <1>2, HeadTailProperties DEF Message

LEMMA ReceiveInfoKeepsIInv ==
  ASSUME IInv, ReceiveInfo
  PROVE  IInv'
<1> DEFINE m == Head(channel)
           n == Len(received)
<1>1. /\ answer = "none" /\ channel # <<>> /\ m.found # Failed
      /\ channel' = Tail(channel) /\ received' = Append(received, m)
      /\ UNCHANGED <<image, pc, found, closed, answer>>
  BY DEF ReceiveInfo, Receiving
<1>2. m \in [of : Containers, found : Infos]
  BY <1>1, TakenHead
<1>3. /\ n \in Nat /\ Len(received') = n + 1
      /\ received' \in Seq([of : Containers, found : Infos])
      /\ received'[n + 1] = m
      /\ \A i \in 1..n : received'[i] = received[i]
  <2>1. received \in Seq([of : Containers, found : Infos])
    BY DEF IInv, TypeOK
  <2> DEFINE Message == [of : Containers, found : Infos]
  <2> HIDE DEF Message, m
  <2>2. received \in Seq(Message) /\ m \in Message
    BY <1>2, <2>1 DEF Message
  <2> QED BY <1>1, <2>2, AppendProperties DEF Message
<1>4. /\ m = channel[1] /\ Len(channel) \in Nat \ {0}
      /\ channel' \in Seq([of : Containers, found : Infos \cup {Failed}])
      /\ Len(channel') = Len(channel) - 1
      /\ \A i \in 1..Len(channel') : channel'[i] = channel[i + 1]
  BY <1>1, TakenHead
<1>5. TypeOK'
  BY <1>1, <1>3, <1>4 DEF IInv, TypeOK
<1>6. LookUpInv'
  BY <1>1 DEF IInv, LookUpInv
<1>7. SentInv'
  BY <1>1, <1>3, <1>4 DEF IInv, SentInv, IsSent
<1>8. OnceInv'
  BY <1>1, <1>3, <1>4 DEF IInv, OnceInv
<1>9. AnswerInv'
  BY <1>1 DEF IInv, AnswerInv, HasResults
<1> QED BY <1>5, <1>6, <1>7, <1>8, <1>9 DEF IInv

LEMMA ReceiveErrorKeepsIInv ==
  ASSUME IInv, ReceiveError
  PROVE  IInv'
<1>1. /\ answer = "none" /\ channel # <<>> /\ answer' = "error"
      /\ channel' = Tail(channel)
      /\ UNCHANGED <<image, pc, found, closed, received>>
  BY DEF ReceiveError, Receiving
<1>2. /\ Len(channel) \in Nat \ {0}
      /\ channel' \in Seq([of : Containers, found : Infos \cup {Failed}])
      /\ Len(channel') = Len(channel) - 1
      /\ \A i \in 1..Len(channel') : channel'[i] = channel[i + 1]
  BY <1>1, TakenHead
<1>3. TypeOK'
  BY <1>1, <1>2 DEF IInv, TypeOK
<1>4. LookUpInv'
  BY <1>1 DEF IInv, LookUpInv
<1>5. SentInv'
  BY <1>1, <1>2 DEF IInv, SentInv, IsSent
<1>6. OnceInv'
  BY <1>1, <1>2 DEF IInv, OnceInv
<1>7. AnswerInv'
  BY <1>1 DEF IInv, AnswerInv, HasResults
<1> QED BY <1>3, <1>4, <1>5, <1>6, <1>7 DEF IInv

LEMMA ReturnAllKeepsIInv ==
  ASSUME IInv, ReturnAll
  PROVE  IInv'
<1>1. /\ closed' = TRUE /\ answer' = "results"
      /\ Len(received) = Cardinality(Containers)
      /\ UNCHANGED <<image, pc, found, channel, received>>
  BY DEF ReturnAll
<1>2. TypeOK'
  BY <1>1 DEF IInv, TypeOK
<1>3. LookUpInv' /\ SentInv' /\ OnceInv'
  BY <1>1 DEF IInv, LookUpInv, SentInv, IsSent, OnceInv
<1>4. AnswerInv'
  BY <1>1 DEF AnswerInv, HasResults
<1> QED BY <1>2, <1>3, <1>4 DEF IInv

LEMMA NextIInv == IInv /\ [Next]_vars => IInv'
<1> SUFFICES ASSUME IInv, [Next]_vars PROVE IInv'
  OBVIOUS
<1>1. CASE Receiver
  BY <1>1, ReceiveInfoKeepsIInv, ReceiveErrorKeepsIInv, ReturnAllKeepsIInv DEF Receiver
<1>2. ASSUME NEW c \in Containers, Worker(c) PROVE IInv'
  BY <1>2, LookUpSteps, LookUpKeepsIInv, SendKeepsIInv DEF Worker
<1>3. CASE UNCHANGED vars
  BY <1>3 DEF vars, IInv, TypeOK, LookUpInv, SentInv, IsSent, OnceInv, AnswerInv, HasResults
<1> QED BY <1>1, <1>2, <1>3 DEF Next, Done

THEOREM Invariance == Spec => []IInv
BY InitIInv, NextIInv, PTL DEF Spec

(* The variables have their types.                                         *)
THEOREM TypeCorrect == Spec => []TypeOK
<1>1. IInv => TypeOK
  BY DEF IInv
<1> QED BY <1>1, Invariance, PTL

(* An answer with results has received from every goroutine, and left      *)
(* nothing in the channel.                                                 *)
LEMMA AllReceived ==
  ASSUME IInv, HasResults
  PROVE  /\ \A c \in Containers : \E i \in 1..Len(received) : received[i].of = c
         /\ channel = <<>>
<1>1. received \in Seq([of : Containers, found : Infos])
  BY DEF IInv, TypeOK
<1>2. Len(received) = Cardinality(Containers \ {})
  <2>1. Containers \ {} = Containers
    OBVIOUS
  <2> QED BY <2>1 DEF IInv, AnswerInv
<1>3. \A c \in Containers : \E i \in 1..Len(received) : received[i].of = c
  <2>1. \A i, j \in 1..Len(received) : received[i].of = received[j].of => i = j
    BY DEF IInv, OnceInv
  <2>2. {} \in SUBSET Containers /\ \A i \in 1..Len(received) : received[i].of \notin {}
    OBVIOUS
  <2>3. \A c \in Containers \ {} : \E i \in 1..Len(received) : received[i].of = c
    BY <1>1, <1>2, <2>1, <2>2, Pigeonhole
  <2> QED BY <2>3
<1>4. ASSUME channel # <<>> PROVE FALSE
  <2>1. 1 \in 1..Len(channel) /\ channel[1].of \in Containers
    BY <1>4, TakenHead
  <2> QED BY <1>3, <2>1 DEF IInv, OnceInv
<1> QED BY <1>3, <1>4

(* "Because the channel is buffered all goroutines will finish": a sender  *)
(* finds room and never a closed channel.                                  *)
THEOREM NoUnsafeSend == Spec => []SendsAreSafe
<1>1. ASSUME IInv PROVE SendsAreSafe
  <2> SUFFICES ASSUME NEW c \in Containers, pc[c] = "send"
               PROVE  ~closed /\ Len(channel) < capacity
    BY DEF SendsAreSafe
  <2>1. channel \in Seq([of : Containers, found : Infos \cup {Failed}])
    BY <1>1 DEF IInv, TypeOK
  <2>2. \A i \in 1..Len(channel) : channel[i].of \notin {c}
    BY <1>1 DEF IInv, SentInv, IsSent
  <2>3. Len(channel) \in Nat /\ Len(channel) <= Cardinality(Containers \ {c})
    <3>1. \A i, j \in 1..Len(channel) : channel[i].of = channel[j].of => i = j
      BY <1>1 DEF IInv, OnceInv
    <3>2. {c} \in SUBSET Containers
      OBVIOUS
    <3> QED BY <2>1, <2>2, <3>1, <3>2, Pigeonhole, Messages
  <2>4. /\ Cardinality(Containers) \in Nat
        /\ Cardinality(Containers \ {c}) = Cardinality(Containers) - 1
    BY ContainersAssumption, FS_CardinalityType, FS_RemoveElement
  <2>5. ~closed
    BY <1>1, AllReceived DEF IInv, AnswerInv, SentInv, IsSent
  <2> QED BY <2>3, <2>4, <2>5 DEF capacity
<1> QED BY <1>1, Invariance, PTL

(* Results tell of each container once, by what its look-up found.         *)
THEOREM ContainersCovered == Spec => []EveryContainerOnce
<1>1. ASSUME IInv, HasResults, NEW c \in Containers
      PROVE  \E i \in DOMAIN received :
               /\ received[i] = [of |-> c, found |-> found[c]]
               /\ \A j \in DOMAIN received : received[j].of = c => j = i
  <2>1. DOMAIN received = 1..Len(received)
    BY <1>1, Messages DEF IInv, TypeOK
  <2>2. PICK i \in 1..Len(received) : received[i].of = c
    BY <1>1, AllReceived
  <2>3. received[i] = [of |-> received[i].of, found |-> received[i].found]
    BY <1>1, <2>2, Messages DEF IInv, TypeOK
  <2>4. received[i] = [of |-> c, found |-> found[c]]
    BY <1>1, <2>2, <2>3 DEF IInv, SentInv, IsSent
  <2> QED BY <1>1, <2>1, <2>2, <2>4 DEF IInv, OnceInv
<1>2. IInv => EveryContainerOnce
  BY <1>1, AllReceived DEF EveryContainerOnce
<1> QED BY <1>2, Invariance, PTL

(* No results when an image is malformed, and images of other registries   *)
(* are reported as such.                                                   *)
THEOREM ImagesJudged == Spec => []JudgedByImage
<1>1. ASSUME IInv, HasResults, NEW i \in DOMAIN received
      PROVE  /\ image[received[i].of] # "malformed"
             /\ image[received[i].of] = "other registry" =>
                  received[i].found = Unscanned("ImageIsNotInACR")
  <2>1. /\ i \in 1..Len(received)
        /\ received[i].of \in Containers /\ received[i].found \in Infos
    BY <1>1, Messages DEF IInv, TypeOK
  <2>2. received[i].found = found[received[i].of]
    BY <1>1, <2>1 DEF IInv, SentInv, IsSent
  <2> QED BY <1>1, <2>1, <2>2, NotInfos DEF IInv, LookUpInv
<1>2. IInv => JudgedByImage
  BY <1>1 DEF JudgedByImage
<1> QED BY <1>2, Invariance, PTL

-----------------------------------------------------------------------------
(* Liveness. The provers know nothing of ENABLED: that the guard of a step *)
(* enables it is a hypothesis, GuardsEnable, which TLC evaluates. With it  *)
(* fairness says that no step is put off whose guard holds for good.       *)

\* A goroutine can go on until it has ended, but for a sender without room.
CanRun(c) == pc[c] # "ended" /\ (pc[c] = "send" => Len(channel) < capacity)

\* The caller waits for the next message, or has one for each container.
CanReceive == answer = "none" /\ (channel # <<>> \/ Len(received) = capacity)

WorkerRuns(c) == []CanRun(c) => <><<Worker(c)>>_vars

WorkersRun == \A c \in Containers : WorkerRuns(c)

ReceiverRuns == []CanReceive => <><<Receiver>>_vars

(* Each guard enables its step, for it to be taken and change something.   *)
GuardEnables(c) == CanRun(c) => ENABLED <<Worker(c)>>_vars

GuardsEnable ==
  /\ CanReceive => ENABLED <<Receiver>>_vars
  /\ \A c \in Containers : GuardEnables(c)

LEMMA FairnessSuffices ==
  FairSpec /\ []GuardsEnable => Spec /\ []ReceiverRuns /\ []WorkersRun
<1>1. ASSUME NEW c \in Containers
      PROVE  RunsFairly(c) /\ []GuardEnables(c) => []WorkerRuns(c)
  BY PTL DEF RunsFairly, GuardEnables, WorkerRuns
<1>2. GuardsEnable => /\ CanReceive => ENABLED <<Receiver>>_vars
                      /\ \A c \in Containers : GuardEnables(c)
  BY DEF GuardsEnable
<1>3. [](\A c \in Containers : GuardEnables(c)) =>
        \A c \in Containers : []GuardEnables(c)
  OBVIOUS
<1>4. (\A c \in Containers : []WorkerRuns(c)) => []WorkersRun
  BY DEF WorkersRun
<1>5. (\A c \in Containers : RunsFairly(c))
        /\ [](\A c \in Containers : GuardEnables(c)) => []WorkersRun
  BY <1>1, <1>3, <1>4
<1> QED BY <1>2, <1>5, PTL DEF FairSpec, ReceiverRuns

LEMMA EachRuns == ASSUME NEW c \in Containers PROVE WorkersRun => WorkerRuns(c)
BY DEF WorkersRun

(* A goroutine only moves forward, by its own steps.                       *)
LEMMA Forward ==
  ASSUME IInv, [Next]_vars, NEW c \in Containers
  PROVE  /\ pc[c] = "parse" => pc'[c] \in {"parse", "resolve", "send"}
         /\ pc[c] = "resolve" => pc'[c] \in {"resolve", "query", "send"}
         /\ pc[c] = "query" => pc'[c] \in {"query", "send"}
         /\ pc[c] = "send" => pc'[c] \in {"send", "ended"}
         /\ pc[c] = "ended" => pc'[c] = "ended"
<1>1. ASSUME NEW d \in Containers, Worker(d), d # c
      PROVE  pc'[c] = pc[c]
  BY <1>1, LookUpSteps DEF IInv, TypeOK, Worker, Send, GoesOn, Finds, Find
<1>2. CASE Worker(c)
  BY <1>2, LookUpSteps DEF IInv, TypeOK, Worker, Send, GoesOn, Finds, Find
<1>3. CASE Receiver \/ Done \/ UNCHANGED vars
  BY <1>3 DEF Receiver, ReceiveInfo, ReceiveError, ReturnAll, Done, vars
<1> QED BY <1>1, <1>2, <1>3 DEF Next

LEMMA WorkerMoves ==
  ASSUME IInv, NEW c \in Containers, Worker(c)
  PROVE  pc'[c] # pc[c]
BY LookUpSteps DEF IInv, TypeOK, Worker, Send, GoesOn, Finds, Find

(* No goroutine leaks: each ends, also when the caller left at an error    *)
(* and nobody receives, since its message has room in the channel.         *)
THEOREM NoGoroutineLeaks == FairSpec /\ []GuardsEnable => GoroutinesEnd
<1>1. ASSUME NEW c \in Containers
      PROVE  Spec /\ []WorkersRun => <>(pc[c] = "ended")
  <2> DEFINE Parse == pc[c] = "parse"
             Resolve == pc[c] = "resolve"
             Query == pc[c] = "query"
             Sends == pc[c] = "send"
             Ended == pc[c] = "ended"
  <2>1. IInv /\ [Next]_vars =>
          /\ Parse => Parse' \/ Resolve' \/ Sends'
          /\ Resolve => Resolve' \/ Query' \/ Sends'
          /\ Query => Query' \/ Sends'
          /\ Sends => Sends' \/ Ended'
    BY Forward
  <2>2. IInv /\ <<Worker(c)>>_vars =>
          /\ Parse => ~Parse'
          /\ Resolve => ~Resolve'
          /\ Query => ~Query'
          /\ Sends => ~Sends'
    BY WorkerMoves
  <2>3. SendsAreSafe => (Parse \/ Resolve \/ Query \/ Sends => CanRun(c))
    BY DEF SendsAreSafe, CanRun
  <2>4. Init => Parse
    BY DEF Init
  <2>5. WorkersRun => WorkerRuns(c)
    BY EachRuns
  <2> QED BY <2>1, <2>2, <2>3, <2>4, <2>5, Invariance, NoUnsafeSend, PTL
          DEF Spec, WorkerRuns
<1> QED BY <1>1, FairnessSuffices DEF GoroutinesEnd

-----------------------------------------------------------------------------
(* The caller's answer. That it comes is an induction over time, beyond    *)
(* the provers; its premises are proved: the scan has at most 5n + 1 steps *)
(* left, each step leaves fewer, and one is taken until the answer.        *)

At(places) == {c \in Containers : pc[c] \in places}

\* A goroutine has at most as many steps left as there are sets it is in.
StepsOfWorkers ==
  Cardinality(At({"parse"})) + Cardinality(At({"parse", "resolve"}))
    + Cardinality(At({"parse", "resolve", "query"}))
    + Cardinality(At({"parse", "resolve", "query", "send"}))

StepsOfReceiver == (capacity - Len(received)) + (IF Answered THEN 0 ELSE 1)

StepsLeft == StepsOfWorkers + StepsOfReceiver

LEMMA CapacityIsNat == capacity \in Nat
BY ContainersAssumption, FS_CardinalityType DEF capacity

LEMMA AtIsCounted ==
  ASSUME NEW places
  PROVE  /\ IsFiniteSet(At(places)) /\ Cardinality(At(places)) \in 0..capacity
<1>1. At(places) \subseteq Containers
  BY DEF At
<1>2. /\ IsFiniteSet(At(places)) /\ Cardinality(At(places)) \in Nat
      /\ Cardinality(At(places)) <= Cardinality(Containers)
  BY <1>1, ContainersAssumption, FS_Subset, FS_CardinalityType
<1> QED BY <1>2, CapacityIsNat DEF capacity

LEMMA NoMoreReceivedThanContainers ==
  ASSUME IInv
  PROVE  Len(received) \in 0..capacity
<1>1. received \in Seq([of : Containers, found : Infos])
  BY DEF IInv, TypeOK
<1>2. \A i, j \in 1..Len(received) : received[i].of = received[j].of => i = j
  BY DEF IInv, OnceInv
<1>3. Containers \ {} = Containers /\ {} \in SUBSET Containers
      /\ \A i \in 1..Len(received) : received[i].of \notin {}
  OBVIOUS
<1>4. Len(received) <= Cardinality(Containers \ {})
  BY <1>1, <1>2, <1>3, Pigeonhole
<1> QED BY <1>1, <1>3, <1>4, CapacityIsNat, Messages DEF capacity

(* A scan of n containers takes at most 5n + 1 steps.                      *)
LEMMA StepsAreBounded == IInv => StepsLeft \in 0..(5 * capacity + 1)
<1> SUFFICES ASSUME IInv PROVE StepsLeft \in 0..(5 * capacity + 1)
  OBVIOUS
<1> DEFINE a == Cardinality(At({"parse"}))
           b == Cardinality(At({"parse", "resolve"}))
           d == Cardinality(At({"parse", "resolve", "query"}))
           e == Cardinality(At({"parse", "resolve", "query", "send"}))
           n == capacity
           l == Len(received)
           o == IF Answered THEN 0 ELSE 1
<1>1. a \in 0..n /\ b \in 0..n /\ d \in 0..n /\ e \in 0..n
  BY AtIsCounted
<1>2. n \in Nat /\ l \in 0..n /\ o \in 0..1
  BY CapacityIsNat, NoMoreReceivedThanContainers
<1>3. StepsLeft = (a + b + d + e) + ((n - l) + o)
  BY DEF StepsLeft, StepsOfWorkers, StepsOfReceiver
<1> HIDE DEF a, b, d, e, l, o
<1> QED BY <1>1, <1>2, <1>3

(* A goroutine that goes from one place to another leaves the sets that    *)
(* hold the one and not the other.                                         *)
LEMMA AtMoves ==
  ASSUME TypeOK, NEW c \in Containers, NEW place, pc' = [pc EXCEPT ![c] = place],
         NEW places, place \in places => pc[c] \in places
  PROVE  Cardinality(At(places)') =
           Cardinality(At(places))
             - (IF pc[c] \in places /\ place \notin places THEN 1 ELSE 0)
<1>1. IsFiniteSet(At(places)) /\ Cardinality(At(places)) \in Nat
  BY AtIsCounted, CapacityIsNat
<1>2. \A d \in Containers : pc'[d] = IF d = c THEN place ELSE pc[d]
  BY DEF TypeOK
<1>3. CASE pc[c] \in places /\ place \notin places
  <2>1. At(places)' = At(places) \ {c} /\ c \in At(places)
    BY <1>2, <1>3 DEF At
  <2> QED BY <1>1, <1>3, <2>1, FS_RemoveElement
<1>4. CASE ~(pc[c] \in places /\ place \notin places)
  <2>1. At(places)' = At(places)
    BY <1>2, <1>4 DEF At
  <2> QED BY <1>1, <1>4, <2>1
<1> QED BY <1>3, <1>4

LEMMA WorkerStepsFewer ==
  ASSUME TypeOK, NEW c \in Containers, NEW place,
         pc' = [pc EXCEPT ![c] = place],
         \/ pc[c] = "parse" /\ place \in {"resolve", "send"}
         \/ pc[c] = "resolve" /\ place \in {"query", "send"}
         \/ pc[c] = "query" /\ place = "send"
         \/ pc[c] = "send" /\ place = "ended"
  PROVE  StepsOfWorkers' < StepsOfWorkers /\ StepsOfWorkers \in Nat
<1> DEFINE A == {"parse"}
           B == {"parse", "resolve"}
           D == {"parse", "resolve", "query"}
           E == {"parse", "resolve", "query", "send"}
           Leaves(places) == IF pc[c] \in places /\ place \notin places THEN 1 ELSE 0
           a == Cardinality(At(A))
           b == Cardinality(At(B))
           d == Cardinality(At(D))
           e == Cardinality(At(E))
<1>1. a \in Nat /\ b \in Nat /\ d \in Nat /\ e \in Nat
  BY AtIsCounted, CapacityIsNat
<1>2. a' = a - Leaves(A)
  BY AtMoves
<1>3. b' = b - Leaves(B)
  BY AtMoves
<1>4. d' = d - Leaves(D)
  BY AtMoves
<1>5. e' = e - Leaves(E)
  BY AtMoves
<1>6. Leaves(A) \in 0..1 /\ Leaves(B) \in 0..1 /\ Leaves(D) \in 0..1 /\ Leaves(E) \in 0..1
  OBVIOUS
<1>7. Leaves(A) = 1 \/ Leaves(B) = 1 \/ Leaves(D) = 1 \/ Leaves(E) = 1
  OBVIOUS
<1>8. StepsOfWorkers = a + b + d + e /\ StepsOfWorkers' = a' + b' + d' + e'
  BY DEF StepsOfWorkers
<1> HIDE DEF A, B, D, E, a, b, d, e, Leaves
<1> QED BY <1>1, <1>2, <1>3, <1>4, <1>5, <1>6, <1>7, <1>8

LEMMA StepsAreNat == IInv => StepsOfWorkers \in Nat /\ StepsOfReceiver \in Nat
BY AtIsCounted, NoMoreReceivedThanContainers, CapacityIsNat
   DEF StepsOfWorkers, StepsOfReceiver

LEMMA StepsDecrease ==
  ASSUME IInv, IInv', Receiver \/ \E c \in Containers : Worker(c)
  PROVE  StepsLeft' < StepsLeft
<1> DEFINE w == StepsOfWorkers
           r == StepsOfReceiver
<1>1. w \in Nat /\ r \in Nat /\ w' \in Nat /\ r' \in Nat
  <2>1. (IInv => StepsOfWorkers \in Nat /\ StepsOfReceiver \in Nat)'
    BY StepsAreNat, PTL
  <2> QED BY <2>1, StepsAreNat
<1>2. StepsLeft = w + r /\ StepsLeft' = w' + r'
  BY DEF StepsLeft
<1>3. ASSUME NEW c \in Containers, Worker(c) PROVE w' < w /\ r' = r
  <2>1. r' = r
    BY <1>3, LookUpSteps DEF Worker, Send, StepsOfReceiver, Answered, capacity
  <2>2. CASE Send(c)
    <3>1. pc[c] = "send" /\ pc' = [pc EXCEPT ![c] = "ended"]
      BY <2>2 DEF Send
    <3> QED BY <2>1, <3>1, WorkerStepsFewer DEF IInv
  <2>3. CASE GoesOn(c)
    <3>1. \/ pc[c] = "parse" /\ pc' = [pc EXCEPT ![c] = "resolve"]
          \/ pc[c] = "resolve" /\ pc' = [pc EXCEPT ![c] = "query"]
      <4>1. CASE pc[c] = "parse"
        BY <2>3, <4>1 DEF GoesOn
      <4>2. CASE pc[c] = "resolve"
        BY <2>3, <4>2 DEF GoesOn
      <4> QED BY <2>3, <4>1, <4>2 DEF GoesOn
    <3> QED BY <2>1, <3>1, WorkerStepsFewer DEF IInv
  <2>4. CASE Finds(c)
    <3>1. pc[c] \in {"parse", "resolve", "query"} /\ pc' = [pc EXCEPT ![c] = "send"]
      BY <2>4 DEF Finds, Find
    <3> QED BY <2>1, <3>1, WorkerStepsFewer DEF IInv
  <2> QED BY <1>3, <2>2, <2>3, <2>4, LookUpSteps DEF Worker
<1>4. ASSUME Receiver PROVE w' = w /\ r' < r
  <2>1. pc' = pc /\ ~Answered
    BY <1>4 DEF Receiver, ReceiveInfo, ReceiveError, ReturnAll, Receiving, Answered
  <2>2. w' = w
    BY <2>1 DEF StepsOfWorkers, At
  <2>3. Len(received) \in 0..capacity /\ capacity \in Nat /\ capacity' = capacity
    BY NoMoreReceivedThanContainers, CapacityIsNat DEF capacity
  <2>4. \/ Len(received') = Len(received) + 1 /\ ~Answered'
        \/ received' = received /\ Answered'
    <3>1. CASE ReceiveInfo
      <4>1. received' = Append(received, Head(channel)) /\ answer' = answer
        BY <3>1 DEF ReceiveInfo
      <4>2. received \in Seq([of : Containers, found : Infos])
            /\ Head(channel) \in [of : Containers, found : Infos]
        BY <3>1, TakenHead DEF ReceiveInfo, IInv, TypeOK
      <4> DEFINE Message == [of : Containers, found : Infos]
      <4> HIDE DEF Message
      <4>3. received \in Seq(Message) /\ Head(channel) \in Message
        BY <4>2 DEF Message
      <4>4. Len(received') = Len(received) + 1
        BY <4>1, <4>3, AppendProperties
      <4> QED BY <2>1, <4>1, <4>4 DEF Answered
    <3>2. CASE ReceiveError \/ ReturnAll
      BY <3>2 DEF ReceiveError, ReturnAll, Answered
    <3> QED BY <1>4, <3>1, <3>2 DEF Receiver
  <2>5. r' < r
    BY <2>1, <2>3, <2>4 DEF StepsOfReceiver
  <2> QED BY <2>2, <2>5
<1>5. \/ w' < w /\ r' = r
      \/ w' = w /\ r' < r
  BY <1>3, <1>4
<1>6. \A a, b, x, y \in Nat : (x < a /\ y = b) \/ (x = a /\ y < b) => x + y < a + b
  OBVIOUS
<1>7. w' + r' < w + r
  BY ONLY <1>1, <1>5, <1>6
<1> QED BY <1>2, <1>7

(* Every step of a scan leaves fewer steps to take, of 5n + 1 at most.     *)
THEOREM ScanIsBounded ==
  Spec => /\ [](StepsLeft \in 0..(5 * capacity + 1))
          /\ [][StepsLeft' < StepsLeft]_vars
<1>1. IInv /\ IInv' /\ [Next]_vars => [StepsLeft' < StepsLeft]_vars
  BY StepsDecrease DEF Next, Done
<1> QED BY <1>1, Invariance, StepsAreBounded, PTL DEF Spec

(* No message is lost until the answer: each goroutine that has ended has  *)
(* its own in the channel or among what was received.                      *)
NoneLost ==
  ~Answered =>
    Len(channel) + Len(received) + Cardinality(At({"parse", "resolve", "query", "send"}))
      = capacity

LEMMA NoMessageLost == Spec => []NoneLost
<1> DEFINE Running == {"parse", "resolve", "query", "send"}
           C == Len(channel)
           R == Len(received)
           N == Cardinality(At(Running))
<1>1. Init => NoneLost
  <2> SUFFICES ASSUME Init PROVE NoneLost
    OBVIOUS
  <2>1. At(Running) = Containers
    BY DEF Init, At
  <2>2. C = 0 /\ R = 0
    BY EmptySeq DEF Init
  <2> QED BY <2>1, <2>2, CapacityIsNat DEF NoneLost, capacity
<1>2. ASSUME IInv, NoneLost, [Next]_vars PROVE NoneLost'
  <2> SUFFICES ASSUME ~Answered' PROVE (C + R + N = capacity)'
    BY DEF NoneLost
  <2>1. C \in Nat /\ R \in Nat /\ N \in Nat /\ capacity \in Nat /\ capacity' = capacity
    BY <1>2, Messages, AtIsCounted, CapacityIsNat DEF IInv, TypeOK, capacity
  <2>2. ~Answered => C + R + N = capacity
    BY <1>2 DEF NoneLost
  <2>3. ASSUME NEW c \in Containers, Send(c)
        PROVE  C' = C + 1 /\ R' = R /\ N' = N - 1 /\ ~Answered
    <3>1. /\ pc[c] = "send" /\ pc' = [pc EXCEPT ![c] = "ended"]
          /\ channel' = Append(channel, [of |-> c, found |-> found[c]])
          /\ received' = received /\ answer' = answer
      BY <2>3 DEF Send
    <3>2. N' = N - (IF pc[c] \in Running /\ "ended" \notin Running THEN 1 ELSE 0)
      BY <1>2, <3>1, AtMoves DEF IInv
    <3>3. C' = C + 1
      <4> DEFINE Message == [of : Containers, found : Infos \cup {Failed}]
      <4>1. channel \in Seq(Message) /\ [of |-> c, found |-> found[c]] \in Message
        BY <1>2, <3>1 DEF IInv, TypeOK, LookUpInv
      <4> HIDE DEF Message
      <4> QED BY <3>1, <4>1, AppendProperties
    <3> QED BY <3>1, <3>2, <3>3 DEF Answered
  <2>4. ASSUME NEW c \in Containers, GoesOn(c) \/ Finds(c),
               UNCHANGED <<image, channel, closed, received, answer>>
        PROVE  C' = C /\ R' = R /\ N' = N /\ Answered' = Answered
    <3>1. PICK place \in {"resolve", "query", "send"} :
            pc[c] \in {"parse", "resolve", "query"} /\ pc' = [pc EXCEPT ![c] = place]
      <4>1. CASE GoesOn(c) /\ pc[c] = "parse"
        BY <4>1 DEF GoesOn
      <4>2. CASE GoesOn(c) /\ pc[c] = "resolve"
        BY <4>2 DEF GoesOn
      <4>3. CASE Finds(c)
        BY <4>3 DEF Finds, Find
      <4> QED BY <2>4, <4>1, <4>2, <4>3 DEF GoesOn
    <3>2. N' = N - (IF pc[c] \in Running /\ place \notin Running THEN 1 ELSE 0)
      BY <1>2, <3>1, AtMoves DEF IInv
    <3> QED BY <2>1, <2>4, <3>1, <3>2 DEF Answered
  <2>5. CASE ReceiveInfo
    <3>1. /\ channel' = Tail(channel) /\ received' = Append(received, Head(channel))
          /\ pc' = pc /\ answer' = answer /\ channel # <<>>
      BY <2>5 DEF ReceiveInfo
    <3>2. C' = C - 1
      BY <1>2, <3>1, TakenHead
    <3>3. R' = R + 1
      <4> DEFINE Message == [of : Containers, found : Infos]
      <4>1. received \in Seq(Message) /\ Head(channel) \in Message
        BY <1>2, <2>5, TakenHead DEF ReceiveInfo, IInv, TypeOK
      <4> HIDE DEF Message
      <4> QED BY <3>1, <4>1, AppendProperties
    <3>4. N' = N /\ ~Answered
      BY <3>1 DEF At, Answered
    <3> QED BY <2>1, <2>2, <3>2, <3>3, <3>4
  <2>6. CASE ReceiveError \/ ReturnAll
    BY <2>6 DEF ReceiveError, ReturnAll, Answered
  <2>7. CASE UNCHANGED vars
    BY <2>2, <2>7 DEF vars, At, Answered, capacity
  <2>8. ASSUME NEW c \in Containers, Worker(c)
        PROVE  (C + R + N = capacity)'
    <3>1. CASE Send(c)
      <4> HIDE DEF C, R, N
      <4> QED BY <2>1, <2>2, <2>3, <3>1
    <3>2. CASE ParseImage(c) \/ ResolveDigest(c) \/ GetScanResults(c)
      <4>1. C' = C /\ R' = R /\ N' = N /\ Answered' = Answered
        BY <1>2, <2>4, <3>2, LookUpSteps
      <4> HIDE DEF C, R, N
      <4> QED BY <2>1, <2>2, <4>1
    <3> QED BY <2>8, <3>1, <3>2 DEF Worker
  <2> QED BY <1>2, <2>5, <2>6, <2>7, <2>8 DEF Next, Receiver, Done
<1> QED BY <1>1, <1>2, Invariance, PTL DEF Spec

(* "No deadlock as a result of the loop": until the answer, the caller can *)
(* receive or return, or some goroutine can go on.                         *)
NeverStuck == Answered \/ CanReceive \/ \E c \in Containers : CanRun(c)

THEOREM ScanNeverStuck == Spec => []NeverStuck
<1> DEFINE Running == {"parse", "resolve", "query", "send"}
<1>1. ASSUME IInv, SendsAreSafe, NoneLost PROVE NeverStuck
  <2> SUFFICES ASSUME ~Answered, \A c \in Containers : ~CanRun(c), channel = <<>>
               PROVE  Len(received) = capacity
    BY DEF NeverStuck, CanReceive, Answered
  <2>1. At(Running) = {}
    BY <1>1 DEF At, SendsAreSafe, CanRun
  <2>2. Cardinality(At(Running)) = 0 /\ Len(channel) = 0
    BY <2>1, FS_EmptySet, EmptySeq
  <2>3. Len(received) \in Nat
    BY <1>1, Messages DEF IInv, TypeOK
  <2> QED BY <1>1, <2>2, <2>3, CapacityIsNat DEF NoneLost
<1> QED BY <1>1, Invariance, NoUnsafeSend, NoMessageLost, PTL

(* Until the answer the steps left become fewer: some process can go on,   *)
(* remains able to while nobody moves, and is run by the scheduler. The    *)
(* steps left being natural numbers, the answer follows.                   *)
THEOREM ScanComesNearer ==
  ASSUME NEW k \in Nat
  PROVE  FairSpec /\ []GuardsEnable =>
           ((~Answered /\ StepsLeft = k) ~> (Answered \/ StepsLeft < k))
<1> DEFINE Waits == ~Answered /\ StepsLeft = k
           Nearer == Answered \/ StepsLeft < k
           Stays == UNCHANGED vars
           Runs == []ReceiverRuns /\ []WorkersRun
           Steps == []IInv /\ [][Next]_vars
           SomeCanRun == \E c \in Containers : CanRun(c)
<1>1. IInv /\ IInv' /\ [Next]_vars => (Waits => Nearer' \/ (Waits' /\ Stays))
  <2>1. IInv /\ IInv' /\ [Next]_vars => StepsLeft' < StepsLeft \/ Stays
    BY StepsDecrease DEF Next, Done
  <2>2. Stays => (Waits => Waits')
    BY DEF vars, Answered, StepsLeft, StepsOfWorkers, StepsOfReceiver, At, capacity
  <2> QED BY <2>1, <2>2
<1>2. IInv /\ IInv' /\ <<Receiver>>_vars => (Waits => Nearer')
  BY StepsDecrease
<1>3. ASSUME NEW c \in Containers
      PROVE  IInv /\ IInv' /\ <<Worker(c)>>_vars => (Waits => Nearer')
  BY StepsDecrease
<1>4. Stays => (CanReceive => CanReceive')
  BY DEF vars, CanReceive, capacity
<1>5. ASSUME NEW c \in Containers PROVE Stays => (CanRun(c) => CanRun(c)')
  BY DEF vars, CanRun, capacity
<1>6. Steps /\ Runs => (Waits /\ CanReceive => <>Nearer)
  BY <1>1, <1>2, <1>4, PTL DEF ReceiverRuns
<1>7. ASSUME NEW c \in Containers
      PROVE  Steps /\ Runs => (Waits /\ CanRun(c) => <>Nearer)
  <2>1. WorkersRun => WorkerRuns(c)
    BY EachRuns
  <2>2. IInv /\ IInv' /\ <<Worker(c)>>_vars => (Waits => Nearer')
    BY <1>3
  <2>3. Stays => (CanRun(c) => CanRun(c)')
    BY <1>5
  <2> QED BY <1>1, <2>1, <2>2, <2>3, PTL DEF WorkerRuns
<1>8. Steps /\ Runs => (Waits /\ SomeCanRun => <>Nearer)
  <2> HIDE DEF Steps, Runs, Waits, Nearer
  <2> QED BY <1>7
<1>9. NeverStuck => (Waits => CanReceive \/ SomeCanRun)
  BY DEF NeverStuck
<1> HIDE DEF SomeCanRun
<1> QED BY <1>6, <1>8, <1>9, FairnessSuffices, Invariance, ScanNeverStuck, PTL DEF Spec

-----------------------------------------------------------------------------
(* The scan implements its contract.                                       *)

LEMMA ByContainerIsFound ==
  ASSUME IInv, HasResults
  PROVE  ByContainer = found /\ \A c \in Containers : found[c] \in Infos
<1>1. ASSUME NEW c \in Containers PROVE ResultOf(c) = found[c] /\ found[c] \in Infos
  <2> DEFINE i == CHOOSE k \in DOMAIN received : received[k].of = c
  <2>1. DOMAIN received = 1..Len(received)
    BY Messages DEF IInv, TypeOK
  <2>2. i \in 1..Len(received) /\ received[i].of = c
    BY <1>1, <2>1, AllReceived
  <2>3. received[i].found \in Infos /\ received[i].found = found[c]
    BY <2>2, Messages DEF IInv, TypeOK, SentInv, IsSent
  <2> QED BY <2>3 DEF ResultOf
<1>2. found = [c \in Containers |-> found[c]]
  BY DEF IInv, TypeOK
<1> QED BY <1>1, <1>2 DEF ByContainer

LEMMA InitImplements == Init => Contract!Init
BY DEF Init, Contract!Init, Contract!NoResults, ByContainer, HasResults

LEMMA FindsImplements ==
  ASSUME IInv, NEW c \in Containers, Finds(c),
         UNCHANGED <<image, channel, closed, received, answer>>
  PROVE  Contract!LookUp(c)
<1>1. found[c] = Pending
  BY DEF Finds, IInv, LookUpInv
<1>2. UNCHANGED ByContainer
  <2>1. answer # "results"
    BY <1>1, ByContainerIsFound, NotInfos DEF HasResults
  <2> QED BY <2>1 DEF ByContainer, HasResults
<1> QED BY <1>1, <1>2 DEF Finds, Find, Contract!LookUp

LEMMA StepImplements ==
  ASSUME IInv, IInv', [Next]_vars
  PROVE  [Contract!Next]_(Contract!vars)
<1> USE DEF Contract!vars
<1>1. ASSUME UNCHANGED <<found, answer>>, answer = "none" \/ UNCHANGED received
      PROVE  UNCHANGED <<found, answer, ByContainer>>
  BY <1>1 DEF ByContainer, HasResults, ResultOf
<1>2. ASSUME NEW c \in Containers, Worker(c)
      PROVE  [Contract!Next]_(Contract!vars)
  <2>1. CASE Send(c)
    BY <1>1, <2>1 DEF Send
  <2>2. CASE ParseImage(c) \/ ResolveDigest(c) \/ GetScanResults(c)
    <3>1. CASE GoesOn(c)
      BY <1>1, <2>2, <3>1, LookUpSteps DEF GoesOn
    <3>2. CASE Finds(c)
      BY <2>2, <3>2, LookUpSteps, FindsImplements DEF Contract!Next
    <3> QED BY <2>2, <3>1, <3>2, LookUpSteps
  <2> QED BY <1>2, <2>1, <2>2 DEF Worker
<1>3. CASE ReceiveInfo
  BY <1>1, <1>3 DEF ReceiveInfo, Receiving
<1>4. CASE ReceiveError
  <2>1. answer = "none" /\ answer' = "error" /\ UNCHANGED found
    BY <1>4 DEF ReceiveError, Receiving
  <2>2. UNCHANGED ByContainer
    BY <2>1 DEF ByContainer, HasResults
  <2>3. \E c \in Containers : found[c] = Failed
    <3>1. channel # <<>> /\ Head(channel).found = Failed
      BY <1>4 DEF ReceiveError
    <3>2. /\ 1 \in 1..Len(channel)
          /\ channel[1].of \in Containers /\ channel[1].found = Failed
      BY <3>1, TakenHead
    <3> QED BY <3>2 DEF IInv, SentInv, IsSent
  <2> QED BY <2>1, <2>2, <2>3 DEF Contract!Next, Contract!AnswerError
<1>5. CASE ReturnAll
  <2>1. answer = "none" /\ answer' = "results" /\ UNCHANGED found
    BY <1>5 DEF ReturnAll
  <2>2. ByContainer' = found /\ \A c \in Containers : found[c] \in Infos
    <3>1. HasResults'
      BY <2>1 DEF HasResults
    <3>2. (HasResults /\ IInv => ByContainer = found /\ \A c \in Containers : found[c] \in Infos)'
      BY ByContainerIsFound, PTL
    <3> QED BY <2>1, <3>1, <3>2
  <2> QED BY <2>1, <2>2 DEF Contract!Next, Contract!AnswerAll
<1>6. CASE UNCHANGED vars
  BY <1>1, <1>6 DEF vars
<1> QED BY <1>2, <1>3, <1>4, <1>5, <1>6 DEF Next, Receiver, Done

(* Every behaviour of the scan is one of ScanContract: whatever the order  *)
(* of the goroutines, the answer tells of all containers or is an error    *)
(* that one of them met.                                                   *)
THEOREM ScanImplementsContract == Spec => ImplementsContract
<1>1. IInv /\ IInv' /\ [Next]_vars => [Contract!Next]_(Contract!vars)
  BY StepImplements
<1> QED BY <1>1, InitImplements, Invariance, PTL DEF Spec, ImplementsContract, Contract!Spec
=============================================================================
