--------------------------- MODULE ARGDataProvider --------------------------
(***************************************************************************)
(* The scan results of images (pkg/dataproviders/arg: the provider and its *)
(* cache client): a call looks the digest up in redis, else queries the    *)
(* Resource Graph (ARGClient), answers, and leaves a goroutine that stores *)
(* the results in redis - for minutes if the image is unscanned, for hours *)
(* if it is scanned. Calls of all replicas share the entries.              *)
(*                                                                         *)
(* Time is a number of ticks: entries count down to their expiry, and what *)
(* was read from the Resource Graph gets older wherever it is held.        *)
(*                                                                         *)
(* The Resource Graph is asked for a registry, a repository and a digest,  *)
(* an image here; the entries in redis are by digest only.                 *)
(***************************************************************************)
EXTENDS Naturals, Sequences, FiniteSets

CONSTANTS
  Images,
  Digests,
  digestOf,        \* the digest of each image; images may share one
  Calls,           \* slots for calls, each with the goroutine it leaves
  RecordLists,     \* what the Resource Graph may hold of an image
  cacheExpirationTimeUnscannedResults,  \* in ticks
  cacheExpirationTimeScannedResults,
  MaxDelay         \* ticks that a call and its goroutine take at most

\* A record says that the image is healthy or tells of a finding.
ASSUME ProviderAssumption ==
  /\ digestOf \in [Images -> Digests]
  /\ RecordLists \subseteq Seq({"Healthy", "Finding"})
  /\ cacheExpirationTimeUnscannedResults \in Nat \ {0}
  /\ cacheExpirationTimeScannedResults \in Nat \ {0}
  /\ MaxDelay \in Nat

VARIABLES
  graph,     \* the records of each image in the Resource Graph
  entry,     \* the entry of each digest in redis: scan info, age and time left
  pc,        \* where each call stands
  image,     \* the image it asks for
  info,      \* what it read from the Resource Graph: records, scan info, age
  answered   \* its last answer

vars == <<graph, entry, pc, image, info, answered>>

\* Defect: the first record tells.
statusOfFirst(records) ==
  IF records = <<>> THEN "unscanned"
  ELSE IF records[1] = "Healthy" THEN "healthyScan" ELSE "unhealthyScan"

\* getImageScanDataFromARGQueryScanResult
statusOf(records) ==
  IF records = <<>> THEN "unscanned"
  ELSE IF records = <<"Healthy">> THEN "healthyScan" ELSE "unhealthyScan"

Read(records) == [records |-> records, status |-> statusOf(records), age |-> 0]

NoInfo == [records |-> <<>>, status |-> "none", age |-> 0]
NoEntry == [info |-> NoInfo, left |-> 0]
Stored(d) == entry[d] # NoEntry

Init ==
  /\ graph \in [Images -> RecordLists]
  /\ entry = [d \in Digests |-> NoEntry]
  /\ pc = [c \in Calls |-> "idle"]
  /\ image \in [Calls -> Images]
  /\ info = [c \in Calls |-> NoInfo]
  /\ answered = [c \in Calls |-> NoInfo]

-----------------------------------------------------------------------------
(* GetImageVulnerabilityScanResults                                        *)

Goto(c, label) == pc' = [pc EXCEPT ![c] = label]

\* Neither the call nor a goroutine of it is left.
End(c) == Goto(c, "idle") /\ info' = [info EXCEPT ![c] = NoInfo]

Answer(c, i) == answered' = [answered EXCEPT ![c] = i]

Call(c, i) ==
  /\ pc[c] = "idle"
  /\ image' = [image EXCEPT ![c] = i]
  /\ Goto(c, "lookup")
  /\ Answer(c, NoInfo)
  /\ UNCHANGED <<graph, entry, info>>

digest(c) == digestOf[image[c]]

\* Defect: results that were found are stored once more.
LookupHitStoring(c) ==
  /\ pc[c] = "lookup"
  /\ Stored(digest(c))
  /\ Answer(c, entry[digest(c)].info)
  /\ info' = [info EXCEPT ![c] = entry[digest(c)].info]
  /\ Goto(c, "set")
  /\ UNCHANGED <<graph, entry, image>>

LookupHit(c) ==
  /\ pc[c] = "lookup"
  /\ Stored(digest(c))
  /\ Answer(c, entry[digest(c)].info)
  /\ Goto(c, "idle")
  /\ UNCHANGED <<graph, entry, image, info>>

\* Nothing stored, redis fails, or what is stored cannot be read.
LookupMiss(c) ==
  /\ pc[c] = "lookup"
  /\ Goto(c, "query")
  /\ UNCHANGED <<graph, entry, image, info, answered>>

\* The Resource Graph evaluates the query.
Query(c) ==
  /\ pc[c] = "query"
  /\ info' = [info EXCEPT ![c] = Read(graph[image[c]])]
  /\ Goto(c, "reply")
  /\ UNCHANGED <<graph, entry, image, answered>>

\* Building the query, the query, or parsing its results fails: the call ends
\* with an error and stores nothing.
QueryFails(c) ==
  /\ pc[c] \in {"query", "reply"}
  /\ End(c)
  /\ UNCHANGED <<graph, entry, image, answered>>

AnswerResults(c) ==
  /\ pc[c] = "reply"
  /\ Answer(c, info[c])
  /\ Goto(c, "set")
  /\ UNCHANGED <<graph, entry, image, info>>

expirationTime(status) ==
  IF status = "unscanned" THEN cacheExpirationTimeUnscannedResults
  ELSE cacheExpirationTimeScannedResults

\* Defect: the entry has another digest's key.
StoreAnywhere(c) ==
  \E d \in Digests :
    entry' = [entry EXCEPT ![d] = [info |-> info[c], left |-> expirationTime(info[c].status)]]

Store(c) ==
  entry' = [entry EXCEPT ![digest(c)] =
              [info |-> info[c], left |-> expirationTime(info[c].status)]]

\* SetScanFindingsInCache; when the reply is lost the command is run again.
SetScanFindingsInCache(c) ==
  /\ pc[c] = "set"
  /\ Store(c)
  /\ End(c) \/ UNCHANGED <<pc, info>>
  /\ UNCHANGED <<graph, image, answered>>

SetFails(c) ==
  /\ pc[c] = "set"
  /\ End(c)
  /\ UNCHANGED <<graph, entry, image, answered>>

-----------------------------------------------------------------------------
(* The environment                                                         *)

\* A scan ends: the image has records from now on.
Scan(i) ==
  /\ \E records \in RecordLists \ {<<>>} : graph' = [graph EXCEPT ![i] = records]
  /\ UNCHANGED <<entry, pc, image, info, answered>>

\* redis drops the entries with the least time left when its memory is full.
Evict(d) ==
  /\ entry' = [entry EXCEPT ![d] = NoEntry]
  /\ UNCHANGED <<graph, pc, image, info, answered>>

\* The replica that serves the call ends.
Crash(c) ==
  /\ End(c)
  /\ UNCHANGED <<graph, entry, image, answered>>

Holding == {c \in Calls : pc[c] \in {"reply", "set"}}

Older(i) == [i EXCEPT !.age = @ + 1]

\* A tick goes by; no call takes longer than MaxDelay.
Tick ==
  /\ \A c \in Holding : info[c].age < MaxDelay
  /\ info' = [c \in Calls |-> IF c \in Holding THEN Older(info[c]) ELSE NoInfo]
  /\ entry' = [d \in Digests |->
                 IF entry[d].left <= 1 THEN NoEntry
                 ELSE [info |-> Older(entry[d].info), left |-> entry[d].left - 1]]
  /\ UNCHANGED <<graph, pc, image, answered>>

Next ==
  \/ \E c \in Calls :
       \/ \E i \in Images : Call(c, i)
       \/ LookupHit(c)
       \/ LookupMiss(c)
       \/ Query(c)
       \/ QueryFails(c)
       \/ AnswerResults(c)
       \/ SetScanFindingsInCache(c)
       \/ SetFails(c)
       \/ Crash(c)
  \/ \E i \in Images : Scan(i)
  \/ \E d \in Digests : Evict(d)
  \/ Tick

Spec == Init /\ [][Next]_vars

-----------------------------------------------------------------------------
(* Properties                                                              *)

InfoSet == [records : RecordLists \cup {<<>>},
            status : {"none", "unscanned", "unhealthyScan", "healthyScan"},
            age : Nat]

TypeOK ==
  /\ graph \in [Images -> RecordLists]
  /\ entry \in [Digests -> [info : InfoSet, left : Nat]]
  /\ pc \in [Calls -> {"idle", "lookup", "query", "reply", "set"}]
  /\ image \in [Calls -> Images]
  /\ info \in [Calls -> InfoSet]
  /\ answered \in [Calls -> InfoSet]

Results == {answered[c] : c \in Calls} \ {NoInfo}

\* An image with a finding is never answered as healthy, and one with records
\* never as unscanned, whoever read the records and stored them.
AnswersTellTheRecords ==
  \A i \in Results :
    /\ i.status = "unscanned" <=> i.records = <<>>
    /\ i.status = "healthyScan" =>
         \A n \in DOMAIN i.records : i.records[n] # "Finding"

\* An answer is never older than its expiration time and the delay of the call
\* that read it: a newly scanned image is soon known to be scanned, however
\* often it is asked for meanwhile and however late goroutines store what
\* other calls have read.
FreshEnough ==
  \A i \in Results :
    i.age <= MaxDelay + (IF i.status = "unscanned"
                         THEN cacheExpirationTimeUnscannedResults
                         ELSE cacheExpirationTimeScannedResults)

\* Once an image has records it always has. Images with one digest share what
\* is stored of it, others do not: an answer with records is never given where
\* no image of the same digest has any.
NoForeignRecords ==
  \A c \in Calls :
    answered[c].records # <<>> =>
      \E i \in Images : digestOf[i] = digest(c) /\ graph[i] # <<>>
=============================================================================
