------------------------------ MODULE ARGClient -----------------------------
(***************************************************************************)
(* The clients of the retry policy at work, one of them in detail: the     *)
(* action of a query of the Azure Resource Graph (pkg/dataproviders/arg/   *)
(* arg_client.go) fetches the pages of an answer one after the other. All  *)
(* its runs share one request, and the token of the next page is kept in   *)
(* it. The actions of the other clients are one call each.                 *)
(*                                                                         *)
(* The Resource Graph is external: the records of an image appear when its *)
(* scan ends, a query sees those of the moment it starts, and any page may *)
(* fail. A skip token is the number of records that are skipped.           *)
(***************************************************************************)
EXTENDS RetryPolicy

CONSTANTS
  Scans,     \* scans of an image: their records, in the order of the query
  pageSize   \* Top: records in a page

ASSUME ARGAssumption ==
  /\ Scans \subseteq Seq(Nat) \ {<<>>}
  /\ pageSize \in Nat \ {0}

VARIABLES
  published,     \* the records in the Resource Graph
  SkipToken,     \* request.Options.SkipToken, NoToken if nil
  totalResults   \* what the run under way, or the last one, has fetched

argVars == <<vars, published, SkipToken, totalResults>>

NoToken == 0

ARGInit ==
  /\ Init
  /\ published \in Scans \cup {<<>>}
  /\ SkipToken = NoToken
  /\ totalResults = <<>>

-----------------------------------------------------------------------------
\* The scan of the image ends.
Publish ==
  /\ client = "QueryResources"
  /\ published = <<>>
  /\ published' \in Scans
  /\ UNCHANGED <<vars, SkipToken, totalResults>>

Fetching == client = "QueryResources" /\ pc = "act"

\* Each run has its own list of results; the request is that of the run before.
StartRun ==
  /\ EnterLoop
  /\ totalResults' = <<>>
  /\ UNCHANGED <<published, SkipToken>>

Complete == SkipToken + pageSize >= Len(published)

\* A page that is not the last one.
FetchPage ==
  /\ Fetching
  /\ ~Complete
  /\ totalResults' =
       totalResults \o SubSeq(published, SkipToken + 1, SkipToken + pageSize)
  /\ SkipToken' = SkipToken + pageSize
  /\ UNCHANGED <<vars, published>>

\* The response has no token for a next page. No results are an error, which
\* has the query run again.
FetchLastPage ==
  /\ Fetching
  /\ Complete
  /\ totalResults' = totalResults \o SubSeq(published, SkipToken + 1, Len(published))
  /\ SkipToken' = NoToken
  /\ ActionEnds(IF totalResults' = <<>> THEN "empty result" ELSE "nil")
  /\ UNCHANGED published

\* The call fails, or its response lacks the data or has another form: what was
\* fetched before is dropped, and the token of the page stays in the request.
PageFails ==
  /\ Fetching
  /\ ActionEnds("network")
  /\ totalResults' = <<>>
  /\ UNCHANGED <<published, SkipToken>>

\* The steps of the policy that do not concern the pages.
PolicyStep ==
  /\ GiveUp \/ Sleep \/ (client # "QueryResources" /\ Act)
  /\ UNCHANGED <<published, SkipToken, totalResults>>

Call == StartRun \/ FetchPage \/ FetchLastPage \/ PageFails \/ PolicyStep

ARGNext == Call \/ Publish

ARGSpec == ARGInit /\ [][ARGNext]_argVars

\* Calls over the network have a time limit: each of them returns.
FairARGSpec == ARGSpec /\ WF_argVars(Call)

-----------------------------------------------------------------------------
(* Properties                                                              *)

\* The results are all records of the image, once each and in order: part of
\* them would make a vulnerable image look better than it is, and a single one
\* that says "healthy" is all that makes it look well. It takes that no run
\* starts with the token of a page in the shared request.
AllOrNothing ==
  client = "QueryResources" /\ pc = "returned" /\ runs # <<>> /\ err = "nil" =>
    totalResults = published
=============================================================================
