----------------------- MODULE MCVulnerabilityPolicy ------------------------
(* Workloads of up to two containers under every setting of the parameters. *)
EXTENDS VulnerabilityPolicy

CONSTANTS main, side, app, base

SomeFindings ==
  {[id |-> "125", severity |-> "Low", patchable |-> FALSE],
   [id |-> "126", severity |-> "High", patchable |-> FALSE],
   [id |-> "127", severity |-> "High", patchable |-> TRUE]}

\* The scan infos the webhook writes: only unhealthy containers have findings.
InfosOf(name) ==
  {c \in [name : {name}, image : Images, scanStatus : ScanStatuses,
          scanFindings : SUBSET SomeFindings] :
     c.scanFindings = {} <=> c.scanStatus # "unhealthyScan"}

ListsUpToTwo ==
  {<<>>} \cup {<<c>> : c \in InfosOf(main)}
         \cup {<<c, d>> : c \in InfosOf(main), d \in InfosOf(side)}

SomeParameters ==
  [excludedImages : {{}, {base}},
   excludeFindingIDs : {{}, {"125"}, {"126"}},
   severityThresholdForExcludingNotPatchableFindings : DOMAIN severityToLevel,
   severity : [Severities -> {0, 1}]]
=============================================================================
