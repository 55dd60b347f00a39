------------------------- MODULE VulnerabilityPolicy ------------------------
(***************************************************************************)
(* The Gatekeeper policy that reads the annotation written by the webhook  *)
(* (policy/container-no-vulnerable-images/v1/rego/src.rego): which         *)
(* containers of a workload violate the constraint.                        *)
(*                                                                         *)
(* A Rego rule that is undefined contributes nothing; a function of Rego   *)
(* that is undefined for its argument is written here as the list or set   *)
(* without elements, which the callers of it cannot tell from undefined.   *)
(***************************************************************************)
EXTENDS Naturals, Sequences, FiniteSets

CONSTANTS
  Names,       \* container names
  Images,      \* image names, as the patterns of excludedImages tell them apart
  Findings,    \* scan findings: [id, severity, patchable]
  Lists,       \* the ContainerVulnerabilityScanInfoLists under review
  Parameters   \* the constraints' parameters

ScanStatuses == {"unscanned", "unhealthyScan", "healthyScan"}

\* ContainerVulnerabilityScanInfo; findings are told apart by their content.
Infos == [name : Names, image : Images, scanStatus : ScanStatuses,
          scanFindings : SUBSET Findings]

\* Severities that a threshold counts, and their levels.
Severities == {"Low", "Medium", "High"}
severityToLevel == [None |-> 0, Low |-> 1, Medium |-> 2, High |-> 3]

ASSUME PolicyAssumption ==
  /\ IsFiniteSet(Findings)
  /\ \A f \in Findings :
       f.severity \in DOMAIN severityToLevel /\ f.patchable \in BOOLEAN
  /\ Lists \subseteq Seq(Infos)
  /\ \A p \in Parameters :
       /\ p.excludedImages \subseteq Images
       /\ p.severityThresholdForExcludingNotPatchableFindings
            \in DOMAIN severityToLevel
       /\ p.severity \in [Severities -> Nat]

VARIABLES
  list,        \* what the annotation of the object under review holds
  parameters,  \* input.parameters
  evaluated,   \* whether Gatekeeper has evaluated the constraint
  violation    \* the containers that the rule `violation' then names

vars == <<list, parameters, evaluated, violation>>

-----------------------------------------------------------------------------
(* Findings                                                                *)

isScanFindingAppearsInexcludeFindingIDsList(f, p) ==
  f.id \in p.excludeFindingIDs

isScanFindingPatchableOrAboveThresholdSeverity(f, p) ==
  \/ f.patchable
  \/ severityToLevel[f.severity] >
       severityToLevel[p.severityThresholdForExcludingNotPatchableFindings]

\* Defect: findings without a patch are dropped above the threshold.
filterScanFindingsInverted(findings, p) ==
  {f \in findings :
     /\ ~isScanFindingAppearsInexcludeFindingIDsList(f, p)
     /\ \/ f.patchable
        \/ ~isScanFindingPatchableOrAboveThresholdSeverity(f, p)}

filterScanFindings(findings, p) ==
  {f \in findings :
     /\ ~isScanFindingAppearsInexcludeFindingIDsList(f, p)
     /\ isScanFindingPatchableOrAboveThresholdSeverity(f, p)}

\* Defect: the threshold itself is already too many.
isSeverityAboveThresholdInclusive(findings, p) ==
  \E severityType \in Severities :
    Cardinality({f \in findings : f.severity = severityType})
      >= p.severity[severityType]

isSeverityAboveThreshold(findings, p) ==
  \E severityType \in Severities :
    Cardinality({f \in findings : f.severity = severityType})
      > p.severity[severityType]

-----------------------------------------------------------------------------
(* Containers                                                              *)

isImageMatchExcludedImagesPattern(image, p) == image \in p.excludedImages

hasHealthyScanStatus(info) == info.scanStatus = "healthyScan"

\* Defect: excluded images are not looked at.
filterContainersHealthyOnly(containers, p) ==
  IF \E i \in DOMAIN containers : hasHealthyScanStatus(containers[i])
  THEN <<>> ELSE containers

\* `containers = filter...(containers)' unifies the argument with the filtered
\* list: the function is defined only for a list that both filters leave as
\* it is.
filterContainers(containers, p) ==
  IF \E i \in DOMAIN containers :
       \/ hasHealthyScanStatus(containers[i])
       \/ isImageMatchExcludedImagesPattern(containers[i].image, p)
  THEN <<>> ELSE containers

Applicable(containers, p) ==
  {filterContainers(containers, p)[i] : i \in DOMAIN filterContainers(containers, p)}

unscannedViolation(containers, p) ==
  {c \in Applicable(containers, p) : c.scanStatus = "unscanned"}

severityViolation(containers, p) ==
  {c \in Applicable(containers, p) :
     /\ c.scanStatus = "unhealthyScan"
     /\ isSeverityAboveThreshold(filterScanFindings(c.scanFindings, p), p)}

violationOf(containers, p) ==
  unscannedViolation(containers, p) \cup severityViolation(containers, p)

-----------------------------------------------------------------------------
Init ==
  /\ list \in Lists
  /\ parameters \in Parameters
  /\ evaluated = FALSE
  /\ violation = {}

\* At admission, and again whenever Gatekeeper audits the object.
Evaluate ==
  /\ evaluated' = TRUE
  /\ violation' = violationOf(list, parameters)
  /\ UNCHANGED <<list, parameters>>

Next == Evaluate

Spec == Init /\ [][Next]_vars

-----------------------------------------------------------------------------
(* Properties                                                              *)

Elements(containers) == {containers[i] : i \in DOMAIN containers}

TypeOK ==
  /\ list \in Lists
  /\ parameters \in Parameters
  /\ evaluated \in BOOLEAN
  /\ violation \subseteq Infos

\* What the parameters say of a container: images and findings they exempt do
\* not count, and neither do findings without a patch up to the threshold.
Counted(c, p, severityType) ==
  Cardinality({f \in c.scanFindings :
    /\ f.severity = severityType
    /\ f.id \notin p.excludeFindingIDs
    /\ f.patchable \/ severityToLevel[f.severity] >
         severityToLevel[p.severityThresholdForExcludingNotPatchableFindings]})

Exempt(c, p) == c.scanStatus = "healthyScan" \/ c.image \in p.excludedImages

Violates(c, p) ==
  /\ ~Exempt(c, p)
  /\ \/ c.scanStatus = "unscanned"
     \/ /\ c.scanStatus = "unhealthyScan"
        /\ \E severityType \in Severities :
             Counted(c, p, severityType) > p.severity[severityType]

\* Where no container is exempt the policy names exactly the containers that
\* break the constraint ("Specify the maximum severity for exempting
\* vulnerabilities without a patch", "The number of allowed findings per
\* severity for an image").
JudgedExactly ==
  evaluated /\ (\A c \in Elements(list) : ~Exempt(c, parameters)) =>
    violation = {c \in Elements(list) : Violates(c, parameters)}

\* No workload is blocked by a container that is exempt or keeps the
\* thresholds, whatever the other containers are.
OnlyViolatorsNamed == \A c \in violation : Violates(c, parameters)

\* Parameters that demand less of a workload never block one that stricter
\* parameters let through.
Relaxes(q, p) ==
  /\ p.excludedImages \subseteq q.excludedImages
  /\ p.excludeFindingIDs \subseteq q.excludeFindingIDs
  /\ severityToLevel[p.severityThresholdForExcludingNotPatchableFindings]
       <= severityToLevel[q.severityThresholdForExcludingNotPatchableFindings]
  /\ \A severityType \in Severities :
       p.severity[severityType] <= q.severity[severityType]

RelaxingNeverBlocks ==
  evaluated =>
    \A q \in Parameters :
      Relaxes(q, parameters) => violationOf(list, q) \subseteq violation

\* "This violation checks if there is a container with unscanned scanStatus":
\* an unscanned container that is not excluded is a violation, also beside
\* containers that are healthy or excluded.
UnscannedIsViolation ==
  evaluated =>
    \A c \in Elements(list) :
      c.scanStatus = "unscanned" /\ ~Exempt(c, parameters) => c \in violation
=============================================================================
