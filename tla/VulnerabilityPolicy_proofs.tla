--------------------- MODULE VulnerabilityPolicy_proofs ---------------------
(***************************************************************************)
(* Theorems about VulnerabilityPolicy, for every workload, all images and  *)
(* findings and all settings of the parameters.                            *)
(***************************************************************************)
EXTENDS VulnerabilityPolicy, FiniteSetTheorems, TLAPS

\* What the rule names is what it yields for the object under review.
JudgedInv == evaluated => violation = violationOf(list, parameters)

-----------------------------------------------------------------------------
(* Containers                                                              *)

Filtered(containers, p) ==
  \E i \in DOMAIN containers :
    \/ hasHealthyScanStatus(containers[i])
    \/ isImageMatchExcludedImagesPattern(containers[i].image, p)

(* The containers of a workload are applicable all or none: none as soon   *)
(* as one of them is exempt.                                               *)
LEMMA AllOrNoneApplicable ==
  ASSUME NEW containers \in Lists, NEW p
  PROVE  /\ Applicable(containers, p) \subseteq Elements(containers)
         /\ (\E c \in Elements(containers) : Exempt(c, p)) => Applicable(containers, p) = {}
         /\ (\A c \in Elements(containers) : ~Exempt(c, p)) =>
              Applicable(containers, p) = Elements(containers)
<1>1. Filtered(containers, p) <=> \E c \in Elements(containers) : Exempt(c, p)
  BY DEF Filtered, Elements, Exempt, hasHealthyScanStatus,
     isImageMatchExcludedImagesPattern
<1>2. CASE Filtered(containers, p)
  <2>1. filterContainers(containers, p) = <<>>
    BY <1>2 DEF filterContainers, Filtered
  <2>2. Applicable(containers, p) = {}
    BY <2>1 DEF Applicable
  <2> QED BY <1>1, <1>2, <2>2
<1>3. CASE ~Filtered(containers, p)
  <2>1. filterContainers(containers, p) = containers
    BY <1>3 DEF filterContainers, Filtered
  <2>2. Applicable(containers, p) = Elements(containers)
    BY <2>1 DEF Applicable, Elements
  <2> QED BY <1>1, <1>3, <2>2
<1> QED BY <1>2, <1>3

(* The filters and the count of the rule are what the parameters say.      *)
LEMMA CountsAgree ==
  ASSUME NEW c, NEW p
  PROVE  isSeverityAboveThreshold(filterScanFindings(c.scanFindings, p), p) <=>
           \E severityType \in Severities :
             Counted(c, p, severityType) > p.severity[severityType]
<1>1. ASSUME NEW severityType
      PROVE  {f \in filterScanFindings(c.scanFindings, p) : f.severity = severityType} =
             {f \in c.scanFindings :
               /\ f.severity = severityType
               /\ f.id \notin p.excludeFindingIDs
               /\ f.patchable \/ severityToLevel[f.severity] >
                    severityToLevel[p.severityThresholdForExcludingNotPatchableFindings]}
  BY DEF filterScanFindings, isScanFindingAppearsInexcludeFindingIDsList,
     isScanFindingPatchableOrAboveThresholdSeverity
<1> QED BY <1>1 DEF isSeverityAboveThreshold, Counted

(* A container is named exactly when it is applicable and violates.        *)
LEMMA Named ==
  ASSUME NEW containers \in Lists, NEW p
  PROVE  violationOf(containers, p) =
           {c \in Applicable(containers, p) : Violates(c, p)}
<1>1. ASSUME NEW c \in Applicable(containers, p) PROVE ~Exempt(c, p)
  BY <1>1, AllOrNoneApplicable
<1>2. ASSUME NEW c \in Applicable(containers, p)
      PROVE  c \in violationOf(containers, p) <=> Violates(c, p)
  BY <1>1, <1>2, CountsAgree
     DEF violationOf, unscannedViolation, severityViolation, Violates
<1>3. violationOf(containers, p) \subseteq Applicable(containers, p)
  BY DEF violationOf, unscannedViolation, severityViolation
<1> QED BY <1>2, <1>3

(* Parameters that demand less count fewer findings.                       *)
LEMMA RelaxedCounts ==
  ASSUME NEW c \in Infos, NEW p \in Parameters, NEW q \in Parameters, Relaxes(q, p),
         NEW severityType \in Severities
  PROVE  /\ Counted(c, q, severityType) \in Nat
         /\ Counted(c, p, severityType) \in Nat
         /\ Counted(c, q, severityType) <= Counted(c, p, severityType)
<1> DEFINE Set(r) ==
             {f \in c.scanFindings :
               /\ f.severity = severityType
               /\ f.id \notin r.excludeFindingIDs
               /\ f.patchable \/ severityToLevel[f.severity] >
                    severityToLevel[r.severityThresholdForExcludingNotPatchableFindings]}
           level(r) == severityToLevel[r.severityThresholdForExcludingNotPatchableFindings]
<1>1. c.scanFindings \subseteq Findings
  BY DEF Infos
<1>2. IsFiniteSet(Set(p)) /\ IsFiniteSet(Set(q))
  <2>1. IsFiniteSet(Findings)
    BY PolicyAssumption
  <2>2. Set(p) \subseteq Findings /\ Set(q) \subseteq Findings
    BY <1>1
  <2> QED BY <2>1, <2>2, FS_Subset
<1>3. Set(q) \subseteq Set(p)
  <2>1. \A s \in DOMAIN severityToLevel : severityToLevel[s] \in Nat
    BY DEF severityToLevel
  <2>2. /\ \A f \in Findings : severityToLevel[f.severity] \in Nat
        /\ level(p) \in Nat /\ level(q) \in Nat
    BY <2>1, PolicyAssumption
  <2>3. level(p) <= level(q)
    BY DEF Relaxes
  <2>4. \A f \in Findings :
          severityToLevel[f.severity] > level(q) => severityToLevel[f.severity] > level(p)
    BY <2>2, <2>3
  <2>5. p.excludeFindingIDs \subseteq q.excludeFindingIDs
    BY DEF Relaxes
  <2> QED BY <1>1, <2>4, <2>5
<1>4. /\ Cardinality(Set(q)) <= Cardinality(Set(p))
      /\ Cardinality(Set(q)) \in Nat /\ Cardinality(Set(p)) \in Nat
  BY <1>2, <1>3, FS_Subset, FS_CardinalityType
<1> QED BY <1>4 DEF Counted

LEMMA RelaxedViolates ==
  ASSUME NEW c \in Infos, NEW p \in Parameters, NEW q \in Parameters, Relaxes(q, p),
         Violates(c, q)
  PROVE  Violates(c, p)
<1>1. Exempt(c, p) => Exempt(c, q)
  BY DEF Relaxes, Exempt
<1>2. ASSUME NEW severityType \in Severities,
             Counted(c, q, severityType) > q.severity[severityType]
      PROVE  Counted(c, p, severityType) > p.severity[severityType]
  <2>1. /\ p.severity[severityType] \in Nat /\ q.severity[severityType] \in Nat
        /\ p.severity[severityType] <= q.severity[severityType]
    BY PolicyAssumption DEF Relaxes
  <2> QED BY <1>2, <2>1, RelaxedCounts
<1> QED BY <1>1, <1>2 DEF Violates

-----------------------------------------------------------------------------
(* Theorems                                                                *)

LEMMA ElementsAreInfos ==
  ASSUME NEW containers \in Lists
  PROVE  Elements(containers) \subseteq Infos
<1>1. containers \in Seq(Infos)
  BY PolicyAssumption
<1> QED BY <1>1 DEF Elements

LEMMA Inductive == Spec => [](TypeOK /\ JudgedInv)
<1>1. Init => TypeOK /\ JudgedInv
  BY DEF Init, TypeOK, JudgedInv
<1>2. TypeOK /\ JudgedInv /\ [Next]_vars => (TypeOK /\ JudgedInv)'
  <2> SUFFICES ASSUME TypeOK, JudgedInv, [Next]_vars PROVE (TypeOK /\ JudgedInv)'
    OBVIOUS
  <2>1. CASE Evaluate
    <3>1. violationOf(list, parameters) \subseteq Infos
      BY Named, AllOrNoneApplicable, ElementsAreInfos DEF TypeOK
    <3> QED BY <2>1, <3>1 DEF Evaluate, TypeOK, JudgedInv
  <2>2. CASE UNCHANGED vars
    BY <2>2 DEF vars, TypeOK, JudgedInv
  <2> QED BY <2>1, <2>2 DEF Next
<1> QED BY <1>1, <1>2, PTL DEF Spec

(* Every state has its types. *)
THEOREM TypeCorrect == Spec => []TypeOK
BY Inductive, PTL

(* Where no container is exempt the policy names exactly those that break  *)
(* the constraint.                                                         *)
THEOREM ExactlyJudged == Spec => []JudgedExactly
<1>1. TypeOK /\ JudgedInv => JudgedExactly
  BY Named, AllOrNoneApplicable DEF TypeOK, JudgedInv, JudgedExactly
<1> QED BY <1>1, Inductive, PTL

(* Whatever the other containers are, the policy names violators only.     *)
THEOREM ViolatorsOnly == Spec => []OnlyViolatorsNamed
<1>1. Init => OnlyViolatorsNamed
  BY DEF Init, OnlyViolatorsNamed
<1>2. TypeOK /\ OnlyViolatorsNamed /\ [Next]_vars => OnlyViolatorsNamed'
  <2> SUFFICES ASSUME TypeOK, OnlyViolatorsNamed, [Next]_vars
               PROVE  OnlyViolatorsNamed'
    OBVIOUS
  <2>1. CASE Evaluate
    <3>1. \A c \in violationOf(list, parameters) : Violates(c, parameters)
      BY Named DEF TypeOK
    <3> QED BY <2>1, <3>1 DEF Evaluate, OnlyViolatorsNamed, Violates, Exempt, Counted
  <2>2. CASE UNCHANGED vars
    BY <2>2 DEF vars, OnlyViolatorsNamed, Violates, Exempt, Counted
  <2> QED BY <2>1, <2>2 DEF Next
<1> QED BY <1>1, <1>2, TypeCorrect, PTL DEF Spec

(* Loosening the parameters never names a container that they did not name *)
(* before.                                                                 *)
THEOREM RelaxingIsSafe == Spec => []RelaxingNeverBlocks
<1>1. ASSUME NEW containers \in Lists, NEW p \in Parameters, NEW q \in Parameters,
             Relaxes(q, p)
      PROVE  violationOf(containers, q) \subseteq violationOf(containers, p)
  <2> SUFFICES ASSUME NEW c \in violationOf(containers, q)
               PROVE  c \in violationOf(containers, p)
    OBVIOUS
  <2>1. c \in Applicable(containers, q) /\ Violates(c, q)
    BY Named
  <2>2. c \in Elements(containers) /\ c \in Infos
    BY <2>1, AllOrNoneApplicable, ElementsAreInfos
  <2>3. Violates(c, p)
    BY <1>1, <2>1, <2>2, RelaxedViolates
  <2>4. \A d \in Elements(containers) : ~Exempt(d, q)
    BY <2>1, AllOrNoneApplicable
  <2>5. \A d \in Elements(containers) : ~Exempt(d, p)
    BY <1>1, <2>4 DEF Relaxes, Exempt
  <2>6. c \in Applicable(containers, p)
    BY <2>2, <2>5, AllOrNoneApplicable
  <2> QED BY <2>3, <2>6, Named
<1>2. TypeOK /\ JudgedInv => RelaxingNeverBlocks
  BY <1>1 DEF TypeOK, JudgedInv, RelaxingNeverBlocks
<1> QED BY <1>2, Inductive, PTL
=============================================================================
