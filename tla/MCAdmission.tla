---------------------------- MODULE MCAdmission -----------------------------
(* Instances of Admission for TLC: an object whose pod specs share a       *)
(* container, and the requests there are for it.                           *)
EXTENDS Admission, Sequences

Main == [name |-> "main", image |-> "app"]
Setup == [name |-> "setup", image |-> "base"]

\* With and without the init container, and with their parts exchanged.
Plain == [initContainers |-> {}, containers |-> {Main}]
Prepared == [initContainers |-> {Setup}, containers |-> {Main}]
Exchanged == [initContainers |-> {Main}, containers |-> {Setup}]
Specs == {Plain, Prepared, Exchanged}

Info(container, status) ==
  [name |-> container.name, image |-> container.image, scanStatus |-> status,
   scanFindings |-> IF status # "unhealthyScan" THEN {}
                    ELSE {[id |-> "125", severity |-> "High", patchable |-> TRUE]}]

Of(infos) == [containers |-> infos]

SomeScanInfosOf ==
  [spec \in Specs |->
     IF spec = Plain
     THEN {Of(<<Info(Main, status)>>) :
             status \in {"unscanned", "unhealthyScan", "healthyScan"}}
     ELSE {Of(<<Info(Setup, "unhealthyScan"), Info(Main, "unhealthyScan")>>),
           Of(<<Info(Main, "healthyScan"), Info(Setup, "healthyScan")>>)}]

\* The author's annotation, and the one of an earlier admission.
SomeAnnotations ==
  {[key \in {"author"} |-> "author"]} \cup
    {[key \in {"author", "scan"} |-> IF key = "scan" THEN info ELSE "author"] :
       info \in UNION {SomeScanInfosOf[spec] : spec \in Specs}}

\* Requests that differ from a plain one in one respect at most.
Plainly == [namespace |-> "default", kind |-> "Pod", operation |-> "CREATE",
            object |-> "workload"]

Manners ==
  {[Plainly EXCEPT !.namespace = n] : n \in {"own", "default"}}
    \cup {[Plainly EXCEPT !.kind = "Service"]}
    \cup {[Plainly EXCEPT !.operation = o] : o \in {"UPDATE", "CONNECT"}}
    \cup {[Plainly EXCEPT !.object = "unconvertible"]}

SomeRequests ==
  {[namespace |-> m.namespace, kind |-> m.kind, operation |-> m.operation,
    object |-> m.object, spec |-> spec, annotations |-> annotated] :
     m \in Manners, spec \in Specs, annotated \in SomeAnnotations}

SomeParameters ==
  [excludedImages |-> {}, excludeFindingIDs |-> {},
   severityThresholdForExcludingNotPatchableFindings |-> "None",
   severity |-> [severityType \in {"Low", "Medium", "High"} |-> 0]]
=============================================================================
