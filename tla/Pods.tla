-------------------------------- MODULE Pods --------------------------------
(***************************************************************************)
(* Which pod a verifier asks on Kubernetes (lib/kubernetes.js): findPod()  *)
(* reads the DaemonSet, then the pods of its node that have the labels,    *)
(* and the port-forward is opened to the name it found.  The DaemonSet may *)
(* be updated in between, and anyone who may create pods in the namespace  *)
(* can give theirs the labels and a name that sorts first.                 *)
(*                                                                         *)
(* A pod's or a template's specification is [image, fields, mounts,        *)
(* debug]: `fields' stands for all the fields that must be the same (an    *)
(* absent one and an empty one are), and `debug' for what a template never *)
(* has, a debugging container that was added to a running pod.             *)
(***************************************************************************)
EXTENDS Naturals, FiniteSets

Template(image) == [image |-> [tag |-> image, pinned |-> FALSE], fields |-> "same", mounts |-> {"config"}, debug |-> FALSE]
Templates == {Template("v1"), Template("v2")}

\* What the API server makes of a template: it mounts a service account's
\* token, and an admission controller may pin the tag to a digest.
MadeFrom(template) ==
    {[image |-> [tag |-> template.image.tag, pinned |-> pinned], fields |-> template.fields,
      mounts |-> template.mounts \cup token, debug |-> template.debug] : token \in {{}, {"token"}}, pinned \in BOOLEAN}

\* templateDifferences(): by field.
TemplateDifferences(spec, template) ==
    UNION {{f \in {"fields"} : spec.fields # template.fields},
           {f \in {"ephemeralContainers"} : spec.debug},
           {f \in {"volumeMounts"} : spec.mounts \ {"token"} # template.mounts},
           {f \in {"image"} : spec.image # template.image /\ ~(spec.image.tag = template.image.tag /\ spec.image.pinned)}}

Refused == 0
\* Mutant: the pod of the labels whose name comes first.
FirstLabelled(template, pods) ==
    LET found == {p \in pods : ~p.deleting /\ \A q \in pods : p.name <= q.name}
    IN  IF found = {} THEN Refused ELSE (CHOOSE p \in found : TRUE).name
\* findPod(): the only pod of the node that the DaemonSet controls, when it
\* runs the template that was read.
FindPod(template, pods) ==
    LET owned == {p \in pods : ~p.deleting /\ p.controlled}
    IN  IF Cardinality(owned) = 1 /\ \A p \in owned : TemplateDifferences(p.spec, template) = {}
        THEN (CHOOSE p \in owned : TRUE).name ELSE Refused

---------------------------------------------------------------------------
(* The cluster *)

Pod(name, controlled, spec, deleting) ==
    [name |-> name, controlled |-> controlled, spec |-> spec, deleting |-> deleting]

\* A pod of the DaemonSet as it made it, or as someone changed it; another's
\* pod with the labels, of whatever specification.
Changed(template) ==
    {[template EXCEPT !.debug = TRUE], [template EXCEPT !.fields = "other"],
     [template EXCEPT !.mounts = @ \cup {"other"}], [template EXCEPT !.image.tag = "other"]}
Others == {{}} \cup {{Pod(name, FALSE, Template("v1"), FALSE)} : name \in {1, 9}}
Own == {{}} \cup {{Pod(2, TRUE, spec, deleting)} :
                     spec \in MadeFrom(Template("v1")) \cup Changed(Template("v1")), deleting \in BOOLEAN}
Clusters ==
    {[template |-> Template("v1"), pods |-> others \cup own, next |-> 3] : others \in Others, own \in Own}

\* What the DaemonSet's controller, and the operator who updates it, do; the
\* controller never uses a name twice.
Updates(c) == {[c EXCEPT !.template = t] : t \in Templates}
Deletions(c) ==
    {[c EXCEPT !.pods = (@ \ {p}) \cup {[p EXCEPT !.deleting = TRUE]}] : p \in {q \in c.pods : q.controlled}}
        \cup {[c EXCEPT !.pods = @ \ {p}] : p \in {q \in c.pods : q.deleting}}
Creations(c) ==
    IF \E p \in c.pods : p.controlled /\ ~p.deleting THEN {}
    ELSE {[c EXCEPT !.pods = @ \cup {Pod(c.next, TRUE, spec, FALSE)}, !.next = @ + 1] : spec \in MadeFrom(c.template)}
Steps(c) == {c} \cup Updates(c) \cup Deletions(c) \cup Creations(c)
Later(c) == UNION {Steps(d) : d \in Steps(c)}

\* The template is read, then the pods, then the connection is made.  What
\* answers is a pod that the DaemonSet made from the template that was read,
\* and that nobody changed before it was found, or nothing does: other pods
\* with the labels are never asked, whatever the DaemonSet does meanwhile.
AnswersAsTemplate(cluster) ==
    \A listed \in Later(cluster) :
        LET name == FindPod(cluster.template, listed.pods)
        IN  name # Refused =>
              \A connected \in Later(listed) :
                  \A p \in connected.pods :
                      p.name = name => p.controlled /\ p.spec \in MadeFrom(cluster.template)

\* On a node where the DaemonSet's pod runs unchanged it is found, whatever
\* other pods have the labels.
FoundWhenSettled(cluster) ==
    LET owned == {p \in cluster.pods : p.controlled}
    IN  (Cardinality(owned) = 1 /\ \A p \in owned : ~p.deleting /\ p.spec \in MadeFrom(cluster.template))
            => FindPod(cluster.template, cluster.pods) \in {p.name : p \in owned}
============================================================================
