------------------------- MODULE MCCloudController -------------------------
(***************************************************************************)
(* Instances of CloudController for TLC.  A scenario is one question: few  *)
(* things happen in it, and everything else keeps its usual course.        *)
(***************************************************************************)
EXTENDS CloudController

CONSTANTS c1, c2

Scenario(ops, fields, changeLimit, errorLimit) ==
    [running |-> {c1}, class |-> c1, classes |-> {}, ops |-> ops, fields |-> fields,
     resync |-> TRUE, lagging |-> FALSE, behind |-> 2, changes |-> changeLimit, errors |-> errorLimit]

\* Delete the Service, make it a ClusterIP or break it: without resync, on old caches
Lifecycle ==
    [Scenario({"delete", "clusterIP", "invalid"}, {}, 3, 1) EXCEPT !.resync = FALSE, !.lagging = TRUE,
                                                              !.behind = 3]
TypeFlips == [Scenario({"type"}, {}, 2, 1) EXCEPT !.lagging = TRUE]

\* The Service moves to another class, served or not, and may be deleted.
HandOver == [Scenario({"delete"}, {}, 2, 0) EXCEPT !.running = {c1, c2}, !.classes = {c2}]
Abandoned ==
    [Scenario({"delete"}, {}, 3, 0) EXCEPT !.resync = FALSE, !.classes = {c1, OtherClass}]

\* A node may go and come back before the first patch of the endpoints is seen.
Nodes == [Scenario({"node"}, {}, 2, 0) EXCEPT !.lagging = TRUE]

\* One update of several settings at once
Networks == [Scenario({}, {"networks"}, 2, 0) EXCEPT !.lagging = TRUE]
TwoOptions == Scenario({}, {"tcpIdle", "policy"}, 1, 1)
ProjectChange == Scenario({}, {"project", "infra"}, 1, 0)
ExistingIP == Scenario({}, {"existingIP"}, 2, 0)
OtherSettings == Scenario({}, {"debug", "logForward"}, 1, 0)
PlainSettings == Scenario({}, {"replicas", "ports", "internal", "ranges", "proxy", "filter"}, 1, 0)

MCScenarios ==
    {Lifecycle, TypeFlips, HandOver, Abandoned, Nodes, Networks, TwoOptions,
     ProjectChange, ExistingIP, OtherSettings, PlainSettings}

=============================================================================
