----------------------------- MODULE MCDataPath -----------------------------
(***************************************************************************)
(* An instance of DataPath for TLC: clients a and b (IPv4) and c (IPv6),   *)
(* the range "a" covers one of them; "bad" is no CIDR.                     *)
(***************************************************************************)
EXTENDS DataPath, TLC

MCV4 == {"a", "b"}
MCV6 == {"c"}
MCCovers == (Any4 :> MCV4) @@ (Any6 :> MCV6) @@ ("a" :> {"a"}) @@ ("c" :> {"c"})

Web == [Spec0 EXCEPT !.ports = <<<<"TCP", 80>>>>, !.eps = {"n1"}]

MCSpecs ==
    {Web,
     [Web EXCEPT !.ports = <<<<"TCP", 80>>, <<"UDP", 80>>>>, !.ranges = <<"a", "bad", "c">>,
                 !.proxy = TRUE],
     [Web EXCEPT !.ports = <<<<"UDP", 80>>>>, !.ranges = <<"a", "a">>, !.debug = TRUE,
                 !.eps = {"n1", "n2"}],
     [Web EXCEPT !.ports = <<<<"TCP", 22>>>>, !.debug = TRUE, !.ok = FALSE]}

=============================================================================
