------------------------------ MODULE MCFront ------------------------------
(***************************************************************************)
(* An instance of Front: bodies below, at and above the limit, declared    *)
(* and not; receipts of two scopes at engines of two policy versions, more *)
(* of them than allowed, and for another version than the engine's.  One   *)
(* of the engines does not enforce client identities.                      *)
(***************************************************************************)
EXTENDS Front, TLC

Text(route, total, declared, valid) ==
    [route |-> route, total |-> total, valid |-> valid, engine |-> "p1",
     declared |-> declared, scope |-> "", digests |-> <<>>, version |-> "none"]

Receipts(route, engine, scope, digests, version) ==
    [route |-> route, total |-> 1, valid |-> TRUE, engine |-> engine,
     declared |-> "total", scope |-> scope, digests |-> digests,
     version |-> version]

MCCalls ==
    {Text("adapter", 1, "none", TRUE), Text("adapter", 3, "none", TRUE),
     Text("adapter", 3, "total", TRUE), Text("adapter", 1, "total", FALSE),
     Text("studio", 1, "total", TRUE), Text("studio", 1, "malformed", TRUE),
     Text("studio", 1, "negative", TRUE), Text("preview", 1, "total", TRUE),
     Receipts("record", "p1", "s", <<"a", "b">>, "p1"),
     Receipts("record", "p2", "t", <<"a">>, "none"),
     Receipts("record", "p1", "s", <<"a">>, "p2"),
     Receipts("verify", "p1", "s", <<"a", "b">>, "none"),
     Receipts("verify", "p1", "t", <<"a">>, "none"),
     Receipts("verify", "p2", "t", <<"a", "b", "c">>, "none")}

Symmetry == Permutations(Connections)
=============================================================================
