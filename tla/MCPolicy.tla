------------------------------ MODULE MCPolicy -------------------------------
(***************************************************************************)
(* Two entity types, two routes, up to two leaves (and one request of      *)
(* three, over the limit).                                                 *)
(***************************************************************************)
EXTENDS Policy

CONSTANTS A, B, Local, Vault

\* Both entity types with a policy of their own, in either order, or B left to
\* the default action.
MCPolicies ==
    {p \in [order : {<<A, B>>, <<B, A>>, <<A>>},
            action : [{A, B} -> {"pass", "mask", "reversible_replace", "reroute", "block"}],
            route : [{A, B} -> {Vault, None}],
            faces : {"block", "text-only", "reroute"}, faceRoute : {Vault, None},
            maskOnReroute : BOOLEAN] :
        /\ \A e \in {A, B} : p.route[e] # None => p.action[e] = "reroute"
        /\ p.order = <<A>> => p.route[B] = None
        /\ p.order = <<B, A>> => \A e \in {A, B} : p.action[e] = "reroute"
        /\ p.faceRoute # None => p.faces = "reroute"
        /\ p.action[A] = "reversible_replace" => p.action[B] = "mask"
        /\ (\A e \in {A, B} : p.action[e] # "reroute") => p.maskOnReroute}

MCLeaves == {{}, {{A}}, {{B}}, {{A, B}}, {{A}, {A, B}}}

MCTexts == {<<>>} \union {<<a>> : a \in MCLeaves}
             \union {<<a, b>> : a, b \in {{}, {{A}}, {{A, B}}, {{B}}}}

Plain(kind, leaves, attachments, unsafe) ==
    [kind |-> kind, scope |-> "session", leaves |-> leaves, textPii |-> TRUE,
     attachments |-> attachments, unsafe |-> unsafe, faces |-> None]

Document(leaves, textPii, unsafe, faces) ==
    [kind |-> "model", scope |-> "request", leaves |-> leaves, textPii |-> textPii,
     attachments |-> FALSE, unsafe |-> unsafe, faces |-> faces]

\* Every text as a model request, short ones as MCP requests too; attachments and safety
\* matches; converted documents, with and without text analysis.
MCRequests ==
    {Plain("model", t, FALSE, FALSE) : t \in MCTexts}
      \union {Plain("mcp", t, FALSE, FALSE) :
                t \in {u \in MCTexts : Len(u) < 2} \union {<<{{A}}, {{B}}>>}}
      \union {Plain(k, <<{{A}}>>, a, ~a) : k \in {"model", "mcp"}, a \in BOOLEAN}
      \union {Plain("mcp", <<>>, TRUE, FALSE), Plain("model", <<{}, {}, {}>>, FALSE, FALSE)}
      \union {Document(<<{{A}}>>, TRUE, TRUE, [status |-> "complete", count |-> 1])}
      \union {Document(<<{{A}}, {{B}}>>, TRUE, FALSE, None)}
      \union {Document(t, p, FALSE, f) :
                t \in {<<{}>>, <<{{A}}, {{A, B}}>>}, p \in BOOLEAN,
                f \in {[status |-> "failed", count |-> 0], [status |-> "complete", count |-> 2],
                       [status |-> "not_scanned", count |-> 0]}}

=============================================================================
