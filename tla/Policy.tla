------------------------------- MODULE Policy --------------------------------
(***************************************************************************)
(* PolicyService and the runtime around it: from one request of the        *)
(* adapter to the answer it gets, and the decision the session keeps.      *)
(*                                                                         *)
(* A request passes the stored decision, the preflight (attachments and    *)
(* safety rules), the face findings, the planning of every leaf, the       *)
(* decision over all leaves, the rewriting of every leaf, the merge with   *)
(* the stored decision and two sets of validators: those of the decision   *)
(* that is stored and those of the answer.  Requests follow each other on  *)
(* one session; module Session interleaves them.                           *)
(*                                                                         *)
(* A leaf is the set of its regions, a region the set of the entity types  *)
(* that overlap there, one logical detection each: what module Planner     *)
(* makes of an analyzer's matches.  Texts, notices and safety rules are    *)
(* kept as far as the decision and the validators tell them apart.         *)
(***************************************************************************)
EXTENDS Actions, Sequences, FiniteSets

CONSTANTS Entities,         \* entity types found in text
          Routes,           \* route classes
          DefaultTarget,    \* policy.routing.default_target
          Policies,         \* policies the engine may be started with
          Requests,         \* requests the adapter may send
          MaxTextLeaves,    \* settings.max_text_leaves
          MaxTypes,         \* most entity types in a record or an answer (64)
          MaxCount,         \* the largest count in one (10_000_000)
          Class,            \* what the classifier says of a text that stays
          None              \* Python's None

VARIABLES policy,       \* the policy, fixed at start
          store,        \* Valkey: the SessionDecision of the session, or None
          at,           \* where the request is
          request,      \* the SegmentRequest
          cached,       \* the decision read from the store
          prepared,     \* for each leaf planned so far, the owner of each region
          counts,       \* _prepare_leaf_plans: detections per entity type
          reroutes,     \* reroute_entities
          detected,     \* the first of route_classes, or None
          done,         \* _transform_plans: how many leaves it is through with
          rewritten,    \* the leaves whose text it changed
          transformed,  \* transformations per entity type
          result        \* the PolicyResult, or None

planVars == <<prepared, counts, reroutes, detected>>
textVars == <<done, rewritten, transformed>>
vars == <<policy, store, at, request, cached, planVars, textVars, result>>

Reported == Entities \union {"FACE"}
Leaf == SUBSET ((SUBSET Entities) \ {{}})

\* FaceFindings, with no faces where there is no count.
FaceFindings ==
    [status : {"failed", "not_scanned"}, count : {0}]
      \union [status : {"complete"}, count : 0..MaxCount]

\* The regions of all leaves.
Regions(r) == UNION {{i} \X r.leaves[i] : i \in 1..Len(r.leaves)}

\* SegmentRequest as validate_segments accepts it; "unsafe" says whether a
\* safety rule matches some leaf.  Every region has text of its own, of which a
\* request has less than MaxCount characters.
SegmentRequest ==
    {r \in [kind : {"model", "mcp"}, scope : {"session", "request"}, leaves : Seq(Leaf),
            textPii : BOOLEAN, attachments : BOOLEAN, unsafe : BOOLEAN,
            faces : FaceFindings \union {None}] :
        /\ r.faces # None => r.kind = "model" /\ r.scope = "request" /\ ~r.attachments
        /\ ~r.textPii => r.faces # None
        /\ r.unsafe => r.leaves # <<>>
        /\ Cardinality(Regions(r)) <= MaxCount}

\* The parts of PolicySettings that decide.  "order" lists the entity types
\* that have an EntityPolicy of their own; the others share the default action,
\* which has no route of its own.
PolicySettings ==
    {p \in [order : Seq(Entities), action : [Entities -> DOMAIN Strictness],
            route : [Entities -> Routes \union {None}],
            faces : {"block", "text-only", "reroute"}, faceRoute : Routes \union {None},
            maskOnReroute : BOOLEAN] :
        LET own == {p.order[i] : i \in 1..Len(p.order)}
        IN  /\ Cardinality(own) = Len(p.order)
            /\ \A e \in Entities : p.route[e] # None => e \in own /\ p.action[e] = "reroute"
            /\ \A e, f \in Entities \ own : p.action[e] = p.action[f]
            /\ p.faceRoute # None => p.faces = "reroute"}

ASSUME PolicyAssumption ==
    /\ IsFiniteSet(Entities)
    /\ "FACE" \notin Entities
    /\ MaxTypes \in Nat /\ MaxCount \in Nat
    /\ Cardinality(Reported) <= MaxTypes
    /\ DefaultTarget \in Routes
    /\ None \notin Routes \union FaceFindings \union {Class}
    /\ None \notin Requests
    /\ MaxTextLeaves \in Nat
    /\ \A leaves \in SUBSET (1..MaxTextLeaves) : leaves # None
    /\ Requests \subseteq SegmentRequest
    /\ Policies \subseteq PolicySettings

NoCounts == [e \in Reported |-> 0]

Init ==
    /\ policy \in Policies
    /\ store = None
    /\ at = "idle"
    /\ request = None
    /\ cached = None
    /\ prepared = <<>>
    /\ counts = NoCounts
    /\ reroutes = {}
    /\ detected = None
    /\ done = 0
    /\ rewritten = {}
    /\ transformed = NoCounts
    /\ result = None

-----------------------------------------------------------------------------
(* Results *)

\* PolicyResult with its defaults.  A row is one PIIReportRow; "segments" are
\* the leaves whose text was rewritten, None when no text is forwarded;
\* "notices" says whether there is a response notice.
NewResult(decision) ==
    [decision |-> decision, remoteAllowed |-> decision \notin {"block", "reroute"},
     segments |-> IF decision = "block" THEN None ELSE {}, entities |-> {},
     counts |-> NoCounts, actions |-> {}, rows |-> {}, source |-> "current_request",
     scanned |-> FALSE, overlaps |-> 0, cachedApplied |-> FALSE, route |-> None,
     reversal |-> FALSE, notices |-> FALSE]

BlockResult == [NewResult("block") EXCEPT !.actions = {"block"}]

\* _result_from_cache
ResultFromCache(d) ==
    [NewResult(d.decision) EXCEPT
        !.remoteAllowed = d.remoteAllowed, !.entities = d.entities, !.counts = d.counts,
        !.actions = {d.decision}, !.rows = d.rows, !.source = "cached_decision",
        !.overlaps = d.overlaps, !.cachedApplied = TRUE, !.route = d.route,
        !.notices = d.notices]

-----------------------------------------------------------------------------
(* The stored decision *)

\* analyze_segments begins; too many leaves are refused before anything else.
Receive(r) ==
    /\ at = "idle"
    /\ request' = r
    /\ at' = IF Len(r.leaves) > MaxTextLeaves THEN "failed"
             ELSE IF r.scope = "session" THEN "cache" ELSE "preflight"
    /\ UNCHANGED <<policy, store, cached, planVars, textVars, result>>

\* _final_cached_result: the stored decision settles the request unread.
SettledByCache(d) ==
    \/ d.decision = "block"
    \/ ~request.attachments /\ ~policy.maskOnReroute

\* A mutation of SameKind: the request kind is not compared.
AnyKind(d) == TRUE

\* A stored decision only serves requests of its own kind.
SameKind(d) == d.kind = request.kind

\* _cached_decision and _final_cached_result
CachedDecision ==
    /\ at = "cache"
    /\ \/ /\ store # None
          /\ ~SameKind(store)
          /\ at' = "failed"
          /\ UNCHANGED <<cached, result>>
       \/ /\ store # None
          /\ SameKind(store)
          /\ SettledByCache(store)
          /\ result' = ResultFromCache(store)
          /\ at' = "respond"
          /\ UNCHANGED cached
       \/ /\ store # None => SameKind(store) /\ ~SettledByCache(store)
          /\ cached' = store
          /\ at' = "preflight"
          /\ UNCHANGED result
    /\ UNCHANGED <<policy, store, request, planVars, textVars>>

-----------------------------------------------------------------------------
(* Before any text is analysed *)

\* _preflight: what ends the request before PII work.  The request is past the
\* limits here, so _validate_bounds only refuses a request without text.
Preflight ==
    /\ at = "preflight"
    /\ \/ /\ request.kind = "mcp" /\ request.leaves = <<>> /\ ~request.attachments
          /\ result' = NewResult("pass")
          /\ at' = "visual"
       \/ /\ request.kind # "mcp" /\ request.leaves = <<>> /\ ~request.attachments
          /\ at' = "failed"
          /\ UNCHANGED result
       \/ /\ request.attachments \/ request.unsafe
          /\ result' = [BlockResult EXCEPT !.notices = request.kind # "mcp"]
          /\ at' = "visual"
       \/ /\ request.leaves # <<>> /\ ~request.attachments /\ ~request.unsafe
          /\ at' = "faces"
          /\ UNCHANGED result
    /\ UNCHANGED <<policy, store, request, cached, planVars, textVars>>

FaceCount == IF request.faces = None THEN 0 ELSE request.faces.count

\* face_route
FaceRoute ==
    IF FaceCount > 0 /\ policy.faces = "reroute"
      THEN IF policy.faceRoute # None THEN policy.faceRoute ELSE DefaultTarget
      ELSE None

\* analyze_segments: a failed scan or a blocked face ends the request, and so
\* does a request that asks for no text analysis.
FaceFindingsChecked ==
    /\ at = "faces"
    /\ LET blocked == /\ request.faces # None
                      /\ \/ request.faces.status = "failed"
                         \/ FaceCount > 0 /\ policy.faces = "block"
       IN  \/ /\ blocked
              /\ result' = BlockResult
              /\ at' = "visual"
           \/ /\ ~blocked /\ request.faces # None /\ ~request.textPii
              /\ result' = NewResult("pass")
              /\ at' = "visual"
           \/ /\ ~blocked /\ (request.faces = None \/ request.textPii)
              /\ at' = "prepare"
              /\ UNCHANGED result
    /\ UNCHANGED <<policy, store, request, cached, planVars, textVars>>

-----------------------------------------------------------------------------
(* Planning, deciding, rewriting *)

\* _effective_action: MCP has no route to take.
EffectiveAction(e) ==
    IF request.kind = "mcp" /\ policy.action[e] = "reroute" THEN "block"
    ELSE policy.action[e]

\* The route class an entity type asks for when it is rerouted.
RouteOf(e) == IF policy.route[e] # None THEN policy.route[e] ELSE DefaultTarget

\* _resolve_group: the owner of a region is one of its strictest members; which
\* one, when there are several, is left open.
Owners(g) ==
    {e \in g : \A f \in g : Strictness[EffectiveAction(f)] <= Strictness[EffectiveAction(e)]}

\* The entity types that reroute under a plan.
Rerouting(plan) == {plan[g] : g \in {h \in DOMAIN plan : EffectiveAction(plan[h]) = "reroute"}}

\* _merge_counts
MergedCounts(leaf) == [e \in Reported |-> counts[e] + Cardinality({g \in leaf : e \in g})]

\* The body of _prepare_leaf_plans for one leaf, with planner.prepare.  The
\* leaf's route class is that of its first rerouting region, any of them here.
PrepareLeaf ==
    LET leaf == request.leaves[Len(prepared) + 1]
    IN  /\ at = "prepare"
        /\ Len(prepared) < Len(request.leaves)
        /\ \E plan \in {p \in [leaf -> Entities] : \A g \in leaf : p[g] \in Owners(g)} :
             /\ prepared' = Append(prepared, plan)
             /\ reroutes' = reroutes \union Rerouting(plan)
             /\ IF detected = None /\ Rerouting(plan) # {}
                  THEN \E e \in Rerouting(plan) : detected' = RouteOf(e)
                  ELSE UNCHANGED detected
        /\ counts' = MergedCounts(leaf)
        /\ UNCHANGED <<policy, store, at, request, cached, textVars, result>>

\* A mutation of ResolveRouteClass: the first route met wins.
ResolveFirstMet(rerouting, first) == first

\* _resolve_route_class
ResolveRouteClass(rerouting, first) ==
    LET own == {i \in 1..Len(policy.order) :
                   policy.order[i] \in rerouting /\ policy.action[policy.order[i]] = "reroute"}
    IN  IF first = None THEN None
        ELSE IF own # {}
          THEN RouteOf(policy.order[CHOOSE i \in own : \A j \in own : i <= j])
          ELSE first

\* A mutation of FaceRouteConflicts: only the route that would be taken is
\* compared with the faces' route.
ResolvedRouteConflicts ==
    /\ FaceRoute # None
    /\ reroutes # {}
    /\ ResolveRouteClass(reroutes, detected) # FaceRoute

\* _face_route_conflicts
FaceRouteConflicts ==
    /\ FaceRoute # None
    /\ \E e \in reroutes : ResolveRouteClass({e}, DefaultTarget) # FaceRoute

Blocked(plan) == \E g \in DOMAIN plan : EffectiveAction(plan[g]) = "block"

Overlaps ==
    Cardinality(UNION {{<<i, g>> : g \in {h \in DOMAIN prepared[i] : Cardinality(h) > 1}} :
                          i \in 1..Len(prepared)})

\* _report_rows
ReportRows ==
    {[entity |-> e, action |-> EffectiveAction(e), detected |-> counts[e],
      transformed |-> transformed[e]] : e \in {f \in Entities : counts[f] > 0}}

\* What both ends of _analyze_text report of the text.
Scanned(r) ==
    [r EXCEPT !.entities = {e \in Entities : counts[e] > 0}, !.counts = counts,
              !.rows = ReportRows, !.scanned = TRUE, !.overlaps = Overlaps]

\* _analyze_text: one blocked leaf, or one route that is not the faces' route,
\* blocks the request before any text is rewritten.
ResolveBlock ==
    /\ at = "prepare"
    /\ Len(prepared) = Len(request.leaves)
    /\ IF (\E i \in 1..Len(prepared) : Blocked(prepared[i])) \/ FaceRouteConflicts
         THEN result' = Scanned(BlockResult) /\ at' = "visual"
         ELSE at' = "transform" /\ UNCHANGED result
    /\ UNCHANGED <<policy, store, request, cached, planVars, textVars>>

\* A mutation of Rewrites: rerouted detections are never masked.
RewritesUnlessRerouted(e) == policy.action[e] \notin {"pass", "block", "reroute"}

\* planner._transform leaves passed detections alone, and rerouted ones unless
\* the policy masks what it reroutes.
Rewrites(e) ==
    /\ policy.action[e] \notin {"pass", "block"}
    /\ policy.action[e] = "reroute" => policy.maskOnReroute

\* The body of _transform_plans for one leaf, with planner.transform.
TransformLeaf ==
    LET plan == prepared[done + 1]
        hits(e) == {g \in DOMAIN plan : plan[g] = e /\ Rewrites(e)}
    IN  /\ at = "transform"
        /\ done < Len(prepared)
        /\ done' = done + 1
        /\ rewritten' = IF \E e \in Entities : hits(e) # {} THEN rewritten \union {done + 1}
                        ELSE rewritten
        /\ transformed' = [e \in Reported |-> transformed[e] + Cardinality(hits(e))]
        /\ UNCHANGED <<policy, store, at, request, cached, planVars, result>>

\* The entity types that own a region of some leaf.
Effective == UNION {{prepared[i][g] : g \in DOMAIN prepared[i]} : i \in 1..Len(prepared)}

\* _classify: the class of the transformed text, whichever it is.
Classify(segments) == Class

\* _response_notices: silent only when nothing was found, and then only if
\* notice.show_when_no_pii_detected ("show") is off.
ResponseNotices(decision, show) ==
    decision = "reroute" \/ (\E e \in Entities : counts[e] > 0) \/ show

\* The end of _analyze_text.  A generated placeholder that the text already
\* holds fails the request; otherwise the strongest action decides, and text
\* that is not rerouted is classified.
Conclude ==
    LET route == IF FaceRoute # None THEN FaceRoute ELSE ResolveRouteClass(reroutes, detected)
        actions == {EffectiveAction(e) : e \in Effective}
        decision == IF route # None THEN "reroute"
                    ELSE IF actions \ {"pass"} # {} THEN "apply_actions" ELSE "pass"
    IN  /\ at = "transform"
        /\ done = Len(prepared)
        /\ \/ /\ actions \intersect Reversible # {}
              /\ at' = "failed"
              /\ UNCHANGED result
           \/ \E show \in BOOLEAN :
                /\ result' = [Scanned(NewResult(decision)) EXCEPT
                                !.segments = rewritten, !.actions = actions,
                                !.route = IF route # None \/ request.kind = "mcp" THEN route
                                          ELSE Classify(rewritten),
                                !.reversal = actions \intersect Reversible # {},
                                !.notices = /\ request.kind # "mcp"
                                            /\ ResponseNotices(decision, show)]
                /\ at' = "visual"
        /\ UNCHANGED <<policy, store, request, cached, planVars, textVars>>

\* _apply_visual_result
WithFaces(r) ==
    LET action == IF r.decision = "block" THEN "block" ELSE policy.faces
        found == [r.counts EXCEPT !["FACE"] = FaceCount]
        quiet == r.decision = "pass" /\ r.entities = {}
    IN  [r EXCEPT
           !.counts = found,
           !.entities = {e \in Reported : found[e] > 0},
           !.rows = @ \union {[entity |-> "FACE", action |-> action,
                               detected |-> FaceCount, transformed |-> 0]},
           !.actions = @ \union {action},
           !.decision = IF action = "reroute" THEN "reroute"
                        ELSE IF action = "text-only" /\ @ = "pass" THEN "apply_actions"
                        ELSE @,
           !.remoteAllowed = @ /\ action # "reroute",
           !.route = IF action = "reroute" THEN FaceRoute ELSE @,
           !.notices = action \in {"reroute", "text-only"} \/ (@ /\ ~quiet)]

ApplyVisualResult ==
    /\ at = "visual"
    /\ result' = IF FaceCount > 0 THEN WithFaces(result) ELSE result
    /\ at' = "merge"
    /\ UNCHANGED <<policy, store, request, cached, planVars, textVars>>

-----------------------------------------------------------------------------
(* What is stored *)

\* PIIReportRow.validate_counts, and PIIReport: one row for an entity type
RowsValid(rows) ==
    /\ \A row \in rows :
         /\ row.detected >= 1
         /\ IF row.entity = "FACE"
              THEN row.action \in {"block", "text-only", "reroute"} /\ row.transformed = 0
              ELSE row.action # "text-only"
         /\ row.transformed <= row.detected
         /\ row.action \in {"pass", "block"} => row.transformed = 0
    /\ \A row, other \in rows : row.entity = other.entity => row = other

RowActions(r) == {row.action : row \in r.rows}
RowsWithin(r) == \A row \in r.rows : row.detected <= r.counts[row.entity]
CountsAgree(r) == r.entities = {e \in Reported : r.counts[e] > 0}
SomeTransformed(r) == \E row \in r.rows : row.transformed > 0

\* The upper limits of the fields of a record and of an answer.  Routes and
\* notices are within theirs since the policy's own fields have the same.
LimitsKept(r) ==
    /\ Cardinality(r.entities) <= MaxTypes
    /\ Cardinality(r.rows) <= MaxTypes
    /\ \A row \in r.rows : row.detected <= MaxCount /\ row.transformed <= MaxCount
    /\ r.overlaps <= MaxCount

\* The fields of SessionDecision and validate_taint
SessionDecisionValid(d) ==
    /\ LimitsKept(d)
    /\ \A e \in Reported : d.counts[e] <= MaxCount
    /\ d.decision \in {"block", "reroute"}
    /\ ~d.remoteAllowed
    /\ d.decision = "block" <=> d.route = None
    /\ d.kind = "mcp" => /\ d.decision = "block"
                         /\ ~d.notices
                         /\ "reroute" \notin RowActions(d)
    /\ d.counts["FACE"] = 0
    /\ CountsAgree(d)
    /\ RowsValid(d.rows)
    /\ RowsWithin(d)
    /\ d.decision = "block" => /\ ~SomeTransformed(d)
                               /\ d.rows # {} => "block" \in RowActions(d)
    /\ d.decision = "reroute" => /\ "block" \notin RowActions(d)
                                 /\ "reroute" \in RowActions(d)

\* A mutation of ApplyCachedDecision: the counts of the session are added up.
ApplyCachedDecisionAdding(r) ==
    IF cached = None \/ r.decision = "block" THEN r
    ELSE [r EXCEPT
            !.decision = "reroute", !.remoteAllowed = FALSE, !.route = cached.route,
            !.entities = @ \union cached.entities,
            !.counts = [e \in Reported |-> cached.counts[e] + @[e]],
            !.actions = @ \union {"reroute"}, !.notices = cached.notices,
            !.cachedApplied = TRUE]

\* _apply_cached_decision
ApplyCachedDecision(r) ==
    IF cached = None \/ r.decision = "block" THEN r
    ELSE [r EXCEPT
            !.decision = "reroute", !.remoteAllowed = FALSE, !.route = cached.route,
            !.entities = @ \union cached.entities,
            !.counts = [e \in Reported |-> IF cached.counts[e] > @[e] THEN cached.counts[e]
                                           ELSE @[e]],
            !.actions = @ \union {"reroute"}, !.notices = cached.notices,
            !.cachedApplied = TRUE]

\* _validate_result_kind
ResultKindValid(r) ==
    request.kind = "mcp" => /\ r.decision # "reroute"
                            /\ r.route = None
                            /\ ~r.notices
                            /\ "reroute" \notin RowActions(r)

\* Mutations of Tainting: a merged decision is stored with the rows, or the
\* overlaps, of the current request.
TaintingFreshRows(r) ==
    [kind |-> request.kind, decision |-> r.decision, entities |-> r.entities,
     counts |-> r.counts, rows |-> r.rows,
     overlaps |-> IF r.cachedApplied THEN cached.overlaps ELSE r.overlaps,
     route |-> r.route, remoteAllowed |-> r.remoteAllowed, notices |-> r.notices]
TaintingFreshOverlaps(r) ==
    [kind |-> request.kind, decision |-> r.decision, entities |-> r.entities,
     counts |-> r.counts, rows |-> IF r.cachedApplied THEN cached.rows ELSE r.rows,
     overlaps |-> r.overlaps,
     route |-> r.route, remoteAllowed |-> r.remoteAllowed, notices |-> r.notices]

\* The SessionDecision that _taint_session builds: a merged decision keeps the
\* stored report, so that rows and overlaps are those of the first reroute.
Tainting(r) ==
    [kind |-> request.kind, decision |-> r.decision, entities |-> r.entities,
     counts |-> r.counts, rows |-> IF r.cachedApplied THEN cached.rows ELSE r.rows,
     overlaps |-> IF r.cachedApplied THEN cached.overlaps ELSE r.overlaps,
     route |-> r.route, remoteAllowed |-> r.remoteAllowed, notices |-> r.notices]

\* _apply_cached_decision, _validate_result_kind and _taint_session
TaintSession ==
    LET r == ApplyCachedDecision(result)
        taints == request.scope = "session" /\ r.decision \in {"block", "reroute"}
    IN  /\ at = "merge"
        /\ result' = r
        /\ IF ResultKindValid(r) /\ (taints => SessionDecisionValid(Tainting(r)))
             THEN /\ at' = "respond"
                  /\ store' = IF taints THEN Tainting(r) ELSE store
             ELSE at' = "rejected" /\ UNCHANGED store
        /\ UNCHANGED <<policy, request, cached, planVars, textVars>>

-----------------------------------------------------------------------------
(* What is answered *)

\* _segment_fields: only a visual request and an MCP request without text may
\* succeed unscanned, and a visual request is scanned as it asked for.
SegmentFieldsValid(r) ==
    /\ r.decision # "block" =>
         /\ r.segments # None
         /\ \/ r.scanned \/ r.source # "current_request" \/ request.faces # None
            \/ /\ request.kind = "mcp" /\ request.leaves = <<>> /\ r.decision = "pass"
               /\ r.entities = {} /\ r.actions = {} /\ r.route = None
               /\ ~r.notices /\ ~r.reversal /\ ~r.cachedApplied
    /\ request.faces # None =>
         /\ r.scanned => request.textPii
         /\ request.textPii => r.scanned \/ r.decision = "block"
         /\ ~request.textPii => r.segments \in {None, {}}
    /\ request.kind = "mcp" => r.decision # "reroute" /\ r.route = None /\ ~r.notices

\* AnalysisMetadata.validate_provenance
MetadataValid(r) ==
    /\ r.scanned => r.source = "current_request"
    /\ r.source = "cached_decision" => r.cachedApplied
    /\ ~r.scanned /\ r.source = "current_request" => r.overlaps = 0

\* SegmentAnalysisResponse.validate_forwarding
ForwardingValid(r) ==
    /\ r.decision = "block" <=> r.segments = None
    /\ r.remoteAllowed <=> r.decision \notin {"block", "reroute"}
    /\ r.decision = "block" => r.route = None
    /\ r.decision = "reroute" => r.route # None

\* AdapterSegmentAnalyzeResponse._validate_counts
CountsValid(r) ==
    /\ CountsAgree(r)
    /\ IF r.cachedApplied
         THEN r.decision \in {"block", "reroute"} /\ RowsWithin(r)
         ELSE {<<row.entity, row.detected>> : row \in r.rows}
                = {<<e, r.counts[e]>> : e \in r.entities}

\* AdapterSegmentAnalyzeResponse._validate_actions
ActionsValid(r) ==
    /\ r.decision = "pass" => RowActions(r) \subseteq {"pass"}
    /\ r.decision = "apply_actions" =>
         /\ RowActions(r) \intersect {"block", "reroute"} = {}
         /\ SomeTransformed(r) \/ "text-only" \in RowActions(r)
    /\ r.decision = "reroute" =>
         /\ "block" \notin RowActions(r)
         /\ \/ "reroute" \in RowActions(r)
            \/ r.source = "current_request" /\ r.scanned /\ r.cachedApplied
    /\ r.decision = "block" =>
         /\ ~r.reversal /\ ~SomeTransformed(r)
         /\ r.rows # {} => "block" \in RowActions(r)
    /\ r.reversal => r.scanned

\* AdapterSegmentAnalyzeResponse._validate_visual
VisualValid(r) ==
    /\ request.faces = None => r.counts["FACE"] = 0
    /\ request.faces # None =>
         /\ r.source = "current_request" /\ ~r.cachedApplied
         /\ r.counts["FACE"] = FaceCount
         /\ request.faces.status = "failed" => r.decision = "block"
         /\ ~r.scanned => r.entities \subseteq {"FACE"}
         /\ \A row \in r.rows : row.entity = "FACE" =>
              row.action \in r.actions /\ (r.decision = "block" => row.action = "block")
    /\ "text-only" \in r.actions => \E row \in r.rows : row.entity = "FACE"

ResponseValid(r) ==
    /\ LimitsKept(r)
    /\ SegmentFieldsValid(r)
    /\ MetadataValid(r)
    /\ ForwardingValid(r)
    /\ RowsValid(r.rows)
    /\ CountsValid(r)
    /\ ActionsValid(r)
    /\ VisualValid(r)

\* analyze_adapter_segments: a result that its own validators refuse is
\* answered with an internal error.
Respond ==
    /\ at = "respond"
    /\ at' = IF ResultKindValid(result) /\ ResponseValid(result) THEN "answered" ELSE "rejected"
    /\ UNCHANGED <<policy, store, request, cached, planVars, textVars, result>>

\* The request is over, with its answer or an error, and its locals are gone.
Finish ==
    /\ at \in {"answered", "failed", "rejected"}
    /\ at' = "idle"
    /\ request' = None
    /\ cached' = None
    /\ prepared' = <<>>
    /\ counts' = NoCounts
    /\ reroutes' = {}
    /\ detected' = None
    /\ done' = 0
    /\ rewritten' = {}
    /\ transformed' = NoCounts
    /\ result' = None
    /\ UNCHANGED <<policy, store>>

\* The TTL of the stored decision runs out.
Expire ==
    /\ at = "idle"
    /\ store # None
    /\ store' = None
    /\ UNCHANGED <<policy, at, request, cached, planVars, textVars, result>>

Next ==
    \/ \E r \in Requests : Receive(r)
    \/ CachedDecision
    \/ Preflight
    \/ FaceFindingsChecked
    \/ PrepareLeaf
    \/ ResolveBlock
    \/ TransformLeaf
    \/ Conclude
    \/ ApplyVisualResult
    \/ TaintSession
    \/ Respond
    \/ Finish
    \/ Expire

Spec == Init /\ [][Next]_vars

-----------------------------------------------------------------------------
(* Properties *)

\* The state has the shape the code gives it: plans cover leaves of the
\* request, and what is stored passes SessionDecision's own checks.
TypeOK ==
    /\ policy \in Policies
    /\ request \in Requests \union {None}
    /\ at \in {"idle", "cache", "preflight", "faces", "prepare", "transform", "visual",
               "merge", "respond", "answered", "failed", "rejected"}
    /\ at # "idle" => request # None
    /\ store # None => SessionDecisionValid(store)
    /\ cached # None => SessionDecisionValid(cached) /\ cached.kind = request.kind
    /\ \A i \in 1..Len(prepared) : prepared[i] \in [request.leaves[i] -> Entities]
    /\ counts \in [Reported -> Nat]
    /\ transformed \in [Reported -> Nat]
    /\ reroutes \subseteq Entities
    /\ detected \in Routes \union {None}
    /\ done \in 0..Len(prepared)
    /\ rewritten \subseteq 1..done

\* The engine never refuses its own result: whatever the policy, the request
\* and the decision the session kept, what _taint_session stores passes
\* SessionDecision's validators and what is answered passes the response's.  A
\* refusal would answer an internal error where the policy has a decision.
NoSelfRejection == at # "rejected"

Detections == UNION {UNION request.leaves[i] : i \in 1..Len(request.leaves)}

BlockDemanded ==
    \/ request.attachments
    \/ request.unsafe
    \/ request.faces # None /\ request.faces.status = "failed"
    \/ FaceCount > 0 /\ policy.faces = "block"
    \/ request.textPii /\ \E e \in Detections : EffectiveAction(e) = "block"

RerouteDemanded ==
    \/ FaceCount > 0 /\ policy.faces = "reroute"
    \/ request.textPii /\ \E e \in Detections : EffectiveAction(e) = "reroute"

ChangeDemanded ==
    \/ FaceCount > 0
    \/ request.textPii /\ \E e \in Detections : EffectiveAction(e) # "pass"

Fresh == at = "answered" /\ result.source = "current_request"

\* The answer is the strictest of everything found in the request, in any leaf
\* and however detections overlap: a block when anything asks for one, or when
\* faces and text ask for different routes; else a reroute when anything, or
\* the session, asks for one; else actions when anything is to be changed.
StrictestDecides ==
    Fresh =>
      /\ result.decision = "block"
           <=> BlockDemanded \/ (FaceRoute # None /\ \E e \in reroutes : RouteOf(e) # FaceRoute)
      /\ result.decision # "block" =>
           result.decision = IF RerouteDemanded \/ cached # None THEN "reroute"
                             ELSE IF ChangeDemanded THEN "apply_actions" ELSE "pass"

\* Text that may leave for a remote model, and rerouted text where the policy
\* masks it, has every leaf rewritten in which something is not to be passed:
\* no leaf is skipped because of what another one holds.
NoLeafForwardedRaw ==
    Fresh /\ request.textPii /\ result.decision # "block"
          /\ (result.remoteAllowed \/ policy.maskOnReroute) =>
      \A i \in 1..Len(request.leaves) :
        (\E g \in request.leaves[i] : \E e \in g : EffectiveAction(e) # "pass")
          => i \in result.segments

\* The place of an entity type in the policy order; those without a policy of
\* their own come last, together.
Rank(e) ==
    IF \E i \in 1..Len(policy.order) : policy.order[i] = e
      THEN CHOOSE i \in 1..Len(policy.order) : policy.order[i] = e
      ELSE Len(policy.order) + 1

\* A rerouted request goes where the policy says: to the route the session is
\* bound to; else to the faces' route, which then every rerouting detection
\* shares; else to the route of the first policy, in policy order, that
\* reroutes a detection, whichever leaf holds it.
RouteHonoured ==
    at = "answered" /\ result.decision = "reroute" =>
      IF result.source = "cached_decision" THEN result.route = store.route
      ELSE IF cached # None THEN result.route = cached.route
      ELSE IF FaceRoute # None
        THEN result.route = FaceRoute /\ \A e \in reroutes : RouteOf(e) = FaceRoute
      ELSE \E e \in reroutes : /\ result.route = RouteOf(e)
                               /\ \A f \in reroutes : Rank(e) <= Rank(f)

\* While a session stays rerouted its evidence only grows: the route, the
\* report and the overlaps stay those of the first reroute, and no count of
\* an entity type falls, whatever later requests contain.
EvidenceKept ==
    [][ store # None /\ store' # None /\ store.decision = "reroute"
          /\ store'.decision = "reroute" =>
            /\ store'.route = store.route
            /\ store'.rows = store.rows
            /\ store'.overlaps = store.overlaps
            /\ store.entities \subseteq store'.entities
            /\ \A e \in Reported : store.counts[e] <= store'.counts[e] ]_vars

=============================================================================
