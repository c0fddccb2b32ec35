---------------------------- MODULE PolicyProofs -----------------------------
(***************************************************************************)
(* Proofs about Policy, for every set of entity types, routes, policies    *)
(* and requests.                                                           *)
(***************************************************************************)
EXTENDS Policy, FiniteSetTheorems, TLAPS

-----------------------------------------------------------------------------
(* The inductive invariant *)

RowActionNames == DOMAIN Strictness \union {"text-only"}

ReportRow ==
    [entity : Reported, action : RowActionNames, detected : Nat, transformed : Nat]

PolicyResult ==
    [decision : {"pass", "apply_actions", "reroute", "block"}, remoteAllowed : BOOLEAN,
     segments : (SUBSET (1..MaxTextLeaves)) \union {None}, entities : SUBSET Reported,
     counts : [Reported -> Nat], actions : SUBSET RowActionNames, rows : SUBSET ReportRow,
     source : {"current_request", "cached_decision"}, scanned : BOOLEAN, overlaps : Nat,
     cachedApplied : BOOLEAN, route : Routes \union {Class, None}, reversal : BOOLEAN,
     notices : BOOLEAN]

SessionDecision ==
    [kind : {"model", "mcp"}, decision : {"block", "reroute"}, entities : SUBSET Reported,
     counts : [Reported -> Nat], rows : SUBSET ReportRow, overlaps : Nat,
     route : Routes \union {Class, None}, remoteAllowed : BOOLEAN, notices : BOOLEAN]

\* The regions of the first n leaves that hold an entity type, and those of
\* them it owns and has rewritten.
Places(n) == (1..n) \X SUBSET Entities
Holding(e, n) == {p \in Places(n) : p[2] \in request.leaves[p[1]] /\ e \in p[2]}
Hits(e, n) ==
    {p \in Places(n) : p[2] \in DOMAIN prepared[p[1]] /\ prepared[p[1]][p[2]] = e /\ Rewrites(e)}

Plan == UNION {[leaf -> Entities] : leaf \in Leaf}

\* Every leaf planned so far has an owner for each of its regions, and the
\* totals are those of the leaves planned so far.
PlansOK ==
    /\ prepared \in Seq(Plan)
    /\ request # None => Len(prepared) <= Len(request.leaves)
    /\ \A i \in 1..Len(prepared) :
         /\ DOMAIN prepared[i] = request.leaves[i]
         /\ \A g \in request.leaves[i] : prepared[i][g] \in Owners(g)
    /\ reroutes = {e \in Entities : \E i \in 1..Len(prepared) : e \in Rerouting(prepared[i])}
    /\ detected = None <=> reroutes = {}
    /\ detected # None => \E e \in reroutes : detected = RouteOf(e)
    /\ counts = [e \in Reported |-> Cardinality(Holding(e, Len(prepared)))]

\* The same of the leaves rewritten so far.
TextOK ==
    /\ done \in 0..Len(prepared)
    /\ rewritten = {i \in 1..done : \E g \in DOMAIN prepared[i] : Rewrites(prepared[i][g])}
    /\ transformed = [e \in Reported |-> Cardinality(Hits(e, done))]

FacesBlock ==
    /\ request.faces # None
    /\ request.faces.status = "failed" \/ (FaceCount > 0 /\ policy.faces = "block")

RoutesConflict == FaceRoute # None /\ \E e \in reroutes : RouteOf(e) # FaceRoute

\* What is known of the request from where it is.
StageOK ==
    /\ policy \in Policies
    /\ request \in Requests \union {None}
    /\ at \in {"idle", "cache", "preflight", "faces", "prepare", "transform", "visual",
               "merge", "respond", "answered", "failed"}
    /\ at = "idle" <=> request = None
    /\ at \notin {"idle", "failed"} => Len(request.leaves) <= MaxTextLeaves
    /\ at \in {"idle", "cache", "preflight", "faces"} => prepared = <<>>
    /\ at = "prepare" => done = 0
    /\ at = "cache" => request.scope = "session"
    /\ at \in {"faces", "prepare", "transform"} =>
         ~request.attachments /\ ~request.unsafe /\ request.leaves # <<>>
    /\ at \in {"prepare", "transform"} => request.textPii /\ ~FacesBlock
    /\ at = "transform" =>
         /\ Len(prepared) = Len(request.leaves)
         /\ \A i \in 1..Len(prepared) : ~Blocked(prepared[i])
         /\ ~RoutesConflict

\* The store and what the request has read of it.  A request that is worked on
\* has read what is still stored, and goes on only past a reroute.
CacheOK ==
    /\ store \in SessionDecision \union {None}
    /\ store # None => SessionDecisionValid(store)
    /\ at \in {"idle", "cache"} => cached = None
    /\ cached \in SessionDecision \union {None}
    /\ cached # None => /\ SessionDecisionValid(cached)
                        /\ cached.kind = request.kind
                        /\ cached.decision = "reroute"
    /\ at \in {"preflight", "faces", "prepare", "transform", "visual", "merge"} =>
         cached = IF request.scope = "session" THEN store ELSE None

\* NoLeafForwardedRaw, RouteHonoured and StrictestDecides of a result that the
\* stored decision has not been merged into.
Masked(r) ==
    request.textPii /\ r.decision # "block" /\ (r.remoteAllowed \/ policy.maskOnReroute) =>
      \A i \in 1..Len(request.leaves) :
        (\E g \in request.leaves[i] : \E e \in g : EffectiveAction(e) # "pass")
          => i \in r.segments

Routed(r) ==
    r.decision = "reroute" =>
      IF FaceRoute # None
        THEN r.route = FaceRoute /\ \A e \in reroutes : RouteOf(e) = FaceRoute
        ELSE \E e \in reroutes : /\ r.route = RouteOf(e)
                                 /\ \A f \in reroutes : Rank(e) <= Rank(f)

Decided(r) ==
    /\ r.decision = "block" <=> BlockDemanded \/ RoutesConflict
    /\ r.decision # "block" =>
         r.decision = IF RerouteDemanded THEN "reroute"
                      ELSE IF ChangeDemanded THEN "apply_actions" ELSE "pass"

\* StrictestDecides before _apply_visual_result: faces decide only by their
\* route, and only where there is text.
TextDecided(r) ==
    /\ r.decision = "block" <=> BlockDemanded \/ RoutesConflict
    /\ r.decision # "block" =>
         r.decision =
           IF /\ request.textPii
              /\ FaceRoute # None \/ \E e \in Detections : EffectiveAction(e) = "reroute"
             THEN "reroute"
           ELSE IF request.textPii /\ \E e \in Detections : EffectiveAction(e) # "pass"
             THEN "apply_actions" ELSE "pass"

\* ActionsValid before _apply_visual_result: the row that carries the faces'
\* action is still missing.
TextActions(r) ==
    /\ r.decision = "pass" => RowActions(r) \subseteq {"pass"}
    /\ r.decision = "apply_actions" =>
         RowActions(r) \intersect {"block", "reroute"} = {} /\ SomeTransformed(r)
    /\ r.decision = "reroute" =>
         "block" \notin RowActions(r) /\ ("reroute" \in RowActions(r) \/ FaceRoute # None)
    /\ r.decision = "block" =>
         /\ ~r.reversal /\ ~SomeTransformed(r)
         /\ r.rows # {} => "block" \in RowActions(r) \/ FaceRoute # None
    /\ r.reversal => r.scanned
    /\ "text-only" \notin r.actions

\* The numbers a result reports, of which the limits on its rows follow.
Bounded(r) == (\A e \in Reported : r.counts[e] <= MaxCount) /\ r.overlaps <= MaxCount

Current(r) ==
    /\ r \in PolicyResult
    /\ Bounded(r)
    /\ r.source = "current_request"
    /\ ~r.cachedApplied
    /\ ResultKindValid(r)
    /\ SegmentFieldsValid(r)
    /\ MetadataValid(r)
    /\ ForwardingValid(r)
    /\ RowsValid(r.rows)
    /\ CountsValid(r)
    /\ Routed(r)
    /\ Masked(r)

\* The result before the faces are applied to it, and after.
Draft(r) ==
    /\ Current(r)
    /\ r.counts["FACE"] = 0
    /\ ~r.scanned => r.entities = {}
    /\ TextActions(r)
    /\ TextDecided(r)

Sound(r) ==
    /\ Current(r)
    /\ ActionsValid(r)
    /\ VisualValid(r)
    /\ Decided(r)

\* The result that is answered.
Settled(r) ==
    /\ r \in PolicyResult
    /\ ResultKindValid(r)
    /\ ResponseValid(r)
    /\ IF r.source = "cached_decision"
         THEN store # None /\ r.route = store.route
         ELSE /\ Masked(r)
              /\ r.decision = "block" <=> BlockDemanded \/ RoutesConflict
              /\ r.decision # "block" =>
                   r.decision = IF RerouteDemanded \/ cached # None THEN "reroute"
                                ELSE IF ChangeDemanded THEN "apply_actions" ELSE "pass"
              /\ IF cached # None THEN r.decision = "reroute" => r.route = cached.route
                 ELSE Routed(r)

ResultOK ==
    /\ at = "visual" => Draft(result)
    /\ at = "merge" => Sound(result)
    /\ at \in {"respond", "answered"} => Settled(result)

Inductive == StageOK /\ PlansOK /\ TextOK /\ CacheOK /\ ResultOK


-----------------------------------------------------------------------------
(* Facts about the constants and the operators *)

LEMMA LeastNatural ==
    ASSUME NEW S \in SUBSET Nat, S # {}
    PROVE  \E i \in S : \A j \in S : i <= j
<1>1. PICK i \in S : \A j \in S : ~(<<j, i>> \in OpToRel(<, Nat))
  BY NatLessThanWellFounded, WFMin
<1>2. \A j \in S : <<j, i>> \in OpToRel(<, Nat) <=> j < i
  BY DEF OpToRel
<1>3. \A j \in S : ~(j < i)
  BY <1>1, <1>2, Zenon
<1> QED
  BY <1>3

\* The limits of records and answers.
LEMMA Limits ==
    /\ MaxTypes \in Nat /\ MaxCount \in Nat
    /\ IsFiniteSet(Reported) /\ Cardinality(Reported) \in Nat
    /\ Cardinality(Reported) <= MaxTypes
<1>1. /\ IsFiniteSet(Entities) /\ MaxTypes \in Nat /\ MaxCount \in Nat
      /\ Cardinality(Reported) <= MaxTypes
  BY PolicyAssumption DEF PolicyAssumption
<1>2. IsFiniteSet(Reported)
  BY <1>1, FS_AddElement DEF Reported
<1> QED
  BY <1>1, <1>2, FS_CardinalityType

\* What a request and a policy look like.
LEMMA RequestFields ==
    ASSUME NEW r \in Requests
    PROVE  /\ r # None
           /\ r.kind \in {"model", "mcp"}
           /\ r.scope \in {"session", "request"}
           /\ r.leaves \in Seq(Leaf)
           /\ r.textPii \in BOOLEAN /\ r.attachments \in BOOLEAN /\ r.unsafe \in BOOLEAN
           /\ r.faces # None => /\ r.faces \in FaceFindings
                                /\ r.kind = "model" /\ r.scope = "request" /\ ~r.attachments
           /\ ~r.textPii => r.faces # None
           /\ r.unsafe => r.leaves # <<>>
  BY PolicyAssumption DEF PolicyAssumption, SegmentRequest

LEMMA PolicyFields ==
    ASSUME NEW p \in Policies
    PROVE  /\ p.order \in Seq(Entities)
           /\ p.action \in [Entities -> DOMAIN Strictness]
           /\ p.route \in [Entities -> Routes \union {None}]
           /\ p.faces \in {"block", "text-only", "reroute"}
           /\ p.faceRoute \in Routes \union {None}
           /\ p.maskOnReroute \in BOOLEAN
           /\ \A e \in Entities : p.route[e] # None =>
                /\ \E i \in 1..Len(p.order) : p.order[i] = e
                /\ p.action[e] = "reroute"
           /\ Cardinality({p.order[i] : i \in 1..Len(p.order)}) = Len(p.order)
<1> DEFINE own == {p.order[i] : i \in 1..Len(p.order)}
<1>1. p \in PolicySettings
  BY PolicyAssumption DEF PolicyAssumption
<1>2. p \in [order : Seq(Entities), action : [Entities -> DOMAIN Strictness],
             route : [Entities -> Routes \union {None}],
             faces : {"block", "text-only", "reroute"}, faceRoute : Routes \union {None},
             maskOnReroute : BOOLEAN]
  BY <1>1 DEF PolicySettings
<1>3. /\ Cardinality(own) = Len(p.order)
      /\ \A e \in Entities : p.route[e] # None => e \in own /\ p.action[e] = "reroute"
  BY <1>1, Zenon DEF PolicySettings
<1> QED
  BY <1>2, <1>3

\* The policy order names nobody twice.
LEMMA OrderInjective ==
    ASSUME NEW p \in Policies, NEW i \in 1..Len(p.order), NEW j \in 1..Len(p.order),
           p.order[i] = p.order[j]
    PROVE  i = j
<1> DEFINE S == 1..Len(p.order)
           T == {p.order[k] : k \in S}
           f == [k \in S |-> p.order[k]]
<1>1. Len(p.order) \in Nat
  BY PolicyFields
<1>2. IsFiniteSet(S) /\ Cardinality(S) = Len(p.order)
  <2>1. /\ IsFiniteSet(1..Len(p.order))
        /\ Cardinality(1..Len(p.order))
             = IF 1 > Len(p.order) THEN 0 ELSE Len(p.order) - 1 + 1
    BY <1>1, FS_Interval
  <2> QED
    BY <1>1, <2>1
<1>3. f \in Surjection(S, T)
  BY DEF Surjection
<1>4. Cardinality(S) = Cardinality(T)
  BY <1>2, PolicyFields
<1>5. f \in Injection(S, T)
  BY <1>2, <1>3, <1>4, FS_SurjSameCardinalityImpliesInj
<1> QED
  BY <1>5 DEF Injection, IsInjective

\* Actions are told apart by how strict they are.
LEMMA StrictnessValues ==
    /\ DOMAIN Strictness = {"pass", "mask", "hash", "encrypt", "reversible_replace", "replace",
                            "redact", "reroute", "block"}
    /\ \A a \in DOMAIN Strictness : Strictness[a] \in 1..9
    /\ \A a \in DOMAIN Strictness : Strictness[a] >= 9 => a = "block"
    /\ \A a \in DOMAIN Strictness : Strictness[a] >= 8 => a \in {"reroute", "block"}
    /\ \A a \in DOMAIN Strictness : Strictness[a] <= 1 => a = "pass"
    /\ Strictness["block"] = 9 /\ Strictness["reroute"] = 8 /\ Strictness["pass"] = 1
  BY DEF Strictness

LEMMA ActionFields ==
    ASSUME StageOK, NEW e \in Entities
    PROVE  /\ policy.action[e] \in DOMAIN Strictness
           /\ EffectiveAction(e) \in DOMAIN Strictness
           /\ request.kind = "mcp" => EffectiveAction(e) # "reroute"
           /\ EffectiveAction(e) = "reroute" => policy.action[e] = "reroute"
           /\ EffectiveAction(e) # "block" => EffectiveAction(e) = policy.action[e]
           /\ EffectiveAction(e) = "pass" => policy.action[e] = "pass"
           /\ RouteOf(e) \in Routes /\ RouteOf(e) # None
<1>0. policy \in Policies
  BY DEF StageOK
<1>1. /\ policy.action[e] \in DOMAIN Strictness
      /\ policy.route[e] \in Routes \union {None}
  BY <1>0, PolicyFields
<1>2. RouteOf(e) \in Routes /\ RouteOf(e) # None
  BY <1>1, PolicyAssumption DEF RouteOf, PolicyAssumption
<1> QED
  BY <1>1, <1>2, StrictnessValues DEF EffectiveAction

\* The owner of a region is as strict as any of its members.
LEMMA OwnerStrictest ==
    ASSUME StageOK, NEW g \in SUBSET Entities, NEW o \in Owners(g), NEW e \in g
    PROVE  /\ o \in g
           /\ EffectiveAction(e) = "block" => EffectiveAction(o) = "block"
           /\ EffectiveAction(e) = "reroute" => EffectiveAction(o) \in {"reroute", "block"}
           /\ EffectiveAction(e) # "pass" => EffectiveAction(o) # "pass"
<1>1. /\ o \in g /\ o \in Entities /\ e \in Entities
      /\ Strictness[EffectiveAction(e)] <= Strictness[EffectiveAction(o)]
  BY DEF Owners
<1>2. EffectiveAction(o) \in DOMAIN Strictness /\ EffectiveAction(e) \in DOMAIN Strictness
  BY <1>1, ActionFields
<1> HIDE DEF EffectiveAction
<1> QED
  BY <1>1, <1>2, StrictnessValues

LEMMA FaceFields ==
    ASSUME StageOK, request # None
    PROVE  /\ FaceCount \in Nat /\ FaceCount <= MaxCount
           /\ FaceCount > 0 => /\ request.faces # None /\ request.kind = "model"
                               /\ request.scope = "request"
           /\ FaceRoute # None <=> FaceCount > 0 /\ policy.faces = "reroute"
           /\ FaceRoute \in Routes \union {None}
           /\ policy.faces \in {"block", "text-only", "reroute"}
           /\ request \in Requests
<1>1. request \in Requests /\ policy \in Policies
  BY DEF StageOK
<1>2. FaceCount \in Nat /\ FaceCount <= MaxCount /\ (FaceCount > 0 => request.faces # None)
  BY <1>1, RequestFields, Limits DEF FaceCount, FaceFindings
<1>3. /\ policy.faces \in {"block", "text-only", "reroute"}
      /\ policy.faceRoute \in Routes \union {None}
  BY <1>1, PolicyFields
<1>4. /\ FaceRoute # None <=> FaceCount > 0 /\ policy.faces = "reroute"
      /\ FaceRoute \in Routes \union {None}
  BY <1>3, PolicyAssumption DEF FaceRoute, PolicyAssumption
<1> QED
  BY <1>1, <1>2, <1>3, <1>4, RequestFields

\* The route of one entity type, as _face_route_conflicts finds it.
LEMMA RouteOfOne ==
    ASSUME StageOK, NEW e \in Entities, EffectiveAction(e) = "reroute"
    PROVE  ResolveRouteClass({e}, DefaultTarget) = RouteOf(e)
<1> DEFINE own == {i \in 1..Len(policy.order) :
                     policy.order[i] \in {e} /\ policy.action[policy.order[i]] = "reroute"}
           first == CHOOSE i \in own : \A j \in own : i <= j
<1>0. policy \in Policies /\ DefaultTarget # None
  BY PolicyAssumption DEF StageOK, PolicyAssumption
<1>1. policy.action[e] = "reroute"
  BY ActionFields
<1>2. CASE own = {}
  <2>1. policy.route[e] = None
    <3>1. \A i \in 1..Len(policy.order) : policy.order[i] # e
      BY <1>1, <1>2
    <3> QED
      BY <1>0, <3>1, PolicyFields
  <2> QED
    BY <1>0, <1>2, <2>1 DEF ResolveRouteClass, RouteOf
<1>3. CASE own # {}
  <2>1. PICK k \in own : TRUE
    BY <1>3
  <2>2. \A i \in own : i = k
    BY <1>0, <2>1, OrderInjective
  <2>3. own \subseteq Nat /\ \A j \in own : k <= j
    BY <2>1, <2>2
  <2>4. first = k
    BY <2>1, <2>2, <2>3
  <2> QED
    BY <1>0, <1>3, <2>1, <2>4 DEF ResolveRouteClass
<1> QED
  BY <1>2, <1>3

-----------------------------------------------------------------------------
(* Counting *)

\* The pairs of a leaf's number and one of its regions are finitely many, and
\* one leaf more adds as many as it has regions.
LEMMA PlacesFinite ==
    ASSUME NEW n \in Nat, NEW A \in SUBSET Places(n)
    PROVE  IsFiniteSet(A) /\ Cardinality(A) \in Nat /\ (Cardinality(A) > 0 <=> A # {})
<1>1. IsFiniteSet(1..n) /\ IsFiniteSet(SUBSET Entities)
  <2>1. IsFiniteSet(Entities)
    BY PolicyAssumption
  <2>2. IsFiniteSet(SUBSET Entities)
    BY <2>1, FS_SUBSET
  <2>3. IsFiniteSet(1..n)
    BY FS_Interval
  <2> QED
    BY <2>2, <2>3
<1>2. IsFiniteSet(Places(n))
  BY <1>1, FS_Product DEF Places
<1>3. IsFiniteSet(A)
  BY <1>2, FS_Subset
<1> QED
  BY <1>3, FS_CardinalityType, FS_EmptySet

LEMMA OneLeafMore ==
    ASSUME NEW n \in Nat, NEW A \in SUBSET Places(n), NEW S \in SUBSET (SUBSET Entities)
    PROVE  /\ Cardinality(S) \in Nat
           /\ Cardinality(A \union ({n + 1} \X S)) = Cardinality(A) + Cardinality(S)
<1>1. IsFiniteSet(A) /\ Cardinality(A) \in Nat
  BY PlacesFinite
<1>2. IsFiniteSet(S) /\ Cardinality(S) \in Nat
  BY FS_SUBSET, FS_Subset, FS_CardinalityType, PolicyAssumption DEF PolicyAssumption
<1>3. /\ IsFiniteSet({n + 1} \X S)
      /\ Cardinality({n + 1} \X S) = Cardinality(S)
  <2>1. IsFiniteSet({n + 1}) /\ Cardinality({n + 1}) = 1
    BY FS_Singleton
  <2>2. /\ IsFiniteSet({n + 1} \X S)
        /\ Cardinality({n + 1} \X S) = Cardinality({n + 1}) * Cardinality(S)
    BY <1>2, <2>1, FS_Product
  <2> QED
    BY <1>2, <2>1, <2>2
<1>4. A \intersect ({n + 1} \X S) = {}
  BY DEF Places
<1>5. Cardinality(A \intersect ({n + 1} \X S)) = 0
  BY <1>4, FS_EmptySet
<1>6. Cardinality(A \union ({n + 1} \X S))
        = Cardinality(A) + Cardinality({n + 1} \X S) - Cardinality(A \intersect ({n + 1} \X S))
  BY <1>1, <1>3, FS_Union
<1> QED
  BY <1>1, <1>2, <1>3, <1>5, <1>6

\* A leaf of the request, and the plan made for it.
LEMMA LeafFields ==
    ASSUME StageOK, request # None, NEW i \in 1..Len(request.leaves)
    PROVE  /\ request.leaves[i] \in Leaf
           /\ \A g \in request.leaves[i] : g \in SUBSET Entities /\ g # {}
<1>1. request.leaves \in Seq(Leaf)
  BY RequestFields DEF StageOK
<1>2. request.leaves[i] \in Leaf
  BY <1>1
<1> QED
  BY <1>2 DEF Leaf

LEMMA PlanFields ==
    ASSUME StageOK, PlansOK, NEW i \in 1..Len(prepared)
    PROVE  /\ Len(prepared) \in Nat
           /\ request # None /\ i \in 1..Len(request.leaves)
           /\ DOMAIN prepared[i] = request.leaves[i]
           /\ prepared[i] \in [request.leaves[i] -> Entities]
           /\ \A g \in request.leaves[i] :
                /\ g \in SUBSET Entities
                /\ prepared[i][g] \in Owners(g)
                /\ prepared[i][g] \in Entities
                /\ prepared[i][g] \in g
<1>1. prepared \in Seq(Plan) /\ Len(prepared) \in Nat
  BY DEF PlansOK
<1>2. prepared # <<>>
  BY <1>1
<1>3. request # None
  BY <1>2 DEF StageOK
<1>4. Len(request.leaves) \in Nat /\ Len(prepared) <= Len(request.leaves)
  BY <1>3, RequestFields DEF StageOK, PlansOK
<1>5. i \in 1..Len(request.leaves)
  BY <1>1, <1>4
<1>6. /\ DOMAIN prepared[i] = request.leaves[i]
      /\ \A g \in request.leaves[i] : prepared[i][g] \in Owners(g)
  BY DEF PlansOK
<1>7. \A g \in request.leaves[i] : g \in SUBSET Entities
  BY <1>3, <1>5, LeafFields
<1>8. \A g \in request.leaves[i] : prepared[i][g] \in g /\ prepared[i][g] \in Entities
  BY <1>6, <1>7 DEF Owners
<1>9. prepared[i] \in Plan
  BY <1>1
<1>10. prepared[i] \in [request.leaves[i] -> Entities]
  BY <1>6, <1>9 DEF Plan
<1> QED
  BY <1>1, <1>3, <1>5, <1>6, <1>7, <1>8, <1>10

\* Where the numbers reported come from.
LEMMA CountFields ==
    ASSUME StageOK, PlansOK, TextOK, NEW e \in Reported
    PROVE  /\ counts[e] \in Nat /\ transformed[e] \in Nat
           /\ transformed[e] <= counts[e]
           /\ counts[e] > 0 <=>
                \E i \in 1..Len(prepared) : \E g \in request.leaves[i] : e \in g
           /\ transformed[e] > 0 <=>
                \E i \in 1..done : \E g \in DOMAIN prepared[i] : prepared[i][g] = e /\ Rewrites(e)
           /\ counts["FACE"] = 0
<1>0. Len(prepared) \in Nat /\ done \in Nat /\ done <= Len(prepared)
  BY DEF PlansOK, TextOK
<1>1. \A f \in Reported : counts[f] = Cardinality(Holding(f, Len(prepared)))
  BY DEF PlansOK
<1>2. transformed[e] = Cardinality(Hits(e, done))
  BY DEF TextOK
<1>3. \A f : Holding(f, Len(prepared)) \in SUBSET Places(Len(prepared))
  BY DEF Holding
<1>4. Hits(e, done) \subseteq Holding(e, Len(prepared))
  <2> SUFFICES ASSUME NEW p \in Hits(e, done) PROVE p \in Holding(e, Len(prepared))
    OBVIOUS
  <2>1. /\ p \in Places(done) /\ p[1] \in 1..done
        /\ p[2] \in DOMAIN prepared[p[1]] /\ prepared[p[1]][p[2]] = e
    BY DEF Hits, Places
  <2>2. p[1] \in 1..Len(prepared) /\ p \in Places(Len(prepared))
    BY <1>0, <2>1 DEF Places
  <2>3. p[2] \in request.leaves[p[1]] /\ e \in p[2]
    BY <2>1, <2>2, PlanFields
  <2> QED
    BY <2>2, <2>3 DEF Holding
<1>5. /\ counts[e] \in Nat /\ transformed[e] \in Nat
      /\ transformed[e] <= counts[e]
      /\ counts[e] > 0 <=> Holding(e, Len(prepared)) # {}
      /\ transformed[e] > 0 <=> Hits(e, done) # {}
  <2>1. IsFiniteSet(Holding(e, Len(prepared)))
    BY <1>0, <1>3, PlacesFinite
  <2>2. Cardinality(Hits(e, done)) <= Cardinality(Holding(e, Len(prepared)))
    BY <1>4, <2>1, FS_Subset
  <2>3. Hits(e, done) \in SUBSET Places(done)
    BY DEF Hits
  <2> QED
    BY <1>0, <1>1, <1>2, <1>3, <2>2, <2>3, PlacesFinite
<1>6. Holding(e, Len(prepared)) # {}
        <=> \E i \in 1..Len(prepared) : \E g \in request.leaves[i] : e \in g
  <2>1. ASSUME NEW i \in 1..Len(prepared), NEW g \in request.leaves[i], e \in g
        PROVE  <<i, g>> \in Holding(e, Len(prepared))
    BY <2>1, PlanFields DEF Holding, Places
  <2>2. ASSUME NEW p \in Holding(e, Len(prepared))
        PROVE  p[1] \in 1..Len(prepared) /\ p[2] \in request.leaves[p[1]] /\ e \in p[2]
    BY DEF Holding, Places
  <2> QED
    BY <2>1, <2>2
<1>7. Hits(e, done) # {}
        <=> \E i \in 1..done : \E g \in DOMAIN prepared[i] : prepared[i][g] = e /\ Rewrites(e)
  <2>1. ASSUME NEW i \in 1..done, NEW g \in DOMAIN prepared[i], prepared[i][g] = e, Rewrites(e)
        PROVE  <<i, g>> \in Hits(e, done)
    <3>1. i \in 1..Len(prepared)
      BY <1>0
    <3>2. g \in SUBSET Entities
      BY <3>1, PlanFields
    <3> QED
      BY <2>1, <3>2 DEF Hits, Places
  <2>2. ASSUME NEW p \in Hits(e, done)
        PROVE  /\ p[1] \in 1..done /\ p[2] \in DOMAIN prepared[p[1]]
               /\ prepared[p[1]][p[2]] = e /\ Rewrites(e)
    BY DEF Hits, Places
  <2> QED
    BY <2>1, <2>2
<1>8. counts["FACE"] = 0
  <2>1. Holding("FACE", Len(prepared)) = {}
    BY PolicyAssumption DEF Holding, Places, PolicyAssumption
  <2> QED
    BY <1>1, <2>1, FS_EmptySet DEF Reported
<1> QED
  BY <1>5, <1>6, <1>7, <1>8

\* A request has no more regions than its text allows, so that no count of
\* them passes the limit.
LEMMA RegionsFew ==
    ASSUME StageOK, PlansOK, request # None, NEW A \in SUBSET Places(Len(prepared)),
           \A p \in A : p[2] \in request.leaves[p[1]]
    PROVE  Cardinality(A) <= MaxCount
<1> DEFINE n == Len(request.leaves)
<1>1. request \in Requests /\ n \in Nat /\ Len(prepared) \in Nat /\ Len(prepared) <= n
  BY RequestFields DEF StageOK, PlansOK
<1>2. Cardinality(Regions(request)) <= MaxCount
  BY <1>1, PolicyAssumption DEF PolicyAssumption, SegmentRequest
<1>3. Regions(request) \in SUBSET Places(n)
  BY LeafFields DEF Regions, Places
<1>4. A \subseteq Regions(request)
  <2> SUFFICES ASSUME NEW p \in A PROVE p \in Regions(request)
    OBVIOUS
  <2>1. p[1] \in 1..n /\ p[2] \in request.leaves[p[1]] /\ p = <<p[1], p[2]>>
    BY <1>1 DEF Places
  <2> QED
    BY <2>1 DEF Regions
<1>5. /\ IsFiniteSet(Regions(request)) /\ Cardinality(Regions(request)) \in Nat
      /\ Cardinality(A) \in Nat
  BY <1>1, <1>3, PlacesFinite
<1>6. Cardinality(A) <= Cardinality(Regions(request))
  BY <1>4, <1>5, FS_Subset
<1> QED
  BY <1>2, <1>5, <1>6, Limits

LEMMA CountsFew ==
    ASSUME StageOK, PlansOK, request # None, NEW e \in Reported
    PROVE  counts[e] <= MaxCount
<1>1. Holding(e, Len(prepared)) \in SUBSET Places(Len(prepared))
  BY DEF Holding
<1>2. \A p \in Holding(e, Len(prepared)) : p[2] \in request.leaves[p[1]]
  BY DEF Holding
<1>3. Cardinality(Holding(e, Len(prepared))) <= MaxCount
  BY <1>1, <1>2, RegionsFew
<1> QED
  BY <1>3 DEF PlansOK

-----------------------------------------------------------------------------
(* Plans and texts step by step *)

LEMMA PlansFrame ==
    ASSUME PlansOK, UNCHANGED <<policy, request, planVars>>
    PROVE  PlansOK'
  BY DEF PlansOK, planVars, Owners, EffectiveAction, Rerouting, RouteOf, Holding

LEMMA TextFrame ==
    ASSUME TextOK, UNCHANGED <<policy, prepared, textVars>>
    PROVE  TextOK'
  BY DEF TextOK, textVars, Rewrites, Hits

\* Before anything is planned the totals are empty.
LEMMA NothingCounted ==
    ASSUME NEW e
    PROVE  Holding(e, 0) = {} /\ Hits(e, 0) = {} /\ Cardinality({}) = 0
  BY FS_EmptySet DEF Holding, Hits, Places

\* A state between two requests satisfies the invariant.
Idle ==
    /\ policy \in Policies
    /\ at = "idle"
    /\ request = None
    /\ cached = None
    /\ prepared = <<>>
    /\ counts = NoCounts
    /\ reroutes = {}
    /\ detected = None
    /\ done = 0
    /\ rewritten = {}
    /\ transformed = NoCounts
    /\ store \in SessionDecision \union {None}
    /\ store # None => SessionDecisionValid(store)

LEMMA IdleInductive == Idle => Inductive
<1> SUFFICES ASSUME Idle PROVE Inductive
  OBVIOUS
<1>1. Len(prepared) = 0 /\ prepared \in Seq(Plan) /\ 1..0 = {}
  BY DEF Idle
<1>2. PlansOK
  <2>1. counts = [e \in Reported |-> Cardinality(Holding(e, Len(prepared)))]
    BY <1>1, NothingCounted DEF NoCounts, Idle
  <2> QED
    BY <1>1, <2>1 DEF PlansOK, Idle
<1>3. TextOK
  <2>1. transformed = [e \in Reported |-> Cardinality(Hits(e, done))]
    BY NothingCounted DEF NoCounts, Idle
  <2> QED
    BY <1>1, <2>1 DEF TextOK, Idle
<1>4. StageOK
  BY DEF Idle, StageOK
<1>5. CacheOK /\ ResultOK
  BY DEF Idle, CacheOK, ResultOK
<1> QED
  BY <1>2, <1>3, <1>4, <1>5 DEF Inductive

\* A new request finds nothing planned.
LEMMA PlansOfNewRequest ==
    ASSUME PlansOK, prepared = <<>>, request' \in Requests, UNCHANGED planVars
    PROVE  PlansOK'
<1>1. /\ Len(prepared') = 0 /\ prepared' \in Seq(Plan) /\ 1..0 = {}
      /\ reroutes' = {} /\ detected' = None
  BY DEF planVars, PlansOK
<1>2. counts' = [e \in Reported |-> Cardinality(Holding(e, Len(prepared))')]
  <2>1. \A e : Holding(e, 0) = {} /\ Holding(e, Len(prepared))' = {}
    BY <1>1 DEF Holding, Places
  <2>2. counts' = [e \in Reported |-> Cardinality(Holding(e, 0))]
    BY DEF PlansOK, planVars
  <2>3. counts' = [e \in Reported |-> Cardinality({})]
    BY <2>1, <2>2
  <2> QED
    BY <2>1, <2>3
<1>3. Len(request'.leaves) \in Nat
  BY RequestFields
<1> QED
  BY <1>1, <1>2, <1>3 DEF PlansOK

LEMMA PrepareLeafPlans ==
    ASSUME StageOK, PlansOK, PrepareLeaf
    PROVE  PlansOK'
<1> DEFINE n == Len(prepared)
           leaf == request.leaves[n + 1]
<1>0. /\ request # None /\ request \in Requests /\ policy \in Policies
      /\ n \in Nat /\ prepared \in Seq(Plan) /\ reroutes \in SUBSET Entities
      /\ Len(request.leaves) \in Nat /\ n < Len(request.leaves) /\ n + 1 \in 1..Len(request.leaves)
      /\ UNCHANGED <<policy, request>>
  BY RequestFields DEF PrepareLeaf, StageOK, PlansOK
<1>1. leaf \in Leaf /\ leaf \in SUBSET (SUBSET Entities) /\ \A g \in leaf : g \in SUBSET Entities
  BY <1>0, LeafFields
<1>2. PICK plan \in {p \in [leaf -> Entities] : \A g \in leaf : p[g] \in Owners(g)} :
        /\ prepared' = Append(prepared, plan)
        /\ reroutes' = reroutes \union Rerouting(plan)
        /\ IF detected = None /\ Rerouting(plan) # {}
             THEN \E e \in Rerouting(plan) : detected' = RouteOf(e)
             ELSE UNCHANGED detected
  BY DEF PrepareLeaf
<1>3. plan \in Plan /\ DOMAIN plan = leaf /\ \A g \in leaf : plan[g] \in Owners(g)
  BY <1>1 DEF Plan
<1>4. /\ prepared' \in Seq(Plan) /\ Len(prepared') = n + 1
      /\ \A i \in 1..n : prepared'[i] = prepared[i]
      /\ prepared'[n + 1] = plan
      /\ 1..(n + 1) = 1..n \union {n + 1}
  BY <1>0, <1>2, <1>3
<1>5. Rerouting(plan) \in SUBSET Entities
  BY <1>2 DEF Rerouting
<1>6. \A p : Rerouting(p)' = Rerouting(p)
  BY <1>0 DEF Rerouting, EffectiveAction
<1>7. \A g : Owners(g)' = Owners(g)
  BY <1>0 DEF Owners, EffectiveAction
<1>8. \A e : RouteOf(e)' = RouteOf(e)
  BY <1>0 DEF RouteOf
<1>9. \A i \in 1..Len(prepared') :
        /\ DOMAIN prepared'[i] = request'.leaves[i]
        /\ \A g \in request'.leaves[i] : prepared'[i][g] \in Owners(g)'
  <2>1. \A i \in 1..n : /\ DOMAIN prepared[i] = request.leaves[i]
                        /\ \A g \in request.leaves[i] : prepared[i][g] \in Owners(g)
    BY DEF PlansOK
  <2> QED
    BY <1>0, <1>3, <1>4, <1>7, <2>1
<1>10. reroutes' = {e \in Entities : \E i \in 1..Len(prepared') : e \in Rerouting(prepared[i])'}
  <2>1. reroutes = {e \in Entities : \E i \in 1..n : e \in Rerouting(prepared[i])}
    BY DEF PlansOK
  <2>2. \A i : Rerouting(prepared[i])' = Rerouting(prepared'[i])
    BY <1>0 DEF Rerouting, EffectiveAction
  <2> HIDE DEF n, leaf
  <2> QED
    BY <1>2, <1>4, <1>5, <2>1, <2>2
<1>11. /\ detected' = None <=> reroutes' = {}
       /\ detected' # None => \E e \in reroutes' : detected' = RouteOf(e)'
  <2>1. /\ detected = None <=> reroutes = {}
        /\ detected # None => \E e \in reroutes : detected = RouteOf(e)
    BY DEF PlansOK
  <2>2. \A e \in Rerouting(plan) : RouteOf(e) # None
    BY <1>5, ActionFields
  <2> QED
    BY <1>2, <1>8, <2>1, <2>2
<1>12. counts' = [e \in Reported |-> Cardinality(Holding(e, Len(prepared))')]
  <2>1. counts' = [e \in Reported |-> counts[e] + Cardinality({g \in leaf : e \in g})]
    BY DEF PrepareLeaf, MergedCounts
  <2>2. ASSUME NEW e \in Reported
        PROVE  counts[e] + Cardinality({g \in leaf : e \in g})
                 = Cardinality(Holding(e, Len(prepared))')
    <3>1. counts[e] = Cardinality(Holding(e, n))
      BY DEF PlansOK
    <3>2. Holding(e, n) \in SUBSET Places(n)
      BY DEF Holding
    <3>3. Holding(e, Len(prepared))' = Holding(e, n) \union ({n + 1} \X {g \in leaf : e \in g})
      <4>1. Holding(e, Len(prepared))' =
              {p \in Places(n + 1) : p[2] \in request.leaves[p[1]] /\ e \in p[2]}
        BY <1>0, <1>4 DEF Holding
      <4>2. \A p \in Places(n + 1) : p \in Places(n) \/ p[1] = n + 1
        BY <1>0 DEF Places
      <4>3. Places(n) \subseteq Places(n + 1)
        BY <1>0 DEF Places
      <4>4. \A g \in leaf : <<n + 1, g>> \in Places(n + 1)
        BY <1>0, <1>1 DEF Places
      <4>5. \A p \in Places(n + 1) : p = <<p[1], p[2]>>
        BY DEF Places
      <4>6. \A p \in {n + 1} \X {g \in leaf : e \in g} :
              p \in Places(n + 1) /\ p[1] = n + 1 /\ p[2] \in leaf /\ e \in p[2]
        BY <4>4
      <4>7. \A p \in Places(n + 1) : p[1] = n + 1 /\ p[2] \in leaf /\ e \in p[2]
              => p \in {n + 1} \X {g \in leaf : e \in g}
        BY <4>5
      <4>8. Holding(e, n) = {p \in Places(n) : p[2] \in request.leaves[p[1]] /\ e \in p[2]}
        BY DEF Holding
      <4> HIDE DEF n
      <4> QED
        BY <4>1, <4>2, <4>3, <4>6, <4>7, <4>8
    <3>4. {g \in leaf : e \in g} \in SUBSET (SUBSET Entities)
      BY <1>1
    <3> QED
      BY <1>0, <3>1, <3>2, <3>3, <3>4, OneLeafMore
  <2> QED
    BY <2>1, <2>2
<1>13. Len(prepared') <= Len(request'.leaves)
  BY <1>0, <1>4
<1> QED
  BY <1>4, <1>9, <1>10, <1>11, <1>12, <1>13 DEF PlansOK

LEMMA TransformLeafText ==
    ASSUME StageOK, PlansOK, TextOK, TransformLeaf
    PROVE  TextOK'
<1> DEFINE plan == prepared[done + 1]
           hits(e) == {g \in DOMAIN plan : plan[g] = e /\ Rewrites(e)}
<1>0. /\ UNCHANGED <<policy, prepared>> /\ done' = done + 1
      /\ Len(prepared) \in Nat /\ done \in Nat /\ done < Len(prepared)
      /\ done + 1 \in 1..Len(prepared) /\ 1..(done + 1) = 1..done \union {done + 1}
  BY DEF TransformLeaf, PlansOK, TextOK, planVars
<1>1. /\ DOMAIN plan \in SUBSET (SUBSET Entities)
      /\ \A g \in DOMAIN plan : plan[g] \in Entities
  BY <1>0, PlanFields
<1>2. \A e : Rewrites(e)' = Rewrites(e)
  BY <1>0 DEF Rewrites
<1>3. rewritten' = {i \in 1..done' : \E g \in DOMAIN prepared'[i] : Rewrites(prepared[i][g])'}
  <2>1. rewritten = {i \in 1..done : \E g \in DOMAIN prepared[i] : Rewrites(prepared[i][g])}
    BY DEF TextOK
  <2>2. rewritten' = IF \E e \in Entities : hits(e) # {} THEN rewritten \union {done + 1}
                     ELSE rewritten
    BY DEF TransformLeaf
  <2>3. (\E e \in Entities : hits(e) # {}) <=> \E g \in DOMAIN plan : Rewrites(plan[g])
    BY <1>1
  <2>4. \A i, g : Rewrites(prepared[i][g])' = Rewrites(prepared[i][g])
    BY <1>0 DEF Rewrites
  <2> HIDE DEF hits
  <2> QED
    BY <1>0, <2>1, <2>2, <2>3, <2>4
<1>4. transformed' = [e \in Reported |-> Cardinality(Hits(e, done)')]
  <2>1. transformed' = [e \in Reported |-> transformed[e] + Cardinality(hits(e))]
    BY DEF TransformLeaf
  <2>2. ASSUME NEW e \in Reported
        PROVE  transformed[e] + Cardinality(hits(e)) = Cardinality(Hits(e, done)')
    <3>1. transformed[e] = Cardinality(Hits(e, done))
      BY DEF TextOK
    <3>2. Hits(e, done) \in SUBSET Places(done) /\ hits(e) \in SUBSET (SUBSET Entities)
      BY <1>1 DEF Hits
    <3>3. Hits(e, done)' = Hits(e, done) \union ({done + 1} \X hits(e))
      <4>1. Hits(e, done)' =
              {p \in Places(done + 1) : /\ p[2] \in DOMAIN prepared[p[1]]
                                        /\ prepared[p[1]][p[2]] = e /\ Rewrites(e)}
        BY <1>0, <1>2 DEF Hits
      <4>2. \A p \in Places(done + 1) : p \in Places(done) \/ p[1] = done + 1
        BY <1>0 DEF Places
      <4>3. Places(done) \subseteq Places(done + 1)
        BY <1>0 DEF Places
      <4>4. \A g \in DOMAIN plan : <<done + 1, g>> \in Places(done + 1)
        BY <1>0, <1>1 DEF Places
      <4>5. \A p \in Places(done + 1) : p = <<p[1], p[2]>>
        BY DEF Places
      <4>6. \A p \in {done + 1} \X hits(e) :
              /\ p \in Places(done + 1) /\ p[1] = done + 1
              /\ p[2] \in DOMAIN plan /\ plan[p[2]] = e /\ Rewrites(e)
        BY <4>4
      <4>7. \A p \in Places(done + 1) :
              p[1] = done + 1 /\ p[2] \in DOMAIN plan /\ plan[p[2]] = e /\ Rewrites(e)
                => p \in {done + 1} \X hits(e)
        BY <4>5
      <4>8. Hits(e, done) =
              {p \in Places(done) : /\ p[2] \in DOMAIN prepared[p[1]]
                                    /\ prepared[p[1]][p[2]] = e /\ Rewrites(e)}
        BY DEF Hits
      <4> HIDE DEF hits
      <4> QED
        BY <4>1, <4>2, <4>3, <4>6, <4>7, <4>8
    <3> HIDE DEF hits
    <3> QED
      BY <1>0, <3>1, <3>2, <3>3, OneLeafMore
  <2> HIDE DEF hits
  <2> QED
    BY <2>1, <2>2
<1>5. done' \in 0..Len(prepared')
  BY <1>0
<1> QED
  BY <1>3, <1>4, <1>5 DEF TextOK

-----------------------------------------------------------------------------
(* What the plans of all leaves say of the request *)

Planned == request # None /\ Len(prepared) = Len(request.leaves)

\* A detection of the request is a member of some region, and owners are
\* detections too.
LEMMA DetectionPlaces ==
    ASSUME StageOK, PlansOK, Planned
    PROVE  /\ \A e \in Detections : /\ e \in Entities
                                    /\ \E i \in 1..Len(prepared) : \E g \in request.leaves[i] : e \in g
           /\ \A i \in 1..Len(prepared) : \A g \in request.leaves[i] :
                g \subseteq Detections /\ prepared[i][g] \in Detections
<1>1. Len(prepared) = Len(request.leaves)
  BY DEF Planned
<1>2. \A e : e \in Detections <=>
        \E i \in 1..Len(prepared) : \E g \in request.leaves[i] : e \in g
  BY <1>1 DEF Detections
<1> QED
  BY <1>2, PlanFields

\* The owners ask for a block, a reroute or a change exactly when some
\* detection does.
LEMMA OwnersDemand ==
    ASSUME StageOK, PlansOK, Planned
    PROVE  /\ (\E i \in 1..Len(prepared) : Blocked(prepared[i]))
                <=> \E e \in Detections : EffectiveAction(e) = "block"
           /\ \A e \in reroutes : /\ e \in Detections /\ e \in Entities
                                  /\ EffectiveAction(e) = "reroute"
           /\ (\A i \in 1..Len(prepared) : ~Blocked(prepared[i])) =>
                (reroutes # {} <=> \E e \in Detections : EffectiveAction(e) = "reroute")
           /\ Effective \subseteq Detections
           /\ (\E e \in Effective : EffectiveAction(e) # "pass")
                <=> \E e \in Detections : EffectiveAction(e) # "pass"
<1>1. \A i \in 1..Len(prepared) : Blocked(prepared[i]) <=>
        \E g \in request.leaves[i] : EffectiveAction(prepared[i][g]) = "block"
  BY PlanFields DEF Blocked
<1>2. \A e \in Detections :
        \E i \in 1..Len(prepared) : \E g \in request.leaves[i] :
          /\ EffectiveAction(e) = "block" => EffectiveAction(prepared[i][g]) = "block"
          /\ EffectiveAction(e) = "reroute" => EffectiveAction(prepared[i][g]) \in {"reroute", "block"}
          /\ EffectiveAction(e) # "pass" => EffectiveAction(prepared[i][g]) # "pass"
  BY DetectionPlaces, PlanFields, OwnerStrictest
<1>3. \A e : e \in Effective <=>
        \E i \in 1..Len(prepared) : \E g \in request.leaves[i] : e = prepared[i][g]
  BY PlanFields DEF Effective
<1>4. \A e : e \in reroutes <=>
        /\ EffectiveAction(e) = "reroute"
        /\ \E i \in 1..Len(prepared) : \E g \in request.leaves[i] : e = prepared[i][g]
  <2>1. \A i \in 1..Len(prepared) : \A e : e \in Rerouting(prepared[i]) <=>
          EffectiveAction(e) = "reroute" /\ \E g \in request.leaves[i] : e = prepared[i][g]
    BY PlanFields DEF Rerouting
  <2>2. \A e : e \in reroutes <=>
          e \in Entities /\ \E i \in 1..Len(prepared) : e \in Rerouting(prepared[i])
    BY DEF PlansOK
  <2>3. \A i \in 1..Len(prepared) : \A g \in request.leaves[i] : prepared[i][g] \in Entities
    BY PlanFields
  <2> QED
    BY <2>1, <2>2, <2>3
<1> QED
  BY <1>1, <1>2, <1>3, <1>4, DetectionPlaces

\* _face_route_conflicts finds every rerouting detection whose route is not
\* the faces' route.
LEMMA ConflictsFound ==
    ASSUME StageOK, PlansOK, Planned
    PROVE  FaceRouteConflicts <=> RoutesConflict
<1>1. \A e \in reroutes : ResolveRouteClass({e}, DefaultTarget) = RouteOf(e)
  BY OwnersDemand, RouteOfOne
<1> QED
  BY <1>1 DEF FaceRouteConflicts, RoutesConflict

\* The resolved route is that of the first rerouting policy.
LEMMA RouteResolved ==
    ASSUME StageOK, PlansOK, Planned
    PROVE  /\ ResolveRouteClass(reroutes, detected) # None <=> reroutes # {}
           /\ ResolveRouteClass(reroutes, detected) \in Routes \union {None}
           /\ reroutes # {} =>
                \E e \in reroutes : /\ ResolveRouteClass(reroutes, detected) = RouteOf(e)
                                    /\ \A f \in reroutes : Rank(e) <= Rank(f)
<1> DEFINE own == {i \in 1..Len(policy.order) :
                     policy.order[i] \in reroutes /\ policy.action[policy.order[i]] = "reroute"}
           first == CHOOSE i \in own : \A j \in own : i <= j
           order == policy.order
<1>0. policy \in Policies /\ Len(order) \in Nat
  BY PolicyFields DEF StageOK
<1>1. CASE reroutes = {}
  BY <1>1 DEF ResolveRouteClass, PlansOK
<1>2. CASE reroutes # {}
  <2>1. detected # None /\ \E e \in reroutes : detected = RouteOf(e)
    BY <1>2 DEF PlansOK
  <2>2. \A e \in reroutes : /\ e \in Entities /\ policy.action[e] = "reroute"
                            /\ RouteOf(e) \in Routes /\ RouteOf(e) # None
    BY OwnersDemand, ActionFields
  <2>3. \A i \in 1..Len(order) : Rank(order[i]) = i
    BY <1>0, OrderInjective DEF Rank
  <2>4. \A e : (\A i \in 1..Len(order) : order[i] # e) => Rank(e) = Len(order) + 1
    BY DEF Rank
  <2>5. \E e \in reroutes : /\ ResolveRouteClass(reroutes, detected) = RouteOf(e)
                            /\ \A f \in reroutes : Rank(e) <= Rank(f)
    <3>1. CASE own = {}
      <4>1. \A e \in reroutes : \A i \in 1..Len(order) : order[i] # e
        BY <2>2, <3>1
      <4>2. \A e \in reroutes : Rank(e) = Len(order) + 1
        BY <2>4, <4>1
      <4>3. ResolveRouteClass(reroutes, detected) = detected
        BY <2>1, <3>1 DEF ResolveRouteClass
      <4>4. PICK e \in reroutes : detected = RouteOf(e)
        BY <2>1
      <4> HIDE DEF own, first
      <4>5. \A f \in reroutes : Rank(e) = Rank(f)
        BY <4>2
      <4>6. \A f \in reroutes : Rank(f) \in Nat
        BY <1>0, <4>2
      <4>7. \A f \in reroutes : Rank(e) <= Rank(f)
        BY <4>5, <4>6
      <4> QED
        BY <4>3, <4>4, <4>7
    <3>2. CASE own # {}
      <4>1. first \in own /\ \A j \in own : first <= j
        <5>1. own \in SUBSET Nat
          OBVIOUS
        <5>2. \E i \in own : \A j \in own : i <= j
          BY <3>2, <5>1, LeastNatural
        <5> QED
          BY <5>2
      <4>2. /\ ResolveRouteClass(reroutes, detected) = RouteOf(order[first])
            /\ order[first] \in reroutes /\ Rank(order[first]) = first
            /\ first \in 1..Len(order)
        BY <2>1, <2>3, <3>2, <4>1 DEF ResolveRouteClass
      <4>3. ASSUME NEW f \in reroutes PROVE first <= Rank(f)
        <5>1. CASE \E i \in 1..Len(order) : order[i] = f
          <6>1. PICK i \in 1..Len(order) : order[i] = f
            BY <5>1
          <6>2. i \in own /\ Rank(f) = i
            BY <2>2, <2>3, <6>1
          <6> HIDE DEF own, first
          <6> QED
            BY <4>1, <6>2
        <5>2. CASE \A i \in 1..Len(order) : order[i] # f
          <6>1. Rank(f) = Len(order) + 1
            BY <2>4, <5>2
          <6> HIDE DEF own, first
          <6> QED
            BY <1>0, <4>2, <6>1
        <5> QED
          BY <5>1, <5>2
      <4> QED
        BY <4>2, <4>3
    <3> QED
      BY <3>1, <3>2
  <2> QED
    BY <1>2, <2>2, <2>5
<1> QED
  BY <1>1, <1>2

-----------------------------------------------------------------------------
(* Results *)

Found == {e \in Entities : counts[e] > 0}

\* The report of a planned request: its rows are valid, agree with the counts,
\* and show the action of every detection.
LEMMA ReportFields ==
    ASSUME StageOK, PlansOK, TextOK, Planned,
           done = 0 \/ \A i \in 1..Len(prepared) : ~Blocked(prepared[i])
    PROVE  /\ counts \in [Reported -> Nat]
           /\ Found = {e \in Reported : counts[e] > 0}
           /\ Found = Detections
           /\ ReportRows \in SUBSET ReportRow
           /\ RowsValid(ReportRows)
           /\ {<<row.entity, row.detected>> : row \in ReportRows} = {<<e, counts[e]>> : e \in Found}
           /\ {row.action : row \in ReportRows} = {EffectiveAction(e) : e \in Detections}
           /\ (\E row \in ReportRows : row.transformed > 0)
                <=> \E e \in Entities : transformed[e] > 0
           /\ ReportRows # {} <=> Detections # {}
<1> DEFINE RowOf(e) == [entity |-> e, action |-> EffectiveAction(e), detected |-> counts[e],
                        transformed |-> transformed[e]]
<1>0. "FACE" \notin Entities /\ Reported = Entities \union {"FACE"}
  BY PolicyAssumption DEF PolicyAssumption, Reported
<1>1. \A e \in Reported : counts[e] \in Nat /\ transformed[e] \in Nat /\ transformed[e] <= counts[e]
  BY CountFields
<1>2. counts \in [Reported -> Nat]
  BY <1>1 DEF PlansOK
<1>3. counts["FACE"] = 0
  BY <1>0, CountFields
<1>4. Found = {e \in Reported : counts[e] > 0}
  BY <1>0, <1>1, <1>3 DEF Found
<1>5. Found = Detections
  <2>1. \A e \in Detections : e \in Entities /\ counts[e] > 0
    BY <1>0, CountFields, DetectionPlaces
  <2>2. \A e \in Found : e \in Detections
    BY <1>0, CountFields, DetectionPlaces DEF Found
  <2> QED
    BY <2>1, <2>2 DEF Found
<1>6. ReportRows = {RowOf(e) : e \in Found}
  BY DEF ReportRows, Found
<1>7. \A e \in Found : /\ e \in Entities /\ e \in Reported /\ e # "FACE" /\ counts[e] \in Nat
                       /\ counts[e] >= 1 /\ transformed[e] \in Nat
                       /\ transformed[e] <= counts[e]
                       /\ EffectiveAction(e) \in DOMAIN Strictness
  BY <1>0, <1>1, ActionFields DEF Found
<1>8. \A e \in Entities : transformed[e] > 0 => e \in Found
  BY <1>0, <1>1 DEF Found
<1>9. \A e \in Found : EffectiveAction(e) \in {"pass", "block"} => transformed[e] = 0
  <2> SUFFICES ASSUME NEW e \in Found, EffectiveAction(e) \in {"pass", "block"}, transformed[e] > 0
               PROVE  FALSE
    BY <1>7
  <2>1. PICK i \in 1..done : \E g \in DOMAIN prepared[i] : prepared[i][g] = e /\ Rewrites(e)
    BY <1>7, CountFields
  <2>2. done # 0 /\ i \in 1..Len(prepared)
    BY DEF TextOK, PlansOK
  <2>3. EffectiveAction(e) # "pass"
    BY <1>7, <2>1, ActionFields DEF Rewrites
  <2>4. ~Blocked(prepared[i])
    BY <2>2
  <2> QED
    BY <2>1, <2>3, <2>4 DEF Blocked
<1>10. ReportRows \in SUBSET ReportRow
  BY <1>6, <1>7 DEF ReportRow, RowActionNames
<1>11. RowsValid(ReportRows)
  <2>1. \A row \in ReportRows : \E e \in Found : row = RowOf(e)
    BY <1>6
  <2>2. "text-only" \notin DOMAIN Strictness
    BY StrictnessValues
  <2> QED
    BY <1>7, <1>9, <2>1, <2>2 DEF RowsValid
<1>. /\ \A e : /\ RowOf(e).entity = e /\ RowOf(e).detected = counts[e]
                /\ RowOf(e).action = EffectiveAction(e) /\ RowOf(e).transformed = transformed[e]
     /\ \A row \in ReportRows : \E e \in Found : row = RowOf(e)
     /\ \A e \in Found : RowOf(e) \in ReportRows
  BY <1>6
<1> HIDE DEF RowOf
<1>12. {<<row.entity, row.detected>> : row \in ReportRows} = {<<e, counts[e]>> : e \in Found}
  OBVIOUS
<1>13. {row.action : row \in ReportRows} = {EffectiveAction(e) : e \in Found}
  OBVIOUS
<1>14. (\E row \in ReportRows : row.transformed > 0) <=> \E e \in Entities : transformed[e] > 0
  BY <1>7, <1>8
<1>15. ReportRows # {} <=> Found # {}
  BY <1>6
<1> QED
  BY <1>2, <1>4, <1>5, <1>10, <1>11, <1>12, <1>13, <1>14, <1>15

LEMMA OverlapsType ==
    ASSUME StageOK, PlansOK
    PROVE  Overlaps \in Nat /\ (request # None => Overlaps <= MaxCount)
<1> DEFINE A == UNION {{<<i, g>> : g \in {h \in DOMAIN prepared[i] : Cardinality(h) > 1}} :
                          i \in 1..Len(prepared)}
<1>1. Len(prepared) \in Nat
  BY DEF PlansOK
<1>2. A \in SUBSET Places(Len(prepared))
  <2>1. \A i \in 1..Len(prepared) : \A g \in DOMAIN prepared[i] : g \in SUBSET Entities
    BY PlanFields
  <2> QED
    BY <2>1 DEF Places
<1>3. \A p \in A : p[2] \in request.leaves[p[1]]
  BY PlanFields
<1>4. Overlaps = Cardinality(A)
  BY DEF Overlaps
<1> HIDE DEF A
<1>5. Cardinality(A) \in Nat
  BY <1>1, <1>2, PlacesFinite
<1>6. request # None => Cardinality(A) <= MaxCount
  BY <1>2, <1>3, RegionsFew
<1> QED
  BY <1>4, <1>5, <1>6

LEMMA NoCountsFields ==
    /\ NoCounts \in [Reported -> Nat]
    /\ NoCounts["FACE"] = 0
    /\ {e \in Reported : NoCounts[e] > 0} = {}
  BY DEF NoCounts, Reported

\* PolicyResult with its defaults, field by field.
LEMMA NewResultFields ==
    ASSUME NEW d \in {"pass", "apply_actions", "reroute", "block"}
    PROVE  LET r == NewResult(d)
           IN  /\ r \in PolicyResult
               /\ r.decision = d /\ (r.remoteAllowed <=> d \notin {"block", "reroute"})
               /\ r.segments = (IF d = "block" THEN None ELSE {})
               /\ r.entities = {} /\ r.counts = NoCounts /\ r.actions = {} /\ r.rows = {}
               /\ r.source = "current_request" /\ ~r.scanned /\ r.overlaps = 0
               /\ ~r.cachedApplied /\ r.route = None /\ ~r.reversal /\ ~r.notices
<1>1. NewResult(d) \in PolicyResult
  BY NoCountsFields DEF NewResult, PolicyResult
<1> QED
  BY <1>1 DEF NewResult

LEMMA BlockResultFields ==
    LET r == BlockResult
    IN  /\ r \in PolicyResult
        /\ r.decision = "block" /\ ~r.remoteAllowed
        /\ r.segments = None
        /\ r.entities = {} /\ r.counts = NoCounts /\ r.actions = {"block"} /\ r.rows = {}
        /\ r.source = "current_request" /\ ~r.scanned /\ r.overlaps = 0
        /\ ~r.cachedApplied /\ r.route = None /\ ~r.reversal /\ ~r.notices
<1> DEFINE n == NewResult("block")
<1>1. /\ n \in PolicyResult
      /\ n.decision = "block" /\ ~n.remoteAllowed
      /\ n.segments = None
      /\ n.entities = {} /\ n.counts = NoCounts /\ n.rows = {}
      /\ n.source = "current_request" /\ ~n.scanned /\ n.overlaps = 0
      /\ ~n.cachedApplied /\ n.route = None /\ ~n.reversal /\ ~n.notices
  BY NewResultFields
<1>2. {"block"} \in SUBSET RowActionNames
  BY StrictnessValues DEF RowActionNames
<1>3. BlockResult = [n EXCEPT !.actions = {"block"}]
  BY DEF BlockResult
<1> HIDE DEF n
<1>4. BlockResult \in PolicyResult
  BY <1>1, <1>2, <1>3 DEF PolicyResult
<1> QED
  BY <1>1, <1>3, <1>4 DEF PolicyResult

\* A result that no text was analysed for.
UnscannedFields(r, d, n) ==
    /\ r \in PolicyResult
    /\ r.decision = d /\ (r.remoteAllowed <=> d # "block") /\ r.entities = {}
    /\ r.segments = (IF d = "block" THEN None ELSE {})
    /\ r.counts = NoCounts /\ r.actions = (IF d = "block" THEN {"block"} ELSE {}) /\ r.rows = {}
    /\ r.source = "current_request" /\ ~r.scanned /\ r.overlaps = 0
    /\ ~r.cachedApplied /\ r.route = None /\ ~r.reversal /\ (r.notices <=> n)

LEMMA UnscannedResults ==
    /\ UnscannedFields(NewResult("pass"), "pass", FALSE)
    /\ UnscannedFields(BlockResult, "block", FALSE)
    /\ \A n \in BOOLEAN : UnscannedFields([BlockResult EXCEPT !.notices = n], "block", n)
<1>1. UnscannedFields(NewResult("pass"), "pass", FALSE)
  BY NewResultFields DEF UnscannedFields
<1>2. UnscannedFields(BlockResult, "block", FALSE)
  BY BlockResultFields DEF UnscannedFields
<1>3. ASSUME NEW n \in BOOLEAN
      PROVE  UnscannedFields([BlockResult EXCEPT !.notices = n], "block", n)
  <2>1. [BlockResult EXCEPT !.notices = n] \in PolicyResult
    BY <1>2 DEF UnscannedFields, PolicyResult
  <2> QED
    BY <1>2, <2>1 DEF UnscannedFields, PolicyResult
<1> QED
  BY <1>1, <1>2, <1>3

LEMMA UnscannedDraft ==
    ASSUME StageOK, request # None,
           NEW d \in {"pass", "block"}, NEW n \in BOOLEAN, NEW r, UnscannedFields(r, d, n),
           request.kind = "mcp" => ~n,
           d = "block" <=> BlockDemanded \/ RoutesConflict,
           d = "pass" => \/ request.faces # None /\ ~request.textPii
                         \/ request.kind = "mcp" /\ request.leaves = <<>> /\ ~n
    PROVE  Draft(r)
<1>0. request \in Requests
  BY DEF StageOK
<1>1. /\ r.decision = d /\ (r.remoteAllowed <=> d # "block") /\ r.entities = {}
      /\ r.segments = (IF d = "block" THEN None ELSE {})
      /\ r.counts = NoCounts /\ r.actions = (IF d = "block" THEN {"block"} ELSE {}) /\ r.rows = {}
      /\ r.source = "current_request" /\ ~r.scanned /\ r.overlaps = 0
      /\ ~r.cachedApplied /\ r.route = None /\ ~r.reversal /\ (r.notices <=> n)
  BY DEF UnscannedFields
<1>2. r \in PolicyResult
  BY DEF UnscannedFields
<1>3. {} # None
  BY PolicyAssumption DEF PolicyAssumption
<1>4. d = "pass" /\ request.textPii => Detections = {} /\ FaceRoute = None /\ request.kind = "mcp"
  BY <1>0, FaceFields DEF Detections
<1>5. ResultKindValid(r) /\ RowsValid(r.rows) /\ MetadataValid(r) /\ ForwardingValid(r)
  BY <1>1, <1>3 DEF ResultKindValid, RowsValid, MetadataValid, ForwardingValid, RowActions
<1>6. SegmentFieldsValid(r)
  BY <1>0, <1>1, <1>3, RequestFields DEF SegmentFieldsValid
<1>7. CountsValid(r)
  BY <1>1, NoCountsFields DEF CountsValid, CountsAgree
<1>8. Routed(r)
  BY <1>1 DEF Routed
<1>9. Masked(r)
  BY <1>1, <1>4, <1>0 DEF Masked, Detections
<1>10. TextActions(r)
  BY <1>1 DEF TextActions, RowActions, SomeTransformed
<1>11. TextDecided(r)
  BY <1>1, <1>4 DEF TextDecided
<1>12. r.counts["FACE"] = 0
  BY <1>1, NoCountsFields
<1>13. Bounded(r)
  BY <1>1, Limits DEF Bounded, NoCounts
<1>14. Current(r)
  BY <1>1, <1>2, <1>5, <1>6, <1>7, <1>8, <1>9, <1>13 DEF Current
<1> QED
  BY <1>1, <1>10, <1>11, <1>12, <1>14 DEF Draft

\* What a result reports of the text.
ReportFieldsOf(r) ==
    /\ r \in PolicyResult
    /\ r.entities = Found /\ r.counts = counts /\ r.rows = ReportRows
    /\ r.scanned /\ r.source = "current_request" /\ ~r.cachedApplied
    /\ r.overlaps = Overlaps

LEMMA ScannedFields ==
    ASSUME NEW r \in PolicyResult, counts \in [Reported -> Nat], Found \in SUBSET Reported,
           ReportRows \in SUBSET ReportRow, Overlaps \in Nat,
           r.source = "current_request", ~r.cachedApplied
    PROVE  LET s == Scanned(r)
           IN  /\ ReportFieldsOf(s)
               /\ s.decision = r.decision /\ s.remoteAllowed = r.remoteAllowed
               /\ s.segments = r.segments /\ s.actions = r.actions /\ s.route = r.route
               /\ s.reversal = r.reversal /\ s.notices = r.notices
<1>1. Scanned(r) = [r EXCEPT !.entities = Found, !.counts = counts, !.rows = ReportRows,
                             !.scanned = TRUE, !.overlaps = Overlaps]
  BY DEF Scanned, Found
<1>2. Scanned(r) \in PolicyResult
  BY <1>1 DEF PolicyResult
<1> QED
  BY <1>1, <1>2 DEF ReportFieldsOf, PolicyResult

\* The report makes the counting and the row validators pass, whatever is
\* decided.
LEMMA ReportValid ==
    ASSUME StageOK, PlansOK, TextOK, Planned,
           done = 0 \/ \A i \in 1..Len(prepared) : ~Blocked(prepared[i]),
           NEW r, ReportFieldsOf(r)
    PROVE  /\ RowsValid(r.rows) /\ CountsValid(r) /\ MetadataValid(r)
           /\ r.counts["FACE"] = 0 /\ Bounded(r)
           /\ RowActions(r) = {EffectiveAction(e) : e \in Detections}
           /\ SomeTransformed(r) <=> \E e \in Entities : transformed[e] > 0
           /\ r.rows # {} <=> Detections # {}
<1>1. r.entities = Found /\ r.counts = counts /\ r.rows = ReportRows
      /\ r.scanned /\ r.source = "current_request" /\ ~r.cachedApplied
  BY DEF ReportFieldsOf
<1>2. RowsValid(r.rows)
  BY <1>1, ReportFields
<1>3. CountsValid(r)
  BY <1>1, ReportFields DEF CountsValid, CountsAgree
<1>4. MetadataValid(r)
  BY <1>1 DEF MetadataValid
<1>5. r.counts["FACE"] = 0
  BY <1>1, CountFields DEF Reported
<1>6. RowActions(r) = {EffectiveAction(e) : e \in Detections}
  BY <1>1, ReportFields DEF RowActions
<1>7. SomeTransformed(r) <=> \E e \in Entities : transformed[e] > 0
  BY <1>1, ReportFields DEF SomeTransformed
<1>8. r.rows # {} <=> Detections # {}
  BY <1>1, ReportFields
<1>9. Bounded(r)
  BY CountsFew, OverlapsType DEF Bounded, ReportFieldsOf, Planned
<1> QED
  BY <1>2, <1>3, <1>4, <1>5, <1>6, <1>7, <1>8, <1>9

LEMMA ReportTypes ==
    ASSUME StageOK, PlansOK, TextOK, Planned,
           done = 0 \/ \A i \in 1..Len(prepared) : ~Blocked(prepared[i])
    PROVE  /\ counts \in [Reported -> Nat] /\ Found \in SUBSET Reported
           /\ ReportRows \in SUBSET ReportRow /\ Overlaps \in Nat
  BY ReportFields, OverlapsType DEF Found, Reported

\* _analyze_text blocks.
LEMMA BlockDraft ==
    ASSUME StageOK, PlansOK, TextOK, at = "prepare", Planned,
           (\E i \in 1..Len(prepared) : Blocked(prepared[i])) \/ FaceRouteConflicts
    PROVE  Draft(Scanned(BlockResult))
<1> DEFINE r == Scanned(BlockResult)
<1>0. done = 0 /\ request # None /\ request \in Requests /\ request.textPii
  BY DEF StageOK
<1>1. /\ ReportFieldsOf(r)
      /\ r.decision = "block" /\ ~r.remoteAllowed /\ r.segments = None /\ r.actions = {"block"}
      /\ r.route = None /\ ~r.reversal /\ ~r.notices
  BY <1>0, ReportTypes, BlockResultFields, ScannedFields
<1> HIDE DEF r
<1>2. /\ RowsValid(r.rows) /\ CountsValid(r) /\ MetadataValid(r)
      /\ r.counts["FACE"] = 0 /\ Bounded(r)
      /\ RowActions(r) = {EffectiveAction(e) : e \in Detections}
      /\ SomeTransformed(r) <=> \E e \in Entities : transformed[e] > 0
  BY <1>0, <1>1, ReportValid
<1>3. \A e \in Detections : e \in Entities
  BY DetectionPlaces
<1>4. ~SomeTransformed(r)
  <2>1. \A e \in Entities : ~(transformed[e] > 0)
    BY <1>0, CountFields DEF Reported
  <2> QED
    BY <1>2, <2>1
<1>5. (\E e \in Detections : EffectiveAction(e) = "block") \/ RoutesConflict
  BY OwnersDemand, ConflictsFound
<1>6. r.rows # {} => "block" \in RowActions(r) \/ FaceRoute # None
  BY <1>2, <1>5 DEF RoutesConflict
<1>7. TextActions(r)
  BY <1>1, <1>4, <1>6 DEF TextActions
<1>8. TextDecided(r)
  BY <1>0, <1>1, <1>5 DEF TextDecided, BlockDemanded
<1>9. ResultKindValid(r)
  BY <1>1, <1>2, <1>3, ActionFields DEF ResultKindValid
<1>10. SegmentFieldsValid(r) /\ ForwardingValid(r) /\ Routed(r) /\ Masked(r)
  BY <1>0, <1>1 DEF SegmentFieldsValid, ForwardingValid, Routed, Masked, ReportFieldsOf
<1> QED
  BY <1>1, <1>2, <1>7, <1>8, <1>9, <1>10 DEF Draft, Current, ReportFieldsOf, r

\* The result of text that is not blocked.
LEMMA ConcludeDraft ==
    ASSUME StageOK, PlansOK, TextOK, Conclude, at' = "visual"
    PROVE  Draft(result')
<1> DEFINE route == IF FaceRoute # None THEN FaceRoute ELSE ResolveRouteClass(reroutes, detected)
           actions == {EffectiveAction(e) : e \in Effective}
           decision == IF route # None THEN "reroute"
                       ELSE IF actions \ {"pass"} # {} THEN "apply_actions" ELSE "pass"
           rt == IF route # None \/ request.kind = "mcp" THEN route ELSE Classify(rewritten)
           rev == actions \intersect Reversible # {}
           r == result'
<1>0. /\ request # None /\ request \in Requests /\ request.textPii /\ policy \in Policies
      /\ Len(prepared) = Len(request.leaves) /\ done = Len(prepared)
      /\ ~request.attachments /\ ~request.unsafe /\ ~FacesBlock /\ ~RoutesConflict
      /\ \A i \in 1..Len(prepared) : ~Blocked(prepared[i])
      /\ Len(request.leaves) \in Nat /\ Len(request.leaves) <= MaxTextLeaves
      /\ Planned
  <2>1. at = "transform" /\ done = Len(prepared)
    BY DEF Conclude
  <2>2. /\ request # None /\ request \in Requests /\ policy \in Policies /\ request.textPii
        /\ Len(prepared) = Len(request.leaves) /\ Len(request.leaves) <= MaxTextLeaves
        /\ ~request.attachments /\ ~request.unsafe /\ ~FacesBlock /\ ~RoutesConflict
        /\ \A i \in 1..Len(prepared) : ~Blocked(prepared[i])
    BY <2>1 DEF StageOK
  <2>3. Len(request.leaves) \in Nat
    BY <2>2, RequestFields
  <2> QED
    BY <2>1, <2>2, <2>3 DEF Planned
<1>1. PICK show \in BOOLEAN :
        r = [Scanned(NewResult(decision)) EXCEPT
               !.segments = rewritten, !.actions = actions, !.route = rt, !.reversal = rev,
               !.notices = request.kind # "mcp" /\ ResponseNotices(decision, show)]
  BY DEF Conclude
<1> DEFINE n == request.kind # "mcp" /\ ResponseNotices(decision, show)
<1>2. /\ \A e \in Detections : e \in Entities
      /\ \A e \in Effective : e \in Entities /\ EffectiveAction(e) \in DOMAIN Strictness
      /\ Effective \subseteq Detections
  BY <1>0, DetectionPlaces, OwnersDemand, ActionFields
<1>3. /\ \A e \in Detections : EffectiveAction(e) # "block"
      /\ reroutes # {} <=> \E e \in Detections : EffectiveAction(e) = "reroute"
      /\ (\E e \in Effective : EffectiveAction(e) # "pass")
           <=> \E e \in Detections : EffectiveAction(e) # "pass"
      /\ \A e \in reroutes : e \in Detections /\ EffectiveAction(e) = "reroute"
  BY <1>0, OwnersDemand
<1>4. /\ route # None <=> FaceRoute # None \/ reroutes # {}
      /\ route \in Routes \union {None}
      /\ request.kind = "mcp" => route = None
  <2>1. request.kind = "mcp" => FaceRoute = None /\ reroutes = {}
    BY <1>0, <1>2, <1>3, FaceFields, ActionFields
  <2> QED
    BY <1>0, <2>1, RouteResolved, FaceFields
<1>5. actions \ {"pass"} # {} <=> \E e \in Detections : EffectiveAction(e) # "pass"
  BY <1>3
<1>6. /\ decision \in {"pass", "apply_actions", "reroute"}
      /\ decision = IF FaceRoute # None \/ \E e \in Detections : EffectiveAction(e) = "reroute"
                      THEN "reroute"
                    ELSE IF \E e \in Detections : EffectiveAction(e) # "pass"
                      THEN "apply_actions" ELSE "pass"
  BY <1>3, <1>4, <1>5
<1>7. /\ rewritten \in SUBSET (1..MaxTextLeaves) /\ rewritten # None
  <2>1. rewritten \in SUBSET (1..MaxTextLeaves)
    BY <1>0, PolicyAssumption DEF TextOK, PolicyAssumption
  <2> QED
    BY <2>1, PolicyAssumption DEF PolicyAssumption
<1>8. actions \in SUBSET RowActionNames /\ "text-only" \notin actions
  BY <1>2, StrictnessValues DEF RowActionNames
<1>9. rt \in Routes \union {Class, None} /\ (decision = "reroute" => rt = route /\ rt # None)
      /\ (request.kind = "mcp" => rt = None)
  BY <1>4 DEF Classify
<1>10. n \in BOOLEAN /\ rev \in BOOLEAN /\ (request.kind = "mcp" => ~n)
  OBVIOUS
<1>11. /\ ReportFieldsOf(r)
       /\ r.decision = decision /\ (r.remoteAllowed <=> decision # "reroute")
       /\ r.segments = rewritten /\ r.actions = actions /\ r.route = rt
       /\ (r.reversal <=> rev) /\ (r.notices <=> n)
  <2> DEFINE s == Scanned(NewResult(decision))
  <2> HIDE DEF decision, rt, actions, rev, n
  <2>1. /\ ReportFieldsOf(s) /\ s \in PolicyResult
        /\ s.decision = decision /\ (s.remoteAllowed <=> decision # "reroute")
    <3>1. /\ NewResult(decision) \in PolicyResult
          /\ NewResult(decision).decision = decision
          /\ NewResult(decision).remoteAllowed <=> decision # "reroute"
          /\ NewResult(decision).source = "current_request"
          /\ ~NewResult(decision).cachedApplied
      BY <1>6, NewResultFields
    <3> QED
      BY <1>0, <3>1, ReportTypes, ScannedFields DEF ReportFieldsOf
  <2> DEFINE c == [s EXCEPT !.segments = rewritten, !.actions = actions, !.route = rt,
                           !.reversal = rev, !.notices = n]
  <2>2. r = c
    BY <1>1 DEF n
  <2> HIDE DEF s, r
  <2>3. /\ ReportFieldsOf(c)
        /\ c.decision = s.decision /\ c.remoteAllowed = s.remoteAllowed
        /\ c.segments = rewritten /\ c.actions = actions /\ c.route = rt
        /\ (c.reversal <=> rev) /\ (c.notices <=> n)
    <3>1. /\ s \in PolicyResult /\ ReportFieldsOf(s) /\ rewritten \in SUBSET (1..MaxTextLeaves)
          /\ actions \in SUBSET RowActionNames /\ rt \in Routes \union {Class, None}
          /\ rev \in BOOLEAN /\ n \in BOOLEAN
      BY <1>7, <1>8, <1>9, <1>10, <2>1
    <3>2. c \in PolicyResult
      BY <3>1 DEF PolicyResult
    <3> QED
      BY <3>1, <3>2 DEF ReportFieldsOf, PolicyResult
  <2> HIDE DEF c
  <2> QED
    BY <2>1, <2>2, <2>3
<1> HIDE DEF r, decision, rt, actions, rev, n, route
<1>12. /\ RowsValid(r.rows) /\ CountsValid(r) /\ MetadataValid(r)
       /\ r.counts["FACE"] = 0 /\ Bounded(r)
       /\ RowActions(r) = {EffectiveAction(e) : e \in Detections}
       /\ SomeTransformed(r) <=> \E e \in Entities : transformed[e] > 0
  BY <1>0, <1>11, ReportValid
<1>13. decision = "apply_actions" => SomeTransformed(r)
  <2> SUFFICES ASSUME decision = "apply_actions" PROVE \E e \in Entities : transformed[e] > 0
    BY <1>12
  <2>1. PICK e \in Effective : EffectiveAction(e) # "pass"
    BY <1>3, <1>6
  <2>2. EffectiveAction(e) \notin {"pass", "block", "reroute"} /\ e \in Entities
    BY <1>2, <1>3, <1>6, <2>1
  <2>3. Rewrites(e)
    BY <2>2, ActionFields DEF Rewrites
  <2>4. \E i \in 1..done : \E g \in DOMAIN prepared[i] : prepared[i][g] = e /\ Rewrites(e)
    BY <1>0, <2>3 DEF Effective
  <2>5. transformed[e] > 0
    BY <2>2, <2>4, CountFields DEF Reported
  <2> QED
    BY <2>2, <2>5
<1>14. TextActions(r)
  BY <1>3, <1>6, <1>8, <1>11, <1>12, <1>13 DEF TextActions, ReportFieldsOf
<1>15. TextDecided(r)
  <2>1. ~BlockDemanded /\ ~RoutesConflict
    BY <1>0, <1>3, FaceFields DEF BlockDemanded, FacesBlock
  <2> QED
    BY <1>0, <1>6, <1>11, <2>1 DEF TextDecided
<1>16. ResultKindValid(r)
  BY <1>2, <1>4, <1>6, <1>9, <1>10, <1>11, <1>12, ActionFields, <1>0 DEF ResultKindValid
<1>17. SegmentFieldsValid(r) /\ ForwardingValid(r)
  BY <1>0, <1>6, <1>7, <1>9, <1>11, <1>16 DEF SegmentFieldsValid, ForwardingValid, ReportFieldsOf,
     ResultKindValid
<1>18. Routed(r)
  <2> SUFFICES ASSUME decision = "reroute"
               PROVE  IF FaceRoute # None
                        THEN r.route = FaceRoute /\ \A e \in reroutes : RouteOf(e) = FaceRoute
                        ELSE \E e \in reroutes : /\ r.route = RouteOf(e)
                                                 /\ \A f \in reroutes : Rank(e) <= Rank(f)
    BY <1>11 DEF Routed
  <2>1. r.route = route
    BY <1>9, <1>11
  <2>2. CASE FaceRoute # None
    BY <1>0, <2>1, <2>2 DEF RoutesConflict, route
  <2>3. CASE FaceRoute = None
    <3>1. reroutes # {}
      BY <1>3, <1>6, <2>3
    <3>2. r.route = ResolveRouteClass(reroutes, detected)
      BY <2>1, <2>3 DEF route
    <3> QED
      BY <1>0, <2>3, <3>1, <3>2, RouteResolved
  <2> QED
    BY <2>2, <2>3
<1>19. Masked(r)
  <2> SUFFICES ASSUME r.remoteAllowed \/ policy.maskOnReroute,
                      NEW i \in 1..Len(request.leaves), NEW g \in request.leaves[i],
                      NEW e \in g, EffectiveAction(e) # "pass"
               PROVE  i \in r.segments
    BY DEF Masked
  <2> DEFINE o == prepared[i][g]
  <2>1. /\ i \in 1..Len(prepared) /\ g \in DOMAIN prepared[i] /\ g \in SUBSET Entities
        /\ o \in Owners(g) /\ o \in Entities
    BY <1>0, PlanFields
  <2>2. EffectiveAction(o) # "pass" /\ EffectiveAction(o) # "block"
    BY <1>0, <2>1, OwnerStrictest DEF Blocked
  <2>3. EffectiveAction(o) = "reroute" => policy.maskOnReroute
    <3>1. o \in Detections
      BY <1>0, <2>1, DetectionPlaces
    <3> QED
      BY <1>6, <1>11, <3>1
  <2>4. Rewrites(o)
    BY <2>1, <2>2, <2>3, ActionFields DEF Rewrites
  <2>5. i \in rewritten
    BY <1>0, <2>1, <2>4 DEF TextOK
  <2> QED
    BY <1>11, <2>5
<1> QED
  BY <1>11, <1>12, <1>14, <1>15, <1>16, <1>17, <1>18, <1>19 DEF Draft, Current, ReportFieldsOf, r

\* What is said of a result depends on the policy, the request and the
\* detections that reroute, which nothing changes once there is a result.
LEMMA DemandFrame ==
    ASSUME UNCHANGED <<policy, request, reroutes>>
    PROVE  /\ FaceCount' = FaceCount /\ FaceRoute' = FaceRoute
           /\ Detections' = Detections
           /\ \A e : /\ RouteOf(e)' = RouteOf(e) /\ EffectiveAction(e)' = EffectiveAction(e)
                     /\ Rank(e)' = Rank(e)
           /\ RoutesConflict' <=> RoutesConflict
           /\ BlockDemanded' <=> BlockDemanded
           /\ RerouteDemanded' <=> RerouteDemanded
           /\ ChangeDemanded' <=> ChangeDemanded
<1>1. FaceCount' = FaceCount
  BY DEF FaceCount
<1>2. FaceRoute' = FaceRoute
  BY <1>1 DEF FaceRoute
<1>3. Detections' = Detections
  BY DEF Detections
<1>4. \A e : EffectiveAction(e)' = EffectiveAction(e)
  BY DEF EffectiveAction
<1>5. \A e : RouteOf(e)' = RouteOf(e)
  BY DEF RouteOf
<1>6. \A e : Rank(e)' = Rank(e)
  BY DEF Rank
<1>7. RoutesConflict' <=> RoutesConflict
  BY <1>2, <1>5 DEF RoutesConflict
<1>8. BlockDemanded' <=> BlockDemanded
  BY <1>1, <1>3, <1>4 DEF BlockDemanded
<1>9. RerouteDemanded' <=> RerouteDemanded
  BY <1>1, <1>3, <1>4 DEF RerouteDemanded
<1>10. ChangeDemanded' <=> ChangeDemanded
  BY <1>1, <1>3, <1>4 DEF ChangeDemanded
<1> QED
  BY <1>1, <1>2, <1>3, <1>4, <1>5, <1>6, <1>7, <1>8, <1>9, <1>10

LEMMA ResultFrame ==
    ASSUME UNCHANGED <<policy, request, reroutes>>
    PROVE  /\ ResultKindValid(result') => ResultKindValid(result)'
           /\ SegmentFieldsValid(result') => SegmentFieldsValid(result)'
           /\ MetadataValid(result') => MetadataValid(result)'
           /\ ForwardingValid(result') => ForwardingValid(result)'
           /\ RowsValid(result'.rows) => RowsValid(result.rows)'
           /\ Bounded(result') => Bounded(result)'
           /\ LimitsKept(result') => LimitsKept(result)'
           /\ CountsValid(result') => CountsValid(result)'
           /\ ActionsValid(result') => ActionsValid(result)'
           /\ VisualValid(result') => VisualValid(result)'
           /\ TextActions(result') => TextActions(result)'
           /\ TextDecided(result') => TextDecided(result)'
           /\ Decided(result') => Decided(result)'
           /\ Routed(result') => Routed(result)'
           /\ Masked(result') => Masked(result)'
<1>1. /\ ResultKindValid(result') => ResultKindValid(result)'
      /\ SegmentFieldsValid(result') => SegmentFieldsValid(result)'
  BY DEF ResultKindValid, SegmentFieldsValid, RowActions
<1>2. /\ MetadataValid(result') => MetadataValid(result)'
      /\ ForwardingValid(result') => ForwardingValid(result)'
      /\ RowsValid(result'.rows) => RowsValid(result.rows)'
      /\ Bounded(result') => Bounded(result)'
      /\ LimitsKept(result') => LimitsKept(result)'
  BY DEF MetadataValid, ForwardingValid, RowsValid, Bounded, LimitsKept
<1>3. CountsValid(result') => CountsValid(result)'
  BY DEF CountsValid, CountsAgree, RowsWithin
<1>4. ActionsValid(result') => ActionsValid(result)'
  BY DEF ActionsValid, RowActions, SomeTransformed
<1>5. VisualValid(result') => VisualValid(result)'
  BY DemandFrame DEF VisualValid
<1>6. TextActions(result') => TextActions(result)'
  BY DemandFrame DEF TextActions, RowActions, SomeTransformed
<1>7. TextDecided(result') => TextDecided(result)'
  BY DemandFrame DEF TextDecided
<1>8. Decided(result') => Decided(result)'
  BY DemandFrame DEF Decided
<1>9. Routed(result') => Routed(result)'
  BY DemandFrame DEF Routed
<1>10. Masked(result') => Masked(result)'
  BY DemandFrame DEF Masked
<1> QED
  BY <1>1, <1>2, <1>3, <1>4, <1>5, <1>6, <1>7, <1>8, <1>9, <1>10

LEMMA DraftFrame ==
    ASSUME UNCHANGED <<policy, request, reroutes>>, Draft(result')
    PROVE  Draft(result)'
  BY ResultFrame DEF Draft, Current

LEMMA SoundFrame ==
    ASSUME UNCHANGED <<policy, request, reroutes>>, Sound(result')
    PROVE  Sound(result)'
  BY ResultFrame DEF Sound, Current

LEMMA SettledFrame ==
    ASSUME UNCHANGED <<policy, request, reroutes, cached>>, Settled(result'),
           result'.source = "cached_decision" => store' = store
    PROVE  Settled(result)'
  BY ResultFrame, DemandFrame DEF Settled, ResponseValid

\* A stored decision that settles a request makes a valid answer.
LEMMA CachedSettles ==
    ASSUME StageOK, request # None, request.scope = "session", store \in SessionDecision,
           store # None, SessionDecisionValid(store), SameKind(store)
    PROVE  /\ Settled(ResultFromCache(store))
           /\ ResultFromCache(store).source = "cached_decision"
<1> DEFINE r == ResultFromCache(store)
           b == NewResult(store.decision)
<1>0. request \in Requests /\ request.faces = None /\ store.kind = request.kind
  BY RequestFields DEF StageOK, SameKind
<1>1. /\ store.decision \in {"block", "reroute"} /\ store.entities \in SUBSET Reported
      /\ store.counts \in [Reported -> Nat] /\ store.rows \in SUBSET ReportRow
      /\ store.overlaps \in Nat /\ store.route \in Routes \union {Class, None}
      /\ store.remoteAllowed \in BOOLEAN /\ store.notices \in BOOLEAN
  BY DEF SessionDecision
<1>2. /\ b \in PolicyResult /\ b.decision = store.decision
      /\ b.segments = (IF store.decision = "block" THEN None ELSE {})
      /\ ~b.scanned /\ ~b.reversal
  BY <1>1, NewResultFields
<1>3. {store.decision} \in SUBSET RowActionNames
  BY <1>1, StrictnessValues DEF RowActionNames
<1>4. r = [b EXCEPT
             !.remoteAllowed = store.remoteAllowed, !.entities = store.entities,
             !.counts = store.counts, !.actions = {store.decision}, !.rows = store.rows,
             !.source = "cached_decision", !.overlaps = store.overlaps, !.cachedApplied = TRUE,
             !.route = store.route, !.notices = store.notices]
  BY DEF ResultFromCache
<1> HIDE DEF b, r
<1>5. r \in PolicyResult
  BY <1>1, <1>2, <1>3, <1>4 DEF PolicyResult
<1>6. /\ r.decision = store.decision /\ r.remoteAllowed = store.remoteAllowed
      /\ r.segments = (IF store.decision = "block" THEN None ELSE {})
      /\ r.entities = store.entities /\ r.counts = store.counts /\ r.actions = {store.decision}
      /\ r.rows = store.rows /\ r.source = "cached_decision" /\ r.cachedApplied
      /\ r.route = store.route /\ r.notices = store.notices /\ ~r.scanned /\ ~r.reversal
      /\ r.overlaps = store.overlaps
  BY <1>2, <1>4 DEF PolicyResult
<1>7. {} # None
  BY PolicyAssumption DEF PolicyAssumption
<1>8. ResultKindValid(r)
  BY <1>0, <1>6 DEF ResultKindValid, SessionDecisionValid, RowActions
<1>9. SegmentFieldsValid(r) /\ MetadataValid(r) /\ ForwardingValid(r)
  BY <1>0, <1>1, <1>6, <1>7 DEF SegmentFieldsValid, MetadataValid, ForwardingValid,
     SessionDecisionValid
<1>10. RowsValid(r.rows) /\ CountsValid(r)
  BY <1>1, <1>6 DEF SessionDecisionValid, CountsValid, CountsAgree, RowsWithin
<1>11. ActionsValid(r)
  BY <1>1, <1>6 DEF SessionDecisionValid, ActionsValid, RowActions, SomeTransformed
<1>12. VisualValid(r)
  BY <1>0, <1>1, <1>6 DEF SessionDecisionValid, VisualValid
<1>13. LimitsKept(r)
  BY <1>6 DEF SessionDecisionValid, LimitsKept
<1> QED
  BY <1>5, <1>6, <1>8, <1>9, <1>10, <1>11, <1>12, <1>13 DEF Settled, ResponseValid, r

\* Few types and small counts keep a result within its limits.
LEMMA RowsFew ==
    ASSUME NEW rows \in SUBSET ReportRow, RowsValid(rows)
    PROVE  Cardinality(rows) <= MaxTypes
<1> DEFINE f == [row \in rows |-> row.entity]
<1>1. f \in Injection(rows, Reported)
  BY DEF Injection, IsInjective, RowsValid, ReportRow
<1>2. IsFiniteSet(rows) /\ Cardinality(rows) <= Cardinality(Reported)
  BY <1>1, Limits, FS_Injection
<1> QED
  BY <1>2, Limits, FS_CardinalityType

LEMMA TypesFew ==
    ASSUME NEW S \in SUBSET Reported
    PROVE  Cardinality(S) <= MaxTypes
<1>1. IsFiniteSet(S) /\ Cardinality(S) <= Cardinality(Reported)
  BY Limits, FS_Subset
<1> QED
  BY <1>1, Limits, FS_CardinalityType

LEMMA BoundedLimits ==
    ASSUME NEW r, Current(r)
    PROVE  LimitsKept(r)
<1>1. /\ r.entities \in SUBSET Reported /\ r.rows \in SUBSET ReportRow
      /\ RowsValid(r.rows) /\ Bounded(r) /\ CountsValid(r) /\ ~r.cachedApplied
      /\ r.counts \in [Reported -> Nat]
  BY DEF Current, PolicyResult
<1>2. \A row \in r.rows : <<row.entity, row.detected>> \in {<<e, r.counts[e]>> : e \in r.entities}
  BY <1>1 DEF CountsValid
<1>3. \A row \in r.rows : /\ row.detected = r.counts[row.entity] /\ row.detected \in Nat
                          /\ row.entity \in Reported /\ row.transformed \in Nat
                          /\ row.transformed <= row.detected
  BY <1>1, <1>2 DEF ReportRow, RowsValid
<1>4. \A row \in r.rows : row.detected <= MaxCount /\ row.transformed <= MaxCount
  BY <1>1, <1>3, Limits DEF Bounded
<1>5. r.overlaps <= MaxCount
  BY <1>1 DEF Bounded
<1> QED
  BY <1>1, <1>4, <1>5, RowsFew, TypesFew DEF LimitsKept

\* _apply_visual_result makes a sound result of a draft.
LEMMA WithoutFacesSound ==
    ASSUME StageOK, request # None, FaceCount = 0, NEW r, Draft(r)
    PROVE  Sound(r)
<1>0. /\ Current(r) /\ r \in PolicyResult /\ r.source = "current_request" /\ ~r.cachedApplied
      /\ r.counts["FACE"] = 0 /\ (~r.scanned => r.entities = {}) /\ TextActions(r) /\ TextDecided(r)
      /\ CountsValid(r) /\ RowsValid(r.rows)
  BY DEF Draft, Current
<1>1. FaceRoute = None
  BY FaceFields
<1>2. ActionsValid(r)
  BY <1>0, <1>1 DEF TextActions, ActionsValid
<1>3. VisualValid(r)
  <2>1. \A row \in r.rows : row.entity # "FACE"
    <3>1. \A row \in r.rows : <<row.entity, row.detected>> \in {<<e, r.counts[e]>> : e \in r.entities}
      BY <1>0 DEF CountsValid
    <3>2. "FACE" \notin r.entities
      BY <1>0 DEF CountsValid, CountsAgree
    <3> QED
      BY <3>1, <3>2
  <2>2. request.faces # None /\ request.faces.status = "failed" => r.decision = "block"
    BY <1>0 DEF TextDecided, BlockDemanded
  <2> QED
    BY <1>0, <2>1, <2>2 DEF VisualValid, TextActions
<1>4. Decided(r)
  BY <1>0, <1>1 DEF TextDecided, Decided, RerouteDemanded, ChangeDemanded
<1> QED
  BY <1>0, <1>2, <1>3, <1>4 DEF Sound

LEMMA WithFacesSound ==
    ASSUME StageOK, request # None, FaceCount > 0, NEW r, Draft(r)
    PROVE  Sound(WithFaces(r))
<1> DEFINE action == IF r.decision = "block" THEN "block" ELSE policy.faces
           found == [r.counts EXCEPT !["FACE"] = FaceCount]
           face == [entity |-> "FACE", action |-> action, detected |-> FaceCount, transformed |-> 0]
           quiet == r.decision = "pass" /\ r.entities = {}
           w == WithFaces(r)
<1>0. /\ Current(r) /\ r \in PolicyResult /\ r.source = "current_request" /\ ~r.cachedApplied
      /\ r.counts["FACE"] = 0 /\ (~r.scanned => r.entities = {}) /\ TextActions(r) /\ TextDecided(r)
      /\ CountsValid(r) /\ RowsValid(r.rows) /\ SegmentFieldsValid(r) /\ MetadataValid(r)
      /\ ForwardingValid(r) /\ Masked(r) /\ Routed(r)
  BY DEF Draft, Current
<1>1. /\ FaceCount \in Nat /\ request.faces # None /\ request.kind = "model"
      /\ FaceRoute # None <=> policy.faces = "reroute"
      /\ FaceRoute \in Routes \union {None}
      /\ policy.faces \in {"block", "text-only", "reroute"} /\ request \in Requests
  BY FaceFields
<1>2. policy.faces = "block" => r.decision = "block"
  BY <1>0 DEF TextDecided, BlockDemanded
<1>3. /\ action \in {"block", "text-only", "reroute"}
      /\ action = "block" <=> r.decision = "block"
  BY <1>1, <1>2
<1>4. r.counts \in [Reported -> Nat] /\ "FACE" \in Reported /\ r.rows \in SUBSET ReportRow
      /\ r.entities \in SUBSET Reported /\ r.actions \in SUBSET RowActionNames
      /\ r.decision \in {"pass", "apply_actions", "reroute", "block"}
  BY <1>0 DEF PolicyResult, Reported
<1>5. /\ found \in [Reported -> Nat] /\ found["FACE"] = FaceCount
      /\ \A e \in Reported \ {"FACE"} : found[e] = r.counts[e]
  BY <1>1, <1>4
<1>6. face \in ReportRow /\ action \in RowActionNames
  BY <1>1, <1>3, <1>4, StrictnessValues DEF ReportRow, RowActionNames
<1> DEFINE d == IF action = "reroute" THEN "reroute"
                ELSE IF action = "text-only" /\ r.decision = "pass" THEN "apply_actions"
                ELSE r.decision
           es == {e \in Reported : found[e] > 0}
           n == action \in {"reroute", "text-only"} \/ (r.notices /\ ~quiet)
           rt == IF action = "reroute" THEN FaceRoute ELSE r.route
           ra == r.remoteAllowed /\ action # "reroute"
<1>7. w = [r EXCEPT !.counts = found, !.entities = es, !.rows = r.rows \union {face},
                    !.actions = r.actions \union {action}, !.decision = d,
                    !.remoteAllowed = ra, !.route = rt, !.notices = n]
  BY <1>0 DEF WithFaces, PolicyResult
<1>8. /\ d \in {"pass", "apply_actions", "reroute", "block"} /\ (d = "block" <=> r.decision = "block")
      /\ d # "pass"
      /\ es \in SUBSET Reported /\ n \in BOOLEAN /\ ra \in BOOLEAN
      /\ rt \in Routes \union {Class, None}
  BY <1>0, <1>1, <1>3, <1>4 DEF PolicyResult
<1> HIDE DEF w, found, d, es, n, rt, ra, quiet, face
<1>9. w \in PolicyResult
  BY <1>0, <1>4, <1>5, <1>6, <1>7, <1>8 DEF PolicyResult
<1>10. /\ w.counts = found /\ w.entities = es /\ w.rows = r.rows \union {face}
       /\ w.actions = r.actions \union {action} /\ w.decision = d /\ w.remoteAllowed = ra
       /\ w.route = rt /\ w.notices = n /\ w.segments = r.segments /\ w.source = r.source
       /\ w.scanned = r.scanned /\ w.overlaps = r.overlaps
       /\ w.cachedApplied = r.cachedApplied /\ w.reversal = r.reversal
  BY <1>0, <1>7 DEF PolicyResult
<1>11. /\ face.entity = "FACE" /\ face.action = action /\ face.detected = FaceCount
       /\ face.transformed = 0
  BY DEF face
<1> HIDE DEF action
<1>12. \A row \in r.rows : row.entity # "FACE" /\ row.detected = r.counts[row.entity]
                           /\ row.entity \in r.entities
  <2>1. \A row \in r.rows : <<row.entity, row.detected>> \in {<<e, r.counts[e]>> : e \in r.entities}
    BY <1>0 DEF CountsValid
  <2>2. "FACE" \notin r.entities
    BY <1>0 DEF CountsValid, CountsAgree
  <2> QED
    BY <2>1, <2>2
<1>13. es = r.entities \union {"FACE"}
  BY <1>0, <1>1, <1>4, <1>5 DEF CountsValid, CountsAgree, es
<1>14. RowsValid(w.rows)
  BY <1>0, <1>1, <1>3, <1>10, <1>11, <1>12 DEF RowsValid
<1>15. CountsValid(w)
  <2>1. {<<row.entity, row.detected>> : row \in w.rows} = {<<e, w.counts[e]>> : e \in w.entities}
    <3>1. {<<row.entity, row.detected>> : row \in r.rows} = {<<e, r.counts[e]>> : e \in r.entities}
      BY <1>0 DEF CountsValid
    <3>2. \A e \in r.entities : e # "FACE" /\ found[e] = r.counts[e]
      BY <1>0, <1>4, <1>5 DEF CountsValid, CountsAgree
    <3>3. {<<row.entity, row.detected>> : row \in w.rows}
            = {<<row.entity, row.detected>> : row \in r.rows} \union {<<"FACE", FaceCount>>}
      BY <1>10, <1>11
    <3>4. {<<e, w.counts[e]>> : e \in w.entities}
            = {<<e, r.counts[e]>> : e \in r.entities} \union {<<"FACE", FaceCount>>}
      BY <1>5, <1>10, <1>13, <3>2
    <3> QED
      BY <3>1, <3>3, <3>4
  <2> QED
    BY <1>0, <1>10, <2>1 DEF CountsValid, CountsAgree, es
<1>16. ResultKindValid(w) /\ MetadataValid(w)
  BY <1>0, <1>1, <1>10 DEF ResultKindValid, MetadataValid
<1>17. ForwardingValid(w)
  BY <1>0, <1>1, <1>3, <1>8, <1>10 DEF ForwardingValid, d, rt, ra, action
<1>18. SegmentFieldsValid(w)
  BY <1>0, <1>1, <1>8, <1>10 DEF SegmentFieldsValid, ForwardingValid
<1>19. RowActions(w) = RowActions(r) \union {action}
  BY <1>10, <1>11 DEF RowActions
<1>20. SomeTransformed(w) <=> SomeTransformed(r)
  BY <1>10, <1>11 DEF SomeTransformed
<1>21. ActionsValid(w)
  <2>1. CASE r.decision = "block"
    BY <1>0, <1>3, <1>8, <1>10, <1>19, <1>20, <2>1 DEF ActionsValid, TextActions
  <2>2. CASE r.decision # "block" /\ action = "reroute"
    BY <1>0, <1>3, <1>4, <1>8, <1>10, <1>19, <2>2 DEF ActionsValid, TextActions, d
  <2>3. CASE r.decision # "block" /\ action = "text-only"
    <3>1. FaceRoute = None
      BY <1>1, <2>3 DEF action
    <3> QED
      BY <1>0, <1>3, <1>4, <1>8, <1>10, <1>19, <1>20, <2>3, <3>1 DEF ActionsValid, TextActions, d
  <2> QED
    BY <1>3, <2>1, <2>2, <2>3
<1>22. VisualValid(w)
  <2>1. request.faces.status = "failed" => w.decision = "block"
    BY <1>0, <1>1, <1>8, <1>10 DEF TextDecided, BlockDemanded
  <2>2. face \in w.rows /\ \A row \in w.rows : row.entity = "FACE" => row = face
    BY <1>10, <1>12
  <2> QED
    BY <1>0, <1>1, <1>3, <1>5, <1>8, <1>10, <1>11, <1>13, <2>1, <2>2 DEF VisualValid
<1>23. Decided(w)
  <2>1. w.decision = "block" <=> BlockDemanded \/ RoutesConflict
    BY <1>0, <1>8, <1>10 DEF TextDecided
  <2>2. CASE policy.faces = "reroute"
    BY <1>3, <1>10, <2>1, <2>2 DEF Decided, RerouteDemanded, d, action
  <2>3. CASE policy.faces # "reroute"
    <3>1. FaceRoute = None
      BY <1>1, <2>3
    <3>2. r.decision # "block" => action = "text-only"
      BY <1>1, <1>2, <2>3 DEF action
    <3> QED
      BY <1>0, <1>10, <2>1, <2>3, <3>1, <3>2
      DEF Decided, TextDecided, RerouteDemanded, ChangeDemanded, d
  <2> QED
    BY <2>2, <2>3
<1>24. Routed(w)
  <2> SUFFICES ASSUME d = "reroute"
               PROVE  IF FaceRoute # None
                        THEN w.route = FaceRoute /\ \A e \in reroutes : RouteOf(e) = FaceRoute
                        ELSE \E e \in reroutes : /\ w.route = RouteOf(e)
                                                 /\ \A f \in reroutes : Rank(e) <= Rank(f)
    BY <1>10 DEF Routed
  <2>1. r.decision # "block"
    BY <1>8
  <2>2. CASE FaceRoute # None
    <3>1. action = "reroute"
      BY <1>1, <2>1, <2>2 DEF action
    <3>2. ~RoutesConflict
      BY <1>0, <2>1 DEF TextDecided
    <3> QED
      BY <1>10, <2>2, <3>1, <3>2 DEF RoutesConflict, rt
  <2>3. CASE FaceRoute = None
    <3>1. action # "reroute"
      BY <1>1, <2>1, <2>3 DEF action
    <3>2. r.decision = "reroute" /\ w.route = r.route
      BY <1>10, <3>1 DEF d, rt
    <3> QED
      BY <1>0, <2>3, <3>2 DEF Routed
  <2> QED
    BY <2>2, <2>3
<1>25. Masked(w)
  BY <1>0, <1>8, <1>10 DEF Masked, ra
<1>26. Bounded(w)
  <2>1. w.counts = found /\ w.overlaps = r.overlaps /\ Bounded(r)
    BY <1>0, <1>7, <1>10 DEF PolicyResult, Current
  <2> QED
    BY <1>5, <2>1, FaceFields DEF Bounded
<1>27. Current(w)
  BY <1>0, <1>9, <1>10, <1>14, <1>15, <1>16, <1>17, <1>18, <1>24, <1>25, <1>26 DEF Current
<1> QED
  BY <1>21, <1>22, <1>23, <1>27 DEF Sound, w

\* A sound result that nothing is merged into may be stored.
LEMMA SoundStores ==
    ASSUME StageOK, request # None, request.scope = "session", NEW r, Sound(r),
           r.decision \in {"block", "reroute"}
    PROVE  SessionDecisionValid(Tainting(r)) /\ Tainting(r) \in SessionDecision
<1> DEFINE t == Tainting(r)
<1>0. /\ request \in Requests /\ request.faces = None /\ request.kind \in {"model", "mcp"}
  BY RequestFields DEF StageOK
<1>1. /\ r \in PolicyResult /\ ~r.cachedApplied /\ r.source = "current_request"
      /\ ResultKindValid(r) /\ ForwardingValid(r) /\ RowsValid(r.rows) /\ CountsValid(r)
      /\ ActionsValid(r) /\ VisualValid(r)
  BY DEF Sound, Current
<1>2. /\ r.entities \in SUBSET Reported /\ r.counts \in [Reported -> Nat]
      /\ r.rows \in SUBSET ReportRow /\ r.overlaps \in Nat
      /\ r.route \in Routes \union {Class, None} /\ r.remoteAllowed \in BOOLEAN
      /\ r.notices \in BOOLEAN
  BY <1>1 DEF PolicyResult
<1>3. /\ t.kind = request.kind /\ t.decision = r.decision /\ t.entities = r.entities
      /\ t.counts = r.counts /\ t.rows = r.rows /\ t.overlaps = r.overlaps /\ t.route = r.route
      /\ t.remoteAllowed = r.remoteAllowed /\ t.notices = r.notices
  BY <1>1 DEF Tainting
<1>4. t \in SessionDecision
  BY <1>0, <1>1, <1>2 DEF Tainting, SessionDecision
<1> HIDE DEF t
<1>5. RowsWithin(t)
  <2>1. \A row \in r.rows : <<row.entity, row.detected>> \in {<<e, r.counts[e]>> : e \in r.entities}
    BY <1>1 DEF CountsValid
  <2>2. \A row \in r.rows : row.detected = r.counts[row.entity] /\ row.detected \in Nat
    BY <1>2, <2>1 DEF ReportRow
  <2> QED
    BY <1>3, <2>2 DEF RowsWithin
<1>6. CountsAgree(t)
  BY <1>1, <1>3 DEF CountsValid, CountsAgree
<1>7. RowActions(t) = RowActions(r) /\ (SomeTransformed(t) <=> SomeTransformed(r))
  BY <1>3 DEF RowActions, SomeTransformed
<1>8. /\ ~t.remoteAllowed
      /\ t.decision = "block" <=> t.route = None
  BY <1>1, <1>3 DEF ForwardingValid
<1>9. t.kind = "mcp" => t.decision = "block" /\ ~t.notices /\ "reroute" \notin RowActions(t)
  BY <1>1, <1>3, <1>7 DEF ResultKindValid
<1>10. t.counts["FACE"] = 0
  BY <1>0, <1>1, <1>3 DEF VisualValid
<1>11. /\ t.decision = "block" => ~SomeTransformed(t) /\ (t.rows # {} => "block" \in RowActions(t))
       /\ t.decision = "reroute" => "block" \notin RowActions(t) /\ "reroute" \in RowActions(t)
  BY <1>1, <1>3, <1>7 DEF ActionsValid
<1>12. RowsValid(t.rows)
  BY <1>1, <1>3
<1>13. LimitsKept(t) /\ \A e \in Reported : t.counts[e] <= MaxCount
  <2>1. LimitsKept(r) /\ Bounded(r)
    BY BoundedLimits DEF Sound, Current
  <2> QED
    BY <1>3, <2>1 DEF LimitsKept, Bounded
<1>14. SessionDecisionValid(t)
  BY <1>3, <1>5, <1>6, <1>8, <1>9, <1>10, <1>11, <1>12, <1>13 DEF SessionDecisionValid
<1> QED
  BY <1>4, <1>14 DEF t

\* Merging the stored reroute into a result that is not blocked.
LEMMA MergeFields ==
    ASSUME StageOK, request # None, cached \in SessionDecision, cached # None,
           NEW r, Sound(r), r.decision # "block"
    PROVE  LET m == ApplyCachedDecision(r)
           IN  /\ m \in PolicyResult
               /\ m.decision = "reroute" /\ ~m.remoteAllowed /\ m.route = cached.route
               /\ m.entities = r.entities \union cached.entities
               /\ \A e \in Reported :
                    m.counts[e] = IF cached.counts[e] > r.counts[e] THEN cached.counts[e]
                                  ELSE r.counts[e]
               /\ m.actions = r.actions \union {"reroute"} /\ m.notices = cached.notices
               /\ m.cachedApplied /\ m.rows = r.rows /\ m.source = r.source
               /\ m.scanned = r.scanned /\ m.segments = r.segments /\ m.reversal = r.reversal
               /\ m.overlaps = r.overlaps
<1> DEFINE m == ApplyCachedDecision(r)
           cs == [e \in Reported |-> IF cached.counts[e] > r.counts[e] THEN cached.counts[e]
                                     ELSE r.counts[e]]
<1>1. r \in PolicyResult
  BY DEF Sound, Current
<1>2. /\ cached.counts \in [Reported -> Nat] /\ cached.entities \in SUBSET Reported
      /\ cached.route \in Routes \union {Class, None} /\ cached.notices \in BOOLEAN
  BY DEF SessionDecision
<1>3. /\ r.counts \in [Reported -> Nat] /\ r.entities \in SUBSET Reported
      /\ r.actions \in SUBSET RowActionNames
  BY <1>1 DEF PolicyResult
<1>4. cs \in [Reported -> Nat] /\ r.actions \union {"reroute"} \in SUBSET RowActionNames
  BY <1>2, <1>3, StrictnessValues DEF RowActionNames
<1>5. m = [r EXCEPT !.decision = "reroute", !.remoteAllowed = FALSE, !.route = cached.route,
                    !.entities = r.entities \union cached.entities, !.counts = cs,
                    !.actions = r.actions \union {"reroute"}, !.notices = cached.notices,
                    !.cachedApplied = TRUE]
  BY <1>1 DEF ApplyCachedDecision, PolicyResult
<1>6. \A e \in Reported : cs[e] = IF cached.counts[e] > r.counts[e] THEN cached.counts[e]
                                  ELSE r.counts[e]
  OBVIOUS
<1> HIDE DEF m, cs
<1>7. m \in PolicyResult
  BY <1>1, <1>2, <1>3, <1>4, <1>5 DEF PolicyResult
<1>8. /\ m.decision = "reroute" /\ ~m.remoteAllowed /\ m.route = cached.route
      /\ m.entities = r.entities \union cached.entities /\ m.counts = cs
      /\ m.actions = r.actions \union {"reroute"} /\ m.notices = cached.notices
      /\ m.cachedApplied /\ m.rows = r.rows /\ m.source = r.source
      /\ m.scanned = r.scanned /\ m.segments = r.segments /\ m.reversal = r.reversal
      /\ m.overlaps = r.overlaps
  BY <1>1, <1>5 DEF PolicyResult
<1> QED
  BY <1>6, <1>7, <1>8 DEF m

LEMMA MergeSettles ==
    ASSUME StageOK, request # None, request.scope = "session", cached \in SessionDecision,
           cached # None, SessionDecisionValid(cached), cached.kind = request.kind,
           cached.decision = "reroute", NEW r, Sound(r), r.decision # "block"
    PROVE  LET m == ApplyCachedDecision(r)
           IN  /\ Settled(m) /\ m.source = "current_request" /\ m.decision = "reroute"
               /\ SessionDecisionValid(Tainting(m)) /\ Tainting(m) \in SessionDecision
<1> DEFINE m == ApplyCachedDecision(r)
           t == Tainting(m)
<1>0. request \in Requests /\ request.faces = None /\ request.kind = "model"
  BY RequestFields DEF StageOK, SessionDecisionValid
<1>1. /\ r \in PolicyResult /\ ~r.cachedApplied /\ r.source = "current_request"
      /\ ResultKindValid(r) /\ SegmentFieldsValid(r) /\ MetadataValid(r) /\ ForwardingValid(r)
      /\ RowsValid(r.rows) /\ CountsValid(r) /\ ActionsValid(r) /\ VisualValid(r)
      /\ Decided(r) /\ Masked(r)
  BY DEF Sound, Current
<1>2. /\ m \in PolicyResult
      /\ m.decision = "reroute" /\ ~m.remoteAllowed /\ m.route = cached.route
      /\ m.entities = r.entities \union cached.entities
      /\ \A e \in Reported :
           m.counts[e] = IF cached.counts[e] > r.counts[e] THEN cached.counts[e] ELSE r.counts[e]
      /\ m.actions = r.actions \union {"reroute"} /\ m.notices = cached.notices
      /\ m.cachedApplied /\ m.rows = r.rows /\ m.source = r.source
      /\ m.scanned = r.scanned /\ m.segments = r.segments /\ m.reversal = r.reversal
      /\ m.overlaps = r.overlaps
  BY MergeFields
<1>3. /\ cached.counts \in [Reported -> Nat] /\ cached.entities \in SUBSET Reported
      /\ cached.rows \in SUBSET ReportRow /\ cached.overlaps \in Nat
      /\ cached.route \in Routes \union {Class, None} /\ cached.notices \in BOOLEAN
  BY DEF SessionDecision
<1>4. /\ m.counts \in [Reported -> Nat] /\ m.entities \in SUBSET Reported
      /\ r.counts \in [Reported -> Nat] /\ r.rows \in SUBSET ReportRow
      /\ r.decision \in {"pass", "apply_actions", "reroute", "block"} /\ "FACE" \in Reported
  BY <1>1, <1>2 DEF PolicyResult, Reported
<1>5. \A e \in Reported : /\ m.counts[e] \in Nat
                          /\ m.counts[e] >= cached.counts[e] /\ m.counts[e] >= r.counts[e]
                          /\ m.counts[e] > 0 <=> cached.counts[e] > 0 \/ r.counts[e] > 0
  BY <1>2, <1>3, <1>4
<1>6. /\ t.kind = request.kind /\ t.decision = "reroute" /\ t.entities = m.entities
      /\ t.counts = m.counts /\ t.rows = cached.rows /\ t.overlaps = cached.overlaps
      /\ t.route = m.route /\ t.remoteAllowed = m.remoteAllowed /\ t.notices = m.notices
  BY <1>2 DEF Tainting
<1>7. t \in SessionDecision
  BY <1>0, <1>2, <1>3, <1>4 DEF Tainting, SessionDecision, PolicyResult
<1> HIDE DEF m, t
<1>8. CountsAgree(m)
  <2>1. /\ r.entities = {e \in Reported : r.counts[e] > 0}
        /\ cached.entities = {e \in Reported : cached.counts[e] > 0}
    BY <1>1 DEF CountsValid, CountsAgree, SessionDecisionValid
  <2> QED
    BY <1>2, <1>5, <2>1 DEF CountsAgree
<1>9. RowsWithin(m)
  <2>1. \A row \in r.rows : <<row.entity, row.detected>> \in {<<e, r.counts[e]>> : e \in r.entities}
    BY <1>1 DEF CountsValid
  <2>2. \A row \in r.rows : row.detected = r.counts[row.entity] /\ row.entity \in Reported
    BY <1>4, <2>1 DEF ReportRow
  <2> QED
    BY <1>2, <1>4, <1>5, <2>2 DEF RowsWithin
<1>10. m.counts["FACE"] = 0
  <2>1. r.counts["FACE"] = 0 /\ cached.counts["FACE"] = 0
    BY <1>0, <1>1 DEF VisualValid, SessionDecisionValid
  <2> QED
    BY <1>2, <1>4, <2>1
<1>11. RowActions(m) = RowActions(r) /\ "block" \notin RowActions(r)
  <2>1. RowActions(m) = RowActions(r)
    BY <1>2 DEF RowActions
  <2>2. "block" \notin RowActions(r)
    BY <1>1, <1>4 DEF ActionsValid
  <2> QED
    BY <2>1, <2>2
<1>12. r.scanned /\ r.segments # None
  BY <1>0, <1>1 DEF SegmentFieldsValid
<1>13. ResultKindValid(m) /\ SegmentFieldsValid(m) /\ MetadataValid(m)
  BY <1>0, <1>1, <1>2, <1>12 DEF ResultKindValid, SegmentFieldsValid, MetadataValid
<1>14. cached.route # None
  BY DEF SessionDecisionValid
<1>15. ForwardingValid(m) /\ RowsValid(m.rows)
  BY <1>1, <1>2, <1>12, <1>14 DEF ForwardingValid
<1>16. CountsValid(m)
  BY <1>2, <1>8, <1>9 DEF CountsValid
<1>17. ActionsValid(m)
  BY <1>1, <1>2, <1>11, <1>12 DEF ActionsValid
<1>18. VisualValid(m)
  BY <1>0, <1>1, <1>2, <1>10 DEF VisualValid
<1>19. Masked(m)
  BY <1>1, <1>2 DEF Masked
<1>20. ~(BlockDemanded \/ RoutesConflict)
  BY <1>1 DEF Decided
<1>21. /\ LimitsKept(m) /\ LimitsKept(t)
       /\ \A e \in Reported : t.counts[e] <= MaxCount
  <2>1. LimitsKept(r) /\ Bounded(r)
    BY BoundedLimits DEF Sound, Current
  <2>2. LimitsKept(cached) /\ \A e \in Reported : cached.counts[e] <= MaxCount
    BY DEF SessionDecisionValid
  <2>3. Cardinality(m.entities) <= MaxTypes
    BY <1>4, TypesFew
  <2>4. \A e \in Reported : m.counts[e] <= MaxCount
    BY <1>2, <2>1, <2>2 DEF Bounded
  <2> QED
    BY <1>2, <1>6, <2>1, <2>2, <2>3, <2>4 DEF LimitsKept
<1>22. Settled(m)
  BY <1>1, <1>2, <1>13, <1>15, <1>16, <1>17, <1>18, <1>19, <1>20, <1>21 DEF Settled, ResponseValid
<1>23. RowsWithin(t)
  <2>1. \A row \in cached.rows : /\ row.detected <= cached.counts[row.entity]
                                 /\ row.entity \in Reported /\ row.detected \in Nat
    BY <1>3 DEF SessionDecisionValid, RowsWithin, ReportRow
  <2> QED
    BY <1>3, <1>5, <1>6, <2>1 DEF RowsWithin
<1>24. SessionDecisionValid(t)
  BY <1>0, <1>2, <1>6, <1>8, <1>10, <1>14, <1>21, <1>23
  DEF SessionDecisionValid, CountsAgree, RowActions, SomeTransformed
<1> QED
  BY <1>1, <1>2, <1>7, <1>22, <1>24 DEF m, t

LEMMA SoundSettles ==
    ASSUME StageOK, NEW r, Sound(r), cached = None \/ r.decision = "block"
    PROVE  Settled(r)
<1>1. r.source = "current_request" /\ Current(r) /\ ActionsValid(r) /\ VisualValid(r) /\ Decided(r)
  BY DEF Sound, Current
<1>2. LimitsKept(r)
  BY <1>1, BoundedLimits
<1> QED
  BY <1>1, <1>2 DEF Settled, ResponseValid, Current, Decided

-----------------------------------------------------------------------------
(* Every step keeps the invariant *)

LEMMA InitInductive == Init => Inductive
<1>1. Init => Idle
  BY DEF Init, Idle
<1> QED
  BY <1>1, IdleInductive

LEMMA ReceiveKeeps ==
    ASSUME Inductive, NEW r \in Requests, Receive(r)
    PROVE  Inductive'
<1>0. /\ at = "idle" /\ request' = r /\ request' # None /\ prepared = <<>> /\ cached = None
      /\ UNCHANGED <<policy, store, cached, planVars, textVars, result>>
      /\ at' \in {"failed", "cache", "preflight"}
      /\ at' # "failed" => ~(Len(r.leaves) > MaxTextLeaves)
      /\ at' = "cache" => r.scope = "session"
      /\ at' = "preflight" => r.scope # "session"
  BY RequestFields DEF Inductive, Receive, StageOK, CacheOK
<1>1. Len(r.leaves) \in Nat /\ MaxTextLeaves \in Nat
  BY RequestFields, PolicyAssumption DEF PolicyAssumption
<1>2. StageOK'
  BY <1>0, <1>1 DEF Inductive, StageOK, planVars
<1>3. PlansOK'
  BY <1>0, PlansOfNewRequest DEF Inductive
<1>4. TextOK'
  BY <1>0, TextFrame DEF Inductive, planVars
<1>5. CacheOK'
  BY <1>0 DEF Inductive, CacheOK
<1>6. ResultOK'
  BY <1>0 DEF ResultOK
<1> QED
  BY <1>2, <1>3, <1>4, <1>5, <1>6 DEF Inductive

LEMMA CachedDecisionKeeps ==
    ASSUME Inductive, CachedDecision
    PROVE  Inductive'
<1>0. /\ at = "cache" /\ request # None /\ request.scope = "session" /\ prepared = <<>>
      /\ Len(request.leaves) <= MaxTextLeaves /\ cached = None
      /\ UNCHANGED <<policy, store, request, planVars, textVars>>
      /\ at' \in {"failed", "respond", "preflight"}
  BY DEF Inductive, CachedDecision, StageOK, CacheOK
<1>1. StageOK'
  BY <1>0 DEF Inductive, StageOK, planVars
<1>2. PlansOK' /\ TextOK'
  BY <1>0, PlansFrame, TextFrame DEF Inductive, planVars
<1>3. CacheOK'
  <2>1. CASE at' = "preflight"
    <3>1. /\ cached' = store
          /\ store # None => SameKind(store) /\ ~SettledByCache(store)
      BY <2>1 DEF CachedDecision
    <3> QED
      BY <1>0, <2>1, <3>1 DEF Inductive, CacheOK, SameKind, SettledByCache, SessionDecisionValid
  <2>2. CASE at' # "preflight"
    <3>1. cached' = cached
      BY <2>2 DEF CachedDecision
    <3> QED
      BY <1>0, <2>2, <3>1 DEF Inductive, CacheOK
  <2> QED
    BY <2>1, <2>2
<1>4. ResultOK'
  <2>1. CASE at' = "respond"
    <3>1. /\ store # None /\ SameKind(store) /\ result' = ResultFromCache(store)
          /\ UNCHANGED cached
      BY <2>1 DEF CachedDecision
    <3>2. Settled(result') /\ result'.source = "cached_decision"
      BY <1>0, <3>1, CachedSettles DEF Inductive, CacheOK
    <3>3. Settled(result)'
      BY <1>0, <3>1, <3>2, SettledFrame DEF planVars
    <3> QED
      BY <2>1, <3>3 DEF ResultOK
  <2> QED
    BY <1>0, <2>1 DEF ResultOK
<1> QED
  BY <1>1, <1>2, <1>3, <1>4 DEF Inductive

\* Before anything is planned no routes conflict.
LEMMA NoConflictYet ==
    ASSUME PlansOK, prepared = <<>>
    PROVE  reroutes = {} /\ ~RoutesConflict
  BY DEF PlansOK, RoutesConflict

LEMMA PreflightKeeps ==
    ASSUME Inductive, Preflight
    PROVE  Inductive'
<1>0. /\ at = "preflight" /\ request # None /\ request \in Requests /\ prepared = <<>>
      /\ Len(request.leaves) <= MaxTextLeaves
      /\ UNCHANGED <<policy, store, request, cached, planVars, textVars>>
      /\ at' \in {"visual", "failed", "faces"}
      /\ StageOK /\ PlansOK /\ TextOK /\ CacheOK
  BY DEF Inductive, Preflight, StageOK
<1>1. StageOK'
  BY <1>0 DEF Preflight, StageOK, planVars
<1>2. PlansOK' /\ TextOK'
  BY <1>0, PlansFrame, TextFrame DEF planVars
<1>3. CacheOK'
  BY <1>0 DEF CacheOK
<1>4. ASSUME at' = "visual" PROVE Draft(result')
  <2>1. CASE /\ request.kind = "mcp" /\ request.leaves = <<>> /\ ~request.attachments
             /\ result' = NewResult("pass")
    <3>1. request.faces = None /\ request.textPii /\ ~request.unsafe
      BY <1>0, <2>1, RequestFields
    <3>2. Detections = {} /\ FaceCount = 0
      BY <2>1, <3>1 DEF Detections, FaceCount
    <3>3. ~BlockDemanded
      BY <2>1, <3>1, <3>2 DEF BlockDemanded
    <3> QED
      BY <1>0, <2>1, <3>3, NoConflictYet, UnscannedResults, UnscannedDraft
  <2>2. CASE /\ request.attachments \/ request.unsafe
             /\ result' = [BlockResult EXCEPT !.notices = request.kind # "mcp"]
    <3>1. BlockDemanded
      BY <2>2 DEF BlockDemanded
    <3>2. UnscannedFields(result', "block", request.kind # "mcp")
      BY <2>2, UnscannedResults
    <3> QED
      BY <1>0, <3>1, <3>2, UnscannedDraft
  <2> QED
    BY <1>4, <2>1, <2>2 DEF Preflight
<1>5. ResultOK'
  BY <1>0, <1>4, DraftFrame DEF ResultOK, planVars
<1> QED
  BY <1>1, <1>2, <1>3, <1>5 DEF Inductive

LEMMA FaceFindingsCheckedKeeps ==
    ASSUME Inductive, FaceFindingsChecked
    PROVE  Inductive'
<1>0. /\ at = "faces" /\ request # None /\ request \in Requests /\ prepared = <<>>
      /\ Len(request.leaves) <= MaxTextLeaves
      /\ ~request.attachments /\ ~request.unsafe /\ request.leaves # <<>>
      /\ UNCHANGED <<policy, store, request, cached, planVars, textVars>>
      /\ at' \in {"visual", "prepare"}
      /\ StageOK /\ PlansOK /\ TextOK /\ CacheOK
  BY DEF Inductive, FaceFindingsChecked, StageOK
<1>1. /\ at' = "prepare" => ~FacesBlock /\ (request.faces = None \/ request.textPii)
      /\ at' = "visual" => \/ FacesBlock /\ result' = BlockResult
                           \/ /\ ~FacesBlock /\ request.faces # None /\ ~request.textPii
                              /\ result' = NewResult("pass")
  BY DEF FaceFindingsChecked, FacesBlock
<1>2. at' = "prepare" => request.textPii
  BY <1>0, <1>1, RequestFields
<1>3. done = 0
  BY <1>0 DEF TextOK
<1>4. FacesBlock' <=> FacesBlock
  BY <1>0 DEF FacesBlock, FaceCount
<1>5. StageOK'
  BY <1>0, <1>1, <1>2, <1>3, <1>4 DEF StageOK, planVars, textVars
<1>6. PlansOK' /\ TextOK'
  BY <1>0, PlansFrame, TextFrame DEF planVars
<1>7. CacheOK'
  BY <1>0 DEF CacheOK
<1>8. ASSUME at' = "visual" PROVE Draft(result')
  <2>0. request.textPii \in BOOLEAN
    BY <1>0, RequestFields
  <2>1. CASE FacesBlock /\ result' = BlockResult
    <3>1. BlockDemanded
      BY <2>1 DEF BlockDemanded, FacesBlock
    <3> QED
      BY <1>0, <2>1, <3>1, UnscannedResults, UnscannedDraft
  <2>2. CASE /\ ~FacesBlock /\ request.faces # None /\ ~request.textPii
             /\ result' = NewResult("pass")
    <3>1. ~BlockDemanded
      BY <1>0, <2>2 DEF BlockDemanded, FacesBlock
    <3> QED
      BY <1>0, <2>2, <3>1, NoConflictYet, UnscannedResults, UnscannedDraft
  <2> QED
    BY <1>1, <1>8, <2>1, <2>2
<1>9. ResultOK'
  BY <1>0, <1>8, DraftFrame DEF ResultOK, planVars
<1> QED
  BY <1>5, <1>6, <1>7, <1>9 DEF Inductive

LEMMA PrepareLeafKeeps ==
    ASSUME Inductive, PrepareLeaf
    PROVE  Inductive'
<1>0. /\ at = "prepare" /\ request # None /\ done = 0
      /\ UNCHANGED <<policy, store, at, request, cached, textVars, result>>
      /\ StageOK /\ PlansOK /\ TextOK /\ CacheOK
  BY DEF Inductive, PrepareLeaf, StageOK
<1>1. FacesBlock' <=> FacesBlock
  BY <1>0 DEF FacesBlock, FaceCount
<1>2. StageOK'
  BY <1>0, <1>1 DEF StageOK, textVars
<1>3. PlansOK'
  BY <1>0, PrepareLeafPlans
<1>4. TextOK'
  <2>1. done' = 0 /\ rewritten' = {} /\ Len(prepared') \in Nat /\ 1..0 = {}
    BY <1>0, <1>3 DEF TextOK, PlansOK, textVars
  <2>2. transformed' = [e \in Reported |-> Cardinality(Hits(e, done)')]
    <3>1. \A e : Hits(e, 0) = {} /\ Hits(e, done)' = {}
      BY <2>1 DEF Hits, Places
    <3>2. transformed' = [e \in Reported |-> Cardinality(Hits(e, 0))]
      BY <1>0 DEF TextOK, textVars
    <3>3. transformed' = [e \in Reported |-> Cardinality({})]
      BY <3>1, <3>2
    <3> QED
      BY <3>1, <3>3
  <2> QED
    BY <2>1, <2>2 DEF TextOK
<1>5. CacheOK'
  BY <1>0 DEF CacheOK
<1>6. ResultOK'
  BY <1>0 DEF ResultOK
<1> QED
  BY <1>2, <1>3, <1>4, <1>5, <1>6 DEF Inductive

LEMMA ResolveBlockKeeps ==
    ASSUME Inductive, ResolveBlock
    PROVE  Inductive'
<1> DEFINE blocks == (\E i \in 1..Len(prepared) : Blocked(prepared[i])) \/ FaceRouteConflicts
<1>0. /\ at = "prepare" /\ request # None /\ done = 0 /\ Planned
      /\ UNCHANGED <<policy, store, request, cached, planVars, textVars>>
      /\ at' = IF blocks THEN "visual" ELSE "transform"
      /\ blocks => result' = Scanned(BlockResult)
      /\ StageOK /\ PlansOK /\ TextOK /\ CacheOK
  BY DEF Inductive, ResolveBlock, StageOK, Planned
<1>1. ~blocks => (\A i \in 1..Len(prepared) : ~Blocked(prepared[i])) /\ ~RoutesConflict
  BY <1>0, ConflictsFound
<1>2. (FacesBlock' <=> FacesBlock) /\ (RoutesConflict' <=> RoutesConflict)
  <2>1. RoutesConflict' <=> RoutesConflict
    BY <1>0, DemandFrame DEF planVars
  <2> QED
    BY <1>0, <2>1 DEF FacesBlock, FaceCount
<1>3. \A p : Blocked(p)' <=> Blocked(p)
  BY <1>0 DEF Blocked, EffectiveAction
<1> HIDE DEF blocks
<1>4. StageOK'
  BY <1>0, <1>1, <1>2, <1>3 DEF StageOK, planVars, textVars, Planned
<1>5. PlansOK' /\ TextOK'
  BY <1>0, PlansFrame, TextFrame DEF planVars
<1>6. CacheOK'
  BY <1>0 DEF CacheOK
<1>7. blocks => Draft(result')
  BY <1>0, BlockDraft DEF blocks
<1>8. ResultOK'
  BY <1>0, <1>7, DraftFrame DEF ResultOK, planVars
<1> QED
  BY <1>4, <1>5, <1>6, <1>8 DEF Inductive

LEMMA TransformLeafKeeps ==
    ASSUME Inductive, TransformLeaf
    PROVE  Inductive'
<1>0. /\ at = "transform" /\ request # None
      /\ UNCHANGED <<policy, store, at, request, cached, planVars, result>>
      /\ StageOK /\ PlansOK /\ TextOK /\ CacheOK
  BY DEF Inductive, TransformLeaf, StageOK
<1>1. (FacesBlock' <=> FacesBlock) /\ (RoutesConflict' <=> RoutesConflict)
  <2>1. RoutesConflict' <=> RoutesConflict
    BY <1>0, DemandFrame DEF planVars
  <2> QED
    BY <1>0, <2>1 DEF FacesBlock, FaceCount
<1>2. \A p : Blocked(p)' <=> Blocked(p)
  BY <1>0 DEF Blocked, EffectiveAction
<1>3. StageOK'
  BY <1>0, <1>1, <1>2 DEF StageOK, planVars
<1>4. PlansOK' /\ TextOK'
  BY <1>0, PlansFrame, TransformLeafText
<1>5. CacheOK'
  BY <1>0 DEF CacheOK
<1>6. ResultOK'
  BY <1>0 DEF ResultOK
<1> QED
  BY <1>3, <1>4, <1>5, <1>6 DEF Inductive

LEMMA ConcludeKeeps ==
    ASSUME Inductive, Conclude
    PROVE  Inductive'
<1>0. /\ at = "transform" /\ request # None
      /\ UNCHANGED <<policy, store, request, cached, planVars, textVars>>
      /\ at' \in {"failed", "visual"}
      /\ StageOK /\ PlansOK /\ TextOK /\ CacheOK
  BY DEF Inductive, Conclude, StageOK
<1>1. StageOK'
  BY <1>0 DEF StageOK
<1>2. PlansOK' /\ TextOK'
  BY <1>0, PlansFrame, TextFrame DEF planVars
<1>3. CacheOK'
  BY <1>0 DEF CacheOK
<1>4. at' = "visual" => Draft(result')
  BY <1>0, ConcludeDraft
<1>5. ResultOK'
  BY <1>0, <1>4, DraftFrame DEF ResultOK, planVars
<1> QED
  BY <1>1, <1>2, <1>3, <1>5 DEF Inductive

LEMMA ApplyVisualResultKeeps ==
    ASSUME Inductive, ApplyVisualResult
    PROVE  Inductive'
<1>0. /\ at = "visual" /\ at' = "merge" /\ request # None
      /\ UNCHANGED <<policy, store, request, cached, planVars, textVars>>
      /\ StageOK /\ PlansOK /\ TextOK /\ CacheOK /\ Draft(result)
  BY DEF Inductive, ApplyVisualResult, StageOK, ResultOK
<1>1. StageOK'
  BY <1>0 DEF StageOK
<1>2. PlansOK' /\ TextOK'
  BY <1>0, PlansFrame, TextFrame DEF planVars
<1>3. CacheOK'
  BY <1>0 DEF CacheOK
<1>4. Sound(result')
  <2>1. CASE FaceCount > 0
    BY <1>0, <2>1, WithFacesSound DEF ApplyVisualResult
  <2>2. CASE ~(FaceCount > 0)
    <3>1. FaceCount = 0
      BY <1>0, <2>2, FaceFields
    <3> QED
      BY <1>0, <2>2, <3>1, WithoutFacesSound DEF ApplyVisualResult
  <2> QED
    BY <2>1, <2>2
<1>5. ResultOK'
  BY <1>0, <1>4, SoundFrame DEF ResultOK, planVars
<1> QED
  BY <1>1, <1>2, <1>3, <1>5 DEF Inductive

\* What is merged is sound enough to be answered and, where the session is
\* tainted, to be stored: neither validator refuses it.
LEMMA TaintSessionSettles ==
    ASSUME StageOK, CacheOK, Sound(result), at = "merge", request # None
    PROVE  LET r == ApplyCachedDecision(result)
               taints == request.scope = "session" /\ r.decision \in {"block", "reroute"}
           IN  /\ Settled(r)
               /\ r.source = "current_request"
               /\ taints => SessionDecisionValid(Tainting(r)) /\ Tainting(r) \in SessionDecision
<1>1. CASE cached = None \/ result.decision = "block"
  <2>1. ApplyCachedDecision(result) = result
    BY <1>1 DEF ApplyCachedDecision
  <2>2. Settled(result) /\ result.source = "current_request"
    BY <1>1, SoundSettles DEF Sound, Current
  <2> QED
    BY <2>1, <2>2, SoundStores
<1>2. CASE cached # None /\ result.decision # "block"
  <2>1. /\ request.scope = "session" /\ cached \in SessionDecision
        /\ SessionDecisionValid(cached) /\ cached.kind = request.kind
        /\ cached.decision = "reroute"
    BY <1>2 DEF CacheOK
  <2> QED
    BY <1>2, <2>1, MergeSettles
<1> QED
  BY <1>1, <1>2

LEMMA TaintSessionKeeps ==
    ASSUME Inductive, TaintSession
    PROVE  Inductive'
<1> DEFINE r == ApplyCachedDecision(result)
           taints == request.scope = "session" /\ r.decision \in {"block", "reroute"}
<1>0. /\ at = "merge" /\ request # None /\ result' = r
      /\ UNCHANGED <<policy, request, cached, planVars, textVars>>
      /\ StageOK /\ PlansOK /\ TextOK /\ CacheOK /\ Sound(result)
  BY DEF Inductive, TaintSession, StageOK, ResultOK
<1>1. /\ Settled(r) /\ r.source = "current_request"
      /\ taints => SessionDecisionValid(Tainting(r)) /\ Tainting(r) \in SessionDecision
  BY <1>0, TaintSessionSettles
<1>2. at' = "respond" /\ store' = IF taints THEN Tainting(r) ELSE store
  BY <1>1 DEF TaintSession, Settled
<1> HIDE DEF r, taints
<1>3. StageOK'
  BY <1>0, <1>2 DEF StageOK
<1>4. PlansOK' /\ TextOK'
  BY <1>0, PlansFrame, TextFrame DEF planVars
<1>5. CacheOK'
  BY <1>0, <1>1, <1>2 DEF CacheOK, SessionDecisionValid, CountsAgree, RowsValid, RowsWithin,
     RowActions, SomeTransformed
<1>6. Settled(result)'
  BY <1>0, <1>1, SettledFrame DEF planVars
<1>7. ResultOK'
  BY <1>2, <1>6 DEF ResultOK
<1> QED
  BY <1>3, <1>4, <1>5, <1>7 DEF Inductive

LEMMA RespondKeeps ==
    ASSUME Inductive, Respond
    PROVE  Inductive'
<1>0. /\ at = "respond" /\ request # None
      /\ UNCHANGED <<policy, store, request, cached, planVars, textVars, result>>
      /\ StageOK /\ PlansOK /\ TextOK /\ CacheOK /\ Settled(result)
  BY DEF Inductive, Respond, StageOK, ResultOK
<1>1. at' = "answered"
  BY <1>0 DEF Respond, Settled
<1>2. StageOK'
  BY <1>0, <1>1 DEF StageOK
<1>3. PlansOK' /\ TextOK'
  BY <1>0, PlansFrame, TextFrame DEF planVars
<1>4. CacheOK'
  BY <1>0, <1>1 DEF CacheOK
<1>5. Settled(result)'
  BY <1>0, SettledFrame DEF planVars
<1>6. ResultOK'
  BY <1>1, <1>5 DEF ResultOK
<1> QED
  BY <1>2, <1>3, <1>4, <1>6 DEF Inductive

LEMMA IdleAgain ==
    ASSUME Inductive, Finish \/ Expire
    PROVE  Inductive'
<1>1. CASE Finish
  <2>1. Idle'
    BY <1>1 DEF Inductive, StageOK, CacheOK, Finish, Idle
  <2> QED
    BY <2>1, IdleInductive, PTL
<1>2. CASE Expire
  <2>1. /\ at = "idle" /\ store' = None
        /\ UNCHANGED <<policy, at, request, cached, planVars, textVars, result>>
        /\ StageOK /\ PlansOK /\ TextOK /\ CacheOK
    BY <1>2 DEF Inductive, Expire
  <2>2. StageOK' /\ CacheOK' /\ ResultOK'
    BY <2>1 DEF StageOK, CacheOK, ResultOK, planVars
  <2>3. PlansOK' /\ TextOK'
    BY <2>1, PlansFrame, TextFrame DEF planVars
  <2> QED
    BY <2>2, <2>3 DEF Inductive
<1> QED
  BY <1>1, <1>2

LEMMA StepInductive == Inductive /\ [Next]_vars => Inductive'
<1> SUFFICES ASSUME Inductive, [Next]_vars PROVE Inductive'
  OBVIOUS
<1>1. CASE UNCHANGED vars
  <2>1. /\ UNCHANGED <<policy, store, at, request, cached, planVars, textVars, result>>
        /\ StageOK /\ PlansOK /\ TextOK /\ CacheOK /\ ResultOK
    BY <1>1 DEF Inductive, vars
  <2>2. PlansOK' /\ TextOK'
    BY <2>1, PlansFrame, TextFrame DEF planVars
  <2>3. (FacesBlock' <=> FacesBlock) /\ (RoutesConflict' <=> RoutesConflict)
    <3>1. RoutesConflict' <=> RoutesConflict
      BY <2>1, DemandFrame DEF planVars
    <3> QED
      BY <2>1, <3>1 DEF FacesBlock, FaceCount
  <2>4. \A p : Blocked(p)' <=> Blocked(p)
    BY <2>1 DEF Blocked, EffectiveAction
  <2>5. StageOK'
    BY <2>1, <2>3, <2>4 DEF StageOK, planVars, textVars
  <2>6. CacheOK'
    BY <2>1 DEF CacheOK
  <2>7. ResultOK'
    BY <2>1, DraftFrame, SoundFrame, SettledFrame DEF ResultOK, planVars
  <2> QED
    BY <2>2, <2>5, <2>6, <2>7 DEF Inductive
<1>2. CASE \E r \in Requests : Receive(r)
  BY <1>2, ReceiveKeeps
<1>3. CASE CachedDecision
  BY <1>3, CachedDecisionKeeps
<1>4. CASE Preflight
  BY <1>4, PreflightKeeps
<1>5. CASE FaceFindingsChecked
  BY <1>5, FaceFindingsCheckedKeeps
<1>6. CASE PrepareLeaf
  BY <1>6, PrepareLeafKeeps
<1>7. CASE ResolveBlock
  BY <1>7, ResolveBlockKeeps
<1>8. CASE TransformLeaf
  BY <1>8, TransformLeafKeeps
<1>9. CASE Conclude
  BY <1>9, ConcludeKeeps
<1>10. CASE ApplyVisualResult
  BY <1>10, ApplyVisualResultKeeps
<1>11. CASE TaintSession
  BY <1>11, TaintSessionKeeps
<1>12. CASE Respond
  BY <1>12, RespondKeeps
<1>13. CASE Finish \/ Expire
  BY <1>13, IdleAgain
<1> QED
  BY <1>1, <1>2, <1>3, <1>4, <1>5, <1>6, <1>7, <1>8, <1>9, <1>10, <1>11, <1>12, <1>13 DEF Next

LEMMA InductiveHolds == Spec => []Inductive
  BY InitInductive, StepInductive, PTL DEF Spec

-----------------------------------------------------------------------------
(* The theorems *)

\* The state of PolicyService keeps its shape on every path of
\* analyze_segments, for all policies and requests: the plans cover leaves of
\* the request, and the stored decision, and the one a request has read,
\* always pass SessionDecision's validators.
THEOREM TypeCorrect == Spec => []TypeOK
<1>1. Inductive => TypeOK
  <2> SUFFICES ASSUME Inductive PROVE TypeOK
    OBVIOUS
  <2>0. StageOK /\ PlansOK /\ TextOK /\ CacheOK
    BY DEF Inductive
  <2>1. \A i \in 1..Len(prepared) : prepared[i] \in [request.leaves[i] -> Entities]
    BY <2>0, PlanFields
  <2>2. counts \in [Reported -> Nat] /\ transformed \in [Reported -> Nat]
    <3>1. \A e \in Reported : counts[e] \in Nat /\ transformed[e] \in Nat
      BY <2>0, CountFields
    <3>2. /\ counts = [e \in Reported |-> counts[e]]
          /\ transformed = [e \in Reported |-> transformed[e]]
      BY <2>0 DEF PlansOK, TextOK
    <3> QED
      BY <3>1, <3>2
  <2>3. reroutes \subseteq Entities
    BY <2>0 DEF PlansOK
  <2>4. detected \in Routes \union {None}
    BY <2>0, <2>3, ActionFields DEF PlansOK
  <2>5. done \in 0..Len(prepared) /\ rewritten \subseteq 1..done
    BY <2>0 DEF TextOK
  <2> QED
    BY <2>0, <2>1, <2>2, <2>3, <2>4, <2>5 DEF TypeOK, StageOK, CacheOK
<1> QED
  BY <1>1, InductiveHolds, PTL

\* _taint_session never builds a SessionDecision, and analyze_adapter_segments
\* never a response, that their own validators refuse, the upper limits of types
\* and counts included: no policy, request or stored decision makes the engine answer an internal error for a result it
\* computed itself.
THEOREM NeverSelfRejects == Spec => []NoSelfRejection
<1>1. Inductive => NoSelfRejection
  BY DEF Inductive, StageOK, NoSelfRejection
<1> QED
  BY <1>1, InductiveHolds, PTL

\* The decision of analyze_segments is the strictest that any leaf, face or
\* stored decision asks for, however many leaves and entity types there are
\* and however their detections overlap.
THEOREM StrictestAlwaysDecides == Spec => []StrictestDecides
<1>1. Inductive => StrictestDecides
  <2> SUFFICES ASSUME Inductive, Fresh
               PROVE  /\ result.decision = "block" <=> BlockDemanded \/ RoutesConflict
                      /\ result.decision # "block" =>
                           result.decision = IF RerouteDemanded \/ cached # None THEN "reroute"
                                             ELSE IF ChangeDemanded THEN "apply_actions" ELSE "pass"
    BY DEF StrictestDecides, RoutesConflict
  <2>1. Settled(result) /\ result.source = "current_request"
    BY DEF Inductive, ResultOK, Fresh
  <2> QED
    BY <2>1 DEF Settled
<1> QED
  BY <1>1, InductiveHolds, PTL

\* _transform_plans leaves no leaf unmasked in text that may leave for a remote
\* model, or that is rerouted under a policy that masks rerouted text.
THEOREM LeavesAlwaysMasked == Spec => []NoLeafForwardedRaw
<1>1. Inductive => NoLeafForwardedRaw
  <2>1. Inductive /\ Fresh => Masked(result)
    BY DEF Inductive, ResultOK, Fresh, Settled
  <2> QED
    BY <2>1 DEF NoLeafForwardedRaw, Masked
<1> QED
  BY <1>1, InductiveHolds, PTL

\* _resolve_route_class, the face route and the stored decision send a rerouted
\* request where the policy says, whichever leaf or detection came first.
THEOREM RouteAlwaysHonoured == Spec => []RouteHonoured
<1>1. Inductive => RouteHonoured
  <2> SUFFICES ASSUME Inductive, at = "answered", result.decision = "reroute"
               PROVE  RouteHonoured
    BY DEF RouteHonoured
  <2>1. Settled(result)
    BY DEF Inductive, ResultOK
  <2> QED
    BY <2>1 DEF RouteHonoured, Settled, Routed, PolicyResult
<1> QED
  BY <1>1, InductiveHolds, PTL

\* While a session stays rerouted, no request weakens what _taint_session has
\* stored: route, report and overlaps stay, entity types and counts only grow.
THEOREM EvidenceAlwaysKept == Spec => EvidenceKept
<1> DEFINE Kept == store # None /\ store' # None /\ store.decision = "reroute"
                     /\ store'.decision = "reroute" =>
                       /\ store'.route = store.route
                       /\ store'.rows = store.rows
                       /\ store'.overlaps = store.overlaps
                       /\ store.entities \subseteq store'.entities
                       /\ \A e \in Reported : store.counts[e] <= store'.counts[e]
<1>1. Inductive /\ [Next]_vars => [Kept]_vars
  <2> SUFFICES ASSUME Inductive, Next, store # None, store' # None, store.decision = "reroute",
                      store'.decision = "reroute"
               PROVE  Kept
    OBVIOUS
  <2>0. store \in SessionDecision /\ \A e \in Reported : store.counts[e] \in Nat
    BY DEF Inductive, CacheOK, SessionDecision
  <2>1. CASE store' = store
    BY <2>0, <2>1
  <2>2. CASE store' # store
    <3>1. TaintSession
      BY <2>2 DEF Next, Receive, CachedDecision, Preflight, FaceFindingsChecked, PrepareLeaf,
         ResolveBlock, TransformLeaf, Conclude, ApplyVisualResult, Respond, Finish, Expire
    <3> DEFINE r == ApplyCachedDecision(result)
    <3>2. request.scope = "session" /\ store' = Tainting(r)
      BY <2>2, <3>1 DEF TaintSession
    <3>3. /\ cached = store /\ Sound(result) /\ StageOK /\ request # None
      BY <3>1, <3>2 DEF Inductive, CacheOK, StageOK, ResultOK, TaintSession
    <3>4. result.decision # "block"
      BY <3>2 DEF Tainting, ApplyCachedDecision
    <3>5. /\ r.route = cached.route /\ r.entities = result.entities \union cached.entities
          /\ r.cachedApplied
          /\ \A e \in Reported : r.counts[e] = IF cached.counts[e] > result.counts[e]
                                                 THEN cached.counts[e] ELSE result.counts[e]
      BY <2>0, <3>3, <3>4, MergeFields
    <3>6. /\ store'.route = r.route /\ store'.rows = cached.rows
          /\ store'.overlaps = cached.overlaps /\ store'.entities = r.entities
          /\ store'.counts = r.counts
      BY <3>2, <3>5 DEF Tainting
    <3>7. \A e \in Reported : result.counts[e] \in Nat
      BY <3>3 DEF Sound, Current, PolicyResult
    <3> HIDE DEF r
    <3> QED
      BY <2>0, <3>3, <3>5, <3>6, <3>7
  <2> QED
    BY <2>1, <2>2
<1> QED
  BY <1>1, InductiveHolds, PTL DEF Spec, EvidenceKept

=============================================================================
