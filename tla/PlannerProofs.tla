--------------------------- MODULE PlannerProofs ---------------------------
(* Proofs about Planner, for any text, any policy and any detections. *)
EXTENDS Planner, FiniteSetTheorems, SequenceTheorems, TLAPS

\* A step that opens or extends the group with m, the foremost of what the
\* sweep compares with it: the group still spans its members without a gap.
LEMMA GroupGrows ==
    ASSUME TypeOK, GroupOK, phase \in {"coalesce", "resolve"},
           NEW m \in todo, m.start \in Int, m.end \in Int,
           Detected(m.start, m.end), group # {} => ~Separate(m) /\ from <= m.start,
           Extended(m), UNCHANGED matches
    PROVE  /\ from' \in Int /\ upTo' \in Int
           /\ from' <= m.start /\ m.end <= upTo'
           /\ group # {} => from' = from /\ upTo <= upTo'
           /\ group = {} => from' = m.start
           /\ Detected(from, upTo)'
<1>0. from \in Int /\ upTo \in Int
    BY DEF TypeOK
<1>1. CASE group = {}
  <2>1. from' = m.start /\ upTo' = m.end
      BY <1>1 DEF Extended
  <2> QED
      BY <1>0, <1>1, <2>1 DEF Detected
<1>2. CASE group # {}
  <2>1. from' = from /\ m.start < upTo /\ from <= m.start
      BY <1>0, <1>2 DEF Extended, Separate
  <2>2. upTo' \in Int /\ upTo <= upTo' /\ m.end <= upTo' /\ upTo' \in {upTo, m.end}
      BY <1>0, <1>2 DEF Extended
  <2>3. Detected(from, upTo)
      BY <1>2 DEF GroupOK
  <2>4. ASSUME NEW p \in 0..(TextLength - 1), from <= p, p < upTo'
        PROVE  \E n \in matches : n.start <= p /\ p < n.end
    <3>0. p \in Int
        BY <2>4, PlannerAssumption
    <3>1. CASE p < upTo
        BY <2>3, <2>4, <3>1 DEF Detected
    <3>2. CASE ~(p < upTo)
      <4>1. p < m.end /\ m.start <= p
          BY <1>0, <2>1, <2>2, <2>4, <3>0, <3>2
      <4> QED
          BY <2>4, <4>1 DEF Detected
    <3> QED
        BY <3>1, <3>2
  <2>5. Detected(from, upTo)'
      BY <2>1, <2>4 DEF Detected
  <2> QED
      BY <1>0, <1>2, <2>1, <2>2, <2>5
<1> QED
    BY <1>1, <1>2

LEMMA InitEstablishes == Init => Inductive
<1> SUFFICES ASSUME Init PROVE Inductive
    OBVIOUS
<1>1. TypeOK
    BY PlannerAssumption DEF Init, TypeOK, Phases
<1>2. GroupOK /\ CoalesceOK /\ ResolveOK /\ VerdictOK
    BY DEF Init, GroupOK, CoalesceOK, ResolveOK, VerdictOK, RegionsDisjoint, Resolved
<1> QED
    BY <1>1, <1>2 DEF Inductive

\* Strictness is a number up to 9, and 9 is block alone.
LEMMA StrictNumber ==
    ASSUME TypeOK, NEW e \in Entities
    PROVE  /\ Strict(e) \in Int
           /\ Strict(e) <= 9
           /\ Strict(e) >= 9 <=> EffectiveAction(e) = "block"
<1>1. DOMAIN Strictness = {"pass", "mask", "hash", "encrypt", "reversible_replace", "replace",
                           "redact", "reroute", "block"}
    BY DEF Strictness
<1>2. policy[e] \in DOMAIN Strictness
    BY PlannerAssumption DEF TypeOK
<1>3. EffectiveAction(e) \in DOMAIN Strictness
    BY <1>1, <1>2 DEF EffectiveAction
<1> QED
    BY <1>1, <1>3 DEF Strict, Strictness

LEMMA ValidatePreserves == Inductive /\ ValidateSpans => Inductive'
<1> SUFFICES ASSUME Inductive, ValidateSpans PROVE Inductive'
    OBVIOUS
<1> USE DEF Inductive, ValidateSpans, inputVars
<1>1. TypeOK'
    BY DEF TypeOK, Phases
<1>2. GroupOK' /\ CoalesceOK' /\ ResolveOK' /\ VerdictOK'
    BY DEF TypeOK, GroupOK, CoalesceOK, ResolveOK, VerdictOK, RegionsDisjoint, Resolved
<1> QED
    BY <1>1, <1>2

LEMMA CoalesceNextPreserves ==
    ASSUME Inductive, NEW m \in todo, CoalesceNext(m)
    PROVE  Inductive'
<1>0. /\ TypeOK /\ GroupOK /\ CoalesceOK /\ ResolveOK /\ VerdictOK
      /\ phase = "coalesce" /\ phase' = phase /\ m \in matches
      /\ m \in [entity : Entities, start : Int, end : Int]
      /\ matches' = matches /\ group' = group \union {m} /\ todo' = todo \ {m}
    BY DEF Inductive, CoalesceNext, inputVars, TypeOK, Match, Extended
<1>1. Detected(m.start, m.end)
    BY <1>0 DEF Detected
<1>2. group # {} => ~Separate(m) /\ from <= m.start
    BY <1>0 DEF CoalesceNext, GroupOK, Ahead
<1>3. /\ from' \in Int /\ upTo' \in Int
      /\ from' <= m.start /\ m.end <= upTo'
      /\ group # {} => from' = from /\ upTo <= upTo'
      /\ group = {} => from' = m.start
      /\ Detected(from, upTo)'
  <2>1. Extended(m) /\ UNCHANGED matches /\ m.start \in Int /\ m.end \in Int
      BY <1>0 DEF CoalesceNext
  <2> QED
      BY <1>0, <1>1, <1>2, <2>1, GroupGrows
<1>4. TypeOK'
    BY <1>0, <1>3 DEF TypeOK, CoalesceNext, inputVars
<1>5. GroupOK'
  <2>1. ASSUME NEW g \in group' PROVE from' <= g.start /\ g.end <= upTo'
    <3>1. CASE g = m
        BY <1>3, <3>1
    <3>2. CASE g \in group
      <4>1. from <= g.start /\ g.end <= upTo /\ g.end \in Int /\ upTo \in Int
          BY <1>0, <3>2 DEF GroupOK, TypeOK, Match
      <4> QED
          BY <1>3, <3>2, <4>1
    <3> QED
        BY <1>0, <2>1, <3>1, <3>2
  <2>2. ASSUME NEW t \in Ahead' PROVE from' <= t.start
    <3>1. t \in todo /\ t.start \in Int /\ t.end \in Int /\ t.entity = m.entity
        BY <1>0, <2>2 DEF Ahead, CoalesceNext, TypeOK, Match
    <3>2. CASE group = {}
        BY <1>0, <1>3, <3>1, <3>2 DEF CoalesceNext, Before
    <3>3. CASE group # {}
      <4>1. t \in Ahead
          BY <1>0, <3>1, <3>3 DEF Ahead, CoalesceNext
      <4> QED
          BY <1>0, <1>3, <3>3, <4>1 DEF GroupOK
    <3> QED
        BY <3>2, <3>3
  <2>3. \A g, h \in group' : g.entity = h.entity
      BY <1>0 DEF CoalesceNext
  <2> QED
      BY <1>3, <2>1, <2>2, <2>3 DEF GroupOK
<1>6. CoalesceOK'
    BY <1>0 DEF CoalesceOK, CoalesceNext, Resolved, Backed, Detected
<1>7. ResolveOK' /\ VerdictOK'
    BY <1>0 DEF ResolveOK, VerdictOK, CoalesceNext, Resolved, TypeOK, RegionsDisjoint
<1> QED
    BY <1>4, <1>5, <1>6, <1>7 DEF Inductive

LEMMA CloseLogicalPreserves == Inductive /\ CloseLogical => Inductive'
<1> SUFFICES ASSUME Inductive, CloseLogical PROVE Inductive'
    OBVIOUS
<1>0. /\ TypeOK /\ GroupOK /\ CoalesceOK /\ ResolveOK /\ VerdictOK
      /\ phase = "coalesce" /\ phase' = phase
      /\ matches' = matches /\ group' = {} /\ todo' = todo
    BY DEF Inductive, CloseLogical, inputVars
<1>1. PICK owner \in group :
          logical' = logical \union {[entity |-> owner.entity, start |-> from, end |-> upTo,
                                      width |-> owner.end - owner.start]}
    BY DEF CloseLogical
<1> DEFINE new == [entity |-> owner.entity, start |-> from, end |-> upTo,
                   width |-> owner.end - owner.start]
<1>2. owner \in matches /\ owner \in [entity : Entities, start : Int, end : Int]
    BY <1>0 DEF TypeOK, Match
<1>3. new \in Logical /\ new.entity = owner.entity /\ new.start = from /\ new.end = upTo
    BY <1>0, <1>2 DEF TypeOK, Logical
<1>4. logical' = logical \union {new}
    BY <1>1
<1> HIDE DEF new
<1>5. TypeOK'
    BY <1>0, <1>3, <1>4 DEF TypeOK, CloseLogical, inputVars
<1>6. Backed(new)
    BY <1>0, <1>2, <1>3 DEF Backed, GroupOK
<1>7. \A m \in group : new.entity = m.entity /\ Inside(m, new)
    BY <1>0, <1>3 DEF GroupOK, Inside
<1>8. CoalesceOK'
    BY <1>0, <1>4, <1>6, <1>7 DEF CoalesceOK, Resolved, Backed, Detected
<1>9. GroupOK' /\ ResolveOK' /\ VerdictOK'
    BY <1>0 DEF GroupOK, ResolveOK, VerdictOK, CloseLogical, Resolved, TypeOK, RegionsDisjoint
<1> QED
    BY <1>5, <1>8, <1>9 DEF Inductive

LEMMA EndCoalescePreserves == Inductive /\ EndCoalesce => Inductive'
<1> SUFFICES ASSUME Inductive, EndCoalesce PROVE Inductive'
    OBVIOUS
<1> USE DEF Inductive, EndCoalesce, inputVars
<1>1. TypeOK'
    BY DEF TypeOK, Phases
<1>2. CoalesceOK'
    BY DEF CoalesceOK, Backed, Detected, Resolved
<1>3. GroupOK' /\ ResolveOK' /\ VerdictOK'
    BY DEF GroupOK, ResolveOK, VerdictOK, TypeOK, RegionsDisjoint, Resolved
<1> QED
    BY <1>1, <1>2, <1>3

LEMMA ResolveNextPreserves ==
    ASSUME Inductive, NEW m \in todo, ResolveNext(m)
    PROVE  Inductive'
<1>0. /\ TypeOK /\ GroupOK /\ CoalesceOK /\ ResolveOK /\ VerdictOK
      /\ phase = "resolve" /\ phase' = phase /\ m \in logical
      /\ m.start \in Int /\ m.end \in Int
      /\ matches' = matches /\ group' = group \union {m} /\ todo' = todo \ {m}
      /\ logical' = logical /\ effective' = effective
      /\ policy' = policy /\ rerouteAsBlock' = rerouteAsBlock
    BY DEF Inductive, ResolveNext, inputVars, TypeOK, Logical, Extended
<1>1. Detected(m.start, m.end)
    BY <1>0 DEF CoalesceOK, Backed
<1>2. group # {} => ~Separate(m) /\ from <= m.start
    BY <1>0 DEF ResolveNext, GroupOK, Ahead
<1>3. /\ from' \in Int /\ upTo' \in Int
      /\ from' <= m.start /\ m.end <= upTo'
      /\ group # {} => from' = from /\ upTo <= upTo'
      /\ group = {} => from' = m.start
      /\ Detected(from, upTo)'
  <2>1. Extended(m) /\ UNCHANGED matches
      BY <1>0 DEF ResolveNext
  <2> QED
      BY <1>0, <1>1, <1>2, <2>1, GroupGrows
<1>4. TypeOK'
    BY <1>0, <1>3 DEF TypeOK, ResolveNext
<1>5. GroupOK'
  <2>1. ASSUME NEW g \in group' PROVE from' <= g.start /\ g.end <= upTo'
    <3>1. CASE g = m
        BY <1>3, <3>1
    <3>2. CASE g \in group
      <4>1. from <= g.start /\ g.end <= upTo /\ g.end \in Int /\ upTo \in Int
          BY <1>0, <3>2 DEF GroupOK, TypeOK, Logical
      <4> QED
          BY <1>3, <3>2, <4>1
    <3> QED
        BY <1>0, <2>1, <3>1, <3>2
  <2>2. ASSUME NEW t \in Ahead' PROVE from' <= t.start
    <3>1. t \in todo /\ t.start \in Int /\ t.end \in Int
        BY <1>0, <2>2 DEF Ahead, TypeOK, Logical
    <3>2. CASE group = {}
        BY <1>0, <1>3, <3>1, <3>2 DEF ResolveNext, Before
    <3>3. CASE group # {}
        BY <1>0, <1>3, <3>1, <3>3 DEF GroupOK, Ahead
    <3> QED
        BY <3>2, <3>3
  <2> QED
      BY <1>0, <1>3, <2>1, <2>2 DEF GroupOK
<1>6. CoalesceOK'
    BY <1>0 DEF CoalesceOK, Resolved, Backed, Detected
<1>7. ResolveOK'
  <2>1. \A l \in logical' \ (todo' \union group') : Covered(l)'
    <3>1. ASSUME NEW l \in logical' \ (todo' \union group') PROVE Covered(l)'
      <4>1. Covered(l)
          BY <1>0 DEF ResolveOK
      <4> QED
          BY <1>0, <4>1 DEF Covered, Strict, EffectiveAction
    <3> QED
        BY <3>1
  <2>2. \A r \in effective : r.end <= from'
      BY <1>0, <1>3 DEF ResolveOK
  <2>3. RegionsDisjoint' /\ \A r \in effective' : Backed(r)'
      BY <1>0 DEF ResolveOK, RegionsDisjoint, Backed, Detected
  <2> QED
      BY <1>0, <2>1, <2>2, <2>3 DEF ResolveOK, Resolved
<1>8. VerdictOK'
    BY <1>0 DEF VerdictOK, ResolveNext
<1> QED
    BY <1>4, <1>5, <1>6, <1>7, <1>8 DEF Inductive

LEMMA CloseRegionPreserves == Inductive /\ CloseRegion => Inductive'
<1> SUFFICES ASSUME Inductive, CloseRegion PROVE Inductive'
    OBVIOUS
<1>0. /\ TypeOK /\ GroupOK /\ CoalesceOK /\ ResolveOK /\ VerdictOK
      /\ phase = "resolve" /\ phase' = phase
      /\ matches' = matches /\ group' = {} /\ todo' = todo /\ logical' = logical
      /\ policy' = policy /\ rerouteAsBlock' = rerouteAsBlock /\ text' = text
      /\ from \in Int /\ upTo \in Int
    BY DEF Inductive, CloseRegion, inputVars, TypeOK
<1>1. PICK winner \in group :
          /\ \A n \in group : Wins(winner, n)
          /\ effective' = effective \union {[entity |-> winner.entity, start |-> from,
                                             end |-> upTo]}
    BY DEF CloseRegion
<1> DEFINE new == [entity |-> winner.entity, start |-> from, end |-> upTo]
<1>2. winner \in logical /\ winner.entity \in Entities
    BY <1>0 DEF TypeOK, Logical
<1>3. new \in Match /\ new.entity = winner.entity /\ new.start = from /\ new.end = upTo
    BY <1>0, <1>2 DEF Match
<1>4. effective' = effective \union {new}
    BY <1>1
<1> HIDE DEF new
<1>5. TypeOK'
    BY <1>0, <1>3, <1>4 DEF TypeOK, CloseRegion
<1>6. Backed(new)
    BY <1>0, <1>2, <1>3 DEF Backed, GroupOK, CoalesceOK
<1>7. ASSUME NEW g \in group PROVE Inside(g, new) /\ Strict(new.entity) >= Strict(g.entity)
  <2>1. Inside(g, new)
      BY <1>0, <1>3 DEF GroupOK, Inside
  <2>2. g.entity \in Entities
      BY <1>0 DEF TypeOK, Logical
  <2>3. Strict(g.entity) \in Int /\ Strict(winner.entity) \in Int
      BY <1>0, <1>2, <2>2, StrictNumber
  <2> QED
      BY <1>1, <1>3, <2>1, <2>3 DEF Wins
<1>8. ResolveOK'
  <2>1. ASSUME NEW l \in logical \ todo PROVE Covered(l)'
    <3>1. CASE l \in group
      <4>1. Inside(l, new) /\ Strict(new.entity) >= Strict(l.entity)
          BY <1>7, <3>1
      <4> QED
          BY <1>0, <1>4, <4>1 DEF Covered, Strict, EffectiveAction
    <3>2. CASE l \notin group
      <4>1. Covered(l)
          BY <1>0, <3>2 DEF ResolveOK
      <4> QED
          BY <1>0, <1>4, <4>1 DEF Covered, Strict, EffectiveAction
    <3> QED
        BY <3>1, <3>2
  <2>2. \A t \in todo : new.end <= t.start
      BY <1>0, <1>3 DEF CloseRegion, Separate, TypeOK, Logical
  <2>3. \A r \in effective : r.end <= new.start
      BY <1>0, <1>1, <1>3 DEF ResolveOK
  <2>4. RegionsDisjoint'
      BY <1>0, <1>4, <2>3 DEF RegionsDisjoint, Disjoint, ResolveOK
  <2>5. \A r \in effective' : Backed(r)'
      BY <1>0, <1>4, <1>6 DEF ResolveOK, Backed, Detected
  <2>6. \A r \in effective' : \A t \in todo' : r.end <= t.start
      BY <1>0, <1>4, <2>2 DEF ResolveOK
  <2> QED
      BY <1>0, <2>1, <2>4, <2>5, <2>6 DEF ResolveOK, Resolved
<1>9. CoalesceOK'
    BY <1>0 DEF CoalesceOK, Resolved, Backed, Detected
<1>10. GroupOK' /\ VerdictOK'
    BY <1>0 DEF GroupOK, VerdictOK
<1> QED
    BY <1>5, <1>8, <1>9, <1>10 DEF Inductive

\* The steps after resolving: they leave the plan as it is.
LEMMA PlanStands ==
    ASSUME Inductive,
           phase = "resolve" => todo \union group = {},
           phase \in {"resolve", "transform", "blocked", "done"},
           phase' \in {"transform", "blocked", "done"},
           UNCHANGED <<inputVars, group, from, upTo, logical, effective>>
    PROVE  TypeOK' /\ GroupOK' /\ CoalesceOK' /\ ResolveOK'
<1>0. TypeOK /\ GroupOK /\ CoalesceOK /\ ResolveOK /\ group = {}
    BY DEF Inductive, TypeOK
<1>1. TypeOK'
    BY <1>0 DEF TypeOK, Phases, inputVars
<1>2. GroupOK'
    BY <1>0 DEF GroupOK
<1>3. CoalesceOK'
    BY <1>0 DEF CoalesceOK, Resolved, Backed, Detected, inputVars
<1>4. \A l \in logical : Covered(l)
    BY <1>0 DEF ResolveOK, Resolved
<1>5. \A l \in logical' : Covered(l)'
    BY <1>4 DEF Covered, Strict, EffectiveAction, inputVars
<1>6. ResolveOK'
    BY <1>0, <1>5 DEF ResolveOK, Resolved, RegionsDisjoint, Backed, Detected, inputVars
<1> QED
    BY <1>1, <1>2, <1>3, <1>6

LEMMA NextPreserves == Inductive /\ [Next]_vars => Inductive'
<1> SUFFICES ASSUME Inductive, [Next]_vars PROVE Inductive'
    OBVIOUS
<1>1. CASE EndResolve
  <2>1. TypeOK' /\ GroupOK' /\ CoalesceOK' /\ ResolveOK'
      BY <1>1, PlanStands DEF EndResolve
  <2>2. VerdictOK'
      BY <1>1 DEF EndResolve, Inductive, VerdictOK, Blocked, EffectiveAction, inputVars
  <2> QED
      BY <2>1, <2>2 DEF Inductive
<1>2. ASSUME NEW r \in todo, TransformNext(r) PROVE Inductive'
  <2>1. TypeOK' /\ GroupOK' /\ CoalesceOK' /\ ResolveOK'
      BY <1>2, PlanStands DEF TransformNext
  <2>2. VerdictOK'
      BY <1>2 DEF TransformNext, Inductive, VerdictOK, Blocked, EffectiveAction, inputVars
  <2> QED
      BY <2>1, <2>2 DEF Inductive
<1>3. CASE EndTransform
  <2>1. TypeOK' /\ GroupOK' /\ CoalesceOK' /\ ResolveOK'
      BY <1>3, PlanStands DEF EndTransform
  <2>2. VerdictOK'
      BY <1>3 DEF EndTransform, Inductive, VerdictOK, Blocked, EffectiveAction, inputVars
  <2> QED
      BY <2>1, <2>2 DEF Inductive
<1>4. CASE UNCHANGED vars
  <2>1. TypeOK'
      BY <1>4 DEF vars, Inductive, TypeOK
  <2>2. GroupOK'
      BY <1>4 DEF vars, Inductive, GroupOK, Ahead, Detected
  <2>3. CoalesceOK'
      BY <1>4 DEF vars, Inductive, CoalesceOK, Resolved, Backed, Detected
  <2>4. ResolveOK'
      BY <1>4 DEF vars, Inductive, ResolveOK, Resolved, RegionsDisjoint, Backed, Detected,
                  Covered, Strict, EffectiveAction
  <2>5. VerdictOK'
      BY <1>4 DEF vars, Inductive, VerdictOK, Blocked, EffectiveAction
  <2> QED
      BY <2>1, <2>2, <2>3, <2>4, <2>5 DEF Inductive
<1> QED
    BY <1>1, <1>2, <1>3, <1>4, ValidatePreserves, CoalesceNextPreserves, CloseLogicalPreserves,
       EndCoalescePreserves, ResolveNextPreserves, CloseRegionPreserves
    DEF Next, Terminated

\* The sweeps lose no detection and no character, for any input.
THEOREM InductiveHolds == Spec => []Inductive
BY InitEstablishes, NextPreserves, PTL DEF Spec

\* The two halves of the invariant together: a detection lies in a logical
\* one of its type, and that in a region.
LEMMA InductiveIsStrict == Inductive => StrictestWins
<1> SUFFICES ASSUME Inductive, Resolved, NEW m \in matches
             PROVE  \E r \in effective : Inside(m, r) /\ Strict(r.entity) >= Strict(m.entity)
    BY DEF StrictestWins
<1>1. PICK l \in logical : l.entity = m.entity /\ Inside(m, l)
    BY DEF Inductive, CoalesceOK
<1>2. PICK r \in effective : Inside(l, r) /\ Strict(r.entity) >= Strict(l.entity)
    BY DEF Inductive, ResolveOK, Covered
<1>3. Inside(m, r)
    BY <1>1, <1>2 DEF Inside, Inductive, TypeOK, Match, Logical
<1> QED
    BY <1>1, <1>2, <1>3

\* Every detection lies in a region that treats it at least as strictly as its
\* own type demands (_resolve_matches, _resolve_group).
THEOREM TheStrictestWins == Spec => []StrictestWins
BY InductiveIsStrict, InductiveHolds, PTL

\* No two regions share a character, and every character of a region belongs
\* to a detection (_resolve_matches, _coalesced, _resolve_group).
THEOREM RegionsAreSound == Spec => []RegionsSound
<1>1. Inductive => RegionsSound
    BY DEF Inductive, ResolveOK, RegionsSound, RegionsTight, Backed
<1> QED
    BY <1>1, InductiveHolds, PTL

\* A leaf is blocked exactly if a detection in it demands it, and before any
\* of it is rewritten (_summarize_effective_actions, prepare, transform).
THEOREM BlockDecidesTheLeaf == Spec => []BlockDecides
<1>1. Inductive => BlockDecides
  <2> SUFFICES ASSUME Inductive, Resolved
               PROVE  /\ phase = "blocked" <=> \E m \in matches : EffectiveAction(m.entity) = "block"
                      /\ phase = "blocked" => text = [i \in 1..TextLength |-> i]
      BY DEF BlockDecides
  <2>0. TypeOK /\ ResolveOK /\ VerdictOK /\ StrictestWins
      BY InductiveIsStrict DEF Inductive
  <2>1. ASSUME NEW m \in matches, EffectiveAction(m.entity) = "block" PROVE Blocked
    <3>1. PICK r \in effective : Strict(r.entity) >= Strict(m.entity)
        BY <2>0 DEF StrictestWins
    <3>2. r.entity \in Entities /\ m.entity \in Entities
        BY <2>0 DEF TypeOK, Match
    <3>3. Strict(m.entity) >= 9 /\ Strict(m.entity) \in Int /\ Strict(r.entity) \in Int
        BY <2>0, <2>1, <3>2, StrictNumber
    <3>4. Strict(r.entity) >= 9
        BY <3>1, <3>3
    <3> QED
        BY <2>0, <3>2, <3>4, StrictNumber DEF Blocked
  <2>2. Blocked => \E m \in matches : EffectiveAction(m.entity) = "block"
      BY <2>0 DEF Blocked, ResolveOK, Backed
  <2>3. phase = "blocked" <=> Blocked
      BY <2>0 DEF VerdictOK, Resolved
  <2> QED
      BY <2>0, <2>1, <2>2, <2>3 DEF VerdictOK
<1> QED
    BY <1>1, InductiveHolds, PTL

-----------------------------------------------------------------------------
(***************************************************************************)
(* The rewriting of the text.                                              *)
(***************************************************************************)

\* Once the matches are accepted, everything planned lies in the text and is
\* not empty.
SpansOK ==
    /\ phase \notin {"validate", "rejected"} => \A m \in matches : Valid(m)
    /\ \A l \in logical : Valid(l)
    /\ \A r \in effective : Valid(r)
    /\ group # {} => 0 <= from /\ from < upTo /\ upTo <= TextLength

\* The characters that none of the regions rewritten so far hides.
KeptSoFar ==
    {p \in 1..TextLength :
        \A r \in effective \ todo :
            Rewrites(r.entity) => ~(Hidden(r).start < p /\ p <= Hidden(r).end)}

\* The original characters of t are in their order.
Ordered(t) == \A i, j \in 1..Len(t) : i < j /\ t[i] # 0 /\ t[j] # 0 => t[i] < t[j]

\* m new characters stand after the first k characters of t: those in front of
\* them come from before offset c, those behind them from after it.
StandsAt(t, c, m, k) ==
    /\ \A i \in 1..m : t[k + i] = 0
    /\ \A i \in 1..k : t[i] <= c
    /\ \A i \in (k + 1)..Len(t) : t[i] # 0 => c < t[i]

\* The text between two replacements: up to the end of the regions that are
\* left it is the original, behind that it follows the plan.
RewriteOK ==
    phase \in {"transform", "done"} =>
        /\ todo \subseteq effective
        /\ phase = "done" => todo = {}
        /\ \A q \in todo : \A r \in effective \ todo : q.end <= r.start
        /\ text \in Seq(0..TextLength)
        /\ \A q \in todo : q.end <= Len(text) /\ \A i \in 1..q.end : text[i] = i
        /\ \A p \in 1..TextLength : p \in KeptSoFar <=> \E i \in 1..Len(text) : text[i] = p
        /\ Ordered(text)
        /\ \A r \in effective \ todo : Rewrites(r.entity) =>
             \E k \in 0..(Len(text) - Hidden(r).new) :
                 StandsAt(text, Hidden(r).start, Hidden(r).new, k)

LEMMA SpansKept ==
    ASSUME Inductive, SpansOK, [Next]_vars
    PROVE  SpansOK'
<1>0. TypeOK /\ from \in Int /\ upTo \in Int /\ TextLength \in Nat
    BY PlannerAssumption DEF Inductive, TypeOK
<1>1. CASE ValidateSpans
    BY <1>0, <1>1 DEF ValidateSpans, SpansOK, inputVars, TypeOK
<1>2. ASSUME NEW m \in todo, m.start \in Int, m.end \in Int, Valid(m), Extended(m),
             phase \notin {"validate", "rejected"},
             UNCHANGED <<inputVars, phase, logical, effective>>
      PROVE  SpansOK'
  <2>1. group' # {} /\ 0 <= from' /\ from' < upTo' /\ upTo' <= TextLength
      BY <1>0, <1>2 DEF Extended, Valid, SpansOK
  <2> QED
      BY <1>2, <2>1 DEF SpansOK, inputVars
<1>3. ASSUME NEW m \in todo, CoalesceNext(m) PROVE SpansOK'
  <2>1. m \in matches /\ m.start \in Int /\ m.end \in Int /\ Valid(m)
      BY <1>0, <1>3 DEF CoalesceNext, TypeOK, Match, SpansOK
  <2> QED
      BY <1>2, <1>3, <2>1 DEF CoalesceNext
<1>4. ASSUME NEW m \in todo, ResolveNext(m) PROVE SpansOK'
  <2>1. m \in logical /\ m.start \in Int /\ m.end \in Int /\ Valid(m)
      BY <1>0, <1>4 DEF ResolveNext, TypeOK, Logical, SpansOK
  <2> QED
      BY <1>2, <1>4, <2>1 DEF ResolveNext
<1>5. CASE CloseLogical
  <2>1. PICK owner \in group :
            logical' = logical \union {[entity |-> owner.entity, start |-> from, end |-> upTo,
                                        width |-> owner.end - owner.start]}
      BY <1>5 DEF CloseLogical
  <2>2. \A l \in logical' : Valid(l)
      BY <2>1 DEF Valid, SpansOK
  <2> QED
      BY <1>5, <2>2 DEF CloseLogical, SpansOK, inputVars
<1>6. CASE CloseRegion
  <2>1. PICK winner \in group :
            effective' = effective \union {[entity |-> winner.entity, start |-> from,
                                            end |-> upTo]}
      BY <1>6 DEF CloseRegion
  <2>2. \A r \in effective' : Valid(r)
      BY <2>1 DEF Valid, SpansOK
  <2> QED
      BY <1>6, <2>2 DEF CloseRegion, SpansOK, inputVars
<1>7. CASE EndCoalesce \/ EndResolve \/ EndTransform \/ UNCHANGED vars
    BY <1>7 DEF EndCoalesce, EndResolve, EndTransform, vars, SpansOK, inputVars
<1>8. ASSUME NEW r \in todo, TransformNext(r) PROVE SpansOK'
    BY <1>8 DEF TransformNext, SpansOK, inputVars
<1> QED
    BY <1>1, <1>3, <1>4, <1>5, <1>6, <1>7, <1>8 DEF Next, Terminated

\* u is t with y in the place of the characters from offset a to offset b.
Splice(t, u, y, a, b) ==
    /\ u \in Seq(0..TextLength)
    /\ Len(u) = a + Len(y) + (Len(t) - b)
    /\ \A i \in 1..a : u[i] = t[i]
    /\ \A i \in 1..Len(y) : u[a + i] = y[i]
    /\ \A i \in 1..(Len(t) - b) : u[a + Len(y) + i] = t[b + i]

\* What a replacement does to the characters of the text.
LEMMA Spliced ==
    ASSUME NEW t \in Seq(0..TextLength), NEW y \in Seq(0..TextLength),
           NEW a \in Nat, NEW b \in Nat, a <= b, b <= Len(t)
    PROVE  Splice(t, SubSeq(t, 1, a) \o y \o SubSeq(t, b + 1, Len(t)), y, a, b)
<1> DEFINE S == 0..TextLength
           x == SubSeq(t, 1, a)
           n == Len(y)
           z == SubSeq(t, b + 1, Len(t))
<1>0. Len(t) \in Nat /\ TextLength \in Nat /\ \A i \in 1..Len(t) : t[i] \in S
    BY PlannerAssumption
<1>1. x \in Seq(S) /\ Len(x) = a /\ \A i \in 1..a : x[i] = t[i]
  <2>1. \A i \in 1..a : t[i] \in S
      BY <1>0
  <2>2. /\ x \in Seq(S)
        /\ Len(x) = IF 1 <= a THEN a - 1 + 1 ELSE 0
        /\ \A i \in 1..(a - 1 + 1) : x[i] = t[1 + i - 1]
      BY <2>1, SubSeqProperties
  <2> QED
      BY <2>2
<1>2. y \in Seq(S) /\ Len(y) = n /\ n \in Nat
    OBVIOUS
<1>3. z \in Seq(S) /\ Len(z) = Len(t) - b /\ \A i \in 1..(Len(t) - b) : z[i] = t[b + i]
  <2>1. \A i \in (b + 1)..Len(t) : t[i] \in S
      BY <1>0, <1>2
  <2>2. /\ z \in Seq(S)
        /\ Len(z) = IF b + 1 <= Len(t) THEN Len(t) - (b + 1) + 1 ELSE 0
        /\ \A i \in 1..(Len(t) - (b + 1) + 1) : z[i] = t[(b + 1) + i - 1]
    <3>1. b + 1 \in Nat /\ Len(t) \in Nat
        BY <1>0
    <3> HIDE DEF S
    <3> QED
        BY <2>1, <3>1, SubSeqProperties
  <2> QED
      BY <1>0, <2>2
<1> HIDE DEF S, x, n, z
<1>4. /\ x \o y \in Seq(S) /\ Len(x \o y) = a + n
      /\ \A i \in 1..(a + n) : (x \o y)[i] = IF i <= a THEN x[i] ELSE y[i - a]
    BY <1>1, <1>2, ConcatProperties
<1> DEFINE v == x \o y
<1> HIDE DEF v
<1>5. /\ v \o z \in Seq(S) /\ Len(v \o z) = a + n + (Len(t) - b)
      /\ \A i \in 1..(a + n + (Len(t) - b)) :
           (v \o z)[i] = IF i <= a + n THEN v[i] ELSE z[i - (a + n)]
  <2>1. v \in Seq(S) /\ Len(v) = a + n
      BY <1>4 DEF v
  <2>2. /\ v \o z \in Seq(S) /\ Len(v \o z) = Len(v) + Len(z)
        /\ \A i \in 1..(Len(v) + Len(z)) :
             (v \o z)[i] = IF i <= Len(v) THEN v[i] ELSE z[i - Len(v)]
      BY <1>3, <2>1, ConcatProperties
  <2> QED
      BY <1>3, <2>1, <2>2
<1>6. \A i \in 1..(a + n) : v[i] = IF i <= a THEN x[i] ELSE y[i - a]
    BY <1>4 DEF v
<1> DEFINE u == v \o z
<1>7. \A i \in 1..a : u[i] = t[i]
  <2> SUFFICES ASSUME NEW i \in 1..a PROVE u[i] = t[i]
      OBVIOUS
  <2>1. i \in 1..(a + n) /\ i <= a /\ i <= a + n /\ i \in 1..(a + n + (Len(t) - b))
      BY <1>0, <1>2
  <2> QED
      BY <1>1, <1>5, <1>6, <2>1
<1>8. \A i \in 1..n : u[a + i] = y[i]
  <2> SUFFICES ASSUME NEW i \in 1..n PROVE u[a + i] = y[i]
      OBVIOUS
  <2>1. a + i \in 1..(a + n) /\ ~(a + i <= a) /\ (a + i) - a = i /\ a + i \in 1..(a + n + (Len(t) - b))
      BY <1>0, <1>2
  <2> QED
      BY <1>2, <1>5, <1>6, <2>1
<1>9. \A i \in 1..(Len(t) - b) : u[a + n + i] = t[b + i]
  <2> SUFFICES ASSUME NEW i \in 1..(Len(t) - b) PROVE u[a + n + i] = t[b + i]
      OBVIOUS
  <2>1. /\ a + n + i \in 1..(a + n + (Len(t) - b)) /\ ~(a + n + i <= a + n)
        /\ (a + n + i) - (a + n) = i
      BY <1>0, <1>2
  <2> QED
      BY <1>3, <1>5, <2>1
<1> QED
    BY <1>5, <1>7, <1>8, <1>9 DEF S, v, x, n, z, Splice

\* u is t with n new characters in the place of those from offset a to offset b.
Edited(t, u, a, b, n) ==
    /\ u \in Seq(0..TextLength)
    /\ Len(u) = a + n + (Len(t) - b)
    /\ \A i \in 1..a : u[i] = t[i]
    /\ \A i \in 1..n : u[a + i] = 0
    /\ \A i \in 1..(Len(t) - b) : u[a + n + i] = t[b + i]

LEMMA NewIsZero ==
    ASSUME NEW n \in Nat
    PROVE  New(n) \in Seq(0..TextLength) /\ Len(New(n)) = n /\ \A i \in 1..n : New(n)[i] = 0
  BY PlannerAssumption DEF New

LEMMA PartOf ==
    ASSUME NEW t \in Seq(0..TextLength), NEW a \in Nat, NEW b \in Nat, a <= b, b <= Len(t)
    PROVE  LET u == SubSeq(t, a + 1, b)
           IN  /\ u \in Seq(0..TextLength) /\ Len(u) = b - a
               /\ \A i \in 1..(b - a) : u[i] = t[a + i]
<1>1. Len(t) \in Nat /\ \A i \in 1..Len(t) : t[i] \in 0..TextLength
    BY PlannerAssumption
<1>2. \A i \in (a + 1)..b : t[i] \in 0..TextLength
    BY <1>1
<1> DEFINE u == SubSeq(t, a + 1, b)
<1> HIDE DEF u
<1>3. /\ u \in Seq(0..TextLength)
      /\ Len(u) = IF a + 1 <= b THEN b - (a + 1) + 1 ELSE 0
      /\ \A i \in 1..(b - (a + 1) + 1) : u[i] = t[(a + 1) + i - 1]
    BY <1>2, SubSeqProperties DEF u
<1>4. b - (a + 1) + 1 = b - a /\ \A i \in Int : (a + 1) + i - 1 = a + i
    OBVIOUS
<1> QED
    BY <1>3, <1>4 DEF u

\* A mask that hides the last n characters from a to b, or the first ones.
LEMMA MaskedAtEnd ==
    ASSUME NEW t \in Seq(0..TextLength), NEW a \in Nat, NEW b \in Nat, NEW n \in Nat,
           a + n <= b, b <= Len(t)
    PROVE  Edited(t, SubSeq(t, 1, a) \o (SubSeq(t, a + 1, b - n) \o New(n))
                       \o SubSeq(t, b + 1, Len(t)), b - n, b, n)
<1> DEFINE S == 0..TextLength
           B == SubSeq(t, a + 1, b - n)
           y == B \o New(n)
           u == SubSeq(t, 1, a) \o y \o SubSeq(t, b + 1, Len(t))
           k == b - n - a
<1>0. Len(t) \in Nat /\ k \in Nat /\ b - n \in Nat /\ a <= b - n /\ b - n <= Len(t) /\ a <= b
    OBVIOUS
<1>1. B \in Seq(S) /\ Len(B) = k /\ \A i \in 1..k : B[i] = t[a + i]
    BY <1>0, PartOf
<1>2. New(n) \in Seq(S) /\ Len(New(n)) = n /\ \A i \in 1..n : New(n)[i] = 0
    BY NewIsZero
<1> HIDE DEF S, B
<1>3. /\ y \in Seq(S) /\ Len(y) = k + n
      /\ \A i \in 1..(k + n) : y[i] = IF i <= k THEN B[i] ELSE New(n)[i - k]
  <2>1. /\ B \o New(n) \in Seq(S) /\ Len(B \o New(n)) = Len(B) + Len(New(n))
        /\ \A i \in 1..(Len(B) + Len(New(n))) :
             (B \o New(n))[i] = IF i <= Len(B) THEN B[i] ELSE New(n)[i - Len(B)]
      BY <1>1, <1>2, ConcatProperties
  <2> QED
      BY <1>1, <1>2, <2>1
<1> HIDE DEF y
<1>4. /\ u \in Seq(S) /\ Len(u) = a + (k + n) + (Len(t) - b)
      /\ \A i \in 1..a : u[i] = t[i]
      /\ \A i \in 1..(k + n) : u[a + i] = y[i]
      /\ \A i \in 1..(Len(t) - b) : u[a + (k + n) + i] = t[b + i]
  <2>0. y \in Seq(0..TextLength) /\ a <= b
      BY <1>0, <1>3 DEF S
  <2>1. /\ u \in Seq(S) /\ Len(u) = a + Len(y) + (Len(t) - b)
        /\ \A i \in 1..a : u[i] = t[i]
        /\ \A i \in 1..Len(y) : u[a + i] = y[i]
        /\ \A i \in 1..(Len(t) - b) : u[a + Len(y) + i] = t[b + i]
    <3>1. Splice(t, u, y, a, b)
        BY <2>0, Spliced
    <3> QED
        BY <3>1 DEF Splice, S
  <2> QED
      BY <1>3, <2>1
<1> HIDE DEF u
<1>5. ASSUME NEW i \in 1..(b - n) PROVE u[i] = t[i]
  <2>1. CASE i <= a
      BY <1>4, <2>1
  <2>2. CASE ~(i <= a)
    <3>1. i - a \in 1..k /\ i - a \in 1..(k + n) /\ i - a <= k /\ a + (i - a) = i
        BY <1>0, <2>2
    <3>2. u[a + (i - a)] = y[i - a] /\ y[i - a] = B[i - a] /\ B[i - a] = t[a + (i - a)]
        BY <1>1, <1>3, <1>4, <3>1
    <3> QED
        BY <3>1, <3>2
  <2> QED
      BY <2>1, <2>2
<1>6. ASSUME NEW i \in 1..n PROVE u[(b - n) + i] = 0
  <2>1. k + i \in 1..(k + n) /\ ~(k + i <= k) /\ (k + i) - k = i /\ a + (k + i) = (b - n) + i
      BY <1>0
  <2>2. u[a + (k + i)] = y[k + i] /\ y[k + i] = New(n)[i]
      BY <1>3, <1>4, <2>1
  <2> QED
      BY <1>2, <2>1, <2>2
<1>7. a + (k + n) = (b - n) + n
    OBVIOUS
<1>8. Edited(t, u, b - n, b, n)
    BY <1>4, <1>5, <1>6, <1>7 DEF Edited, S
<1> QED
    BY <1>8 DEF u, y, B

LEMMA MaskedAtStart ==
    ASSUME NEW t \in Seq(0..TextLength), NEW a \in Nat, NEW b \in Nat, NEW n \in Nat,
           a + n <= b, b <= Len(t)
    PROVE  Edited(t, SubSeq(t, 1, a) \o (New(n) \o SubSeq(t, a + n + 1, b))
                       \o SubSeq(t, b + 1, Len(t)), a, a + n, n)
<1> DEFINE S == 0..TextLength
           B == SubSeq(t, a + n + 1, b)
           y == New(n) \o B
           u == SubSeq(t, 1, a) \o y \o SubSeq(t, b + 1, Len(t))
           k == b - (a + n)
<1>0. Len(t) \in Nat /\ k \in Nat /\ a + n \in Nat /\ a <= b
    OBVIOUS
<1>1. B \in Seq(S) /\ Len(B) = k /\ \A i \in 1..k : B[i] = t[(a + n) + i]
    BY <1>0, PartOf
<1>2. New(n) \in Seq(S) /\ Len(New(n)) = n /\ \A i \in 1..n : New(n)[i] = 0
    BY NewIsZero
<1> HIDE DEF S, B
<1>3. /\ y \in Seq(S) /\ Len(y) = n + k
      /\ \A i \in 1..(n + k) : y[i] = IF i <= n THEN New(n)[i] ELSE B[i - n]
  <2>1. /\ New(n) \o B \in Seq(S) /\ Len(New(n) \o B) = Len(New(n)) + Len(B)
        /\ \A i \in 1..(Len(New(n)) + Len(B)) :
             (New(n) \o B)[i] = IF i <= Len(New(n)) THEN New(n)[i] ELSE B[i - Len(New(n))]
      BY <1>1, <1>2, ConcatProperties
  <2> QED
      BY <1>1, <1>2, <2>1
<1> HIDE DEF y
<1>4. /\ u \in Seq(S) /\ Len(u) = a + (n + k) + (Len(t) - b)
      /\ \A i \in 1..a : u[i] = t[i]
      /\ \A i \in 1..(n + k) : u[a + i] = y[i]
      /\ \A i \in 1..(Len(t) - b) : u[a + (n + k) + i] = t[b + i]
  <2>0. y \in Seq(0..TextLength) /\ a <= b
      BY <1>0, <1>3 DEF S
  <2>1. /\ u \in Seq(S) /\ Len(u) = a + Len(y) + (Len(t) - b)
        /\ \A i \in 1..a : u[i] = t[i]
        /\ \A i \in 1..Len(y) : u[a + i] = y[i]
        /\ \A i \in 1..(Len(t) - b) : u[a + Len(y) + i] = t[b + i]
    <3>1. Splice(t, u, y, a, b)
        BY <2>0, Spliced
    <3> QED
        BY <3>1 DEF Splice, S
  <2> QED
      BY <1>3, <2>1
<1> HIDE DEF u
<1>5. ASSUME NEW i \in 1..n PROVE u[a + i] = 0
  <2>1. i \in 1..(n + k) /\ i <= n
      BY <1>0
  <2> QED
      BY <1>2, <1>3, <1>4, <2>1
<1>6. ASSUME NEW i \in 1..(Len(t) - (a + n)) PROVE u[a + n + i] = t[(a + n) + i]
  <2>1. CASE i <= k
    <3>1. /\ n + i \in 1..(n + k) /\ ~(n + i <= n) /\ (n + i) - n = i /\ i \in 1..k
          /\ a + (n + i) = a + n + i
        BY <1>0, <2>1
    <3>2. u[a + (n + i)] = y[n + i] /\ y[n + i] = B[i]
        BY <1>3, <1>4, <3>1
    <3> QED
        BY <1>1, <3>1, <3>2
  <2>2. CASE ~(i <= k)
    <3>1. /\ i - k \in 1..(Len(t) - b) /\ a + (n + k) + (i - k) = a + n + i
          /\ b + (i - k) = (a + n) + i
        BY <1>0, <2>2
    <3>2. u[a + (n + k) + (i - k)] = t[b + (i - k)]
        BY <1>4, <3>1
    <3> QED
        BY <3>1, <3>2
  <2> QED
      BY <2>1, <2>2
<1>7. a + (n + k) + (Len(t) - b) = a + n + (Len(t) - (a + n))
    BY <1>0
<1>8. Edited(t, u, a, a + n, n)
    BY <1>4, <1>5, <1>6, <1>7 DEF Edited, S
<1> QED
    BY <1>8 DEF u, y, B

\* The offsets that Hidden names lie in the region.
LEMMA HiddenInside ==
    ASSUME TypeOK, NEW r \in effective, Valid(r)
    PROVE  /\ r.start \in Nat /\ r.end \in Nat /\ r.start < r.end
           /\ Hidden(r).start \in Nat /\ Hidden(r).end \in Nat /\ Hidden(r).new \in Nat
           /\ r.start <= Hidden(r).start /\ Hidden(r).start <= Hidden(r).end
           /\ Hidden(r).end <= r.end
<1>0. /\ r.start \in Nat /\ r.end \in Nat /\ r.start < r.end
      /\ CharsToMask \in Nat /\ NewLength \in Nat
    BY PlannerAssumption DEF Valid, TypeOK, Match
<1> DEFINE n == IF CharsToMask < r.end - r.start THEN CharsToMask ELSE r.end - r.start
<1>1. n \in Nat /\ n <= r.end - r.start
    BY <1>0
<1>2. \/ Hidden(r) = [start |-> r.end - n, end |-> r.end, new |-> n]
      \/ Hidden(r) = [start |-> r.start, end |-> r.start + n, new |-> n]
      \/ Hidden(r) = [start |-> r.start, end |-> r.end, new |-> 0]
      \/ Hidden(r) = [start |-> r.start, end |-> r.end, new |-> NewLength]
    BY DEF Hidden
<1> HIDE DEF n
<1> QED
    BY <1>0, <1>1, <1>2

\* Whatever the action, rewriting a region puts new characters in the place of
\* those that Hidden names and leaves the others where they are.
LEMMA HiddenReplaced ==
    ASSUME TypeOK, NEW r \in effective, Valid(r), Rewrites(r.entity),
           text \in Seq(0..TextLength), r.end <= Len(text), TransformNext(r)
    PROVE  Edited(text, text', Hidden(r).start, Hidden(r).end, Hidden(r).new)
<1> DEFINE a == r.start
           b == r.end
           n == Masked(r)
           L == Len(text)
<1>0. a \in Nat /\ b \in Nat /\ a < b /\ b <= L /\ L \in Nat /\ n \in Nat /\ a + n <= b
  <2>1. a \in Nat /\ b \in Nat /\ a < b /\ L \in Nat /\ CharsToMask \in Nat
      BY PlannerAssumption, HiddenInside
  <2> QED
      BY <2>1 DEF Masked
<1>1. text' = SubSeq(text, 1, a) \o Replacement(r) \o SubSeq(text, b + 1, L)
  <2>1. text' = Slice(0, a) \o Replacement(r) \o Slice(b, L)
      BY DEF TransformNext
  <2>2. Slice(0, a) = SubSeq(text, 1, a)
      BY <1>0 DEF Slice
  <2>3. Slice(b, L) = SubSeq(text, b + 1, L)
      BY <1>0 DEF Slice
  <2> QED
      BY <2>1, <2>2, <2>3
<1>2. \A c, d \in Nat : d <= L => Slice(c, d) = SubSeq(text, c + 1, d)
    BY <1>0 DEF Slice
<1> HIDE DEF a, b, n, L
<1>3. CASE policy[r.entity] \in {"mask", "reroute"} /\ FromEnd
  <2>1. Hidden(r) = [start |-> b - n, end |-> b, new |-> n]
      BY <1>3 DEF Hidden, Masked, a, b, n
  <2>2. b - n \in Nat /\ b - n <= L
      BY <1>0
  <2>3. Replacement(r) = Slice(a, b - n) \o New(n)
      BY <1>3 DEF Replacement, a, b, n
  <2>4. Slice(a, b - n) = SubSeq(text, a + 1, b - n)
      BY <1>0, <1>2, <2>2
  <2>5. Edited(text, SubSeq(text, 1, a) \o (SubSeq(text, a + 1, b - n) \o New(n))
                       \o SubSeq(text, b + 1, L), b - n, b, n)
      BY <1>0, MaskedAtEnd DEF L
  <2>6. Edited(text, text', b - n, b, n)
      BY <1>1, <2>3, <2>4, <2>5, Zenon
  <2>7. Hidden(r).start = b - n /\ Hidden(r).end = b /\ Hidden(r).new = n
      BY <2>1
  <2> QED
      BY <2>6, <2>7, Zenon
<1>4. CASE policy[r.entity] \in {"mask", "reroute"} /\ ~FromEnd
  <2>1. Hidden(r) = [start |-> a, end |-> a + n, new |-> n]
      BY <1>4 DEF Hidden, Masked, a, b, n
  <2>2. a + n \in Nat
      BY <1>0
  <2>3. Replacement(r) = New(n) \o Slice(a + n, b)
      BY <1>4 DEF Replacement, a, b, n
  <2>4. Slice(a + n, b) = SubSeq(text, a + n + 1, b)
      BY <1>0, <1>2, <2>2
  <2>5. Edited(text, SubSeq(text, 1, a) \o (New(n) \o SubSeq(text, a + n + 1, b))
                       \o SubSeq(text, b + 1, L), a, a + n, n)
      BY <1>0, MaskedAtStart DEF L
  <2>6. Edited(text, text', a, a + n, n)
      BY <1>1, <2>3, <2>4, <2>5, Zenon
  <2>7. Hidden(r).start = a /\ Hidden(r).end = a + n /\ Hidden(r).new = n
      BY <2>1
  <2> QED
      BY <2>6, <2>7, Zenon
<1>5. CASE policy[r.entity] \notin {"mask", "reroute"}
  <2> DEFINE k == IF policy[r.entity] = "redact" THEN 0 ELSE NewLength
  <2>1. Hidden(r) = [start |-> a, end |-> b, new |-> k]
      BY <1>5 DEF Hidden, a, b
  <2>2. k \in Nat
      BY PlannerAssumption
  <2>3. Replacement(r) = New(k)
    <3>1. New(0) = << >>
        BY DEF New
    <3> QED
        BY <1>5, <3>1 DEF Replacement
  <2> HIDE DEF k
  <2>4. New(k) \in Seq(0..TextLength) /\ Len(New(k)) = k /\ \A i \in 1..k : New(k)[i] = 0
      BY <2>2, NewIsZero
  <2>5. Splice(text, SubSeq(text, 1, a) \o New(k) \o SubSeq(text, b + 1, Len(text)), New(k), a, b)
      BY <1>0, <2>4, Spliced DEF L
  <2>6. Edited(text, text', a, b, k)
      BY <1>1, <2>3, <2>4, <2>5 DEF Splice, Edited, L
  <2> QED
      BY <2>1, <2>6
<1> QED
    BY <1>3, <1>4, <1>5

\* An edit of the part of a text that is still the original.
LEMMA EditKeeps ==
    ASSUME NEW t \in Seq(0..TextLength), NEW u, NEW a \in Nat, NEW b \in Nat, NEW n \in Nat,
           a <= b, b <= Len(t), \A i \in 1..b : t[i] = i, Ordered(t), Edited(t, u, a, b, n)
    PROVE  /\ Ordered(u)
           /\ \A p \in 1..TextLength :
                (\E i \in 1..Len(u) : u[i] = p)
                  <=> (\E i \in 1..Len(t) : t[i] = p) /\ ~(a < p /\ p <= b)
           /\ a \in 0..(Len(u) - n) /\ StandsAt(u, a, n, a)
           /\ \A c, m \in Nat : b <= c =>
                \A k \in 0..(Len(t) - m) : StandsAt(t, c, m, k) =>
                  \E j \in 0..(Len(u) - m) : StandsAt(u, c, m, j)
<1>0. /\ Len(t) \in Nat /\ Len(u) = a + n + (Len(t) - b) /\ Len(u) \in Nat
      /\ \A i \in 1..Len(t) : t[i] \in Nat
    BY PlannerAssumption DEF Edited
<1>1. ASSUME NEW j \in 1..Len(t), b < j, t[j] # 0 PROVE b < t[j]
  <2>1. CASE b = 0
      BY <1>0, <1>1, <2>1
  <2>2. CASE b # 0
    <3>1. b \in 1..b /\ b \in 1..Len(t) /\ t[b] = b
        BY <1>0, <2>2
    <3> QED
        BY <1>1, <2>2, <3>1 DEF Ordered
  <2> QED
      BY <2>1, <2>2
<1>2. ASSUME NEW i \in 1..Len(u)
      PROVE  \/ i <= a /\ u[i] = i /\ t[i] = i
             \/ a < i /\ i <= a + n /\ u[i] = 0
             \/ /\ a + n < i /\ i - (a + n) \in 1..(Len(t) - b)
                /\ b + (i - (a + n)) \in 1..Len(t) /\ u[i] = t[b + (i - (a + n))]
  <2>1. CASE i <= a
    <3>1. i \in 1..a /\ i \in 1..b
        BY <1>0, <2>1
    <3> QED
        BY <2>1, <3>1 DEF Edited
  <2>2. CASE a < i /\ i <= a + n
    <3>1. i - a \in 1..n /\ a + (i - a) = i
        BY <1>0, <2>2
    <3>2. u[a + (i - a)] = 0
        BY <3>1 DEF Edited
    <3> QED
        BY <2>2, <3>1, <3>2
  <2>3. CASE a + n < i
    <3>1. /\ i - (a + n) \in 1..(Len(t) - b) /\ a + n + (i - (a + n)) = i
          /\ b + (i - (a + n)) \in 1..Len(t)
        BY <1>0, <2>3
    <3>2. u[a + n + (i - (a + n))] = t[b + (i - (a + n))]
        BY <3>1 DEF Edited
    <3> QED
        BY <2>3, <3>1, <3>2
  <2> QED
      BY <1>0, <2>1, <2>2, <2>3
\* Where a character of t is in u.
<1>3. /\ \A i \in 1..a : i \in 1..Len(u) /\ u[i] = t[i]
      /\ \A i \in 1..Len(t) : b < i =>
           /\ i - b \in 1..(Len(t) - b)
           /\ a + n + (i - b) \in 1..Len(u) /\ u[a + n + (i - b)] = t[i]
  <2>1. \A i \in 1..a : i \in 1..Len(u) /\ u[i] = t[i]
      BY <1>0 DEF Edited
  <2>2. ASSUME NEW i \in 1..Len(t), b < i
        PROVE  /\ i - b \in 1..(Len(t) - b)
               /\ a + n + (i - b) \in 1..Len(u) /\ u[a + n + (i - b)] = t[i]
    <3>1. i - b \in 1..(Len(t) - b) /\ a + n + (i - b) \in 1..Len(u) /\ b + (i - b) = i
        BY <1>0, <2>2
    <3>2. u[a + n + (i - b)] = t[b + (i - b)]
        BY <3>1 DEF Edited
    <3> QED
        BY <3>1, <3>2
  <2> QED
      BY <2>1, <2>2
<1>4. Ordered(u)
  <2> SUFFICES ASSUME NEW i \in 1..Len(u), NEW j \in 1..Len(u), i < j, u[i] # 0, u[j] # 0
               PROVE  u[i] < u[j]
      BY DEF Ordered
  <2>1. CASE i <= a /\ j <= a
      BY <1>2, <2>1
  <2>2. CASE i <= a /\ a + n < j
    <3>1. /\ u[i] = i /\ u[j] = t[b + (j - (a + n))] /\ b + (j - (a + n)) \in 1..Len(t)
          /\ b < b + (j - (a + n))
        BY <1>0, <1>2, <2>2
    <3>2. b < t[b + (j - (a + n))] /\ t[b + (j - (a + n))] \in Nat
        BY <1>0, <1>1, <3>1
    <3> QED
        BY <2>2, <3>1, <3>2
  <2>3. CASE a + n < i
    <3>1. /\ u[i] = t[b + (i - (a + n))] /\ b + (i - (a + n)) \in 1..Len(t)
          /\ u[j] = t[b + (j - (a + n))] /\ b + (j - (a + n)) \in 1..Len(t)
          /\ b + (i - (a + n)) < b + (j - (a + n))
        BY <1>0, <1>2, <2>3
    <3> QED
        BY <3>1 DEF Ordered
  <2> QED
      BY <1>0, <1>2, <2>1, <2>2, <2>3
<1>5. ASSUME NEW p \in 1..TextLength
      PROVE  (\E i \in 1..Len(u) : u[i] = p)
               <=> (\E i \in 1..Len(t) : t[i] = p) /\ ~(a < p /\ p <= b)
  <2>0. p \in Nat /\ p # 0
      BY PlannerAssumption
  <2>1. ASSUME NEW i \in 1..Len(u), u[i] = p
        PROVE  (\E j \in 1..Len(t) : t[j] = p) /\ ~(a < p /\ p <= b)
    <3>1. CASE i <= a
      <4>1. p = i /\ i \in 1..Len(t) /\ t[i] = p
          BY <1>0, <1>2, <2>0, <2>1, <3>1
      <4> QED
          BY <3>1, <4>1
    <3>2. CASE a + n < i
      <4>1. /\ b + (i - (a + n)) \in 1..Len(t) /\ t[b + (i - (a + n))] = p
            /\ b < b + (i - (a + n))
          BY <1>0, <1>2, <2>1, <3>2
      <4>2. b < p
          BY <1>1, <2>0, <4>1
      <4> QED
          BY <2>0, <4>1, <4>2
    <3> QED
        BY <1>2, <2>0, <2>1, <3>1, <3>2
  <2>2. ASSUME NEW i \in 1..Len(t), t[i] = p, ~(a < p /\ p <= b)
        PROVE  \E j \in 1..Len(u) : u[j] = p
    <3>1. CASE b < i
        BY <1>3, <2>2, <3>1
    <3>2. CASE ~(b < i)
      <4>1. i \in 1..b /\ t[i] = i
          BY <1>0, <3>2
      <4>2. i \in 1..a
          BY <2>2, <4>1
      <4> QED
          BY <1>3, <2>2, <4>2
    <3> QED
        BY <3>1, <3>2
  <2> QED
      BY <2>1, <2>2
<1>6. a \in 0..(Len(u) - n) /\ StandsAt(u, a, n, a)
  <2>1. a \in 0..(Len(u) - n)
      BY <1>0
  <2>2. \A i \in 1..n : u[a + i] = 0
      BY DEF Edited
  <2>3. ASSUME NEW i \in 1..a PROVE u[i] <= a
      BY <1>2, <1>3
  <2>4. ASSUME NEW i \in (a + 1)..Len(u), u[i] # 0 PROVE a < u[i]
    <3>0. i \in 1..Len(u) /\ a < i
        BY <1>0
    <3>1. /\ u[i] = t[b + (i - (a + n))] /\ b + (i - (a + n)) \in 1..Len(t)
          /\ b < b + (i - (a + n))
        BY <1>0, <1>2, <2>4, <3>0
    <3>2. b < t[b + (i - (a + n))] /\ t[b + (i - (a + n))] \in Nat
        BY <1>0, <1>1, <2>4, <3>1
    <3> QED
        BY <3>1, <3>2
  <2> QED
      BY <2>1, <2>2, <2>3, <2>4 DEF StandsAt
<1>7. ASSUME NEW c \in Nat, NEW m \in Nat, b <= c, NEW k \in 0..(Len(t) - m), StandsAt(t, c, m, k)
      PROVE  \E j \in 0..(Len(u) - m) : StandsAt(u, c, m, j)
  <2>0. k \in Nat /\ k <= Len(t) - m
      BY <1>0
  <2>1. b <= k
    <3> SUFFICES ASSUME k < b PROVE FALSE
        BY <2>0
    <3>1. k + 1 \in 1..b /\ k + 1 \in (k + 1)..Len(t) /\ k + 1 # 0
        BY <1>0, <2>0
    <3>2. t[k + 1] = k + 1
        BY <3>1
    <3>3. c < k + 1
        BY <1>7, <3>1, <3>2 DEF StandsAt
    <3> QED
        BY <1>7, <2>0, <3>3
  <2> DEFINE j == a + n + (k - b)
  <2>2. j \in 0..(Len(u) - m)
      BY <1>0, <2>0, <2>1
  <2>3. ASSUME NEW i \in 1..m PROVE u[j + i] = 0
    <3>1. k + i \in 1..Len(t) /\ b < k + i /\ a + n + ((k + i) - b) = j + i
        BY <1>0, <2>0, <2>1
    <3>2. t[k + i] = 0
        BY <1>7 DEF StandsAt
    <3> QED
        BY <1>3, <3>1, <3>2
  <2>4. ASSUME NEW i \in 1..j PROVE u[i] <= c
    <3>0. i \in 1..Len(u)
        BY <1>0, <1>7, <2>2
    <3>1. CASE i <= a
        BY <1>2, <1>7, <3>0, <3>1
    <3>2. CASE a < i /\ i <= a + n
        BY <1>0, <1>2, <1>7, <3>0, <3>2
    <3>3. CASE a + n < i
      <4>1. b + (i - (a + n)) \in 1..k /\ u[i] = t[b + (i - (a + n))]
          BY <1>0, <1>2, <2>0, <2>1, <3>0, <3>3
      <4> QED
          BY <1>7, <4>1 DEF StandsAt
    <3> QED
        BY <3>1, <3>2, <3>3
  <2>5. ASSUME NEW i \in (j + 1)..Len(u), u[i] # 0 PROVE c < u[i]
    <3>0. i \in 1..Len(u) /\ a + n < i
        BY <1>0, <2>0, <2>1
    <3>1. /\ b + (i - (a + n)) \in (k + 1)..Len(t) /\ u[i] = t[b + (i - (a + n))]
        BY <1>0, <1>2, <2>0, <2>1, <3>0
    <3> QED
        BY <1>7, <2>5, <3>1 DEF StandsAt
  <2> QED
      BY <2>2, <2>3, <2>4, <2>5 DEF StandsAt
<1> QED
    BY <1>4, <1>5, <1>6, <1>7

\* The region that is rewritten next lies behind all that are left.
LEMMA RightmostIsBehind ==
    ASSUME TypeOK, SpansOK, RegionsDisjoint, todo \subseteq effective,
           NEW r \in todo, Rightmost(r), NEW q \in todo \ {r}
    PROVE  q.end <= r.start
<1>1. /\ r.start \in Int /\ r.end \in Int /\ r.start < r.end
      /\ q.start \in Int /\ q.end \in Int /\ q.start < q.end
    BY DEF TypeOK, Match, SpansOK, Valid
<1>2. r.end <= q.start \/ q.end <= r.start
    BY DEF RegionsDisjoint, Disjoint
<1>3. ~(r.start < q.start)
    BY DEF Rightmost, Before
<1> QED
    BY <1>1, <1>2, <1>3

LEMMA RewriteKeptByTransform ==
    ASSUME Inductive, SpansOK, RewriteOK, NEW r \in todo, TransformNext(r)
    PROVE  RewriteOK'
<1>0. /\ TypeOK /\ RegionsDisjoint /\ phase = "transform" /\ phase' = phase
      /\ r \in effective /\ Valid(r) /\ Rightmost(r) /\ todo' = todo \ {r}
      /\ effective' = effective /\ policy' = policy /\ maskOnReroute' = maskOnReroute
      /\ TextLength \in Nat
      /\ todo \subseteq effective
      /\ \A q \in todo : \A w \in effective \ todo : q.end <= w.start
      /\ text \in Seq(0..TextLength)
      /\ \A q \in todo : q.end <= Len(text) /\ \A i \in 1..q.end : text[i] = i
      /\ \A p \in 1..TextLength : p \in KeptSoFar <=> \E i \in 1..Len(text) : text[i] = p
      /\ Ordered(text)
      /\ \A w \in effective \ todo : Rewrites(w.entity) =>
           \E k \in 0..(Len(text) - Hidden(w).new) :
               StandsAt(text, Hidden(w).start, Hidden(w).new, k)
    BY PlannerAssumption DEF Inductive, ResolveOK, SpansOK, RewriteOK, TransformNext, inputVars
<1>1. \A w : (Rewrites(w.entity)' <=> Rewrites(w.entity)) /\ Hidden(w)' = Hidden(w)
    BY <1>0 DEF Rewrites, Hidden
<1>2. \A w : w \in effective' \ todo' <=> w = r \/ w \in effective \ todo
    BY <1>0
<1>3. \A q \in todo' : q.end <= r.start /\ q \in todo
    BY <1>0, RightmostIsBehind
<1>4. \A q \in todo' : \A w \in effective' \ todo' : q.end <= w.start
    BY <1>0, <1>2, <1>3
<1>5. \A p \in 1..TextLength : p \in KeptSoFar' <=>
        p \in KeptSoFar /\ (Rewrites(r.entity) => ~(Hidden(r).start < p /\ p <= Hidden(r).end))
    BY <1>1, <1>2 DEF KeptSoFar
<1>6. CASE ~Rewrites(r.entity)
  <2>1. text' = text
      BY <1>6 DEF TransformNext
  <2>2. \A w \in effective' \ todo' : Rewrites(w.entity)' =>
          \E k \in 0..(Len(text) - Hidden(w).new) :
              StandsAt(text, Hidden(w).start, Hidden(w).new, k)
      BY <1>0, <1>1, <1>2, <1>6
  <2>3. \A p \in 1..TextLength : p \in KeptSoFar' <=> \E i \in 1..Len(text) : text[i] = p
      BY <1>0, <1>5, <1>6
  <2> QED
      BY <1>0, <1>1, <1>3, <1>4, <2>1, <2>2, <2>3 DEF RewriteOK, Ordered, StandsAt
<1>7. CASE Rewrites(r.entity)
  <2> DEFINE a == Hidden(r).start
             b == Hidden(r).end
             n == Hidden(r).new
             t == text
             u == text'
  <2>1. /\ r.start \in Nat /\ a \in Nat /\ b \in Nat /\ n \in Nat
        /\ r.start <= a /\ a <= b /\ b <= r.end /\ r.end \in Nat
      BY <1>0, HiddenInside
  <2>2. Edited(t, u, a, b, n)
      BY <1>0, <1>7, HiddenReplaced
  <2>3. r.end <= Len(t) /\ Len(t) \in Nat /\ (\A i \in 1..r.end : t[i] = i)
      BY <1>0
  <2>4. b <= Len(t) /\ \A i \in 1..b : t[i] = i
      BY <2>1, <2>3
  <2> HIDE DEF a, b, n
  <2>5. /\ Ordered(u)
        /\ \A p \in 1..TextLength :
             (\E i \in 1..Len(u) : u[i] = p)
               <=> (\E i \in 1..Len(t) : t[i] = p) /\ ~(a < p /\ p <= b)
        /\ a \in 0..(Len(u) - n) /\ StandsAt(u, a, n, a)
        /\ \A c, m \in Nat : b <= c =>
             \A k \in 0..(Len(t) - m) : StandsAt(t, c, m, k) =>
               \E j \in 0..(Len(u) - m) : StandsAt(u, c, m, j)
    <3>1. t \in Seq(0..TextLength) /\ Ordered(t)
        BY <1>0
    <3> HIDE DEF t, u
    <3> QED
        BY <2>1, <2>2, <2>4, <3>1, EditKeeps
  <2>6. u \in Seq(0..TextLength) /\ a <= Len(u) /\ \A i \in 1..a : u[i] = t[i]
      BY <2>1, <2>2, <2>3, <2>4 DEF Edited
  <2>7. ASSUME NEW q \in todo' PROVE q.end <= Len(u) /\ \A i \in 1..q.end : u[i] = i
    <3>1. q.end \in Int /\ q.end <= a
        BY <1>0, <1>3, <2>1 DEF TypeOK, Match
    <3>2. \A i \in 1..q.end : i \in 1..a /\ i \in 1..r.end
        BY <2>1, <3>1
    <3> QED
        BY <2>1, <2>3, <2>6, <3>1, <3>2
  <2>8. \A p \in 1..TextLength : p \in KeptSoFar' <=> \E i \in 1..Len(u) : u[i] = p
      BY <1>0, <1>5, <1>7, <2>5 DEF a, b
  <2>9. ASSUME NEW w \in effective' \ todo', Rewrites(w.entity)'
        PROVE  \E k \in 0..(Len(u) - Hidden(w)'.new) :
                   StandsAt(u, Hidden(w)'.start, Hidden(w)'.new, k)
    <3>1. CASE w = r
        BY <1>1, <2>5, <3>1 DEF a, n
    <3>2. CASE w \in effective \ todo
      <4>1. Rewrites(w.entity) /\ Valid(w)
          BY <1>1, <2>9, <3>2 DEF SpansOK
      <4>2. PICK k \in 0..(Len(t) - Hidden(w).new) :
                StandsAt(t, Hidden(w).start, Hidden(w).new, k)
          BY <1>0, <3>2, <4>1
      <4>3. /\ w.start \in Nat /\ Hidden(w).start \in Nat /\ Hidden(w).new \in Nat
            /\ w.start <= Hidden(w).start
          BY <1>0, <3>2, <4>1, HiddenInside
      <4>4. b <= Hidden(w).start
        <5>1. r.end <= w.start
            BY <1>0, <3>2
        <5> QED
            BY <2>1, <4>3, <5>1
      <4> QED
          BY <1>1, <2>5, <4>2, <4>3, <4>4
    <3> QED
        BY <1>2, <3>1, <3>2
  <2> QED
      BY <1>0, <1>1, <1>4, <2>5, <2>6, <2>7, <2>8, <2>9 DEF RewriteOK, Ordered, StandsAt
<1> QED
    BY <1>6, <1>7

LEMMA RewriteKept ==
    ASSUME Inductive, SpansOK, RewriteOK, [Next]_vars
    PROVE  RewriteOK'
<1>1. CASE EndResolve
  <2>0. /\ phase' = (IF Blocked THEN "blocked" ELSE "transform")
        /\ todo' = (IF Blocked THEN {} ELSE effective)
        /\ effective' = effective /\ text' = [i \in 1..TextLength |-> i]
        /\ TextLength \in Nat
      BY <1>1, PlannerAssumption DEF EndResolve, Inductive, VerdictOK
  <2>1. CASE Blocked
      BY <2>0, <2>1 DEF RewriteOK
  <2>2. CASE ~Blocked
    <3>1. todo' = effective' /\ effective' \ todo' = {} /\ phase' = "transform"
        BY <2>0, <2>2
    <3>2. /\ text' \in Seq(0..TextLength) /\ Len(text') = TextLength
          /\ \A i \in 1..TextLength : text'[i] = i
        BY <2>0
    <3>3. \A q \in todo' : q.end <= Len(text') /\ \A i \in 1..q.end : text'[i] = i
      <4> SUFFICES ASSUME NEW q \in effective
                   PROVE  q.end <= TextLength /\ \A i \in 1..q.end : text'[i] = i
          BY <2>0, <3>1, <3>2
      <4>1. q.end <= TextLength /\ q.end \in Int
          BY DEF SpansOK, Valid, Inductive, TypeOK, Match
      <4> QED
          BY <2>0, <3>2, <4>1
    <3>4. \A p \in 1..TextLength : p \in KeptSoFar' <=> \E i \in 1..Len(text') : text'[i] = p
        BY <3>1, <3>2 DEF KeptSoFar
    <3>5. Ordered(text)'
        BY <2>0, <3>2 DEF Ordered
    <3> QED
        BY <3>1, <3>2, <3>3, <3>4, <3>5 DEF RewriteOK
  <2> QED
      BY <2>1, <2>2
<1>2. CASE EndTransform
    BY <1>2 DEF EndTransform, RewriteOK, KeptSoFar, Rewrites, Hidden, Ordered, StandsAt, inputVars
<1>3. CASE UNCHANGED vars
    BY <1>3 DEF vars, RewriteOK, KeptSoFar, Rewrites, Hidden, Ordered, StandsAt
<1>4. CASE phase' \notin {"transform", "done"}
    BY <1>4 DEF RewriteOK
<1>5. CASE \/ ValidateSpans \/ CloseLogical \/ EndCoalesce \/ CloseRegion
           \/ \E m \in todo : CoalesceNext(m) \/ ResolveNext(m)
    BY <1>4, <1>5 DEF ValidateSpans, CloseLogical, EndCoalesce, CloseRegion, CoalesceNext, ResolveNext
<1> QED
    BY <1>1, <1>2, <1>3, <1>5, RewriteKeptByTransform DEF Next, Terminated

LEMMA RewritingHolds == Spec => [](Inductive /\ SpansOK /\ RewriteOK)
<1>1. Init => SpansOK /\ RewriteOK
    BY DEF Init, SpansOK, RewriteOK
<1>2. Inductive /\ SpansOK /\ RewriteOK /\ [Next]_vars => (SpansOK /\ RewriteOK)'
    BY SpansKept, RewriteKept
<1> QED
    BY <1>1, <1>2, InitEstablishes, NextPreserves, PTL DEF Spec

\* As many original characters stand before the new ones of a region as are
\* kept before it.
LEMMA AsManyBefore ==
    ASSUME text \in Seq(0..TextLength), Ordered(text),
           \A p \in 1..TextLength : p \in Kept <=> \E i \in 1..Len(text) : text[i] = p,
           NEW c \in Nat, NEW m \in Nat, NEW k \in 0..(Len(text) - m), StandsAt(text, c, m, k)
    PROVE  Cardinality({i \in 1..k : text[i] # 0}) = Cardinality({p \in Kept : p <= c})
<1> DEFINE S == {i \in 1..k : text[i] # 0}
           T == {p \in Kept : p <= c}
           f == [i \in S |-> text[i]]
<1>0. /\ Len(text) \in Nat /\ k \in Nat /\ k <= Len(text)
      /\ \A i \in 1..Len(text) : text[i] \in 0..TextLength
      /\ \A i \in 1..Len(text) : text[i] \in Nat /\ (text[i] # 0 => text[i] \in 1..TextLength)
      /\ TextLength \in Nat
    BY PlannerAssumption
<1>1. \A i \in S : i \in 1..Len(text) /\ i \in 1..k /\ text[i] # 0
    BY <1>0
<1>2. \A i \in S : text[i] \in T
    BY <1>0, <1>1 DEF StandsAt
<1>3. f \in [S -> T]
    BY <1>2
<1>4. ASSUME NEW i \in S, NEW j \in S, f[i] = f[j] PROVE i = j
  <2>1. /\ i \in 1..Len(text) /\ j \in 1..Len(text)
        /\ text[i] # 0 /\ text[j] # 0 /\ text[i] = text[j] /\ text[i] \in Nat
      BY <1>0, <1>1, <1>4
  <2> HIDE DEF S, f
  <2>2. ~(i < j) /\ ~(j < i)
      BY <2>1 DEF Ordered
  <2> QED
      BY <1>0, <2>1, <2>2
<1>5. ASSUME NEW p \in T PROVE \E i \in S : f[i] = p
  <2>1. p \in 1..TextLength /\ p # 0 /\ p <= c /\ p \in Kept
      BY <1>0 DEF Kept
  <2>2. PICK i \in 1..Len(text) : text[i] = p
      BY <2>1
  <2>3. i \in 1..k
    <3> SUFFICES ASSUME ~(i <= k) PROVE FALSE
        BY <1>0
    <3>1. i \in (k + 1)..Len(text)
        BY <1>0
    <3>2. c < p
        BY <2>1, <2>2, <3>1 DEF StandsAt
    <3> QED
        BY <2>1, <3>2
  <2> QED
      BY <2>1, <2>2, <2>3
<1>6. IsFiniteSet(S)
  <2>1. IsFiniteSet(1..k)
      BY <1>0, FS_Interval
  <2> QED
      BY <2>1, FS_Subset
<1>7. ExistsBijection(S, T)
    BY <1>3, <1>4, <1>5
    DEF ExistsBijection, Bijection, Injection, Surjection, IsInjective
<1> QED
    BY <1>6, <1>7, FS_Bijection

\* The offsets are right at every replacement of _transform, for any text,
\* policy and detections: the leaf that comes out holds exactly the characters
\* no region hides, in their order, and each region's new characters in its
\* place.
THEOREM TextAlwaysFollowsPlan == Spec => []TextFollowsPlan
<1>1. Inductive /\ SpansOK /\ RewriteOK => TextFollowsPlan
  <2> SUFFICES ASSUME Inductive, SpansOK, RewriteOK, phase = "done" PROVE TextFollowsPlan
      BY DEF TextFollowsPlan
  <2>0. /\ todo = {} /\ text \in Seq(0..TextLength) /\ Ordered(text) /\ TypeOK
        /\ \A p \in 1..TextLength : p \in KeptSoFar <=> \E i \in 1..Len(text) : text[i] = p
        /\ \A r \in effective : Rewrites(r.entity) =>
             \E k \in 0..(Len(text) - Hidden(r).new) :
                 StandsAt(text, Hidden(r).start, Hidden(r).new, k)
      BY DEF RewriteOK, Inductive
  <2>1. KeptSoFar = Kept
      BY <2>0 DEF KeptSoFar, Kept
  <2>2. \A i \in 1..Len(text) : text[i] # 0 => text[i] \in 1..TextLength
      BY <2>0, PlannerAssumption
  <2>3. {text[i] : i \in 1..Len(text)} \ {0} = Kept
    <3>1. \A p : p \in Kept => p \in 1..TextLength /\ p # 0
        BY PlannerAssumption DEF Kept
    <3> QED
        BY <2>0, <2>1, <2>2, <3>1
  <2>4. ASSUME NEW r \in effective, Rewrites(r.entity)
        PROVE  \E k \in 0..(Len(text) - Hidden(r).new) :
                   /\ \A i \in 1..Hidden(r).new : text[k + i] = 0
                   /\ Cardinality({i \in 1..k : text[i] # 0})
                        = Cardinality({p \in Kept : p <= Hidden(r).start})
    <3>1. PICK k \in 0..(Len(text) - Hidden(r).new) :
              StandsAt(text, Hidden(r).start, Hidden(r).new, k)
        BY <2>0, <2>4
    <3>2. Hidden(r).start \in Nat /\ Hidden(r).new \in Nat
        BY <2>0, HiddenInside DEF SpansOK
    <3>3. Cardinality({i \in 1..k : text[i] # 0})
            = Cardinality({p \in Kept : p <= Hidden(r).start})
        BY <2>0, <2>1, <3>1, <3>2, AsManyBefore
    <3> QED
        BY <3>1, <3>3 DEF StandsAt
  <2> QED
      BY <2>0, <2>3, <2>4 DEF TextFollowsPlan, Ordered
<1> QED
    BY <1>1, RewritingHolds, PTL

=============================================================================
