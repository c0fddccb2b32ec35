------------------------------- MODULE Planner -------------------------------
(***************************************************************************)
(* ActionPlanner: from the detections in one text leaf to the rewritten    *)
(* leaf.                                                                   *)
(*                                                                         *)
(* Detections of one entity type that overlap are coalesced; what then     *)
(* still overlaps, across types, becomes one region that its strictest     *)
(* member owns; the regions are rewritten from right to left, so that the  *)
(* offsets of those to come stay valid.  Each sweep takes one match per    *)
(* step, in the order of the sort the code does first.                     *)
(*                                                                         *)
(* Offsets are Python's: 0-based, the end excluded.  Score and source are  *)
(* left out: they only break ties, which are left open here.               *)
(***************************************************************************)
EXTENDS Actions, Sequences, FiniteSets

CONSTANTS Entities,         \* entity types
          PolicyActions,    \* the actions policies choose from
          TextLength,       \* characters of the leaf
          NewLength,        \* characters of a replacement, hash or placeholder
          CharsToMask,      \* characters that a mask hides, at most
          FromEnd,          \* whether it hides the last ones or the first
          Inputs            \* sets of detections an analyzer may return

Match == [entity : Entities, start : Int, end : Int]

ASSUME PlannerAssumption ==
    /\ PolicyActions \subseteq DOMAIN Strictness
    /\ TextLength \in Nat
    /\ NewLength \in Nat
    /\ CharsToMask \in Nat
    /\ FromEnd \in BOOLEAN
    /\ Inputs \subseteq SUBSET Match

VARIABLES policy,          \* the configured or default action of each entity type
          rerouteAsBlock,  \* the request is an MCP request
          maskOnReroute,   \* policy.pii.mask_on_reroute
          matches,         \* what the analyzer returned
          phase,           \* the sweep under way, or how it ended
          todo,            \* matches the sweep has still to take
          group,           \* the open group of overlapping matches
          from, upTo,      \* its first offset, and group_end
          logical,         \* coalesced detections
          effective,       \* regions with the entity type that owns each
          text             \* the leaf: original characters by number, 0 for new ones

inputVars == <<policy, rerouteAsBlock, maskOnReroute, matches>>
vars == <<policy, rerouteAsBlock, maskOnReroute, matches, phase, todo, group, from, upTo,
          logical, effective, text>>

\* _effective_action
EffectiveAction(e) ==
    IF rerouteAsBlock /\ policy[e] = "reroute" THEN "block" ELSE policy[e]

Strict(e) == Strictness[EffectiveAction(e)]

\* The sort by start, then end.
Before(m, n) == m.start < n.start \/ (m.start = n.start /\ m.end < n.end)

Init ==
    /\ policy \in [Entities -> PolicyActions]
    /\ rerouteAsBlock \in BOOLEAN
    /\ maskOnReroute \in BOOLEAN
    /\ matches \in Inputs
    /\ phase = "validate"
    /\ todo = {}
    /\ group = {}
    /\ from = 0
    /\ upTo = 0
    /\ logical = {}
    /\ effective = {}
    /\ text = [i \in 1..TextLength |-> i]

Valid(m) == 0 <= m.start /\ m.start < m.end /\ m.end <= TextLength

\* _validate_spans: one bad span fails the analysis.
ValidateSpans ==
    /\ phase = "validate"
    /\ IF \A m \in matches : Valid(m)
         THEN phase' = "coalesce" /\ todo' = matches
         ELSE phase' = "rejected" /\ UNCHANGED todo
    /\ UNCHANGED <<inputVars, group, from, upTo, logical, effective, text>>

-----------------------------------------------------------------------------
(* The two sweeps *)

\* A mutation of Extended: group_end is that of the last match.
ExtendedToLast(m) ==
    /\ group' = group \union {m}
    /\ from' = IF group = {} THEN m.start ELSE from
    /\ upTo' = m.end

\* The open group takes m in.
Extended(m) ==
    /\ group' = group \union {m}
    /\ from' = IF group = {} \/ m.start < from THEN m.start ELSE from
    /\ upTo' = IF group = {} \/ m.end > upTo THEN m.end ELSE upTo

\* A mutation of Separate: group_end is taken for the last offset of the group.
SeparateTooSoon(m) == m.start >= upTo - 1

\* m does not overlap the open group.
Separate(m) == m.start >= upTo

\* _coalesce_same_entity takes the next match of the entity type under way.
CoalesceNext(m) ==
    /\ phase = "coalesce"
    /\ m \in todo
    /\ \A n \in todo : n.entity = m.entity => ~Before(n, m)
    /\ \A n \in group : n.entity = m.entity
    /\ group # {} => ~Separate(m)
    /\ todo' = todo \ {m}
    /\ Extended(m)
    /\ UNCHANGED <<inputVars, phase, logical, effective, text>>

\* _coalesced: the next match of the type does not overlap, or was the last.
\* The widest member is the owner.
CloseLogical ==
    /\ phase = "coalesce"
    /\ \E owner \in group :
         /\ \A n \in group : n.end - n.start <= owner.end - owner.start
         /\ \A m \in todo : m.entity = owner.entity => Separate(m)
         /\ logical' = logical \union {[entity |-> owner.entity, start |-> from, end |-> upTo,
                                         width |-> owner.end - owner.start]}
    /\ group' = {}
    /\ UNCHANGED <<inputVars, phase, todo, from, upTo, effective, text>>

EndCoalesce ==
    /\ phase = "coalesce"
    /\ todo = {}
    /\ group = {}
    /\ phase' = "resolve"
    /\ todo' = logical
    /\ UNCHANGED <<inputVars, group, from, upTo, logical, effective, text>>

\* _resolve_matches takes the next logical detection of any type.
ResolveNext(m) ==
    /\ phase = "resolve"
    /\ m \in todo
    /\ \A n \in todo : ~Before(n, m)
    /\ group # {} => ~Separate(m)
    /\ todo' = todo \ {m}
    /\ Extended(m)
    /\ UNCHANGED <<inputVars, phase, logical, effective, text>>

\* A mutation of Wins: the wider detection wins, then the stricter.
WinsByWidth(w, n) ==
    w.width > n.width \/ (w.width = n.width /\ Strict(w.entity) >= Strict(n.entity))

\* _resolve_group: the stricter action wins, then the wider owner.
Wins(w, n) ==
    \/ Strict(w.entity) > Strict(n.entity)
    \/ Strict(w.entity) = Strict(n.entity) /\ w.width >= n.width

CloseRegion ==
    /\ phase = "resolve"
    /\ \A m \in todo : Separate(m)
    /\ \E winner \in group :
         /\ \A n \in group : Wins(winner, n)
         /\ effective' = effective \union {[entity |-> winner.entity, start |-> from,
                                             end |-> upTo]}
    /\ group' = {}
    /\ UNCHANGED <<inputVars, phase, todo, from, upTo, logical, text>>

\* _summarize_effective_actions: a region to block blocks the leaf.
Blocked == \E r \in effective : EffectiveAction(r.entity) = "block"

\* prepare is done; transform is called unless the leaf is blocked.
EndResolve ==
    /\ phase = "resolve"
    /\ todo = {}
    /\ group = {}
    /\ phase' = IF Blocked THEN "blocked" ELSE "transform"
    /\ todo' = IF Blocked THEN {} ELSE effective
    /\ UNCHANGED <<inputVars, group, from, upTo, logical, effective, text>>

-----------------------------------------------------------------------------
(* The transformation *)

\* Whether _transform rewrites a region of this type.
Rewrites(e) ==
    \/ policy[e] \notin {"pass", "block", "reroute"}
    \/ policy[e] = "reroute" /\ maskOnReroute

New(n) == [i \in 1..n |-> 0]

\* text[a:b], which Python cuts at the end of the text
Slice(a, b) == SubSeq(text, a + 1, IF b < Len(text) THEN b ELSE Len(text))

\* Presidio's mask operator hides no more than there is.
Masked(r) == IF CharsToMask < r.end - r.start THEN CharsToMask ELSE r.end - r.start

\* What takes the place of a region (PresidioAnonymizer.apply, and _transform for
\* hashes and placeholders); a rerouted one is masked.
Replacement(r) ==
    CASE policy[r.entity] \in {"mask", "reroute"} ->
           IF FromEnd THEN Slice(r.start, r.end - Masked(r)) \o New(Masked(r))
                      ELSE New(Masked(r)) \o Slice(r.start + Masked(r), r.end)
      [] policy[r.entity] = "redact" -> << >>
      [] OTHER -> New(NewLength)

\* A mutation of Rightmost: from left to right.
Leftmost(r) == \A q \in todo : r.start <= q.start

Rightmost(r) == \A q \in todo : ~Before(r, q)

\* _transform rewrites the rightmost region that is left.
TransformNext(r) ==
    /\ phase = "transform"
    /\ r \in todo
    /\ Rightmost(r)
    /\ todo' = todo \ {r}
    /\ text' = IF Rewrites(r.entity)
                 THEN Slice(0, r.start) \o Replacement(r) \o Slice(r.end, Len(text))
                 ELSE text
    /\ UNCHANGED <<inputVars, phase, group, from, upTo, logical, effective>>

EndTransform ==
    /\ phase = "transform"
    /\ todo = {}
    /\ phase' = "done"
    /\ UNCHANGED <<inputVars, todo, group, from, upTo, logical, effective, text>>

\* The planner has ended; anything else that cannot go on is a deadlock.
Terminated == phase \in {"rejected", "blocked", "done"} /\ UNCHANGED vars

Next ==
    \/ ValidateSpans
    \/ \E m \in todo : CoalesceNext(m) \/ ResolveNext(m) \/ TransformNext(m)
    \/ CloseLogical
    \/ EndCoalesce
    \/ CloseRegion
    \/ EndResolve
    \/ EndTransform
    \/ Terminated

Spec == Init /\ [][Next]_vars

-----------------------------------------------------------------------------
(* Properties *)

Resolved == phase \in {"transform", "blocked", "done"}

Inside(m, r) == r.start <= m.start /\ m.end <= r.end

\* Every detection, however it overlaps with others, lies in one of the
\* regions, and is treated there at least as strictly as its own type demands
\* ("resolves overlaps using the strictest action").
StrictestWins ==
    Resolved => \A m \in matches : \E r \in effective :
                    Inside(m, r) /\ Strict(r.entity) >= Strict(m.entity)

Disjoint(r, q) == r.end <= q.start \/ q.end <= r.start

\* No character is rewritten twice: regions do not overlap, and no two are
\* over the same characters (_resolve_matches).
RegionsDisjoint == \A r, q \in effective : r # q => Disjoint(r, q)

\* Every character from offset a up to offset b belongs to a detection.
Detected(a, b) ==
    \A p \in 0..(TextLength - 1) :
        a <= p /\ p < b => \E m \in matches : m.start <= p /\ p < m.end

\* Regions do not reach beyond what was detected: each of their characters
\* belongs to a detection.
RegionsTight == \A r \in effective : Detected(r.start, r.end)

\* The two sweeps make regions that can be rewritten one by one: they share no
\* character, and none of them has a character that nobody detected.
RegionsSound == RegionsDisjoint /\ RegionsTight

\* The offsets between which a rewritten region loses its characters, and how
\* many new ones appear there.
Hidden(r) ==
    IF policy[r.entity] \in {"mask", "reroute"}
      THEN LET n == IF CharsToMask < r.end - r.start THEN CharsToMask ELSE r.end - r.start
           IN  IF FromEnd THEN [start |-> r.end - n, end |-> r.end, new |-> n]
                          ELSE [start |-> r.start, end |-> r.start + n, new |-> n]
      ELSE [start |-> r.start, end |-> r.end,
            new |-> IF policy[r.entity] = "redact" THEN 0 ELSE NewLength]

\* The characters that no region hides.
Kept == {p \in 1..TextLength :
            \A r \in effective :
                Rewrites(r.entity) => ~(Hidden(r).start < p /\ p <= Hidden(r).end)}

\* The rewritten leaf holds exactly the characters that are not hidden, in
\* their order, and new ones where characters were hidden, as many as the
\* action calls for: the offsets were right at each replacement (_transform).
TextFollowsPlan ==
    phase = "done" =>
        /\ {text[i] : i \in 1..Len(text)} \ {0} = Kept
        /\ \A i, j \in 1..Len(text) :
               i < j /\ text[i] # 0 /\ text[j] # 0 => text[i] < text[j]
        /\ \A r \in effective : Rewrites(r.entity) =>
               \E k \in 0..(Len(text) - Hidden(r).new) :
                   /\ \A i \in 1..Hidden(r).new : text[k + i] = 0
                   /\ Cardinality({i \in 1..k : text[i] # 0})
                        = Cardinality({p \in Kept : p <= Hidden(r).start})

\* A leaf is blocked exactly if some detection in it demands that, and a
\* blocked leaf is left as it was.
BlockDecides ==
    Resolved =>
        /\ phase = "blocked" <=> \E m \in matches : EffectiveAction(m.entity) = "block"
        /\ phase = "blocked" => text = [i \in 1..TextLength |-> i]

Phases == {"validate", "rejected", "coalesce", "resolve", "transform", "blocked", "done"}

Logical == [entity : Entities, start : Int, end : Int, width : Int]

\* What has been planned has its type.
TypeOK ==
    /\ policy \in [Entities -> PolicyActions]
    /\ rerouteAsBlock \in BOOLEAN
    /\ matches \subseteq Match
    /\ phase \in Phases
    /\ from \in Int
    /\ upTo \in Int
    /\ logical \subseteq Logical
    /\ effective \subseteq Match
    /\ phase = "coalesce" => todo \union group \subseteq matches
    /\ phase = "resolve" => todo \union group \subseteq logical
    /\ phase \notin {"coalesce", "resolve"} => group = {}
    /\ phase \in {"validate", "rejected", "coalesce"} => effective = {}
    /\ phase \in {"validate", "rejected"} => logical = {}

\* The matches that the sweep will compare with the open group.
Ahead == {t \in todo : phase = "coalesce" => \E g \in group : g.entity = t.entity}

\* The open group spans its members without a gap, and what the sweep still
\* has to take begins no earlier.
GroupOK ==
    group # {} =>
        /\ \A g \in group : from <= g.start /\ g.end <= upTo
        /\ Detected(from, upTo)
        /\ \A t \in Ahead : from <= t.start
        /\ phase = "coalesce" => \A g, h \in group : g.entity = h.entity

\* A planned span of some type covers only what was detected, and something of
\* its type was.
Backed(s) ==
    /\ Detected(s.start, s.end)
    /\ \E m \in matches : m.entity = s.entity

\* No detection is lost by coalescing ...
CoalesceOK ==
    /\ phase = "coalesce" =>
         \A m \in matches \ (todo \union group) :
             \E l \in logical : l.entity = m.entity /\ Inside(m, l)
    /\ phase = "resolve" \/ Resolved =>
         \A m \in matches : \E l \in logical : l.entity = m.entity /\ Inside(m, l)
    /\ \A l \in logical : Backed(l)

Covered(l) == \E r \in effective : Inside(l, r) /\ Strict(r.entity) >= Strict(l.entity)

\* ... nor by resolving, and a region ends before the sweep goes on.
ResolveOK ==
    /\ phase = "resolve" => \A l \in logical \ (todo \union group) : Covered(l)
    /\ Resolved => \A l \in logical : Covered(l)
    /\ phase = "resolve" =>
         \A r \in effective :
             /\ \A t \in todo : r.end <= t.start
             /\ group # {} => r.end <= from
    /\ RegionsDisjoint
    /\ \A r \in effective : Backed(r)

\* The verdict is that of the regions, and comes before any rewriting.
VerdictOK ==
    /\ phase = "blocked" => Blocked
    /\ phase \in {"transform", "done"} => ~Blocked
    /\ phase \notin {"transform", "done"} => text = [i \in 1..TextLength |-> i]

\* The inductive invariant behind the properties above.
Inductive == TypeOK /\ GroupOK /\ CoalesceOK /\ ResolveOK /\ VerdictOK

=============================================================================
