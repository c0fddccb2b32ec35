------------------------------ MODULE Windows ------------------------------
(***************************************************************************)
(* How a text that is too long for a model is analysed in windows that     *)
(* overlap, and how what is found in them becomes the findings of the      *)
(* whole text.  There are three ways:                                      *)
(*                                                                         *)
(*   spacy        windows of characters; a window owns a range of its own, *)
(*                and a finding counts only where its midpoint is owned    *)
(*                (_baseline_chunks, PresidioSpacyAnalyzer.analyze)        *)
(*   transformer  windows of tokens (_chunks, PresidioAnalyzer.analyze)    *)
(*   kserve       windows of tokens that are cut again when their text on  *)
(*                its own has too many tokens (token_chunks,               *)
(*                kserve_matches)                                          *)
(*                                                                         *)
(* The text is its length and the places where its tokens start, and it    *)
(* holds one entity.  The model that is asked is external: it finds the    *)
(* entity when all of it is in the window it is given, and of an entity    *)
(* that a window cuts off it may or may not find the part it sees.         *)
(***************************************************************************)
EXTENDS Integers, FiniteSets

CONSTANTS
    SpacyProfiles,   \* max_characters and overlap_characters that occur
    KServeProfiles,  \* window_tokens and overlap_tokens that occur
    ModelLengths,    \* model_max_length of the local tokenizers
    Reserve,         \* tokens kept free for the model (32)
    WindowCap,       \* most tokens in a local window (480)
    OverlapCap,      \* most tokens by which local windows overlap (64)
    CutOverlap,      \* characters by which cut windows overlap (64)
    MaxLength,       \* bound: characters of a text for windows of characters
    MaxTokenLength,  \* bound: characters of a text for windows of tokens
    MaxTokens        \* bound: tokens of a text

\* ModelProfile.validate_limits and the fields of the profile.
Profiles(ps) ==
    \A p \in ps : /\ p = [width |-> p.width, overlap |-> p.overlap]
                  /\ p.width \in Nat \ {0}
                  /\ p.overlap \in 0 .. p.width - 1

ASSUME ProfilesAreValid == Profiles(SpacyProfiles) /\ Profiles(KServeProfiles)

ASSUME LimitsAreNumbers ==
    /\ ModelLengths \subseteq Nat
    /\ {Reserve, WindowCap, OverlapCap, CutOverlap} \subseteq Nat
    /\ {MaxLength, MaxTokenLength, MaxTokens} \subseteq Nat

VARIABLES
    kind,      \* spacy, transformer or kserve
    width,     \* characters or tokens of a window
    overlap,   \* characters or tokens by which windows overlap
    length,    \* len(text)
    offset,    \* where each token starts, a function on 0 .. count - 1
    count,     \* number of tokens
    entity,    \* the entity in the text
    next,      \* where the next window begins: a character or a token
    pending,   \* kserve: windows that have not been sent yet
    results,   \* findings, with offsets in the whole text
    outcome    \* running, done or error

text == <<kind, width, overlap, length, offset, count, entity>>
vars == <<text, next, pending, results, outcome>>

Smaller(i, j) == IF i < j THEN i ELSE j
Larger(i, j) == IF i < j THEN j ELSE i

Spans == [start : Nat, end : Nat]

-----------------------------------------------------------------------------
(***************************************************************************)
(* Windows, and what is found in one.                                      *)
(***************************************************************************)

\* The local windows of a tokenizer; without room for text it is refused.
LocalWidth(n) == Smaller(n - Reserve, WindowCap)
LocalOverlap(n) == Smaller(OverlapCap, LocalWidth(n) \div 4)

\* _baseline_chunks: what the window that begins at next owns, and its text.
OwnedEnd == Smaller(length, next + width)

CharacterWindow ==
    [start |-> Larger(0, next - overlap),
     end |-> Smaller(length, OwnedEnd + overlap)]

\* _chunks and the first loop of token_chunks: from the start of one token to
\* the start of another, with what lies before the first and after the last.
LastTokenWindow == next + width >= count

TokenWindowStart == IF next = 0 THEN 0 ELSE offset[next]

TokenWindow ==
    [start |-> TokenWindowStart,
     end |-> IF LastTokenWindow THEN length ELSE offset[next + width]]

Whole(w) == w.start <= entity.start /\ entity.end <= w.end

Seen(w) == [start |-> Larger(w.start, entity.start),
            end |-> Smaller(w.end, entity.end)]

\* What the model may return for window w, moved to the offsets of the text.
Finds(w) ==
    IF Whole(w) THEN {{entity}}
    ELSE IF Seen(w).start < Seen(w).end THEN {{}, {Seen(w)}}
    ELSE {{}}

\* Mutant: a finding belongs to the window that owns its first character.
OwnedByStart(found) == {s \in found : next <= s.start /\ s.start < OwnedEnd}

Midpoint(s) == (s.start + s.end) \div 2

\* A finding belongs to the window that owns its midpoint.
Owned(found) == {s \in found : next <= Midpoint(s) /\ Midpoint(s) < OwnedEnd}

-----------------------------------------------------------------------------
\* Tokens are in the order of the text; several can start at one character.
Offsets(n, chars) ==
    {f \in [0 .. n - 1 -> 0 .. chars - 1] :
       \A i, j \in 0 .. n - 1 : i <= j => f[i] <= f[j]}

Texts ==
    /\ length \in 0 .. IF kind = "spacy" THEN MaxLength ELSE MaxTokenLength
    /\ count \in IF kind = "spacy" THEN {0} ELSE 0 .. MaxTokens
    /\ offset \in Offsets(count, length)
    /\ entity \in [start : 0 .. length, end : 0 .. length]
    /\ entity.start < entity.end

Init ==
    /\ \/ /\ kind = "spacy"
          /\ \E p \in SpacyProfiles : width = p.width /\ overlap = p.overlap
       \/ /\ kind = "transformer"
          /\ \E n \in ModelLengths : /\ width = LocalWidth(n)
                                     /\ overlap = LocalOverlap(n)
       \/ /\ kind = "kserve"
          /\ \E p \in KServeProfiles : width = p.width /\ overlap = p.overlap
    /\ Texts
    /\ next = 0
    /\ pending = {}
    /\ results = {}
    /\ outcome = "running"

\* One window of characters.
SpacyWindow ==
    /\ kind = "spacy" /\ outcome = "running"
    /\ \E found \in Finds(CharacterWindow) :
         results' = results \union Owned(found)
    /\ next' = next + width
    /\ outcome' = IF next' < length THEN "running" ELSE "done"
    /\ UNCHANGED <<text, pending>>

\* One window of tokens for the local model.
TransformerWindow ==
    /\ kind = "transformer" /\ outcome = "running"
    /\ width > 0
    /\ \E found \in Finds(TokenWindow) : results' = results \union found
    /\ next' = next + width - overlap
    /\ outcome' = IF LastTokenWindow THEN "done" ELSE "running"
    /\ UNCHANGED <<text, pending>>

\* The tokenizer's context leaves no room.
ContextInvalid ==
    /\ kind = "transformer" /\ outcome = "running"
    /\ width <= 0
    /\ outcome' = "error"
    /\ UNCHANGED <<text, next, pending, results>>

\* token_chunks lists the windows of tokens ...
ListWindow ==
    /\ kind = "kserve" /\ outcome = "running"
    /\ next >= 0
    /\ pending' = pending \union {TokenWindow}
    /\ next' = IF LastTokenWindow THEN -1 ELSE next + width - overlap
    /\ UNCHANGED <<text, results, outcome>>

\* ... and yields those that have at most max_tokens on their own; the
\* order in which they are taken makes no difference to the findings.
SendWindow(w) ==
    /\ kind = "kserve" /\ outcome = "running"
    /\ next < 0
    /\ \E found \in Finds(w) : results' = results \union found
    /\ pending' = pending \ {w}
    /\ outcome' = IF pending' = {} THEN "done" ELSE "running"
    /\ UNCHANGED <<text, next>>

\* Mutant: a left part as long as the overlap is let through.
CanCutAtOverlap(w, boundary) ==
    CutOverlap <= boundary /\ boundary < w.end - w.start

\* The place to cut is the end of some token of the window; both parts must
\* be shorter than the window.
CanCut(w, boundary) == CutOverlap < boundary /\ boundary < w.end - w.start

\* A window with too many tokens is cut in two that overlap.
CutWindow(w, boundary) ==
    /\ kind = "kserve" /\ outcome = "running"
    /\ next < 0
    /\ CanCut(w, boundary)
    /\ pending' = (pending \ {w})
         \union {[start |-> w.start, end |-> w.start + boundary],
                 [start |-> w.start + boundary - CutOverlap, end |-> w.end]}
    /\ UNCHANGED <<text, next, results, outcome>>

CutFails(w, boundary) ==
    /\ kind = "kserve" /\ outcome = "running"
    /\ next < 0
    /\ ~CanCut(w, boundary)
    /\ outcome' = "error"
    /\ UNCHANGED <<text, next, pending, results>>

\* The model or the service fails: there are no findings of part of a text.
DetectFails ==
    /\ outcome = "running"
    /\ outcome' = "error"
    /\ UNCHANGED <<text, next, pending, results>>

Next ==
    \/ SpacyWindow \/ TransformerWindow \/ ContextInvalid
    \/ ListWindow
    \/ \E w \in pending : \/ SendWindow(w)
                          \/ \E boundary \in 1 .. w.end - w.start :
                               CutWindow(w, boundary) \/ CutFails(w, boundary)
    \/ DetectFails

Spec == Init /\ [][Next]_vars

\* One thread runs the loop to its end; every call of a model ends.
FairSpec == Spec /\ WF_vars(Next)

-----------------------------------------------------------------------------
(***************************************************************************)
(* Properties.                                                             *)
(***************************************************************************)

\* Every variable has a value of its kind; windows have no more text than
\* there is.
TypeOK ==
    /\ kind \in {"spacy", "transformer", "kserve"}
    /\ width \in Int /\ overlap \in Int
    /\ kind # "transformer" => overlap \in 0 .. width - 1
    /\ kind = "transformer" /\ width > 0 => overlap \in 0 .. width - 1
    /\ length \in Nat /\ count \in Nat
    /\ offset \in Offsets(count, length)
    /\ entity \in Spans
    /\ entity.start < entity.end /\ entity.end <= length
    /\ next \in Int
    /\ pending \subseteq Spans
    /\ results \subseteq Spans
    /\ outcome \in {"running", "done", "error"}

\* Tokens that start strictly inside the entity.
TokensInside ==
    {i \in 0 .. count - 1 : entity.start < offset[i] /\ offset[i] < entity.end}

\* Entities that the overlap of the windows is meant for.
Short ==
    /\ kind = "spacy" => entity.end - entity.start <= 2 * overlap
    /\ kind # "spacy" => Cardinality(TokensInside) <= overlap
    /\ kind = "kserve" => entity.end - entity.start <= CutOverlap

\* Windows lose nothing that is short: wherever the entity lies with respect to
\* the edges of windows and of the windows they were cut into, the analysis
\* that ends reports all of it; and where windows own their text, it reports
\* it once and no part of it beside it.
ShortEntitiesReported ==
    outcome = "done" /\ Short =>
      /\ entity \in results
      /\ kind = "spacy" => results = {entity}

\* Whatever the tokenizer makes of the windows and of their parts, cutting ends.
CuttingEnds == <>(outcome # "running")

-----------------------------------------------------------------------------
(***************************************************************************)
(* The inductive invariant behind ShortEntitiesReported.                   *)
(***************************************************************************)

\* Windows of characters: the entity was reported when the window that owns its
\* midpoint was read, and nothing else ever is.
CharactersOK ==
    kind = "spacy" =>
      /\ next >= 0
      /\ outcome = "done" => next >= length
      /\ Short => results = IF Midpoint(entity) < next THEN {entity} ELSE {}

\* Windows of tokens: the entity is reported, or lies in a window that is still
\* to be sent, or begins no earlier than the next window to be listed.
TokensOK ==
    kind # "spacy" /\ width > 0 /\ outcome = "running" =>
      /\ \/ next = 0 \/ next \in 0 .. count - 1
         \/ kind = "kserve" /\ next = -1
      /\ kind = "transformer" => pending = {}
      /\ Short => \/ entity \in results
                  \/ \E w \in pending : Whole(w)
                  \/ next >= 0 /\ TokenWindowStart <= entity.start

Inductive == TypeOK /\ CharactersOK /\ TokensOK /\ ShortEntitiesReported
=============================================================================
