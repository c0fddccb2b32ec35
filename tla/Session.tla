------------------------------- MODULE Session -------------------------------
(***************************************************************************)
(* Session taint: how analyze_segments reads and writes the decision that  *)
(* SessionStore keeps in Valkey for one conversation.                      *)
(*                                                                         *)
(* A request reads the stored decision (GETEX), may answer from it, else   *)
(* has its text analysed, merges the stored decision into the result and   *)
(* writes block and reroute results back (SET).  Each Valkey call and the  *)
(* analysis suspend, so requests of one session interleave there; several  *)
(* engine processes share one Valkey in the same way.                      *)
(*                                                                         *)
(* The policy's verdict is left open: any decision for any request.  Only  *)
(* decision, route class and request kind are kept of a result, counts     *)
(* and notices are not: nothing here depends on them.                      *)
(***************************************************************************)
EXTENDS Integers, FiniteSets

CONSTANTS Requests,        \* identities of concurrent requests
          Sessions,        \* trusted session keys
          Routes,          \* route classes of the policy
          None             \* no key, no decision, no route

VARIABLES maskOnReroute,  \* policy.pii.mask_on_reroute, fixed at start
          store,    \* Valkey: per session key a SessionDecision or None
          at,       \* where the request coroutine is
          input,    \* what the request came with
          cached,   \* its local "cached": the decision it read
          result,   \* its local "result", the answer once it is answered
          told,     \* history: the strongest decision answered in a session
          floor,    \* history: told when the request arrived
          stale     \* history: the session was written since the request read it

vars == <<maskOnReroute, store, at, input, cached, result, told, floor, stale>>

Kinds == {"model", "mcp"}

\* A result: decision and route class.  "allow" stands for pass and
\* apply_actions, the two decisions that let the text leave.
Allow == [decision |-> "allow", route |-> None]
Block == [decision |-> "block", route |-> None]
Reroute(c) == [decision |-> "reroute", route |-> c]
Error == [decision |-> "error", route |-> None]

Verdicts == {Allow, Block} \union {Reroute(c) : c \in Routes}

\* SessionDecision as its validators accept it: a block without a route, a
\* reroute with one, and only blocks for MCP.
Decision ==
    {d \in [kind : Kinds, decision : {"block", "reroute"}, route : Routes \union {None}] :
        /\ d.decision = "block" <=> d.route = None
        /\ d.kind = "mcp" => d.decision = "block"}

ASSUME SessionAssumption == None \notin Sessions \union Routes \union Decision

\* What a request comes with.  Key and attachments matter only to the
\* conversation requests of the adapter.
Inputs ==
    [key : Sessions \union {None}, kind : Kinds, caller : {"adapter"},
     scoped : {FALSE}, attachments : BOOLEAN]
      \union
    [key : {None}, kind : Kinds, caller : {"adapter", "studio"},
     scoped : BOOLEAN, attachments : {FALSE}]

\* The requests whose decision is looked up and kept: conversation requests of
\* the adapter.  Studio and document requests never touch the store.
UsesSession(i) == i.caller = "adapter" /\ ~i.scoped

Rank(d) == CASE d = "block" -> 2 [] d = "reroute" -> 1 [] OTHER -> 0

-----------------------------------------------------------------------------

Init ==
    /\ maskOnReroute \in BOOLEAN
    /\ store = [k \in Sessions |-> None]
    /\ at = [r \in Requests |-> "idle"]
    /\ input = [r \in Requests |-> [key |-> None, kind |-> "model", caller |-> "studio",
                                  scoped |-> TRUE, attachments |-> FALSE]]
    /\ cached = [r \in Requests |-> None]
    /\ result = [r \in Requests |-> Error]
    /\ told = [k \in Sessions |-> "none"]
    /\ floor = [r \in Requests |-> "none"]
    /\ stale = [r \in Requests |-> FALSE]

\* The request ends with the result v.
Answer(r, v) ==
    /\ at' = [at EXCEPT ![r] = "answered"]
    /\ result' = [result EXCEPT ![r] = v]
    /\ told' = IF UsesSession(input[r]) /\ Rank(v.decision) > Rank(told[input[r].key])
                 THEN [told EXCEPT ![input[r].key] = v.decision]
                 ELSE told

\* _validate_segment_caller, the key checks and ready(): the request either
\* goes on to its first Valkey call or ends with an error.
Arrive(r) ==
    /\ at[r] \in {"idle", "answered"}
    /\ \E i \in Inputs :
         /\ input' = [input EXCEPT ![r] = i]
         /\ \E refused \in BOOLEAN :
              /\ ~refused => /\ i.caller = "studio" => i.scoped
                             /\ UsesSession(i) => i.key # None
              /\ at' = [at EXCEPT ![r] = IF refused THEN "answered"
                                         ELSE IF UsesSession(i) THEN "reading"
                                         ELSE "scanning"]
         /\ floor' = [floor EXCEPT ![r] = IF UsesSession(i) /\ i.key # None
                                            THEN told[i.key] ELSE "none"]
    /\ cached' = [cached EXCEPT ![r] = None]
    /\ result' = [result EXCEPT ![r] = Error]
    /\ stale' = [stale EXCEPT ![r] = FALSE]
    /\ UNCHANGED <<maskOnReroute, store, told>>

\* _validate_result_kind: an MCP result never selects a model route.
KindAllows(i, v) == i.kind = "mcp" => v.decision # "reroute"

\* _final_cached_result: the stored decision settles the request unread.
SettledByCache(i, d) ==
    \/ d.decision = "block"
    \/ ~i.attachments /\ ~maskOnReroute

\* session.get and what follows it up to the analysis: a stored decision of
\* the other request kind ends the request with an error, a settling one is
\* the answer, otherwise the text is analysed.
CachedDecision(r) ==
    LET i == input[r]
        d == store[i.key]
    IN  /\ at[r] = "reading"
        /\ \/ /\ d # None
              /\ d.kind # i.kind
              /\ Answer(r, Error)
              /\ UNCHANGED cached
           \/ /\ d # None
              /\ d.kind = i.kind
              /\ SettledByCache(i, d)
              /\ Answer(r, IF KindAllows(i, d) THEN [decision |-> d.decision, route |-> d.route]
                           ELSE Error)
              /\ UNCHANGED cached
           \/ /\ d # None => d.kind = i.kind /\ ~SettledByCache(i, d)
              /\ cached' = [cached EXCEPT ![r] = d]
              /\ at' = [at EXCEPT ![r] = "scanning"]
              /\ UNCHANGED <<result, told>>
        /\ UNCHANGED <<maskOnReroute, store, input, floor, stale>>

\* Mutations of ApplyCached: the stored decision is not merged in, or a fresh
\* reroute brings its own route.
ApplyNothing(v, d) == v
ApplyFreshRoute(v, d) ==
    IF d # None /\ d.decision = "reroute" /\ v.decision = "allow"
      THEN Reroute(d.route) ELSE v

\* _apply_cached_decision: a stored reroute stays in force, with its route,
\* over everything but a block.
ApplyCached(v, d) ==
    IF d # None /\ d.decision = "reroute" /\ v.decision # "block"
      THEN Reroute(d.route) ELSE v

\* The analysis returns v: the stored decision is merged in, the kind is
\* checked, and a tainted result goes to the store before it is answered.
Analyzed(r) ==
    /\ at[r] = "scanning"
    /\ \E v \in Verdicts :
         LET merged == ApplyCached(v, cached[r])
             i == input[r]
         IN  IF ~KindAllows(i, merged)
               THEN Answer(r, Error)
               ELSE IF UsesSession(i) /\ merged.decision \in {"block", "reroute"}
                      THEN /\ at' = [at EXCEPT ![r] = "persisting"]
                           /\ result' = [result EXCEPT ![r] = merged]
                           /\ UNCHANGED told
                      ELSE Answer(r, merged)
    /\ UNCHANGED <<maskOnReroute, store, input, cached, floor, stale>>

\* What SET leaves in Valkey.
Stored(i, v) == [kind |-> i.kind, decision |-> v.decision, route |-> v.route]

Written(r) ==
    /\ store' = [store EXCEPT ![input[r].key] = Stored(input[r], result[r])]
    /\ stale' = [q \in Requests |->
                   stale[q] \/ (q # r /\ at[q] \in {"scanning", "persisting"}
                                /\ UsesSession(input[q]) /\ input[q].key = input[r].key)]

\* _taint_session: the SET succeeds and the request is answered.
TaintSession(r) ==
    /\ at[r] = "persisting"
    /\ Written(r)
    /\ Answer(r, result[r])
    /\ UNCHANGED <<maskOnReroute, input, cached, floor>>

\* A mutation of TaintLost: a failed write does not fail the request.
TaintLostIgnored(r) ==
    /\ at[r] = "persisting"
    /\ Written(r) \/ UNCHANGED <<store, stale>>
    /\ Answer(r, result[r])
    /\ UNCHANGED <<maskOnReroute, input, cached, floor>>

\* The SET fails, but Valkey may have carried it out before the reply was lost.
TaintLost(r) ==
    /\ at[r] = "persisting"
    /\ Written(r) \/ UNCHANGED <<store, stale>>
    /\ Answer(r, Error)
    /\ UNCHANGED <<maskOnReroute, input, cached, floor>>

\* Everything else that ends a request: Valkey unreachable on GETEX, no
\* capacity, deadline, cancellation, a failing analysis, a process crash.
Fail(r) ==
    /\ at[r] \in {"reading", "scanning"}
    /\ Answer(r, Error)
    /\ UNCHANGED <<maskOnReroute, store, input, cached, floor, stale>>

\* The time to live runs out.  What was answered before no longer binds.
Expire(k) ==
    /\ store[k] # None
    /\ store' = [store EXCEPT ![k] = None]
    /\ told' = [told EXCEPT ![k] = "none"]
    /\ floor' = [r \in Requests |->
                   IF UsesSession(input[r]) /\ input[r].key = k THEN "none" ELSE floor[r]]
    /\ UNCHANGED <<maskOnReroute, at, input, cached, result, stale>>

Next ==
    \/ \E r \in Requests :
         \/ Arrive(r)
         \/ CachedDecision(r)
         \/ Analyzed(r)
         \/ TaintSession(r)
         \/ TaintLost(r)
         \/ Fail(r)
    \/ \E k \in Sessions : Expire(k)

Spec == Init /\ [][Next]_vars

-----------------------------------------------------------------------------
(* Properties *)

\* Every variable keeps its type; in particular everything written to Valkey
\* passes the validators of SessionDecision, so no later read fails on it.
TypeOK ==
    /\ maskOnReroute \in BOOLEAN
    /\ store \in [Sessions -> Decision \union {None}]
    /\ at \in [Requests -> {"idle", "reading", "scanning", "persisting", "answered"}]
    /\ input \in [Requests -> Inputs]
    /\ cached \in [Requests -> Decision \union {None}]
    /\ result \in [Requests -> Verdicts \union {Error}]
    /\ told \in [Sessions -> {"none", "block", "reroute"}]
    /\ floor \in [Requests -> {"none", "block", "reroute"}]
    /\ stale \in [Requests -> BOOLEAN]

\* Taint sticks: once a block or a reroute has been answered in a session, no
\* request that arrives later is allowed out, whatever its own text contains
\* and however it interleaves with others, until the time to live runs out.
TaintIsSticky ==
    \A r \in Requests :
        at[r] = "answered" /\ floor[r] \in {"block", "reroute"}
            => result[r].decision # "allow"

\* What has been answered is on record: a session in which a block or reroute
\* was answered holds a decision, so no later reader can miss it.
AnsweredTaintIsStored ==
    \A k \in Sessions : told[k] \in {"block", "reroute"} => store[k] # None

WeakenedByStaleOnly ==
    \A k \in Sessions :
        /\ store[k] # None /\ store'[k] # None /\ store'[k] # store[k]
        /\ store'[k].decision # "block"
        => \E r \in Requests : /\ at[r] = "persisting" /\ at'[r] = "answered"
                               /\ input[r].key = k /\ stale[r]

\* A decision on record is weakened, or its route changed, only by a request
\* that read the session before the record was written: requests that follow
\* one another never take a decision back (_apply_cached_decision merges what
\* was read, _taint_session writes the merge).
OnlyStaleWritersWeaken == [][WeakenedByStaleOnly]_vars

\* Where a request stands: under a floor it has read a decision that it will
\* not go below, and as long as it is not stale the store holds what it read,
\* or nothing because that has expired.
RequestOK(r) ==
    /\ at[r] = "reading" => UsesSession(input[r])
    /\ UsesSession(input[r]) /\ at[r] \in {"reading", "scanning", "persisting"}
         => input[r].key \in Sessions
    /\ floor[r] # "none" => /\ UsesSession(input[r])
                            /\ input[r].key \in Sessions
                            /\ told[input[r].key] # "none"
    /\ at[r] \in {"scanning", "persisting"} =>
         /\ cached[r] # None => /\ cached[r].kind = input[r].kind
                                /\ cached[r].decision = "reroute"
         /\ floor[r] # "none" => cached[r] # None
         /\ UsesSession(input[r]) /\ ~stale[r] => store[input[r].key] \in {cached[r], None}
    /\ at[r] = "persisting" =>
         /\ UsesSession(input[r])
         /\ result[r].decision \in {"block", "reroute"}
         /\ KindAllows(input[r], result[r])
         /\ cached[r] # None /\ result[r].decision = "reroute"
              => result[r].route = cached[r].route

\* The inductive invariant behind the properties above.
Inductive ==
    /\ TypeOK
    /\ AnsweredTaintIsStored
    /\ TaintIsSticky
    /\ \A r \in Requests : RequestOK(r)

\* A block sticks: a request that arrives after a block was answered in its
\* session is blocked, or fails.
BlockIsSticky ==
    \A r \in Requests :
        at[r] = "answered" /\ floor[r] = "block" => result[r].decision \in {"block", "error"}

=============================================================================
