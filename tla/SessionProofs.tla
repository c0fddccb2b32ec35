---------------------------- MODULE SessionProofs ----------------------------
(***************************************************************************)
(* Session taint is sticky for any number of concurrent requests, sessions *)
(* and route classes.                                                      *)
(***************************************************************************)
EXTENDS Session, TLAPS

Results == Verdicts \union {Error}

\* The fields of a result.
LEMMA ResultFields ==
    ASSUME NEW v \in Results
    PROVE  /\ v.decision \in {"allow", "block", "reroute", "error"}
           /\ v.decision = "block" => v.route = None
           /\ v.decision = "reroute" => v.route \in Routes
  BY DEF Results, Verdicts, Allow, Block, Reroute, Error

\* The fields of a stored decision, and the answer it gives.
LEMMA DecisionFields ==
    ASSUME NEW d \in Decision
    PROVE  /\ d.kind \in Kinds
           /\ d.decision \in {"block", "reroute"}
           /\ d.decision = "reroute" => d.route \in Routes
           /\ d.kind = "mcp" => d.decision = "block"
           /\ d = [kind |-> d.kind, decision |-> d.decision, route |-> d.route]
           /\ [decision |-> d.decision, route |-> d.route] \in Results
<1>1. /\ d \in [kind : Kinds, decision : {"block", "reroute"}, route : Routes \union {None}]
      /\ d.decision = "block" <=> d.route = None
      /\ d.kind = "mcp" => d.decision = "block"
  BY DEF Decision
<1>2. CASE d.decision = "block"
  BY <1>1, <1>2 DEF Results, Verdicts, Block
<1>3. CASE d.decision = "reroute"
  <2>1. d.route \in Routes
    BY <1>1, <1>3
  <2>2. [decision |-> d.decision, route |-> d.route] = Reroute(d.route)
    BY <1>3 DEF Reroute
  <2>. QED
    BY <1>1, <1>3, <2>1, <2>2 DEF Results, Verdicts
<1>. QED
  BY <1>1, <1>2, <1>3

\* What SET writes passes the validators and is not None.
LEMMA StoredIsDecision ==
    ASSUME NEW i \in Inputs, NEW v \in Results,
           v.decision \in {"block", "reroute"}, KindAllows(i, v)
    PROVE  Stored(i, v) \in Decision /\ Stored(i, v) # None
<1>1. i.kind \in Kinds
  BY DEF Inputs
<1>2. v.decision = "block" => v.route = None
  BY ResultFields
<1>3. v.decision = "reroute" => v.route \in Routes /\ v.route # None
  BY ResultFields, SessionAssumption
<1>4. Stored(i, v) \in Decision
  BY <1>1, <1>2, <1>3 DEF Stored, Decision, KindAllows, Kinds
<1>. QED
  BY <1>4, SessionAssumption

\* An answer only ever strengthens what has been told in the session.
LEMMA AnswerTold ==
    ASSUME TypeOK, NEW r \in Requests, NEW v \in Results, Answer(r, v),
           UsesSession(input[r]) => input[r].key \in Sessions
    PROVE  /\ at' \in [Requests -> {"idle", "reading", "scanning", "persisting", "answered"}]
           /\ result' \in [Requests -> Verdicts \union {Error}]
           /\ told' \in [Sessions -> {"none", "block", "reroute"}]
           /\ \A k \in Sessions : told[k] # "none" => told'[k] # "none"
           /\ \A k \in Sessions : told'[k] # "none" /\ told[k] = "none"
                => UsesSession(input[r]) /\ k = input[r].key /\ v.decision \in {"block", "reroute"}
           /\ at'[r] = "answered" /\ result'[r] = v
           /\ \A q \in Requests \ {r} : at'[q] = at[q] /\ result'[q] = result[q]
<1>1. v.decision \in {"allow", "block", "reroute", "error"}
  BY ResultFields
<1>2. /\ at' = [at EXCEPT ![r] = "answered"]
      /\ result' = [result EXCEPT ![r] = v]
  BY DEF Answer
<1>3. at \in [Requests -> {"idle", "reading", "scanning", "persisting", "answered"}]
      /\ result \in [Requests -> Verdicts \union {Error}]
      /\ told \in [Sessions -> {"none", "block", "reroute"}]
  BY DEF TypeOK
<1>4. /\ at' \in [Requests -> {"idle", "reading", "scanning", "persisting", "answered"}]
      /\ result' \in [Requests -> Verdicts \union {Error}]
      /\ at'[r] = "answered" /\ result'[r] = v
      /\ \A q \in Requests \ {r} : at'[q] = at[q] /\ result'[q] = result[q]
  BY <1>2, <1>3 DEF Results
<1>5. CASE UsesSession(input[r]) /\ Rank(v.decision) > Rank(told[input[r].key])
  <2>1. told' = [told EXCEPT ![input[r].key] = v.decision] /\ input[r].key \in Sessions
    BY <1>5 DEF Answer
  <2>2. v.decision \in {"block", "reroute"}
    BY <1>1, <1>3, <1>5, <2>1 DEF Rank
  <2>. QED
    BY <1>3, <1>4, <1>5, <2>1, <2>2
<1>6. CASE ~(UsesSession(input[r]) /\ Rank(v.decision) > Rank(told[input[r].key]))
  BY <1>3, <1>4, <1>6 DEF Answer
<1>. QED
  BY <1>5, <1>6

\* A step with which a request ends keeps the invariant, when the answer does
\* not go below the floor, what it tells is on record, and every other request
\* that the record changed for is marked stale.
LEMMA AnswerInductive ==
    ASSUME Inductive, NEW r \in Requests, NEW v \in Results, Answer(r, v),
           at[r] \in {"reading", "scanning", "persisting"},
           UNCHANGED <<maskOnReroute, input, cached, floor>>,
           floor[r] # "none" => v.decision # "allow",
           store' \in [Sessions -> Decision \union {None}],
           stale' \in [Requests -> BOOLEAN],
           \A k \in Sessions : store[k] # None => store'[k] # None,
           UsesSession(input[r]) /\ v.decision \in {"block", "reroute"} => store'[input[r].key] # None,
           \A q \in Requests \ {r} :
              at[q] \in {"scanning", "persisting"} /\ UsesSession(input[q]) /\ ~stale'[q]
                => ~stale[q] /\ store'[input[q].key] = store[input[q].key]
    PROVE  Inductive'
<1>1. TypeOK /\ AnsweredTaintIsStored /\ TaintIsSticky /\ \A q \in Requests : RequestOK(q)
  BY DEF Inductive
<1>2. UsesSession(input[r]) => input[r].key \in Sessions
  BY <1>1 DEF RequestOK
<1>3. /\ at' \in [Requests -> {"idle", "reading", "scanning", "persisting", "answered"}]
      /\ result' \in [Requests -> Verdicts \union {Error}]
      /\ told' \in [Sessions -> {"none", "block", "reroute"}]
      /\ \A k \in Sessions : told[k] # "none" => told'[k] # "none"
      /\ \A k \in Sessions : told'[k] # "none" /\ told[k] = "none"
           => UsesSession(input[r]) /\ k = input[r].key /\ v.decision \in {"block", "reroute"}
      /\ at'[r] = "answered" /\ result'[r] = v
      /\ \A q \in Requests \ {r} : at'[q] = at[q] /\ result'[q] = result[q]
  BY <1>1, <1>2, AnswerTold
<1>4. TypeOK'
  BY <1>1, <1>3 DEF TypeOK
<1>5. AnsweredTaintIsStored'
  BY <1>1, <1>3 DEF TypeOK, AnsweredTaintIsStored
<1>6. TaintIsSticky'
  BY <1>1, <1>3 DEF TaintIsSticky
<1>7. ASSUME NEW q \in Requests PROVE RequestOK(q)'
  <2>1. RequestOK(q) /\ UNCHANGED <<input, cached, floor>>
    BY <1>1
  <2>2. CASE q = r
    BY <1>3, <2>1, <2>2 DEF RequestOK
  <2>3. CASE q # r
    <3>1. at'[q] = at[q] /\ result'[q] = result[q]
      BY <1>3, <2>3
    <3>2. at[q] \in {"scanning", "persisting"} /\ UsesSession(input[q]) /\ ~stale'[q]
            => store'[input[q].key] \in {cached[q], None}
      BY <2>1, <2>3 DEF RequestOK
    <3>. QED
      BY <1>3, <2>1, <3>1, <3>2 DEF RequestOK, UsesSession, KindAllows
  <2>. QED
    BY <2>2, <2>3
<1>. QED
  BY <1>4, <1>5, <1>6, <1>7 DEF Inductive

-----------------------------------------------------------------------------
(* Every action keeps the invariant *)

LEMMA ArriveInductive ==
    ASSUME Inductive, NEW r \in Requests, Arrive(r)
    PROVE  Inductive'
<1>1. TypeOK /\ AnsweredTaintIsStored /\ TaintIsSticky /\ \A q \in Requests : RequestOK(q)
  BY DEF Inductive
<1>2. PICK i \in Inputs :
         /\ input' = [input EXCEPT ![r] = i]
         /\ \E refused \in BOOLEAN :
              /\ ~refused => /\ i.caller = "studio" => i.scoped
                             /\ UsesSession(i) => i.key # None
              /\ at' = [at EXCEPT ![r] = IF refused THEN "answered"
                                         ELSE IF UsesSession(i) THEN "reading"
                                         ELSE "scanning"]
         /\ floor' = [floor EXCEPT ![r] = IF UsesSession(i) /\ i.key # None
                                            THEN told[i.key] ELSE "none"]
  BY DEF Arrive
<1>3. /\ cached' = [cached EXCEPT ![r] = None]
      /\ result' = [result EXCEPT ![r] = Error]
      /\ stale' = [stale EXCEPT ![r] = FALSE]
      /\ UNCHANGED <<maskOnReroute, store, told>>
  BY DEF Arrive
<1>4. i.key \in Sessions \union {None}
  BY DEF Inputs
<1>5. PICK refused \in BOOLEAN :
         /\ ~refused => (UsesSession(i) => i.key # None)
         /\ at' = [at EXCEPT ![r] = IF refused THEN "answered"
                                    ELSE IF UsesSession(i) THEN "reading"
                                    ELSE "scanning"]
  BY <1>2
<1>6. TypeOK'
  <2>1. at' \in [Requests -> {"idle", "reading", "scanning", "persisting", "answered"}]
    BY <1>1, <1>5 DEF TypeOK
  <2>2. floor' \in [Requests -> {"none", "block", "reroute"}]
    BY <1>1, <1>2, <1>4 DEF TypeOK
  <2>3. /\ input' \in [Requests -> Inputs]
        /\ cached' \in [Requests -> Decision \union {None}]
        /\ result' \in [Requests -> Verdicts \union {Error}]
        /\ stale' \in [Requests -> BOOLEAN]
    BY <1>1, <1>2, <1>3 DEF TypeOK
  <2>. QED
    BY <1>1, <1>3, <2>1, <2>2, <2>3 DEF TypeOK
<1>7. AnsweredTaintIsStored'
  BY <1>1, <1>3 DEF AnsweredTaintIsStored
<1>8. /\ input'[r] = i /\ cached'[r] = None /\ result'[r] = Error /\ stale'[r] = FALSE
      /\ floor'[r] = IF UsesSession(i) /\ i.key # None THEN told[i.key] ELSE "none"
      /\ at'[r] = IF refused THEN "answered" ELSE IF UsesSession(i) THEN "reading" ELSE "scanning"
  BY <1>1, <1>2, <1>3, <1>5 DEF TypeOK
<1>9. \A q \in Requests \ {r} :
        /\ input'[q] = input[q] /\ cached'[q] = cached[q] /\ result'[q] = result[q]
        /\ stale'[q] = stale[q] /\ floor'[q] = floor[q] /\ at'[q] = at[q]
  BY <1>1, <1>2, <1>3, <1>5 DEF TypeOK
<1>10. TaintIsSticky'
  <2>1. result'[r].decision = "error"
    BY <1>8 DEF Error
  <2>. QED
    BY <1>1, <1>9, <2>1 DEF TaintIsSticky
<1>11. ASSUME NEW q \in Requests PROVE RequestOK(q)'
  <2>1. CASE q = r
    BY <1>3, <1>4, <1>5, <1>8, <2>1 DEF RequestOK
  <2>2. CASE q # r
    BY <1>1, <1>3, <1>9, <2>2 DEF RequestOK
  <2>. QED
    BY <2>1, <2>2
<1>. QED
  BY <1>6, <1>7, <1>10, <1>11 DEF Inductive

\* A request whose Valkey state stays as it is ends with v.
LEMMA PlainAnswerInductive ==
    ASSUME Inductive, NEW r \in Requests, NEW v \in Results, Answer(r, v),
           at[r] \in {"reading", "scanning", "persisting"},
           UNCHANGED <<maskOnReroute, store, input, cached, floor, stale>>,
           floor[r] # "none" => v.decision # "allow",
           UsesSession(input[r]) /\ v.decision \in {"block", "reroute"} => store[input[r].key] # None
    PROVE  Inductive'
<1>1. TypeOK
  BY DEF Inductive
<1>2. /\ store' \in [Sessions -> Decision \union {None}]
      /\ stale' \in [Requests -> BOOLEAN]
  BY <1>1 DEF TypeOK
<1>3. /\ \A k \in Sessions : store[k] # None => store'[k] # None
      /\ UsesSession(input[r]) /\ v.decision \in {"block", "reroute"} => store'[input[r].key] # None
      /\ \A q \in Requests \ {r} :
            at[q] \in {"scanning", "persisting"} /\ UsesSession(input[q]) /\ ~stale'[q]
              => ~stale[q] /\ store'[input[q].key] = store[input[q].key]
  OBVIOUS
<1>. QED
  BY <1>2, <1>3, AnswerInductive

LEMMA FailInductive ==
    ASSUME Inductive, NEW r \in Requests, Fail(r)
    PROVE  Inductive'
<1>1. Error \in Results /\ Error.decision = "error"
  BY DEF Results, Error
<1>2. /\ Answer(r, Error) /\ at[r] \in {"reading", "scanning", "persisting"}
      /\ UNCHANGED <<maskOnReroute, store, input, cached, floor, stale>>
  BY DEF Fail
<1>. QED
  BY <1>1, <1>2, PlainAnswerInductive

LEMMA CachedDecisionInductive ==
    ASSUME Inductive, NEW r \in Requests, CachedDecision(r)
    PROVE  Inductive'
<1> DEFINE i == input[r]
           d == store[i.key]
<1>1. TypeOK /\ AnsweredTaintIsStored /\ TaintIsSticky /\ \A q \in Requests : RequestOK(q)
  BY DEF Inductive
<1>2. /\ at[r] = "reading"
      /\ UNCHANGED <<maskOnReroute, store, input, floor, stale>>
  BY DEF CachedDecision
<1>3. Error \in Results /\ Error.decision = "error"
  BY DEF Results, Error
<1>4. CASE /\ d # None
           /\ d.kind # i.kind
           /\ Answer(r, Error)
           /\ UNCHANGED cached
  BY <1>2, <1>3, <1>4, PlainAnswerInductive
<1>5. CASE /\ d # None
           /\ d.kind = i.kind
           /\ SettledByCache(i, d)
           /\ Answer(r, IF KindAllows(i, d) THEN [decision |-> d.decision, route |-> d.route] ELSE Error)
           /\ UNCHANGED cached
  <2>1. CASE KindAllows(i, d)
    <3> DEFINE v == [decision |-> d.decision, route |-> d.route]
    <3>1. UsesSession(i) /\ i.key \in Sessions
      BY <1>1, <1>2 DEF RequestOK
    <3>2. d \in Decision
      BY <1>1, <1>5, <3>1 DEF TypeOK
    <3>3. v \in Results /\ v.decision \in {"block", "reroute"}
      BY <3>2, DecisionFields
    <3>4. Answer(r, v) /\ UNCHANGED cached
      BY <1>5, <2>1
    <3>5. floor[r] # "none" => v.decision # "allow"
      BY <3>3
    <3>6. UsesSession(input[r]) /\ v.decision \in {"block", "reroute"} => store[input[r].key] # None
      BY <1>5
    <3> HIDE DEF v, i, d
    <3>. QED
      BY <1>2, <3>3, <3>4, <3>5, <3>6, PlainAnswerInductive
  <2>2. CASE ~KindAllows(i, d)
    <3>1. Answer(r, Error) /\ UNCHANGED cached
      BY <1>5, <2>2
    <3>. QED
      BY <1>2, <1>3, <3>1, PlainAnswerInductive
  <2>. QED
    BY <2>1, <2>2
<1>6. CASE /\ d # None => d.kind = i.kind /\ ~SettledByCache(i, d)
           /\ cached' = [cached EXCEPT ![r] = d]
           /\ at' = [at EXCEPT ![r] = "scanning"]
           /\ UNCHANGED <<result, told>>
  <2>1. UsesSession(i) /\ i.key \in Sessions
    BY <1>1, <1>2 DEF RequestOK
  <2>2. d \in Decision \union {None}
    BY <1>1, <2>1 DEF TypeOK
  <2>3. d # None => d.kind = i.kind /\ d.decision = "reroute"
    <3>1. d # None => d.decision \in {"block", "reroute"}
      BY <2>2, DecisionFields
    <3>. QED
      BY <1>6, <3>1 DEF SettledByCache
  <2>4. floor[r] # "none" => d # None
    <3>1. floor[r] # "none" => told[i.key] \in {"block", "reroute"}
      BY <1>1, <2>1 DEF RequestOK, TypeOK
    <3>. QED
      BY <1>1, <2>1, <3>1 DEF AnsweredTaintIsStored
  <2>5. TypeOK'
    BY <1>1, <1>2, <1>6, <2>2 DEF TypeOK
  <2>6. AnsweredTaintIsStored'
    BY <1>1, <1>2, <1>6 DEF AnsweredTaintIsStored
  <2>7. /\ at'[r] = "scanning" /\ cached'[r] = d
        /\ \A q \in Requests \ {r} : at'[q] = at[q] /\ cached'[q] = cached[q]
    BY <1>1, <1>6 DEF TypeOK
  <2>8. TaintIsSticky'
    BY <1>1, <1>2, <1>6, <2>7 DEF TaintIsSticky
  <2>9. ASSUME NEW q \in Requests PROVE RequestOK(q)'
    <3>1. CASE q = r
      BY <1>1, <1>2, <1>6, <2>1, <2>3, <2>4, <2>7, <3>1 DEF RequestOK
    <3>2. CASE q # r
      BY <1>1, <1>2, <1>6, <2>7, <3>2 DEF RequestOK
    <3>. QED
      BY <3>1, <3>2
  <2>. QED
    BY <2>5, <2>6, <2>8, <2>9 DEF Inductive
<1>. QED
  BY <1>4, <1>5, <1>6 DEF CachedDecision

LEMMA AnalyzedInductive ==
    ASSUME Inductive, NEW r \in Requests, Analyzed(r)
    PROVE  Inductive'
<1> DEFINE i == input[r]
           m(v) == ApplyCached(v, cached[r])
<1>1. TypeOK /\ AnsweredTaintIsStored /\ TaintIsSticky /\ \A q \in Requests : RequestOK(q)
  BY DEF Inductive
<1>2. /\ at[r] = "scanning"
      /\ UNCHANGED <<maskOnReroute, store, input, cached, floor, stale>>
  BY DEF Analyzed
<1>3. PICK v \in Verdicts :
        IF ~KindAllows(i, m(v))
          THEN Answer(r, Error)
          ELSE IF UsesSession(i) /\ m(v).decision \in {"block", "reroute"}
                 THEN /\ at' = [at EXCEPT ![r] = "persisting"]
                      /\ result' = [result EXCEPT ![r] = m(v)]
                      /\ UNCHANGED told
                 ELSE Answer(r, m(v))
  BY DEF Analyzed
<1>4. cached[r] \in Decision \union {None}
  BY <1>1 DEF TypeOK
<1>5. v \in Results /\ v.decision \in {"allow", "block", "reroute", "error"}
  BY ResultFields DEF Results
<1>6. cached[r] # None => cached[r].decision = "reroute" /\ cached[r].route \in Routes
  <2>1. cached[r] # None => cached[r].decision = "reroute"
    BY <1>1, <1>2 DEF RequestOK
  <2>. QED
    BY <1>4, <2>1, DecisionFields
<1>7. /\ m(v) \in Results
      /\ m(v) \in Verdicts
      /\ cached[r] # None => m(v).decision \in {"block", "reroute"}
      /\ cached[r] # None /\ m(v).decision = "reroute" => m(v).route = cached[r].route
  <2>1. CASE cached[r] # None /\ v.decision # "block"
    <3>1. m(v) = Reroute(cached[r].route) /\ cached[r].route \in Routes
      BY <1>6, <2>1 DEF ApplyCached
    <3>. QED
      BY <3>1 DEF Results, Verdicts, Reroute
  <2>2. CASE ~(cached[r] # None /\ v.decision # "block")
    <3>1. m(v) = v
      BY <2>2 DEF ApplyCached
    <3>. QED
      BY <1>5, <2>2, <3>1
  <2>. QED
    BY <2>1, <2>2
<1>8. floor[r] # "none" => cached[r] # None
  BY <1>1, <1>2 DEF RequestOK
<1>9. CASE ~KindAllows(i, m(v))
  <2>1. Answer(r, Error)
    BY <1>3, <1>9
  <2>2. Error \in Results /\ Error.decision = "error"
    BY DEF Results, Error
  <2>. QED
    BY <1>2, <2>1, <2>2, PlainAnswerInductive
<1>10. CASE KindAllows(i, m(v)) /\ UsesSession(i) /\ m(v).decision \in {"block", "reroute"}
  <2>1. /\ at' = [at EXCEPT ![r] = "persisting"]
        /\ result' = [result EXCEPT ![r] = m(v)]
        /\ UNCHANGED told
    BY <1>3, <1>10
  <2>2. TypeOK'
    BY <1>1, <1>2, <1>7, <2>1 DEF TypeOK, Results
  <2>3. AnsweredTaintIsStored'
    BY <1>1, <1>2, <2>1 DEF AnsweredTaintIsStored
  <2>4. /\ at'[r] = "persisting" /\ result'[r] = m(v)
        /\ \A q \in Requests \ {r} : at'[q] = at[q] /\ result'[q] = result[q]
    BY <1>1, <2>1 DEF TypeOK
  <2>5. TaintIsSticky'
    BY <1>1, <1>2, <2>4 DEF TaintIsSticky
  <2>6. ASSUME NEW q \in Requests PROVE RequestOK(q)'
    <3>1. CASE q = r
      <4> HIDE DEF m
      <4>. QED
        BY <1>1, <1>2, <1>7, <1>10, <2>1, <2>4, <3>1 DEF RequestOK, KindAllows
    <3>2. CASE q # r
      BY <1>1, <1>2, <2>1, <2>4, <3>2 DEF RequestOK, KindAllows
    <3>. QED
      BY <3>1, <3>2
  <2>. QED
    BY <2>2, <2>3, <2>5, <2>6 DEF Inductive
<1>11. CASE KindAllows(i, m(v)) /\ ~(UsesSession(i) /\ m(v).decision \in {"block", "reroute"})
  <2>1. Answer(r, m(v))
    BY <1>3, <1>11
  <2>2. floor[r] # "none" => m(v).decision # "allow"
    BY <1>7, <1>8
  <2>3. UsesSession(input[r]) /\ m(v).decision \in {"block", "reroute"} => store[input[r].key] # None
    BY <1>11
  <2> HIDE DEF m
  <2>. QED
    BY <1>2, <1>7, <2>1, <2>2, <2>3, PlainAnswerInductive
<1>. QED
  BY <1>9, <1>10, <1>11

\* What the SET of r changes: the record becomes r's, and every other request
\* that has read it is stale.
LEMMA WrittenFacts ==
    ASSUME Inductive, NEW r \in Requests, at[r] = "persisting", Written(r)
    PROVE  /\ store' \in [Sessions -> Decision \union {None}]
           /\ stale' \in [Requests -> BOOLEAN]
           /\ \A k \in Sessions : store[k] # None => store'[k] # None
           /\ store'[input[r].key] # None
           /\ \A q \in Requests \ {r} :
                at[q] \in {"scanning", "persisting"} /\ UsesSession(input[q]) /\ ~stale'[q]
                  => ~stale[q] /\ store'[input[q].key] = store[input[q].key]
<1>1. TypeOK /\ \A q \in Requests : RequestOK(q)
  BY DEF Inductive
<1>2. /\ input[r].key \in Sessions /\ input[r] \in Inputs /\ result[r] \in Results
      /\ result[r].decision \in {"block", "reroute"} /\ KindAllows(input[r], result[r])
  BY <1>1 DEF TypeOK, RequestOK, Results
<1>3. Stored(input[r], result[r]) \in Decision /\ Stored(input[r], result[r]) # None
  BY <1>2, StoredIsDecision
<1>4. /\ store' = [store EXCEPT ![input[r].key] = Stored(input[r], result[r])]
      /\ stale' = [q \in Requests |->
                     stale[q] \/ (q # r /\ at[q] \in {"scanning", "persisting"}
                                  /\ UsesSession(input[q]) /\ input[q].key = input[r].key)]
  BY DEF Written
<1>5. store \in [Sessions -> Decision \union {None}] /\ stale \in [Requests -> BOOLEAN]
  BY <1>1 DEF TypeOK
<1>6. /\ store' \in [Sessions -> Decision \union {None}]
      /\ \A k \in Sessions : store[k] # None => store'[k] # None
      /\ store'[input[r].key] # None
      /\ \A k \in Sessions : k # input[r].key => store'[k] = store[k]
  BY <1>2, <1>3, <1>4, <1>5
<1>7. \A q \in Requests : at[q] \in {"scanning", "persisting"} /\ UsesSession(input[q]) => input[q].key \in Sessions
  BY <1>1 DEF RequestOK
<1>8. stale' \in [Requests -> BOOLEAN]
  BY <1>4, <1>5
<1>9. ASSUME NEW q \in Requests \ {r},
             at[q] \in {"scanning", "persisting"}, UsesSession(input[q]), ~stale'[q]
      PROVE  ~stale[q] /\ store'[input[q].key] = store[input[q].key]
  <2>1. ~stale[q] /\ input[q].key # input[r].key
    BY <1>4, <1>9
  <2>. QED
    BY <1>6, <1>7, <1>9, <2>1
<1>. QED
  BY <1>6, <1>8, <1>9

LEMMA TaintSessionInductive ==
    ASSUME Inductive, NEW r \in Requests, TaintSession(r)
    PROVE  Inductive'
<1>1. /\ at[r] = "persisting" /\ Written(r) /\ Answer(r, result[r])
      /\ UNCHANGED <<maskOnReroute, input, cached, floor>>
  BY DEF TaintSession
<1>2. result[r] \in Results /\ result[r].decision \in {"block", "reroute"}
  BY <1>1 DEF Inductive, TypeOK, RequestOK, Results
<1>3. /\ store' \in [Sessions -> Decision \union {None}]
      /\ stale' \in [Requests -> BOOLEAN]
      /\ \A k \in Sessions : store[k] # None => store'[k] # None
      /\ store'[input[r].key] # None
      /\ \A q \in Requests \ {r} :
           at[q] \in {"scanning", "persisting"} /\ UsesSession(input[q]) /\ ~stale'[q]
             => ~stale[q] /\ store'[input[q].key] = store[input[q].key]
  BY <1>1, WrittenFacts
<1>4. /\ floor[r] # "none" => result[r].decision # "allow"
      /\ UsesSession(input[r]) /\ result[r].decision \in {"block", "reroute"} => store'[input[r].key] # None
  BY <1>2, <1>3
<1>. QED
  BY <1>1, <1>2, <1>3, <1>4, AnswerInductive

LEMMA TaintLostInductive ==
    ASSUME Inductive, NEW r \in Requests, TaintLost(r)
    PROVE  Inductive'
<1>1. /\ at[r] = "persisting" /\ Answer(r, Error)
      /\ UNCHANGED <<maskOnReroute, input, cached, floor>>
  BY DEF TaintLost
<1>2. Error \in Results /\ Error.decision = "error"
  BY DEF Results, Error
<1>3. CASE UNCHANGED <<store, stale>>
  BY <1>1, <1>2, <1>3, PlainAnswerInductive
<1>4. CASE Written(r)
  <2>1. /\ store' \in [Sessions -> Decision \union {None}]
        /\ stale' \in [Requests -> BOOLEAN]
        /\ \A k \in Sessions : store[k] # None => store'[k] # None
        /\ store'[input[r].key] # None
        /\ \A q \in Requests \ {r} :
             at[q] \in {"scanning", "persisting"} /\ UsesSession(input[q]) /\ ~stale'[q]
               => ~stale[q] /\ store'[input[q].key] = store[input[q].key]
    BY <1>1, <1>4, WrittenFacts
  <2>. QED
    BY <1>1, <1>2, <2>1, AnswerInductive
<1>. QED
  BY <1>3, <1>4 DEF TaintLost

LEMMA ExpireInductive ==
    ASSUME Inductive, NEW k \in Sessions, Expire(k)
    PROVE  Inductive'
<1>1. TypeOK /\ AnsweredTaintIsStored /\ TaintIsSticky /\ \A q \in Requests : RequestOK(q)
  BY DEF Inductive
<1>2. /\ store' = [store EXCEPT ![k] = None]
      /\ told' = [told EXCEPT ![k] = "none"]
      /\ floor' = [r \in Requests |->
                     IF UsesSession(input[r]) /\ input[r].key = k THEN "none" ELSE floor[r]]
      /\ UNCHANGED <<maskOnReroute, at, input, cached, result, stale>>
  BY DEF Expire
<1>3. TypeOK'
  BY <1>1, <1>2 DEF TypeOK
<1>4. AnsweredTaintIsStored'
  BY <1>1, <1>2 DEF AnsweredTaintIsStored, TypeOK
<1>5. \A q \in Requests : floor'[q] # "none" => floor'[q] = floor[q] /\ ~(UsesSession(input[q]) /\ input[q].key = k)
  BY <1>2
<1>6. TaintIsSticky'
  BY <1>1, <1>2, <1>5 DEF TaintIsSticky
<1>7. ASSUME NEW q \in Requests PROVE RequestOK(q)'
  <2>1. RequestOK(q)
    BY <1>1
  <2>2. floor'[q] # "none" => /\ floor[q] # "none"
                              /\ UsesSession(input[q])
                              /\ input[q].key \in Sessions
                              /\ told'[input[q].key] # "none"
    BY <1>1, <1>2, <1>5, <2>1 DEF RequestOK, TypeOK
  <2>3. \A j \in Sessions : store'[j] \in {store[j], None}
    BY <1>1, <1>2 DEF TypeOK
  <2>4. at[q] \in {"scanning", "persisting"} /\ UsesSession(input[q]) /\ ~stale[q] => store'[input[q].key] \in {cached[q], None}
    BY <2>1, <2>3 DEF RequestOK
  <2>. QED
    BY <1>2, <2>1, <2>2, <2>4 DEF RequestOK, KindAllows
<1>. QED
  BY <1>3, <1>4, <1>6, <1>7 DEF Inductive

-----------------------------------------------------------------------------
(* The theorems *)

LEMMA InitInductive == Init => Inductive
<1> SUFFICES ASSUME Init PROVE Inductive
  OBVIOUS
<1> DEFINE i0 == [key |-> None, kind |-> "model", caller |-> "studio",
                  scoped |-> TRUE, attachments |-> FALSE]
<1>1. i0 \in Inputs
  BY DEF Inputs, Kinds
<1>2. Error \in Verdicts \union {Error}
  OBVIOUS
<1>3. TypeOK
  BY <1>1, <1>2 DEF Init, TypeOK
<1>4. AnsweredTaintIsStored /\ TaintIsSticky
  BY DEF Init, AnsweredTaintIsStored, TaintIsSticky
<1>5. \A r \in Requests : RequestOK(r)
  BY DEF Init, RequestOK
<1>. QED
  BY <1>3, <1>4, <1>5 DEF Inductive

LEMMA NextInductive == Inductive /\ [Next]_vars => Inductive'
<1> SUFFICES ASSUME Inductive, [Next]_vars PROVE Inductive'
  OBVIOUS
<1>1. CASE UNCHANGED vars
  BY <1>1 DEF vars, Inductive, TypeOK, AnsweredTaintIsStored, TaintIsSticky, RequestOK, UsesSession, KindAllows
<1>2. ASSUME NEW r \in Requests,
             \/ Arrive(r) \/ CachedDecision(r) \/ Analyzed(r)
             \/ TaintSession(r) \/ TaintLost(r) \/ Fail(r)
      PROVE  Inductive'
  BY <1>2, ArriveInductive, CachedDecisionInductive, AnalyzedInductive,
     TaintSessionInductive, TaintLostInductive, FailInductive
<1>3. ASSUME NEW k \in Sessions, Expire(k)
      PROVE  Inductive'
  BY <1>3, ExpireInductive
<1>. QED
  BY <1>1, <1>2, <1>3 DEF Next

\* The inductive invariant holds in every behaviour.
THEOREM InductiveHolds == Spec => []Inductive
  BY InitInductive, NextInductive, PTL DEF Spec

\* Type correctness: everything written to Valkey is a valid decision.
THEOREM TypeCorrect == Spec => []TypeOK
<1>1. Inductive => TypeOK
  BY DEF Inductive
<1>. QED
  BY <1>1, InductiveHolds, PTL

\* Taint sticks, for any number of concurrent requests and sessions.
THEOREM TaintSticks == Spec => []TaintIsSticky
<1>1. Inductive => TaintIsSticky
  BY DEF Inductive
<1>. QED
  BY <1>1, InductiveHolds, PTL

\* A taint that was answered is on record.
THEOREM AnsweredTaintOnRecord == Spec => []AnsweredTaintIsStored
<1>1. Inductive => AnsweredTaintIsStored
  BY DEF Inductive
<1>. QED
  BY <1>1, InductiveHolds, PTL

LEMMA WriteWeakensOnlyIfStale ==
    ASSUME Inductive, NEW r \in Requests, at[r] = "persisting", at'[r] = "answered", Written(r)
    PROVE  WeakenedByStaleOnly
<1> SUFFICES ASSUME NEW k \in Sessions, store[k] # None, store'[k] # None,
                    store'[k] # store[k], store'[k].decision # "block", ~stale[r]
             PROVE  k = input[r].key /\ FALSE
  <2>1. ASSUME NEW k \in Sessions, store[k] # None, store'[k] # None,
               store'[k] # store[k], store'[k].decision # "block"
        PROVE  k = input[r].key
    BY <2>1 DEF Written, Inductive, TypeOK
  <2>. QED
    BY <2>1 DEF WeakenedByStaleOnly
<1>1. TypeOK /\ RequestOK(r)
  BY DEF Inductive
<1>2. k = input[r].key
  BY <1>1 DEF Written, TypeOK
<1>3. store'[k] = [kind |-> input[r].kind, decision |-> result[r].decision, route |-> result[r].route]
  BY <1>1, <1>2 DEF Written, Stored, TypeOK
<1>4. result[r].decision = "reroute"
  BY <1>1, <1>3 DEF RequestOK
<1>5. store[k] = cached[r] /\ cached[r] # None
  BY <1>1, <1>2 DEF RequestOK
<1>6. /\ cached[r].kind = input[r].kind /\ cached[r].decision = "reroute"
      /\ cached[r].route = result[r].route
  BY <1>1, <1>4, <1>5 DEF RequestOK
<1>7. cached[r] = [kind |-> cached[r].kind, decision |-> cached[r].decision, route |-> cached[r].route]
  <2>1. cached[r] \in Decision
    BY <1>1, <1>5 DEF TypeOK
  <2>. QED
    BY <2>1, DecisionFields
<1>. QED
  BY <1>3, <1>4, <1>5, <1>6, <1>7

LEMMA StepWeakensOnlyIfStale == Inductive /\ [Next]_vars => [WeakenedByStaleOnly]_vars
<1> SUFFICES ASSUME Inductive, Next PROVE WeakenedByStaleOnly
  OBVIOUS
<1>1. CASE UNCHANGED store
  BY <1>1 DEF WeakenedByStaleOnly
<1>2. ASSUME NEW r \in Requests, TaintSession(r) \/ TaintLost(r) PROVE WeakenedByStaleOnly
  <2>1. at[r] = "persisting" /\ at'[r] = "answered"
    BY <1>2 DEF TaintSession, TaintLost, Answer, Inductive, TypeOK
  <2>2. CASE Written(r)
    BY <2>1, <2>2, WriteWeakensOnlyIfStale
  <2>3. CASE ~Written(r)
    BY <1>1, <1>2, <2>3 DEF TaintSession, TaintLost
  <2>. QED
    BY <2>2, <2>3
<1>3. ASSUME NEW k \in Sessions, Expire(k) PROVE WeakenedByStaleOnly
  <2>1. store' = [store EXCEPT ![k] = None]
    BY <1>3 DEF Expire
  <2>. QED
    BY <2>1 DEF WeakenedByStaleOnly, Inductive, TypeOK
<1>4. ASSUME NEW r \in Requests,
             Arrive(r) \/ CachedDecision(r) \/ Analyzed(r) \/ Fail(r)
      PROVE  WeakenedByStaleOnly
  <2>1. UNCHANGED store
    BY <1>4 DEF Arrive, CachedDecision, Analyzed, Fail
  <2>. QED
    BY <1>1, <2>1
<1>. QED
  BY <1>2, <1>3, <1>4 DEF Next

\* A decision on record is weakened only by a request that read the session
\* before the record was written.
THEOREM OnlyStaleWritersTakeBack == Spec => OnlyStaleWritersWeaken
  BY InductiveHolds, StepWeakensOnlyIfStale, PTL DEF Spec, OnlyStaleWritersWeaken

=============================================================================
