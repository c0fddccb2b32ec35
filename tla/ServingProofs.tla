---------------------------- MODULE ServingProofs ----------------------------
(***************************************************************************)
(* Proofs about the two parts through which an engine process meets the    *)
(* outside: Front, its HTTP front end, for any number of connections,      *)
(* certificates and requests and any limits (routes work on requests as    *)
(* they were sent, refusals tell the truth, and so do the answers about    *)
(* receipts), and Rollout, the models it is started with, for any number   *)
(* of jobs, engines and bundles.  The two share no state, and neither      *)
(* proof uses the other's assumptions.                                     *)
(***************************************************************************)
EXTENDS Front, Rollout, TLAPS

AnswerType == [code : Codes, limit : Limits]

-----------------------------------------------------------------------------
(***************************************************************************)
(* Answers.                                                                *)
(***************************************************************************)

LEMMA PlainAnswer ==
    ASSUME NEW code \in Codes, NEW k
    PROVE  Answer(code) \in AnswerType /\ LimitTrue(Answer(code), k)
           /\ Answer(code).code = code
BY DEF Answer, AnswerType, Limits, LimitTrue

\* A refusal is an answer, with the measurement if it is about size.
LEMMA RefusalFacts ==
    ASSUME NEW code \in Codes, NEW limit \in Limits
    PROVE  /\ Refusal(code, limit) \in AnswerType
           /\ Refusal(code, limit).code = code
           /\ Refusal(code, limit).limit =
                IF code = "request_too_large" THEN limit ELSE NoLimit
BY DEF Refusal, AnswerType, Limits

\* ... and tells the truth if the measurement does.
LEMMA RefusalTrue ==
    ASSUME NEW code \in Codes, NEW limit \in Limits, NEW k,
           limit # NoLimit =>
             /\ limit.measured > limit.maximum
             /\ limit.reason \in {"declared_bytes", "encoded_bytes"} =>
                  /\ limit.measured <= k.total
                  /\ limit.exact => limit.measured = k.total
    PROVE  LimitTrue(Refusal(code, limit), k)
BY RefusalFacts DEF LimitTrue

LEMMA CallFacts ==
    ASSUME NEW k \in Calls
    PROVE  /\ k.total \in Nat /\ k.digests \in Seq(STRING)
           /\ Len(k.digests) \in Nat
<1>1. k.total \in Nat /\ k.digests \in Seq(STRING)
    BY CallsAreRequests DEF CallType
<1> QED
    BY <1>1

LEMMA LimitsAreNumbers ==
    /\ MaxBytes \in Nat /\ MaxEmptyChunks \in Nat /\ MaxResponse \in Nat
    /\ MaxDigests \in Nat /\ Ttl \in Nat /\ Ttl > 0
BY LimitsAreNatural

\* The answer to a declared length (_declared_error).
LEMMA DeclaredFacts ==
    ASSUME NEW k \in Calls
    PROVE  /\ DeclaredError(k) \in AnswerType
           /\ LimitTrue(DeclaredError(k), k)
           /\ DeclaredError(k).code \notin {"verified", "recorded"}
<1> DEFINE d == LimitDetail("declared_bytes", k.total, MaxBytes, TRUE)
<1>1. k.total \in Nat /\ MaxBytes \in Nat /\ NoLimit \in Limits
    BY CallFacts, LimitsAreNumbers DEF Limits
<1>2. d \in Limits /\ d.measured = k.total /\ d.maximum = MaxBytes
    BY <1>1 DEF LimitDetail, Limits, Reasons
<1>3. CASE k.declared = "malformed"
  <2>1. DeclaredError(k) = Refusal("invalid_request", NoLimit)
      BY <1>3 DEF DeclaredError
  <2> QED
      BY <1>1, <2>1, RefusalFacts DEF LimitTrue, Codes
<1>4. CASE k.declared = "negative"
  <2>1. DeclaredError(k) = Refusal("request_too_large", NoLimit)
      BY <1>4 DEF DeclaredError
  <2> QED
      BY <1>1, <2>1, RefusalFacts DEF LimitTrue, Codes
<1>5. CASE k.declared = "total" /\ k.total > MaxBytes
  <2>1. DeclaredError(k) = Refusal("request_too_large", d)
      BY <1>5 DEF DeclaredError
  <2> HIDE DEF d
  <2>2. LimitTrue(Refusal("request_too_large", d), k)
      BY <1>1, <1>2, <1>5, RefusalFacts DEF LimitTrue, Codes
  <2> QED
      BY <1>2, <2>1, <2>2, RefusalFacts DEF Codes
<1>6. CASE k.declared \notin {"malformed", "negative"}
           /\ ~(k.declared = "total" /\ k.total > MaxBytes)
  <2>1. DeclaredError(k) = Answer("none")
      BY <1>6 DEF DeclaredError, NoAnswer
  <2> QED
      BY <2>1, PlainAnswer DEF Codes
<1> QED
    BY <1>3, <1>4, <1>5, <1>6

\* The other measurements: one that exceeds its maximum, and is true of the body
\* if it is about the bytes of the body.
LEMMA MeasuredFacts ==
    ASSUME NEW limit \in Limits, NEW k,
           limit.measured > limit.maximum,
           limit.reason \in {"declared_bytes", "encoded_bytes"} =>
             /\ limit.measured <= k.total
             /\ limit.exact => limit.measured = k.total,
           NEW code \in Codes
    PROVE  /\ Refusal(code, limit) \in AnswerType
           /\ LimitTrue(Refusal(code, limit), k)
           /\ Refusal(code, limit).code = code
BY RefusalFacts, RefusalTrue

LEMMA FailureCodes ==
    /\ \A exc \in Failures : _failure_code(exc) \in Codes \ {"verified", "recorded"}
    /\ \A exc \in ValkeyFailures :
         ReceiptsFailureCode(exc) \in Codes \ {"verified", "recorded"}
BY DEF Failures, ValkeyFailures, _failure_code, ReceiptsFailureCode, Codes

-----------------------------------------------------------------------------
(***************************************************************************)
(* The receipts in Valkey.                                                 *)
(***************************************************************************)

\* What the invariant says of receipts and of the history of recordings.
Backed(f, g) ==
    /\ \A k \in DOMAIN f : f[k] \in 0 .. Ttl - 1
    /\ \A k \in DOMAIN g : g[k] \in 0 .. Ttl - 1
    /\ \A k \in DOMAIN f : k \in DOMAIN g /\ g[k] <= f[k]

LEMMA InductiveBacked == Inductive => Backed(receipts, recorded)
BY DEF Inductive, TypeOK, ReceiptsOK, Backed

LEMMA ApplyBacked ==
    ASSUME Backed(receipts, recorded), NEW c \in Connections, Apply(c)
    PROVE  Backed(receipts', recorded')
<1>1. /\ receipts' = Fresh(receipts, Keys(call[c]))
      /\ recorded' = Fresh(recorded, Keys(call[c]))
    BY DEF Apply
<1> QED
    BY <1>1, LimitsAreNumbers DEF Fresh, Backed

LEMMA TickBacked ==
    ASSUME Backed(receipts, recorded), Tick
    PROVE  Backed(receipts', recorded')
<1>1. receipts' = Older(receipts) /\ recorded' = Older(recorded)
    BY DEF Tick
<1>2. Ttl \in Nat
    BY LimitsAreNumbers
<1>3. ASSUME NEW k \in DOMAIN receipts'
      PROVE  /\ k \in DOMAIN receipts /\ receipts[k] + 1 < Ttl
             /\ receipts'[k] = receipts[k] + 1
    BY <1>1 DEF Older
<1>4. ASSUME NEW k \in DOMAIN recorded'
      PROVE  /\ k \in DOMAIN recorded /\ recorded[k] + 1 < Ttl
             /\ recorded'[k] = recorded[k] + 1
    BY <1>1 DEF Older
<1>5. \A k \in DOMAIN recorded' : recorded'[k] \in 0 .. Ttl - 1
    BY <1>2, <1>4 DEF Backed
<1>6. ASSUME NEW k \in DOMAIN receipts'
      PROVE  /\ receipts'[k] \in 0 .. Ttl - 1
             /\ k \in DOMAIN recorded' /\ recorded'[k] <= receipts'[k]
  <2>1. /\ k \in DOMAIN receipts /\ receipts[k] + 1 < Ttl
        /\ receipts'[k] = receipts[k] + 1
      BY <1>3
  <2>2. /\ receipts[k] \in 0 .. Ttl - 1 /\ k \in DOMAIN recorded
        /\ recorded[k] \in 0 .. Ttl - 1 /\ recorded[k] <= receipts[k]
      BY <2>1 DEF Backed
  <2>3. recorded[k] + 1 < Ttl
      BY <1>2, <2>1, <2>2
  <2>4. k \in DOMAIN recorded' /\ recorded'[k] = recorded[k] + 1
      BY <1>1, <2>2, <2>3 DEF Older
  <2> QED
      BY <1>2, <2>1, <2>2, <2>4
<1> QED
    BY <1>5, <1>6 DEF Backed

LEMMA EvictBacked ==
    ASSUME Backed(receipts, recorded), NEW key, Evict(key)
    PROVE  Backed(receipts', recorded')
BY DEF Evict, Backed

-----------------------------------------------------------------------------
(***************************************************************************)
(* The inductive invariant.                                                *)
(***************************************************************************)

LEMMA InitInductive == Init => Inductive
<1> SUFFICES ASSUME Init PROVE Inductive
    OBVIOUS
<1>1. (CHOOSE k \in Calls : TRUE) \in Calls
    BY CallsAreRequests
<1>2. NoAnswer \in AnswerType /\ \A k : LimitTrue(NoAnswer, k)
    BY PlainAnswer DEF NoAnswer, Codes
<1>3. DOMAIN receipts = {} /\ DOMAIN recorded = {}
    BY DEF Init
<1>4. TypeOK
    BY <1>1, <1>2, <1>3 DEF Init, TypeOK, AnswerType
<1>5. ConnectionsOK /\ LimitFactsTrue /\ ReceiptsOK
    BY <1>2, <1>3 DEF Init, ConnectionsOK, LimitFactsTrue, ReceiptsOK
<1> QED
    BY <1>4, <1>5 DEF Inductive

\* What the steps of one connection have in common.
LEMMA ConnectionMoves ==
    ASSUME Inductive, NEW c \in Connections,
           NEW p \in {"closed", "open", "reading", "handling", "answered"},
           NEW k \in Calls, NEW a \in AnswerType, LimitTrue(a, k),
           NEW i \in Nat, NEW j \in Nat, NEW b \in Nat,
           p = "handling" => b = k.total /\ b <= MaxBytes,
           NEW who \in Certificates \union {"none"},
           peer' = [peer EXCEPT ![c] = who],
           state' = [state EXCEPT ![c] = who],
           pc' = [pc EXCEPT ![c] = p],
           call' = [call EXCEPT ![c] = k],
           consumed' = [consumed EXCEPT ![c] = i],
           empty' = [empty EXCEPT ![c] = j],
           body' = [body EXCEPT ![c] = b],
           answer' = [answer EXCEPT ![c] = a],
           Backed(receipts', recorded')
    PROVE  Inductive'
<1>0. TypeOK /\ ConnectionsOK /\ LimitFactsTrue
    BY DEF Inductive
<1>1. TypeOK'
  <2>1. /\ peer' \in [Connections -> Certificates \union {"none"}]
        /\ state' \in [Connections -> Certificates \union {"none"}]
        /\ pc' \in [Connections ->
                      {"closed", "open", "reading", "handling", "answered"}]
        /\ call' \in [Connections -> Calls]
      BY <1>0 DEF TypeOK
  <2>2. /\ consumed' \in [Connections -> Nat]
        /\ empty' \in [Connections -> Nat]
        /\ body' \in [Connections -> Nat]
      BY <1>0 DEF TypeOK
  <2>3. answer' \in [Connections -> [code : Codes, limit : Limits]]
    <3>1. answer \in [Connections -> AnswerType]
        BY <1>0 DEF TypeOK, AnswerType
    <3>2. answer' \in [Connections -> AnswerType]
        BY <3>1
    <3> QED
        BY <3>2 DEF AnswerType
  <2>4. /\ \A q \in DOMAIN receipts' : receipts'[q] \in 0 .. Ttl - 1
        /\ \A q \in DOMAIN recorded' : recorded'[q] \in 0 .. Ttl - 1
      BY DEF Backed
  <2> QED
      BY <2>1, <2>2, <2>3, <2>4 DEF TypeOK
<1>2. ConnectionsOK'
    BY <1>0 DEF ConnectionsOK, TypeOK
<1>3. LimitFactsTrue'
  <2> SUFFICES ASSUME NEW d \in Connections PROVE LimitTrue(answer'[d], call'[d])
      BY DEF LimitFactsTrue, LimitTrue
  <2>1. CASE d = c
      BY <1>0, <2>1 DEF TypeOK
  <2>2. CASE d # c
    <3>1. answer'[d] = answer[d] /\ call'[d] = call[d]
        BY <1>0, <2>2 DEF TypeOK
    <3> QED
        BY <1>0, <3>1 DEF LimitFactsTrue
  <2> QED
      BY <2>1, <2>2
<1>4. ReceiptsOK'
    BY DEF ReceiptsOK, Backed
<1> QED
    BY <1>1, <1>2, <1>3, <1>4 DEF Inductive

\* The values of a connection, in the form the lemma above takes them.
LEMMA ConnectionFacts ==
    ASSUME Inductive, NEW c \in Connections
    PROVE  /\ peer[c] \in Certificates \union {"none"}
           /\ call[c] \in Calls
           /\ consumed[c] \in Nat /\ empty[c] \in Nat /\ body[c] \in Nat
           /\ answer[c] \in AnswerType /\ LimitTrue(answer[c], call[c])
           /\ peer = [peer EXCEPT ![c] = peer[c]]
           /\ state = [state EXCEPT ![c] = peer[c]]
           /\ call = [call EXCEPT ![c] = call[c]]
           /\ answer = [answer EXCEPT ![c] = answer[c]]
<1>1. TypeOK /\ ConnectionsOK /\ LimitFactsTrue
    BY DEF Inductive
<1>2. /\ peer[c] \in Certificates \union {"none"}
      /\ call[c] \in Calls
      /\ consumed[c] \in Nat /\ empty[c] \in Nat /\ body[c] \in Nat
    BY <1>1 DEF TypeOK
<1>3. answer[c] \in AnswerType /\ LimitTrue(answer[c], call[c])
    BY <1>1 DEF TypeOK, AnswerType, LimitFactsTrue
<1>4. state[c] = peer[c]
    BY <1>1 DEF ConnectionsOK
<1>5. /\ peer = [peer EXCEPT ![c] = peer[c]]
      /\ state = [state EXCEPT ![c] = peer[c]]
      /\ call = [call EXCEPT ![c] = call[c]]
      /\ answer = [answer EXCEPT ![c] = answer[c]]
    BY <1>1, <1>4 DEF TypeOK
<1> QED
    BY <1>2, <1>3, <1>5

\* A connection that is answered.
LEMMA ReplyMoves ==
    ASSUME Inductive, NEW c \in Connections,
           NEW a \in AnswerType, LimitTrue(a, call[c]),
           Reply(c, a), Drop(c), UNCHANGED <<connection, call>>,
           Backed(receipts', recorded')
    PROVE  Inductive'
<1> DEFINE who == peer[c]
           k == call[c]
<1>1. /\ who \in Certificates \union {"none"} /\ k \in Calls /\ LimitTrue(a, k)
      /\ peer' = [peer EXCEPT ![c] = who]
      /\ state' = [state EXCEPT ![c] = who]
      /\ call' = [call EXCEPT ![c] = k]
    BY ConnectionFacts DEF connection
<1>2. /\ pc' = [pc EXCEPT ![c] = "answered"]
      /\ answer' = [answer EXCEPT ![c] = a]
      /\ consumed' = [consumed EXCEPT ![c] = 0]
      /\ empty' = [empty EXCEPT ![c] = 0]
      /\ body' = [body EXCEPT ![c] = 0]
    BY DEF Reply, Drop
<1> HIDE DEF who, k
<1>3. "answered" # "handling" /\ 0 \in Nat
    OBVIOUS
<1> QED
    BY <1>1, <1>2, <1>3, ConnectionMoves

LEMMA OpenInductive ==
    ASSUME Inductive, NEW c \in Connections,
           \/ \E certificate \in Certificates : ConnectionMade(c, certificate)
           \/ Disconnect(c)
    PROVE  Inductive'
<1>b. Backed(receipts, recorded)
    BY InductiveBacked
<1>1. ASSUME NEW certificate \in Certificates, ConnectionMade(c, certificate)
      PROVE  Inductive'
  <2> DEFINE k == call[c]
             a == answer[c]
             i == consumed[c]
             j == empty[c]
             b == body[c]
  <2>1. /\ k \in Calls /\ a \in AnswerType /\ LimitTrue(a, k)
        /\ i \in Nat /\ j \in Nat /\ b \in Nat
        /\ call = [call EXCEPT ![c] = k]
        /\ answer = [answer EXCEPT ![c] = a]
      BY ConnectionFacts
  <2>2. /\ peer' = [peer EXCEPT ![c] = certificate]
        /\ state' = [state EXCEPT ![c] = certificate]
        /\ pc' = [pc EXCEPT ![c] = "open"]
        /\ UNCHANGED <<call, reading, answer, valkey>>
      BY <1>1 DEF ConnectionMade
  <2>3. /\ consumed' = [consumed EXCEPT ![c] = i]
        /\ empty' = [empty EXCEPT ![c] = j]
        /\ body' = [body EXCEPT ![c] = b]
      BY <2>2 DEF reading, Inductive, TypeOK
  <2>4. /\ call' = [call EXCEPT ![c] = k]
        /\ answer' = [answer EXCEPT ![c] = a]
        /\ Backed(receipts', recorded')
      BY <1>b, <2>1, <2>2 DEF valkey
  <2> HIDE DEF k, a, i, j, b
  <2>5. "open" # "handling" /\ certificate \in Certificates \union {"none"}
      OBVIOUS
  <2>6. /\ peer' = [peer EXCEPT ![c] = certificate]
        /\ state' = [state EXCEPT ![c] = certificate]
        /\ pc' = [pc EXCEPT ![c] = "open"]
      BY <2>2
  <2> QED
      BY <2>1, <2>3, <2>4, <2>5, <2>6, ConnectionMoves
<1>2. CASE Disconnect(c)
  <2> DEFINE k == call[c]
  <2>1. k \in Calls /\ call' = [call EXCEPT ![c] = k]
      BY <1>2, ConnectionFacts DEF Disconnect
  <2> HIDE DEF k
  <2>2. NoAnswer \in AnswerType /\ LimitTrue(NoAnswer, k)
      BY PlainAnswer DEF NoAnswer, Codes
  <2>3. /\ peer' = [peer EXCEPT ![c] = "none"]
        /\ state' = [state EXCEPT ![c] = "none"]
        /\ pc' = [pc EXCEPT ![c] = "closed"]
        /\ answer' = [answer EXCEPT ![c] = NoAnswer]
        /\ consumed' = [consumed EXCEPT ![c] = 0]
        /\ empty' = [empty EXCEPT ![c] = 0]
        /\ body' = [body EXCEPT ![c] = 0]
        /\ Backed(receipts', recorded')
      BY <1>2, <1>b DEF Disconnect, Drop, valkey
  <2> HIDE DEF NoAnswer
  <2>4. "closed" # "handling" /\ 0 \in Nat /\ "none" \in Certificates \union {"none"}
      OBVIOUS
  <2> QED
      BY <2>1, <2>2, <2>3, <2>4, ConnectionMoves
<1> QED
    BY <1>1, <1>2

\* A request begins, with the declared length checked (_declared_error).
LEMMA RequestInductive ==
    ASSUME Inductive, NEW c \in Connections, NEW k \in Calls, Request(c, k)
    PROVE  Inductive'
<1> DEFINE who == peer[c]
           a == DeclaredError(k)
           p == IF DeclaredError(k) = NoAnswer THEN "reading" ELSE "answered"
<1>1. /\ who \in Certificates \union {"none"}
      /\ peer' = [peer EXCEPT ![c] = who]
      /\ state' = [state EXCEPT ![c] = who]
    BY ConnectionFacts DEF Request, connection
<1>2. a \in AnswerType /\ LimitTrue(a, k)
    BY DeclaredFacts
<1>3. p \in {"closed", "open", "reading", "handling", "answered"} /\ p # "handling"
    OBVIOUS
<1>4. /\ call' = [call EXCEPT ![c] = k]
      /\ pc' = [pc EXCEPT ![c] = p]
      /\ answer' = [answer EXCEPT ![c] = a]
      /\ consumed' = [consumed EXCEPT ![c] = 0]
      /\ empty' = [empty EXCEPT ![c] = 0]
      /\ body' = [body EXCEPT ![c] = 0]
    BY DEF Request, Drop
<1>5. Backed(receipts', recorded')
    BY InductiveBacked DEF Request, valkey
<1> HIDE DEF who, a, p
<1>6. 0 \in Nat
    OBVIOUS
<1> QED
    BY <1>1, <1>2, <1>3, <1>4, <1>5, <1>6, ConnectionMoves

\* A chunk is refused, or kept; after the last one the route has the whole body
\* (_buffer_body).
LEMMA ChunkInductive ==
    ASSUME Inductive, NEW c \in Connections, NEW n \in Nat, NEW more \in BOOLEAN,
           Chunk(c, n, more)
    PROVE  Inductive'
<1> DEFINE got == consumed[c] + n
           holes == IF n = 0 /\ more THEN empty[c] + 1 ELSE empty[c]
<1>0. /\ peer[c] \in Certificates \union {"none"} /\ call[c] \in Calls
      /\ consumed[c] \in Nat /\ empty[c] \in Nat
      /\ answer[c] \in AnswerType /\ LimitTrue(answer[c], call[c])
    BY ConnectionFacts
<1>1. /\ got \in Nat /\ holes \in Nat /\ call[c].total \in Nat
      /\ MaxBytes \in Nat /\ MaxEmptyChunks \in Nat
    BY <1>0, CallFacts, LimitsAreNumbers
<1>2. /\ got <= call[c].total
      /\ ~more => got = call[c].total
      /\ UNCHANGED <<connection, call, valkey>>
    BY DEF Chunk
<1>3. Backed(receipts', recorded')
    BY <1>2, InductiveBacked DEF valkey
<1>4. CASE holes > MaxEmptyChunks
  <2> DEFINE d == LimitDetail("empty_chunks", holes, MaxEmptyChunks, FALSE)
  <2>1. Reply(c, Refusal("request_too_large", d)) /\ Drop(c)
    <3>1. ~(holes <= MaxEmptyChunks)
        BY <1>1, <1>4
    <3> QED
        BY <1>4, <3>1 DEF Chunk
  <2>2. d \in Limits /\ d.measured > d.maximum /\ d.reason = "empty_chunks"
      BY <1>1, <1>4 DEF LimitDetail, Limits, Reasons
  <2> HIDE DEF d
  <2>3. /\ Refusal("request_too_large", d) \in AnswerType
        /\ LimitTrue(Refusal("request_too_large", d), call[c])
      BY <2>2, MeasuredFacts DEF Codes
  <2> QED
      BY <1>2, <1>3, <2>1, <2>3, ReplyMoves
<1>5. CASE ~(holes > MaxEmptyChunks) /\ got > MaxBytes
  <2> DEFINE d == LimitDetail("encoded_bytes", got, MaxBytes, Exact(more))
  <2>1. Reply(c, Refusal("request_too_large", d)) /\ Drop(c)
    <3>1. holes <= MaxEmptyChunks
        BY <1>1, <1>5
    <3> QED
        BY <1>1, <1>5, <3>1 DEF Chunk
  <2>2. d \in Limits /\ d.measured > d.maximum
        /\ d.measured = got /\ (d.exact <=> ~more)
      BY <1>1, <1>5 DEF LimitDetail, Limits, Reasons, Exact
  <2>3. d.measured <= call[c].total /\ (d.exact => d.measured = call[c].total)
      BY <1>2, <2>2
  <2> HIDE DEF d
  <2>4. /\ Refusal("request_too_large", d) \in AnswerType
        /\ LimitTrue(Refusal("request_too_large", d), call[c])
      BY <2>2, <2>3, MeasuredFacts DEF Codes
  <2> QED
      BY <1>2, <1>3, <2>1, <2>4, ReplyMoves
<1>6. CASE ~(holes > MaxEmptyChunks) /\ ~(got > MaxBytes)
  <2> DEFINE who == peer[c]
             k == call[c]
             a == answer[c]
             b == IF more THEN 0 ELSE got
             p == IF more THEN "reading" ELSE "handling"
  <2>1. /\ pc[c] = "reading"
        /\ consumed' = [consumed EXCEPT ![c] = got]
        /\ empty' = [empty EXCEPT ![c] = holes]
        /\ body' = [body EXCEPT ![c] = b]
        /\ pc' = [pc EXCEPT ![c] = p]
        /\ UNCHANGED answer
      BY <1>6 DEF Chunk
  <2>2. /\ peer' = [peer EXCEPT ![c] = who]
        /\ state' = [state EXCEPT ![c] = who]
        /\ call' = [call EXCEPT ![c] = k]
        /\ answer' = [answer EXCEPT ![c] = a]
        /\ k \in Calls /\ a \in AnswerType /\ LimitTrue(a, k)
        /\ who \in Certificates \union {"none"}
      BY <1>2, <2>1, ConnectionFacts DEF connection
  <2>3. /\ b \in Nat
        /\ p \in {"closed", "open", "reading", "handling", "answered"}
        /\ p = "handling" => b = k.total /\ b <= MaxBytes
      BY <1>1, <1>2, <1>6
  <2>4. /\ consumed' = [consumed EXCEPT ![c] = got]
        /\ empty' = [empty EXCEPT ![c] = holes]
        /\ body' = [body EXCEPT ![c] = b]
        /\ pc' = [pc EXCEPT ![c] = p]
      BY <2>1
  <2> HIDE DEF who, k, a, b, p, got, holes
  <2> QED
      BY <1>1, <1>3, <2>2, <2>3, <2>4, ConnectionMoves
<1> QED
    BY <1>4, <1>5, <1>6

-----------------------------------------------------------------------------
(***************************************************************************)
(* The routes: every one of their steps is an answer.                      *)
(***************************************************************************)

\* The answer of a step of a route, whether it may confirm something or not.
LEMMA HandlerReplies ==
    ASSUME Inductive, NEW c \in Connections, Handler(c)
    PROVE  /\ UNCHANGED <<connection, call>>
           /\ Drop(c)
           /\ UNCHANGED valkey \/ Apply(c)
           /\ \E a \in AnswerType :
                /\ LimitTrue(a, call[c])
                /\ Reply(c, a)
                /\ a.code = "verified" => Verify(c)
                /\ a.code = "recorded" => Record(c)
<1>0. /\ call[c] \in Calls /\ Len(call[c].digests) \in Nat
      /\ MaxDigests \in Nat /\ MaxResponse \in Nat
    BY ConnectionFacts, CallFacts, LimitsAreNumbers
<1> DEFINE Fine(a) == /\ a \in AnswerType
                      /\ LimitTrue(a, call[c])
                      /\ a.code = "verified" => Verify(c)
                      /\ a.code = "recorded" => Record(c)
<1>p. ASSUME NEW code \in Codes \ {"verified", "recorded"} PROVE Fine(Answer(code))
    BY PlainAnswer
<1>1. CASE NotAccepted(c)
  <2>1. Reply(c, Answer("invalid_request")) \/ Reply(c, Answer("forbidden"))
      BY <1>1 DEF NotAccepted
  <2>2. Fine(Answer("invalid_request")) /\ Fine(Answer("forbidden"))
      BY <1>p DEF Codes
  <2> QED
      BY <1>1, <2>1, <2>2 DEF NotAccepted
<1>2. ASSUME NEW exc \in Failures, AnalysisFails(c, exc)
      PROVE  /\ UNCHANGED <<connection, call>> /\ Drop(c) /\ UNCHANGED valkey
             /\ \E a : Fine(a) /\ Reply(c, a)
  <2> DEFINE code == _failure_code(exc)
  <2>1. Reply(c, Refusal(code, Inspection))
      BY <1>2 DEF AnalysisFails
  <2>2. code \in Codes \ {"verified", "recorded"}
      BY FailureCodes
  <2>3. /\ Inspection \in Limits /\ Inspection.measured > Inspection.maximum
        /\ Inspection.reason = "inspection"
      BY DEF Inspection, LimitDetail, Limits, Reasons
  <2> HIDE DEF code
  <2>4. /\ Refusal(code, Inspection) \in AnswerType
        /\ LimitTrue(Refusal(code, Inspection), call[c])
        /\ Refusal(code, Inspection).code = code
    <3> HIDE DEF Inspection
    <3> QED
      BY <2>2, <2>3, MeasuredFacts
  <2> QED
      BY <1>2, <2>1, <2>2, <2>4 DEF AnalysisFails
<1>3. ASSUME NEW n \in 0 .. MaxResponse + 1, AnalysisAnswers(c, n)
      PROVE  /\ UNCHANGED <<connection, call>> /\ Drop(c) /\ UNCHANGED valkey
             /\ \E a : Fine(a) /\ Reply(c, a)
  <2> DEFINE d == LimitDetail("bytes", n, MaxResponse, TRUE)
             r == Refusal("request_too_large", d)
  <2>1. (n > MaxResponse /\ Reply(c, r)) \/ Reply(c, Answer("ok"))
      BY <1>3 DEF AnalysisAnswers
  <2>2. Fine(Answer("ok"))
      BY <1>p DEF Codes
  <2>3. n > MaxResponse => d \in Limits /\ d.measured > d.maximum /\ d.reason = "bytes"
      BY <1>0 DEF LimitDetail, Limits, Reasons
  <2>4. n > MaxResponse => r \in AnswerType /\ LimitTrue(r, call[c])
                           /\ r.code = "request_too_large"
    <3> HIDE DEF d
    <3> QED
      BY <2>3, MeasuredFacts DEF Codes
  <2> HIDE DEF r, d
  <2> QED
      BY <1>3, <2>1, <2>2, <2>4 DEF AnalysisAnswers
<1>4. CASE ReceiptsRefused(c)
  <2> DEFINE m == Len(call[c].digests)
             d == LimitDetail("reasoning_fingerprints", m, MaxDigests, TRUE)
             r == Refusal("request_too_large", d)
  <2>1. (m > MaxDigests /\ Reply(c, r)) \/ Reply(c, Answer("runtime_unavailable"))
      BY <1>4 DEF ReceiptsRefused
  <2>2. Fine(Answer("runtime_unavailable"))
      BY <1>p DEF Codes
  <2>3. m > MaxDigests => /\ d \in Limits /\ d.measured > d.maximum
                          /\ d.reason = "reasoning_fingerprints"
      BY <1>0 DEF LimitDetail, Limits, Reasons
  <2>4. m > MaxDigests => r \in AnswerType /\ LimitTrue(r, call[c])
                          /\ r.code = "request_too_large"
    <3> HIDE DEF d, m
    <3> QED
      BY <2>3, MeasuredFacts DEF Codes
  <2> HIDE DEF r, d, m
  <2> QED
      BY <1>4, <2>1, <2>2, <2>4 DEF ReceiptsRefused
<1>5. CASE Record(c)
  <2>1. Reply(c, Answer("recorded")) /\ Apply(c)
        /\ Drop(c) /\ UNCHANGED <<connection, call>>
      BY <1>5 DEF Record
  <2>2. Fine(Answer("recorded"))
      BY <1>5, PlainAnswer DEF Codes
  <2> QED
      BY <2>1, <2>2
<1>6. CASE Verify(c)
  <2> DEFINE code == IF Keys(call[c]) \subseteq DOMAIN receipts
                     THEN "verified" ELSE "refuted"
  <2>1. Reply(c, Answer(code)) /\ Drop(c) /\ UNCHANGED <<connection, call, valkey>>
      BY <1>6 DEF Verify
  <2>2. code \in Codes /\ code # "recorded"
      BY DEF Codes
  <2> HIDE DEF code
  <2>3. Fine(Answer(code))
      BY <1>6, <2>2, PlainAnswer
  <2> QED
      BY <2>1, <2>3
<1>7. ASSUME NEW exc \in ValkeyFailures, RecordFails(c, exc) \/ VerifyFails(c, exc)
      PROVE  /\ UNCHANGED <<connection, call>> /\ Drop(c)
             /\ UNCHANGED valkey \/ Apply(c)
             /\ \E a : Fine(a) /\ Reply(c, a)
  <2> DEFINE code == ReceiptsFailureCode(exc)
  <2>1. /\ Reply(c, Answer(code)) /\ Drop(c) /\ UNCHANGED <<connection, call>>
        /\ UNCHANGED valkey \/ Apply(c)
      BY <1>7 DEF RecordFails, VerifyFails
  <2>2. code \in Codes \ {"verified", "recorded"}
      BY FailureCodes
  <2> HIDE DEF code
  <2>3. Fine(Answer(code))
      BY <1>p, <2>2
  <2> QED
      BY <2>1, <2>3
<1> QED
    BY <1>1, <1>2, <1>3, <1>4, <1>5, <1>6, <1>7 DEF Handler

LEMMA HandlerInductive ==
    ASSUME Inductive, NEW c \in Connections, Handler(c)
    PROVE  Inductive'
<1>1. /\ UNCHANGED <<connection, call>> /\ Drop(c)
      /\ UNCHANGED valkey \/ Apply(c)
    BY HandlerReplies
<1>2. PICK a \in AnswerType : LimitTrue(a, call[c]) /\ Reply(c, a)
    BY HandlerReplies
<1>3. Backed(receipts', recorded')
    BY <1>1, InductiveBacked, ApplyBacked DEF valkey
<1> QED
    BY <1>1, <1>2, <1>3, ReplyMoves

\* Time and eviction touch nothing but Valkey.
LEMMA ValkeyInductive ==
    ASSUME Inductive, Backed(receipts', recorded'),
           UNCHANGED <<connection, pc, call, reading, answer>>
    PROVE  Inductive'
<1>1. TypeOK /\ ConnectionsOK /\ LimitFactsTrue
    BY DEF Inductive
<1>2. TypeOK'
    BY <1>1 DEF TypeOK, Backed, connection, reading
<1>3. ConnectionsOK' /\ LimitFactsTrue' /\ ReceiptsOK'
    BY <1>1 DEF ConnectionsOK, LimitFactsTrue, LimitTrue, ReceiptsOK, Backed,
                connection, reading
<1> QED
    BY <1>2, <1>3 DEF Inductive

LEMMA NextInductive == Inductive /\ [Next]_vars => Inductive'
<1> SUFFICES ASSUME Inductive, [Next]_vars PROVE Inductive'
    OBVIOUS
<1>b. Backed(receipts, recorded)
    BY InductiveBacked
<1>1. CASE UNCHANGED vars
  <2>1. /\ UNCHANGED <<connection, pc, call, reading, answer>>
        /\ Backed(receipts', recorded')
      BY <1>1, <1>b DEF vars, valkey
  <2> QED
      BY <2>1, ValkeyInductive
<1>2. ASSUME NEW c \in Connections, Client(c) PROVE Inductive'
  <2>1. CASE \/ \E certificate \in Certificates : ConnectionMade(c, certificate)
             \/ Disconnect(c)
      BY <2>1, OpenInductive
  <2>2. CASE \E k \in Calls : Request(c, k)
      BY <2>2, RequestInductive
  <2>3. ASSUME NEW n \in 0 .. call[c].total, NEW more \in BOOLEAN, Chunk(c, n, more)
        PROVE  Inductive'
    <3>1. call[c] \in Calls
        BY ConnectionFacts
    <3>2. call[c].total \in Nat
        BY <3>1, CallFacts
    <3>3. n \in Nat
        BY <3>2
    <3> QED
        BY <2>3, <3>3, ChunkInductive
  <2> QED
      BY <1>2, <2>1, <2>2, <2>3 DEF Client
<1>3. ASSUME NEW c \in Connections, Handler(c) PROVE Inductive'
    BY <1>3, HandlerInductive
<1>4. CASE Tick
  <2>1. Backed(receipts', recorded')
      BY <1>4, <1>b, TickBacked
  <2> QED
      BY <1>4, <2>1, ValkeyInductive DEF Tick
<1>5. ASSUME NEW key \in DOMAIN receipts, Evict(key) PROVE Inductive'
  <2>1. Backed(receipts', recorded')
      BY <1>5, <1>b, EvictBacked
  <2> QED
      BY <1>5, <2>1, ValkeyInductive DEF Evict
<1> QED
    BY <1>1, <1>2, <1>3, <1>4, <1>5 DEF Next

\* Connections, answers and receipts agree at every moment.
THEOREM InductiveHolds == Spec => []Inductive
BY InitInductive, NextInductive, PTL DEF Spec

-----------------------------------------------------------------------------
(***************************************************************************)
(* The properties.                                                         *)
(***************************************************************************)

\* A route works on the whole body, within the limit, for the peer of its own
\* connection (connection_made, _buffer_body, the identity dependencies).
THEOREM RequestsAreHandledAsSent == Spec => []HandledAsSent
<1>1. Inductive => HandledAsSent
    BY DEF Inductive, ConnectionsOK, HandledAsSent, Accepted, Authorized
<1> QED
    BY <1>1, InductiveHolds, PTL

\* What a refusal says it measured is true of the request (_declared_error,
\* _buffer_body, _adapter_response, reasoning_receipts).
THEOREM LimitFactsAreTrue == Spec => []LimitFactsTrue
<1>1. Inductive => LimitFactsTrue
    BY DEF Inductive
<1> QED
    BY <1>1, InductiveHolds, PTL

\* Only routes confirm a recording or verify receipts.
LEMMA ClientConfirmsNothing ==
    ASSUME Inductive, NEW c \in Connections, Client(c), NEW d \in Connections,
           answer'[d] # answer[d]
    PROVE  answer'[d].code \notin {"verified", "recorded"}
<1>0. DOMAIN answer = Connections
    BY DEF Inductive, TypeOK
<1>1. \/ answer' = answer
      \/ \E a : /\ answer' = [answer EXCEPT ![c] = a]
                /\ a.code \notin {"verified", "recorded"}
  <2>1. ASSUME NEW certificate \in Certificates, ConnectionMade(c, certificate)
        PROVE  answer' = answer
      BY <2>1 DEF ConnectionMade
  <2>2. ASSUME Disconnect(c)
        PROVE  /\ answer' = [answer EXCEPT ![c] = NoAnswer]
               /\ NoAnswer.code \notin {"verified", "recorded"}
      BY <2>2 DEF Disconnect, NoAnswer, Answer
  <2>3. ASSUME NEW k \in Calls, Request(c, k)
        PROVE  /\ answer' = [answer EXCEPT ![c] = DeclaredError(k)]
               /\ DeclaredError(k).code \notin {"verified", "recorded"}
      BY <2>3, DeclaredFacts DEF Request
  <2>4. ASSUME NEW n \in 0 .. call[c].total, NEW more \in BOOLEAN, Chunk(c, n, more)
        PROVE  \/ answer' = answer
               \/ \E limit : answer' =
                    [answer EXCEPT ![c] = Refusal("request_too_large", limit)]
      BY <2>4, Zenon DEF Chunk, Reply
  <2>5. \A limit : Refusal("request_too_large", limit).code
                     \notin {"verified", "recorded"}
      BY DEF Refusal
  <2> QED
      BY <2>1, <2>2, <2>3, <2>4, <2>5 DEF Client
<1> QED
    BY <1>0, <1>1

LEMMA StepAnswersTrue ==
    ASSUME Inductive, [Next]_vars, NEW c \in Connections, answer'[c] # answer[c]
    PROVE  /\ answer'[c].code = "verified" => Keys(call[c]) \subseteq DOMAIN recorded
           /\ answer'[c].code = "recorded" => Keys(call[c]) \subseteq DOMAIN receipts'
<1>0. DOMAIN answer = Connections
    BY DEF Inductive, TypeOK
<1>1. answer' # answer
    OBVIOUS
<1>2. PICK d \in Connections : Client(d) \/ Handler(d)
    BY <1>1 DEF Next, vars, Tick, Evict
<1>3. CASE Client(d)
    BY <1>3, ClientConfirmsNothing
<1>4. CASE Handler(d)
  <2>1. PICK a \in AnswerType : /\ Reply(d, a)
                                /\ a.code = "verified" => Verify(d)
                                /\ a.code = "recorded" => Record(d)
      BY <1>4, HandlerReplies
  <2>2. d = c /\ answer'[c] = a
      BY <1>0, <2>1 DEF Reply
  <2>3. ASSUME a.code = "verified" PROVE Keys(call[c]) \subseteq DOMAIN recorded
    <3>1. Reply(c, Answer(IF Keys(call[c]) \subseteq DOMAIN receipts
                          THEN "verified" ELSE "refuted"))
        BY <2>1, <2>2, <2>3 DEF Verify
    <3>2. Keys(call[c]) \subseteq DOMAIN receipts
        BY <1>0, <2>2, <2>3, <3>1 DEF Reply, Answer
    <3>3. DOMAIN receipts \subseteq DOMAIN recorded
        BY DEF Inductive, ReceiptsOK
    <3> QED
        BY <3>2, <3>3
  <2>4. ASSUME a.code = "recorded" PROVE Keys(call[c]) \subseteq DOMAIN receipts'
      BY <2>1, <2>2, <2>4 DEF Record, Apply, Fresh
  <2> QED
      BY <2>2, <2>3, <2>4
<1> QED
    BY <1>2, <1>3, <1>4

\* Verified receipts were all recorded within their lifetime, and a confirmed
\* recording is complete (record_reasoning, verify_reasoning).
THEOREM ReceiptAnswersAreTrue == Spec => ReceiptAnswersTrue
<1>1. Inductive /\ [Next]_vars =>
        [\A c \in Connections :
           answer'[c] # answer[c] =>
             /\ answer'[c].code = "verified" =>
                  Keys(call[c]) \subseteq DOMAIN recorded
             /\ answer'[c].code = "recorded" =>
                  Keys(call[c]) \subseteq DOMAIN receipts']_vars
    BY StepAnswersTrue
<1> QED
    BY <1>1, InductiveHolds, PTL DEF Spec, ReceiptAnswersTrue

-----------------------------------------------------------------------------
(***************************************************************************)
(* The rollout of model bundles.                                           *)
(***************************************************************************)

Working == {"clearing", "removing", "unlinking", "staging", "replacing"}

\* The part of the invariant that speaks of one job.
JobOK(j) ==
    /\ job[j] \in Working => ~Completed(target[j])
    /\ job[j] = "pointing" => Completed(target[j])

Apart ==
    \A i, j \in Jobs :
        i # j /\ job[i] \notin Ended /\ job[j] \notin Ended => target[i] # target[j]

\* The invariant in the parts the proofs work with.
LEMMA RolloutInductiveParts ==
    RolloutInductive <=>
        /\ RolloutTypeOK
        /\ ReferenceComplete
        /\ LoadsWholeBundle
        /\ \A j \in Jobs : JobOK(j)
        /\ Apart
BY DEF RolloutInductive, JobOK, Apart, Working

LEMMA RolloutInitEstablishes == RolloutInit => RolloutInductive
<1> SUFFICES ASSUME RolloutInit PROVE RolloutInductive
    OBVIOUS
<1>1. RolloutTypeOK
    BY DEF RolloutInit, RolloutTypeOK, Directories, JobStates, EngineStates, Ended
<1>2. ReferenceComplete /\ LoadsWholeBundle
    BY DEF RolloutInit, ReferenceComplete, LoadsWholeBundle
<1>3. \A j \in Jobs : JobOK(j)
    BY DEF RolloutInit, JobOK, Working
<1>4. Apart
    BY DEF RolloutInit, Apart, Ended
<1> QED
    BY <1>1, <1>2, <1>3, <1>4, RolloutInductiveParts

\* No step of a job or an engine touches a complete directory.
LEMMA CompletedKept ==
    ASSUME RolloutInductive, [RolloutNext]_rolloutVars
    PROVE  CompletedStays
<1> USE DEF CompletedStays
<1>1. RolloutTypeOK /\ \A j \in Jobs : JobOK(j)
    BY RolloutInductiveParts
<1>2. CASE UNCHANGED rolloutVars
    BY <1>2 DEF rolloutVars
<1>3. ASSUME NEW j \in Jobs, JobStep(j) PROVE CompletedStays
  <2>1. JobOK(j) /\ target[j] \in Bundles
      BY <1>1 DEF RolloutTypeOK
  <2>2. CASE ClearDestination(j)
      BY <1>1, <2>1, <2>2 DEF ClearDestination, JobOK, Working, Completed, RolloutTypeOK, Goes
  <2>3. CASE RemoveFiles(j)
      BY <1>1, <2>1, <2>3 DEF RemoveFiles, JobOK, Working, Completed, RolloutTypeOK, Goes
  <2>4. CASE RemoveDirectory(j)
      BY <1>1, <2>1, <2>4 DEF RemoveDirectory, JobOK, Working, Completed, RolloutTypeOK, Goes
  <2>5. CASE ReplaceDestination(j)
      BY <1>1, <2>1, <2>5 DEF ReplaceDestination, RolloutTypeOK, Goes
  <2>6. CASE UNCHANGED dir
      BY <2>6
  <2> QED
      BY <1>3, <2>2, <2>3, <2>4, <2>5, <2>6
      DEF JobStep, SyncBundle, ManifestAbsent, DownloadManifest, DownloadFiles, AtomicPublish,
          Stage, SelectDesiredBundle, PointReference, StopJob, cacheVars
<1>4. ASSUME NEW e \in Engines, EngineStep(e) \/ Redeploy(e) PROVE CompletedStays
    BY <1>4 DEF EngineStep, ResolveAnalyzerMode, RereadReference, LoadModels, Restart, Redeploy,
                cacheVars
<1> QED
    BY <1>2, <1>3, <1>4 DEF RolloutNext

LEMMA RolloutTypeKept ==
    ASSUME RolloutTypeOK, [RolloutNext]_rolloutVars
    PROVE  RolloutTypeOK'
<1> USE DEF RolloutTypeOK, Directories, JobStates, EngineStates, Ended
<1>1. CASE UNCHANGED rolloutVars
    BY <1>1 DEF rolloutVars
<1>2. ASSUME NEW j \in Jobs, JobStep(j) PROVE RolloutTypeOK'
  <2> USE DEF Goes, cacheVars, engineVars
  <2>1. CASE SyncBundle(j)
      BY <2>1 DEF SyncBundle
  <2>2. CASE ManifestAbsent(j) \/ DownloadManifest(j) \/ DownloadFiles(j) \/ AtomicPublish(j)
      BY <2>2 DEF ManifestAbsent, DownloadManifest, DownloadFiles, AtomicPublish
  <2>3. CASE ClearDestination(j)
      BY <2>3 DEF ClearDestination
  <2>4. CASE RemoveFiles(j)
      BY <2>4 DEF RemoveFiles
  <2>5. CASE RemoveDirectory(j)
      BY <2>5 DEF RemoveDirectory
  <2>6. CASE Stage(j) \/ SelectDesiredBundle(j) \/ PointReference(j) \/ StopJob(j)
      BY <2>6 DEF Stage, SelectDesiredBundle, PointReference, StopJob
  <2>7. CASE ReplaceDestination(j)
      BY <2>7 DEF ReplaceDestination
  <2> QED
      BY <1>2, <2>1, <2>2, <2>3, <2>4, <2>5, <2>6, <2>7 DEF JobStep
<1>3. ASSUME NEW e \in Engines, EngineStep(e) \/ Redeploy(e) PROVE RolloutTypeOK'
    BY <1>3 DEF EngineStep, ResolveAnalyzerMode, RereadReference, LoadModels, LoadOutcomes,
                Restart, Redeploy, Becomes, cacheVars, jobVars
<1> QED
    BY <1>1, <1>2, <1>3 DEF RolloutNext

\* Jobs stay apart: only SyncBundle makes one active, and it keeps away from
\* the bundles of the others.
LEMMA ApartKept ==
    ASSUME RolloutTypeOK, ~Overlap, Apart, [RolloutNext]_rolloutVars
    PROVE  Apart'
<1> USE DEF Apart
<1>1. CASE UNCHANGED rolloutVars
    BY <1>1 DEF rolloutVars
<1>2. ASSUME NEW j \in Jobs, JobStep(j) PROVE Apart'
  <2>1. CASE SyncBundle(j)
      BY <2>1 DEF SyncBundle, Goes, RolloutTypeOK, Ended
  <2>2. CASE job[j] \notin Ended /\ UNCHANGED target /\ \E s : Goes(j, s)
      BY <2>2 DEF Goes, RolloutTypeOK
  <2>3. \/ job[j] \notin Ended /\ UNCHANGED target /\ \E s : Goes(j, s)
        \/ SyncBundle(j)
      BY <1>2
      DEF JobStep, ManifestAbsent, DownloadManifest, DownloadFiles, AtomicPublish,
          ClearDestination, RemoveFiles, RemoveDirectory, Stage, ReplaceDestination,
          SelectDesiredBundle, PointReference, StopJob, Ended
  <2> QED
      BY <2>1, <2>2, <2>3
<1>3. ASSUME NEW e \in Engines, EngineStep(e) \/ Redeploy(e) PROVE Apart'
    BY <1>3 DEF EngineStep, ResolveAnalyzerMode, RereadReference, LoadModels, Restart, Redeploy,
                jobVars
<1> QED
    BY <1>1, <1>2, <1>3 DEF RolloutNext

\* What a job that works on its bundle knows of it stays true: a directory
\* becomes complete only by the job's own rename, and stays complete.
LEMMA JobsKept ==
    ASSUME RolloutInductive, [RolloutNext]_rolloutVars
    PROVE  \A i \in Jobs : JobOK(i)'
<1>0. RolloutTypeOK /\ (\A j \in Jobs : JobOK(j)) /\ Apart /\ CompletedStays
    BY RolloutInductiveParts, CompletedKept
<1> SUFFICES ASSUME NEW i \in Jobs PROVE JobOK(i)'
    OBVIOUS
<1>1. JobOK(i) /\ target[i] \in Bundles
    BY <1>0 DEF RolloutTypeOK
<1>2. CASE UNCHANGED rolloutVars
    BY <1>1, <1>2 DEF rolloutVars, JobOK, Completed
<1>3. ASSUME NEW j \in Jobs, JobStep(j), i = j PROVE JobOK(i)'
  <2> USE DEF JobOK, Completed, Working, Goes, cacheVars
  <2>1. CASE SyncBundle(j)
      BY <1>0, <1>3, <2>1 DEF SyncBundle, RolloutTypeOK
  <2>2. CASE ManifestAbsent(j) \/ DownloadManifest(j) \/ DownloadFiles(j) \/ AtomicPublish(j)
      BY <1>0, <1>3, <2>2
      DEF ManifestAbsent, DownloadManifest, DownloadFiles, AtomicPublish, RolloutTypeOK
  <2>3. CASE ClearDestination(j)
      BY <1>0, <1>3, <2>3 DEF ClearDestination, RolloutTypeOK
  <2>4. CASE RemoveFiles(j)
      BY <1>0, <1>1, <1>3, <2>4 DEF RemoveFiles, RolloutTypeOK
  <2>5. CASE RemoveDirectory(j)
      BY <1>0, <1>1, <1>3, <2>5 DEF RemoveDirectory, RolloutTypeOK
  <2>6. CASE ReplaceDestination(j)
      BY <1>0, <1>1, <1>3, <2>6 DEF ReplaceDestination, RolloutTypeOK
  <2>7. CASE Stage(j) \/ SelectDesiredBundle(j) \/ PointReference(j) \/ StopJob(j)
      BY <1>0, <1>1, <1>3, <2>7
      DEF Stage, SelectDesiredBundle, PointReference, StopJob, RolloutTypeOK
  <2> QED
      BY <1>3, <2>1, <2>2, <2>3, <2>4, <2>5, <2>6, <2>7 DEF JobStep
<1>4. ASSUME NEW j \in Jobs, JobStep(j), i # j PROVE JobOK(i)'
  <2>1. job'[i] = job[i] /\ target'[i] = target[i]
      BY <1>0, <1>4
      DEF JobStep, SyncBundle, ManifestAbsent, DownloadManifest, DownloadFiles, AtomicPublish,
          ClearDestination, RemoveFiles, RemoveDirectory, Stage, ReplaceDestination,
          SelectDesiredBundle, PointReference, StopJob, Goes, RolloutTypeOK
  <2>2. job[i] \in Working => dir'[target[i]] # "complete"
    <3> SUFFICES ASSUME job[i] \in Working PROVE dir'[target[i]] # "complete"
        OBVIOUS
    <3>1. dir[target[i]] # "complete" /\ job[i] \notin Ended
        BY <1>1 DEF JobOK, Completed, Working, Ended
    <3>2. CASE ReplaceDestination(j)
      <4>1. target[i] # target[j]
          BY <1>0, <1>4, <3>1, <3>2 DEF ReplaceDestination, Apart, Ended
      <4> QED
          BY <1>0, <1>1, <3>1, <3>2, <4>1 DEF ReplaceDestination, RolloutTypeOK
    <3>3. CASE ~ReplaceDestination(j)
        BY <1>0, <1>1, <1>4, <3>1, <3>3
        DEF JobStep, SyncBundle, ManifestAbsent, DownloadManifest, DownloadFiles, AtomicPublish,
            ClearDestination, RemoveFiles, RemoveDirectory, Stage,
            SelectDesiredBundle, PointReference, StopJob, RolloutTypeOK, cacheVars
    <3> QED
        BY <3>2, <3>3
  <2>3. job[i] = "pointing" => dir'[target[i]] = "complete"
      BY <1>0, <1>1 DEF JobOK, Completed, CompletedStays
  <2> QED
      BY <2>1, <2>2, <2>3 DEF JobOK, Completed
<1>5. ASSUME NEW e \in Engines, EngineStep(e) \/ Redeploy(e) PROVE JobOK(i)'
    BY <1>1, <1>5
    DEF EngineStep, ResolveAnalyzerMode, RereadReference, LoadModels, Restart, Redeploy,
        cacheVars, jobVars, JobOK, Completed
<1> QED
    BY <1>2, <1>3, <1>4, <1>5 DEF RolloutNext

\* The reference moves only to a bundle that its job has just validated.
LEMMA ReferenceKept ==
    ASSUME RolloutInductive, [RolloutNext]_rolloutVars
    PROVE  ReferenceComplete'
<1>0. /\ RolloutTypeOK /\ ReferenceComplete /\ CompletedStays
      /\ \A j \in Jobs : JobOK(j)
    BY RolloutInductiveParts, CompletedKept
<1>1. CASE reference' = reference
    BY <1>0, <1>1, RolloutAssumption DEF RolloutTypeOK, ReferenceComplete, CompletedStays
<1>2. ASSUME NEW j \in Jobs, PointReference(j) PROVE ReferenceComplete'
    BY <1>0, <1>2 DEF PointReference, JobOK, Completed, ReferenceComplete
<1>3. reference' = reference \/ \E j \in Jobs : PointReference(j)
    BY DEF RolloutNext, rolloutVars, JobStep, SyncBundle, ManifestAbsent, DownloadManifest, DownloadFiles,
        AtomicPublish, ClearDestination, RemoveFiles, RemoveDirectory, Stage,
        ReplaceDestination, SelectDesiredBundle, StopJob, EngineStep, ResolveAnalyzerMode,
        RereadReference, LoadModels, Restart, Redeploy, cacheVars
<1> QED
    BY <1>1, <1>2, <1>3

\* An engine goes on to load only what it has just validated.
LEMMA LoadsKept ==
    ASSUME RolloutInductive, [RolloutNext]_rolloutVars
    PROVE  LoadsWholeBundle'
<1>0. RolloutTypeOK /\ LoadsWholeBundle /\ CompletedStays
    BY RolloutInductiveParts, CompletedKept
<1> SUFFICES ASSUME NEW e \in Engines, engine'[e] = "loading"
             PROVE  dir'[pin'[e]] = "complete"
    BY DEF LoadsWholeBundle
<1>1. CASE engine[e] = "loading" /\ pin'[e] = pin[e]
    BY <1>0, <1>1 DEF LoadsWholeBundle, CompletedStays, RolloutTypeOK
<1>2. CASE ResolveAnalyzerMode(e)
    BY <1>0, <1>2 DEF ResolveAnalyzerMode, Desired, Completed, Becomes, RolloutTypeOK, cacheVars
<1>3. (engine[e] = "loading" /\ pin'[e] = pin[e]) \/ ResolveAnalyzerMode(e)
  <2>1. CASE UNCHANGED engineVars
      BY <2>1 DEF engineVars
  <2>2. ASSUME NEW d \in Engines, EngineStep(d) \/ Redeploy(d), d = e
        PROVE  (engine[e] = "loading" /\ pin'[e] = pin[e]) \/ ResolveAnalyzerMode(e)
      BY <1>0, <2>2
      DEF EngineStep, RereadReference, LoadModels, LoadOutcomes, Restart, Redeploy, Becomes, RolloutTypeOK
  <2>3. ASSUME NEW d \in Engines, EngineStep(d) \/ Redeploy(d), d # e
        PROVE  engine[e] = "loading" /\ pin'[e] = pin[e]
      BY <1>0, <2>3
      DEF EngineStep, ResolveAnalyzerMode, RereadReference, LoadModels, Restart, Redeploy,
          Becomes, RolloutTypeOK
  <2>4. ASSUME NEW j \in Jobs, JobStep(j) PROVE UNCHANGED engineVars
      BY <2>4
      DEF JobStep, SyncBundle, ManifestAbsent, DownloadManifest, DownloadFiles, AtomicPublish,
          ClearDestination, RemoveFiles, RemoveDirectory, Stage, ReplaceDestination,
          SelectDesiredBundle, PointReference, StopJob
  <2> QED
      BY <2>1, <2>2, <2>3, <2>4 DEF RolloutNext, rolloutVars, engineVars
<1> QED
    BY <1>1, <1>2, <1>3

LEMMA RolloutNextPreserves ==
    ASSUME ~Overlap, RolloutInductive, [RolloutNext]_rolloutVars
    PROVE  RolloutInductive'
<1>1. RolloutTypeOK /\ Apart
    BY RolloutInductiveParts
<1>2. RolloutTypeOK' /\ Apart'
    BY <1>1, RolloutTypeKept, ApartKept
<1>3. ReferenceComplete' /\ LoadsWholeBundle' /\ \A j \in Jobs : JobOK(j)'
    BY ReferenceKept, LoadsKept, JobsKept
<1> QED
    BY <1>2, <1>3 DEF RolloutInductive, JobOK, Apart, Working

\* As long as no two jobs work on one bundle, jobs, reference and directories
\* stay in step, wherever a job is killed.
THEOREM RolloutInductiveHolds == ASSUME ~Overlap PROVE RolloutSpec => []RolloutInductive
<1>1. RolloutInductive /\ [RolloutNext]_rolloutVars => RolloutInductive'
    BY RolloutNextPreserves
<1> QED
    BY <1>1, RolloutInitEstablishes, PTL DEF RolloutSpec

\* The reference always names a whole bundle (select_desired_bundle).
THEOREM ReferenceIsComplete == ASSUME ~Overlap PROVE RolloutSpec => []ReferenceComplete
<1>1. RolloutInductive => ReferenceComplete
    BY RolloutInductiveParts
<1> QED
    BY <1>1, RolloutInductiveHolds, PTL

\* An engine never loads models from a directory that was taken away or
\* damaged after it was validated (resolve_analyzer_mode, create_analyzer).
THEOREM EnginesLoadWholeBundles == ASSUME ~Overlap PROVE RolloutSpec => []LoadsWholeBundle
<1>1. RolloutInductive => LoadsWholeBundle
    BY RolloutInductiveParts
<1> QED
    BY <1>1, RolloutInductiveHolds, PTL

\* No step ever changes a completed directory (atomic_publish).
THEOREM CompletedIsImmutable == ASSUME ~Overlap PROVE RolloutSpec => CompletedNeverMutated
<1>1. RolloutInductive /\ [RolloutNext]_rolloutVars => [CompletedStays]_rolloutVars
    BY CompletedKept
<1> QED
    BY <1>1, RolloutInductiveHolds, PTL DEF RolloutSpec, CompletedNeverMutated

=============================================================================
