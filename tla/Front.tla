------------------------------- MODULE Front -------------------------------
(***************************************************************************)
(* The HTTP front end of the engines: the identity of a connection         *)
(* (main.py, lib/identity.py), the middleware that bounds a request body   *)
(* (RequestSizeLimitMiddleware), the routes with the answer each failure   *)
(* is given (controllers/api.py, the exception handlers of main.py), and   *)
(* the reasoning receipts that two of the routes keep in Valkey            *)
(* (SessionStore.record_reasoning and verify_reasoning).                   *)
(*                                                                         *)
(* A body is its length.  The analysis behind a route is one step with any *)
(* outcome; modules Admission, Session and Policy are about it.  Several   *)
(* engines, not all of the same policy version, share one Valkey.          *)
(***************************************************************************)
EXTENDS Naturals, Sequences, SequencesExt

CONSTANTS
    Connections,     \* client connections
    Certificates,    \* common names of peers
    Enforcing,       \* the engines with enforce_client_identity
    Calls,           \* the requests that clients make
    MaxBytes,        \* max_request_bytes
    MaxEmptyChunks,  \* empty chunks that are let through (4096)
    MaxResponse,     \* max_adapter_response_bytes, ..._evaluation_response_bytes
    MaxDigests,      \* max_reasoning_fingerprints
    Ttl              \* life of a receipt, in ticks

\* Analyses of the adapter, analyses and evaluations of Studio, the first version
\* of the Studio analysis, and the two methods of the receipts.
Analyses == {"adapter", "studio", "preview"}
Routes == Analyses \union {"record", "verify"}

\* What a client sends, and the policy version of the engine that gets it.
CallType ==
    [route : Routes, total : Nat, valid : BOOLEAN, engine : STRING,
     declared : {"none", "malformed", "negative", "total"},
     scope : STRING, digests : Seq(STRING), version : STRING]

ASSUME CallsAreRequests == Calls # {} /\ Calls \subseteq CallType

ASSUME LimitsAreNatural ==
    /\ {MaxBytes, MaxEmptyChunks, MaxResponse, MaxDigests} \subseteq Nat
    /\ Ttl \in Nat \ {0}

VARIABLES
    peer,       \* the certificate each connection was opened with
    state,      \* peer_certificate in the ASGI state of each connection
    pc,         \* closed, open, reading, handling or answered
    call,       \* the request each connection carries
    consumed,   \* bytes of its body that were received
    empty,      \* empty chunks that were received
    body,       \* bytes that were handed to the application
    answer,     \* the last answer
    receipts,   \* Valkey: the receipts there are, with their age
    recorded    \* receipts recorded less than Ttl ago, with their age (history)

connection == <<peer, state>>
reading == <<consumed, empty, body>>
valkey == <<receipts, recorded>>
vars == <<connection, pc, call, reading, answer, valkey>>

-----------------------------------------------------------------------------
(***************************************************************************)
(* Answers.                                                                *)
(***************************************************************************)

NoLimit == [reason |-> "none"]

\* LimitDetail of a boundary that refused a measured amount.
LimitDetail(reason, measured, maximum, exact) ==
    [reason |-> reason, measured |-> measured, maximum |-> maximum,
     exact |-> exact]

\* What the inspection of a request measures is not the subject here.
Inspection == LimitDetail("inspection", 1, 0, FALSE)

Answer(code) == [code |-> code, limit |-> NoLimit]
NoAnswer == Answer("none")

\* _error_content: an answer has the measurement only when size was the reason.
Refusal(code, limit) ==
    [code |-> code, limit |-> IF code = "request_too_large" THEN limit ELSE NoLimit]

Failures == {"RuntimeNotReadyError", "AnalysisCapacityError", "TimeoutError",
             "AnalysisRequestTooLargeError", "InvalidAnalysisRequestError",
             "Exception"}

\* Of Valkey; the last is that of a store that is not connected.
ValkeyFailures == {"OSError", "TimeoutError", "RedisError", "RuntimeError"}

_failure_code(exc) ==
    CASE exc = "RuntimeNotReadyError" -> "runtime_unavailable"
      [] exc = "AnalysisCapacityError" -> "capacity_unavailable"
      [] exc = "TimeoutError" -> "analysis_timeout"
      [] exc = "AnalysisRequestTooLargeError" -> "request_too_large"
      [] exc = "InvalidAnalysisRequestError" -> "invalid_request"
      [] OTHER -> "internal_error"

\* The receipts' own reading of a failure: a TimeoutError is an OSError.
ReceiptsFailureCode(exc) ==
    IF exc \in {"OSError", "TimeoutError", "RedisError"}
    THEN "runtime_unavailable"
    ELSE _failure_code(exc)

Reply(c, a) ==
    /\ answer' = [answer EXCEPT ![c] = a]
    /\ pc' = [pc EXCEPT ![c] = "answered"]

\* The application is done with the body.
Drop(c) ==
    /\ consumed' = [consumed EXCEPT ![c] = 0]
    /\ empty' = [empty EXCEPT ![c] = 0]
    /\ body' = [body EXCEPT ![c] = 0]

-----------------------------------------------------------------------------
Init ==
    /\ peer = [c \in Connections |-> "none"]
    /\ state = [c \in Connections |-> "none"]
    /\ pc = [c \in Connections |-> "closed"]
    /\ call \in [Connections -> {CHOOSE k \in Calls : TRUE}]
    /\ consumed = [c \in Connections |-> 0]
    /\ empty = [c \in Connections |-> 0]
    /\ body = [c \in Connections |-> 0]
    /\ answer = [c \in Connections |-> NoAnswer]
    /\ receipts = <<>>
    /\ recorded = <<>>

(***************************************************************************)
(* Connections.                                                            *)
(***************************************************************************)

\* Mutant: the state that the protocol object is given is not copied.
ConnectionMadeShared(c, certificate) ==
    /\ pc[c] = "closed"
    /\ pc' = [pc EXCEPT ![c] = "open"]
    /\ peer' = [peer EXCEPT ![c] = certificate]
    /\ state' = [d \in Connections |-> certificate]
    /\ UNCHANGED <<call, reading, answer, valkey>>

\* The state of the connection is a copy of its own, with the certificate that
\* the TLS layer verified.
ConnectionMade(c, certificate) ==
    /\ pc[c] = "closed"
    /\ pc' = [pc EXCEPT ![c] = "open"]
    /\ peer' = [peer EXCEPT ![c] = certificate]
    /\ state' = [state EXCEPT ![c] = certificate]
    /\ UNCHANGED <<call, reading, answer, valkey>>

\* Between requests, or with part of a body sent: what was buffered is dropped
\* and the application is told of the disconnection only.
Disconnect(c) ==
    /\ pc[c] \in {"open", "reading", "answered"}
    /\ pc' = [pc EXCEPT ![c] = "closed"]
    /\ peer' = [peer EXCEPT ![c] = "none"]
    /\ state' = [state EXCEPT ![c] = "none"]
    /\ answer' = [answer EXCEPT ![c] = NoAnswer]
    /\ Drop(c)
    /\ UNCHANGED <<call, valkey>>

-----------------------------------------------------------------------------
(***************************************************************************)
(* The middleware.                                                         *)
(***************************************************************************)

\* The answer that the declared length alone calls for.
DeclaredError(k) ==
    CASE k.declared = "malformed" -> Refusal("invalid_request", NoLimit)
      [] k.declared = "negative" -> Refusal("request_too_large", NoLimit)
      [] k.declared = "total" /\ k.total > MaxBytes ->
           Refusal("request_too_large",
                   LimitDetail("declared_bytes", k.total, MaxBytes, TRUE))
      [] OTHER -> NoAnswer

Request(c, k) ==
    /\ pc[c] \in {"open", "answered"}
    /\ call' = [call EXCEPT ![c] = k]
    /\ Drop(c)
    /\ answer' = [answer EXCEPT ![c] = DeclaredError(k)]
    /\ pc' = [pc EXCEPT ![c] = IF DeclaredError(k) = NoAnswer
                               THEN "reading" ELSE "answered"]
    /\ UNCHANGED <<connection, valkey>>

\* Mutant: a refusal in the middle of a body claims to have measured it.
ExactAlways(more) == TRUE

\* Whether the measurement of a body is that of all of it.
Exact(more) == ~more

\* The next chunk: n bytes, after which the client has more to send or not.
Chunk(c, n, more) ==
    LET got == consumed[c] + n
        holes == IF n = 0 /\ more THEN empty[c] + 1 ELSE empty[c]
    IN  /\ pc[c] = "reading"
        /\ got <= call[c].total
        /\ ~more => got = call[c].total
        /\ CASE holes > MaxEmptyChunks ->
                  /\ Reply(c, Refusal("request_too_large",
                       LimitDetail("empty_chunks", holes, MaxEmptyChunks, FALSE)))
                  /\ Drop(c)
             [] holes <= MaxEmptyChunks /\ got > MaxBytes ->
                  /\ Reply(c, Refusal("request_too_large",
                       LimitDetail("encoded_bytes", got, MaxBytes, Exact(more))))
                  /\ Drop(c)
             [] OTHER ->
                  /\ consumed' = [consumed EXCEPT ![c] = got]
                  /\ empty' = [empty EXCEPT ![c] = holes]
                  /\ body' = [body EXCEPT ![c] = IF more THEN 0 ELSE got]
                  /\ pc' = [pc EXCEPT ![c] = IF more THEN @ ELSE "handling"]
                  /\ UNCHANGED answer
        /\ UNCHANGED <<connection, call, valkey>>

-----------------------------------------------------------------------------
(***************************************************************************)
(* The routes.                                                             *)
(***************************************************************************)

\* adapter_identity and studio_identity.
Expected(route) ==
    IF route \in {"studio", "preview"} THEN "studio" ELSE "adapter"

\* _require_common_name
Authorized(c) ==
    call[c].engine \in Enforcing => state[c] = Expected(call[c].route)

\* The body does not validate, or the identity is not the route's.
NotAccepted(c) ==
    /\ pc[c] = "handling"
    /\ \/ ~call[c].valid /\ Reply(c, Answer("invalid_request"))
       \/ ~Authorized(c) /\ Reply(c, Answer("forbidden"))
    /\ Drop(c)
    /\ UNCHANGED <<connection, call, valkey>>

\* A valid request for the route reaches the code of the route.
Accepted(c) == pc[c] = "handling" /\ call[c].valid /\ Authorized(c)

\* An analysis or an evaluation ends with an exception.
AnalysisFails(c, exc) ==
    /\ Accepted(c)
    /\ call[c].route \in Analyses
    /\ Reply(c, Refusal(_failure_code(exc), Inspection))
    /\ Drop(c)
    /\ UNCHANGED <<connection, call, valkey>>

\* It ends with a result, of which an answer of n bytes is made; only the
\* preview does not measure it.
AnalysisAnswers(c, n) ==
    /\ Accepted(c)
    /\ call[c].route \in Analyses
    /\ IF n > MaxResponse /\ call[c].route # "preview"
       THEN Reply(c, Refusal("request_too_large",
                             LimitDetail("bytes", n, MaxResponse, TRUE)))
       ELSE Reply(c, Answer("ok"))
    /\ Drop(c)
    /\ UNCHANGED <<connection, call, valkey>>

\* Receipts are refused when there are too many, or when they are meant for
\* another policy version than that of the engine; an engine without session
\* state answers as one of another version does.
ReceiptsRefused(c) ==
    /\ Accepted(c)
    /\ call[c].route \in {"record", "verify"}
    /\ \/ /\ Len(call[c].digests) > MaxDigests
          /\ Reply(c, Refusal("request_too_large",
               LimitDetail("reasoning_fingerprints", Len(call[c].digests),
                           MaxDigests, TRUE)))
       \/ /\ Len(call[c].digests) <= MaxDigests
          /\ call[c].version \notin {"none", call[c].engine}
          /\ Reply(c, Answer("runtime_unavailable"))
    /\ Drop(c)
    /\ UNCHANGED <<connection, call, valkey>>

Admitted(c, route) ==
    /\ Accepted(c)
    /\ call[c].route = route
    /\ Len(call[c].digests) <= MaxDigests
    /\ call[c].version \in {"none", call[c].engine}

\* A key has the policy version of the engine, the scope and the digest.
Keys(k) == {<<k.engine, k.scope, d>> : d \in ToSet(k.digests)}

\* f with the keys of set K at age 0.
Fresh(f, K) == [j \in DOMAIN f \union K |-> IF j \in K THEN 0 ELSE f[j]]

\* The transaction sets all receipts of the call, each with the full lifetime.
Apply(c) ==
    /\ receipts' = Fresh(receipts, Keys(call[c]))
    /\ recorded' = Fresh(recorded, Keys(call[c]))

Record(c) ==
    /\ Admitted(c, "record")
    /\ Apply(c)
    /\ Reply(c, Answer("recorded"))
    /\ Drop(c)
    /\ UNCHANGED <<connection, call>>

\* Valkey or the connection to it fails, before or after the transaction was
\* carried out.
RecordFails(c, exc) ==
    /\ Admitted(c, "record")
    /\ (Apply(c) /\ exc # "RuntimeError") \/ UNCHANGED valkey
    /\ Reply(c, Answer(ReceiptsFailureCode(exc)))
    /\ Drop(c)
    /\ UNCHANGED <<connection, call>>

\* Mutant: reading a receipt renews it, as reading a session decision does.
VerifyRenews(c) ==
    /\ Admitted(c, "verify")
    /\ Reply(c, Answer(IF Keys(call[c]) \subseteq DOMAIN receipts
                       THEN "verified" ELSE "refuted"))
    /\ receipts' = Fresh(receipts, Keys(call[c]) \intersect DOMAIN receipts)
    /\ Drop(c)
    /\ UNCHANGED <<connection, call, recorded>>

\* One MGET for all receipts of the call.
Verify(c) ==
    /\ Admitted(c, "verify")
    /\ Reply(c, Answer(IF Keys(call[c]) \subseteq DOMAIN receipts
                       THEN "verified" ELSE "refuted"))
    /\ Drop(c)
    /\ UNCHANGED <<connection, call, valkey>>

VerifyFails(c, exc) ==
    /\ Admitted(c, "verify")
    /\ Reply(c, Answer(ReceiptsFailureCode(exc)))
    /\ Drop(c)
    /\ UNCHANGED <<connection, call, valkey>>

-----------------------------------------------------------------------------
\* Ages one tick further, without what has reached its lifetime.
Older(f) == [k \in {j \in DOMAIN f : f[j] + 1 < Ttl} |-> f[k] + 1]

\* Time passes: Valkey drops what has expired.
Tick ==
    /\ DOMAIN recorded # {}
    /\ receipts' = Older(receipts)
    /\ recorded' = Older(recorded)
    /\ UNCHANGED <<connection, pc, call, reading, answer>>

\* Valkey may evict a key at any time.
Evict(key) ==
    /\ key \in DOMAIN receipts
    /\ receipts' = [k \in DOMAIN receipts \ {key} |-> receipts[k]]
    /\ UNCHANGED <<connection, pc, call, reading, answer, recorded>>

Client(c) ==
    \/ \E certificate \in Certificates : ConnectionMade(c, certificate)
    \/ Disconnect(c)
    \/ \E k \in Calls : Request(c, k)
    \/ \E n \in 0 .. call[c].total, more \in BOOLEAN : Chunk(c, n, more)

Handler(c) ==
    \/ NotAccepted(c)
    \/ \E exc \in Failures : AnalysisFails(c, exc)
    \/ \E exc \in ValkeyFailures : RecordFails(c, exc) \/ VerifyFails(c, exc)
    \/ \E n \in 0 .. MaxResponse + 1 : AnalysisAnswers(c, n)
    \/ ReceiptsRefused(c)
    \/ Record(c) \/ Verify(c)

Next ==
    \/ \E c \in Connections : Client(c) \/ Handler(c)
    \/ Tick
    \/ \E key \in DOMAIN receipts : Evict(key)

Spec == Init /\ [][Next]_vars

-----------------------------------------------------------------------------
(***************************************************************************)
(* Properties.                                                             *)
(***************************************************************************)

Codes == {"none", "ok", "recorded", "verified", "refuted", "invalid_request",
          "forbidden", "request_too_large", "runtime_unavailable",
          "capacity_unavailable", "analysis_timeout", "internal_error"}

Reasons == {"declared_bytes", "empty_chunks", "encoded_bytes", "inspection",
            "bytes", "reasoning_fingerprints"}

Limits == {NoLimit} \union
    [reason : Reasons, measured : Nat, maximum : Nat, exact : BOOLEAN]

\* Every variable has a value of its kind.
TypeOK ==
    /\ peer \in [Connections -> Certificates \union {"none"}]
    /\ state \in [Connections -> Certificates \union {"none"}]
    /\ pc \in [Connections ->
                 {"closed", "open", "reading", "handling", "answered"}]
    /\ call \in [Connections -> Calls]
    /\ consumed \in [Connections -> Nat]
    /\ empty \in [Connections -> Nat]
    /\ body \in [Connections -> Nat]
    /\ answer \in [Connections -> [code : Codes, limit : Limits]]
    /\ \A k \in DOMAIN receipts : receipts[k] \in 0 .. Ttl - 1
    /\ \A k \in DOMAIN recorded : recorded[k] \in 0 .. Ttl - 1

\* The code of a route works on the request as it was sent and for who sent
\* it: on all of its body and never on the part that had come when the client
\* went away, within the limit, and, where the engine enforces identities, with
\* that of its own connection whatever other connections are opened meanwhile.
HandledAsSent ==
    \A c \in Connections :
      Accepted(c) =>
        /\ body[c] = call[c].total /\ body[c] <= MaxBytes
        /\ call[c].engine \in Enforcing => peer[c] = Expected(call[c].route)

\* The measurement in answer a, if it has one, is true of request k.
LimitTrue(a, k) ==
    a.limit # NoLimit =>
      /\ a.code = "request_too_large"
      /\ a.limit.measured > a.limit.maximum
      /\ a.limit.reason \in {"declared_bytes", "encoded_bytes"} =>
           /\ a.limit.measured <= k.total
           /\ a.limit.exact => a.limit.measured = k.total

\* What a refusal says it measured is true of the request: the measurement is
\* above the maximum it names, never more than the client's body, and when it
\* is called exact it is the size of the whole body; so no body that fits is
\* refused for its bytes.
LimitFactsTrue == \A c \in Connections : LimitTrue(answer[c], call[c])

\* Only what was recorded is verified: all receipts of the call, for its scope
\* and by engines of the same policy version, no longer ago than a receipt
\* lives, however often they were verified in between; and a recording that is
\* confirmed is complete.
ReceiptAnswersTrue ==
    [][\A c \in Connections :
         answer'[c] # answer[c] =>
           /\ answer'[c].code = "verified" =>
                Keys(call[c]) \subseteq DOMAIN recorded
           /\ answer'[c].code = "recorded" =>
                Keys(call[c]) \subseteq DOMAIN receipts']_vars

-----------------------------------------------------------------------------
(***************************************************************************)
(* The inductive invariant behind the properties.                          *)
(***************************************************************************)

\* A route is entered with the whole body, and the state of a connection is
\* that of its peer.
ConnectionsOK ==
    \A c \in Connections :
      /\ state[c] = peer[c]
      /\ pc[c] = "handling" => body[c] = call[c].total /\ body[c] <= MaxBytes

\* Valkey has no receipt that is younger than its last recording.
ReceiptsOK ==
    \A k \in DOMAIN receipts : k \in DOMAIN recorded /\ recorded[k] <= receipts[k]

Inductive == TypeOK /\ ConnectionsOK /\ LimitFactsTrue /\ ReceiptsOK
=============================================================================
