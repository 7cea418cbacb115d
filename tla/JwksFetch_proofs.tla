-------------------------- MODULE JwksFetch_proofs --------------------------
(***************************************************************************)
(* The safety of a fetch for any pins, resolver answers, responses, limits *)
(* and budgets.                                                            *)
(***************************************************************************)
EXTENDS JwksFetch, TLAPS

------------------------------------------------------------------------------
(* The inductive invariant *)

Stages == {"new", "target", "dial", "connect", "handshake", "send", "head", "body",
           "envelope", "done"}

Types ==
  /\ stage \in Stages
  /\ trust \in Trusts /\ response \in Responses /\ answer \in {<<>>} \union Answers
  /\ target.addresses \subseteq Addresses
  /\ untried \subseteq Addresses /\ spent \in 0..Budget /\ failed \in BOOLEAN
  /\ peer \in Addresses \union {NoPeer} /\ open \subseteq Addresses /\ contacted \subseteq Addresses
  /\ closed \in BOOLEAN /\ sent \in 0..Total /\ got \in 0..sent

\* What has been read, by stage: a head inside its limit, then a body inside its own.
HeadInv == stage = "head" => got < response.head /\ got <= MaxHeader

BodyInv ==
  stage \in {"body", "envelope"} =>
    /\ response.head <= got /\ response.head <= MaxHeader
    /\ response.header \notin DOMAIN HeadRejects
    /\ Stated => response.length <= MaxBody /\ BodyGot <= response.length
    /\ ~Stated => BodyGot <= MaxBody

Wire ==
  /\ stage \in Stages \ {"head", "body", "envelope", "done"} => got = 0
  /\ HeadInv /\ BodyInv
  /\ got <= MaxHeader + MaxBody + 1

\* The addresses: the target's come from one answer that was approved as a whole, and
\* the dialer takes them in order, one at a time.
Frozen ==
  /\ target.addresses \subseteq In(answer)
  /\ target.addresses # {} => In(answer) \subseteq Public
  /\ stage = "new" => target.addresses = {}
  /\ stage \in {"new", "target"} => untried = {} /\ contacted = {} /\ peer = NoPeer
  /\ untried \subseteq target.addresses /\ contacted \subseteq target.addresses
  /\ \A a \in contacted, b \in untried : a < b

Sockets ==
  /\ open \subseteq {peer}
  /\ stage \in {"new", "target", "dial", "done"} => open = {}
  /\ stage = "dial" => peer = NoPeer
  /\ stage \in {"connect", "handshake"} => peer \in contacted

\* From the handshake on, and in an accepted answer, the peer is the pin's host.
Accepted == stage = "done" /\ error = "none"

Secured ==
  /\ stage \in Stages \ {"new", "target", "done"} => Pinned
  /\ stage # "done" => error = "none"
  /\ stage \in {"send", "head", "body", "envelope"} \/ Accepted =>
       /\ Pinned /\ peer \in contacted /\ target.host \in Certified[peer]

\* An accepted answer is a whole document.
Whole ==
  Accepted => /\ response.status = 200 /\ response.text = "jwks"
              /\ got + response.blank >= Total /\ (Stated => BodyGot = response.length)
              /\ response.header = "good" /\ BodyGot \in 1..MaxBody

IInv == Types /\ Wire /\ Frozen /\ Sockets /\ Secured /\ Whole

------------------------------------------------------------------------------
(* What the types say of a response, and of the errors *)

LEMMA ResponseFields ==
  ASSUME response \in Responses
  PROVE  /\ response.head \in Nat \ {0} /\ response.body \in Nat /\ response.status \in Nat
         /\ response.blank \in Nat
         /\ response.length \in Nat \union {Unstated}
         /\ response.header \in {"good"} \union DOMAIN HeadRejects \union DOMAIN EnvelopeRejects
         /\ response.text \in {"jwks"} \union DOMAIN TextRejects
         /\ Total \in Nat
  BY FetchAssumption, SMT DEF ResponseRecords, Total

LEMMA RejectsAreErrors ==
  /\ \A h \in DOMAIN HeadRejects : HeadRejects[h] # "none"
  /\ \A h \in DOMAIN EnvelopeRejects : EnvelopeRejects[h] # "none"
  /\ \A x \in DOMAIN TextRejects : TextRejects[x] # "none"
  BY DEF HeadRejects, EnvelopeRejects, TextRejects

\* A frozen answer is a set of addresses.
LEMMA AnswerAddresses ==
  ASSUME NEW ans \in Answers PROVE In(ans) \subseteq Addresses
  <1>1. ans \in Seq(Addresses)
    BY FetchAssumption
  <1> QED BY <1>1 DEF In

\* The errors the process names when it gives up.
LEMMA FailAnswers ==
  ASSUME NEW e, Fail(e), e # "none"
  PROVE  stage' = "done" /\ ~Accepted' /\ open' = {}
  BY DEF Fail, Accepted

\* Room never lets the process hold more than the limits.
LEMMA RoomBound ==
  ASSUME Types, Wire, Reading
  PROVE  /\ Room \in Nat
         /\ stage = "head" => got + Room <= MaxHeader + 1
         /\ stage = "body" /\ Stated => BodyGot + Room <= response.length
         /\ stage = "body" /\ ~Stated => BodyGot + Room <= MaxBody + 1
  <1>1. response.head \in Nat /\ response.length \in Nat \union {Unstated} /\ got \in Nat
    BY ResponseFields DEF Types
  <1>2. MaxHeader \in Nat /\ MaxBody \in Nat /\ Chunk \in Nat \ {0} /\ Unstated \notin Nat
    BY FetchAssumption
  <1>3. CASE stage = "head"
    BY <1>1, <1>2, <1>3 DEF Room, Wire, HeadInv
  <1>4. CASE stage = "body"
    BY <1>1, <1>2, <1>4 DEF Room, Wire, BodyInv, BodyGot, Stated, Reading
  <1> QED BY <1>3, <1>4 DEF Reading

------------------------------------------------------------------------------
(* Inductiveness *)

\* The fetch starts in the invariant.
THEOREM InitHolds == Init => IInv
  <1> SUFFICES ASSUME Init PROVE IInv
    OBVIOUS
  <1>1. response.head \in Nat \ {0} /\ Total \in Nat
    BY ResponseFields DEF Init
  <1>2. MaxHeader \in Nat /\ MaxBody \in Nat /\ Budget \in Nat
    BY FetchAssumption
  <1>3. Types
    <2>1. target.addresses = {}
      BY DEF Init, NoTarget
    <2>2. answer \in {<<>>} \union Answers
      BY DEF Init
    <2>3. /\ stage \in Stages /\ trust \in Trusts /\ response \in Responses
          /\ untried = {} /\ open = {} /\ contacted = {} /\ failed = FALSE /\ closed = FALSE
          /\ peer = NoPeer /\ spent = 0 /\ sent = 0 /\ got = 0
      BY DEF Init, Stages
    <2>4. sent \in 0..Total /\ got \in 0..sent /\ spent \in 0..Budget
      BY <1>1, <1>2, <2>3
    <2> QED BY <2>1, <2>2, <2>3, <2>4 DEF Types
  <1>4. Wire
    BY <1>1, <1>2 DEF Init, Wire, Stages, HeadInv, BodyInv
  <1>5. Frozen /\ Sockets
    BY DEF Init, Frozen, Sockets, NoTarget
  <1>6. Secured /\ Whole
    BY DEF Init, Secured, Whole, Accepted, Stages
  <1> QED BY <1>3, <1>4, <1>5, <1>6 DEF IInv

\* A step that ends the call with an error and touches nothing else of the dialer or
\* of the wire.
LEMMA Failing ==
  ASSUME IInv, NEW e, Fail(e), e # "none",
         UNCHANGED <<pinVars, untried, spent, failed, peer, contacted, response, sent, closed>>,
         got' \in 0..sent, got' <= MaxHeader + MaxBody + 1
  PROVE  IInv'
  <1>1. stage' = "done" /\ open' = {} /\ error' = e
    BY DEF Fail
  <1>2. Types'
    BY <1>1 DEF IInv, Types, Stages, pinVars, Total
  <1>3. Wire'
    BY <1>1 DEF IInv, Wire, Stages, HeadInv, BodyInv
  <1>4. Frozen' /\ Sockets'
    BY <1>1 DEF IInv, Frozen, Sockets, pinVars, In
  <1>5. Secured' /\ Whole'
    BY <1>1 DEF IInv, Secured, Whole, Accepted, Stages, pinVars
  <1> QED BY <1>2, <1>3, <1>4, <1>5 DEF IInv

LEMMA FreezeKeeps ==
  ASSUME IInv, NEW t \in Trusts, NEW ans \in Answers, Freeze(t, ans)
  PROVE  IInv'
  <1>1. stage = "new" /\ stage' \in {"target", "done"} /\ open' = {} /\ answer' = ans
        /\ trust' = trust /\ UNCHANGED <<untried, spent, failed, peer, contacted, wireVars>>
    BY DEF Freeze, Fail, IInv, Sockets
  <1>2. /\ untried = {} /\ contacted = {} /\ peer = NoPeer /\ error = "none"
        /\ target.addresses \subseteq In(answer)
    BY <1>1 DEF IInv, Frozen, Secured
  <1>3. In(ans) \subseteq Addresses
    BY AnswerAddresses
  <1>4. CASE GuardError(t, ans) # "none"
    <2>1. stage' = "done" /\ error' # "none" /\ target' = target
      BY <1>4 DEF Freeze, Fail
    <2>2. Types'
      BY <1>1, <1>2, <2>1 DEF IInv, Types, Stages, wireVars, Total
    <2>3. Wire'
      BY <1>1, <2>1 DEF IInv, Wire, Stages, HeadInv, BodyInv, wireVars
    <2>4. Frozen' /\ Sockets'
      BY <1>1, <1>2, <2>1 DEF IInv, Frozen, Sockets, In
    <2>5. Secured' /\ Whole'
      BY <1>1, <2>1 DEF Secured, Whole, Accepted, Stages
    <2> QED BY <2>2, <2>3, <2>4, <2>5 DEF IInv
  <1>5. CASE GuardError(t, ans) = "none"
    <2>1. In(ans) \subseteq Public
      BY <1>5 DEF GuardError
    <2>2. /\ stage' = "target" /\ error' = error
          /\ target' = [url |-> t.url, host |-> t.host, port |-> t.port, addresses |-> In(ans)]
      BY <1>5 DEF Freeze
    <2>3. target'.addresses = In(ans)
      BY <2>2
    <2>4. Types'
      BY <1>1, <1>2, <1>3, <2>2, <2>3 DEF IInv, Types, Stages, wireVars, Total
    <2>5. Wire'
      BY <1>1, <2>2 DEF IInv, Wire, Stages, HeadInv, BodyInv, wireVars
    <2>6. Frozen' /\ Sockets'
      BY <1>1, <1>2, <2>1, <2>2, <2>3 DEF Frozen, Sockets, In
    <2>7. Secured' /\ Whole'
      BY <1>1, <1>2, <2>2 DEF Secured, Whole, Accepted, Stages
    <2> QED BY <2>4, <2>5, <2>6, <2>7 DEF IInv
  <1> QED BY <1>4, <1>5

LEMMA FetchKeeps == ASSUME IInv, Fetch PROVE IInv'
  <1>1. stage = "target" /\ UNCHANGED <<pinVars, spent, failed, peer, contacted, wireVars>>
    BY DEF Fetch
  <1>2. got' = 0 /\ got \in 0..sent /\ untried = {} /\ contacted = {} /\ peer = NoPeer /\ open = {}
    BY <1>1 DEF IInv, Types, Wire, Frozen, Sockets, Stages, wireVars
  <1>3. CASE stage' = "dial"
    <2>1. Pinned /\ untried' = target.addresses /\ UNCHANGED <<error, open>>
      BY <1>3 DEF Fetch, Fail
    <2>2. Types'
      BY <1>1, <1>3, <2>1 DEF IInv, Types, Stages, pinVars, wireVars, Total
    <2>3. Wire'
      BY <1>1, <1>3 DEF IInv, Wire, Stages, HeadInv, BodyInv, wireVars
    <2>4. Frozen' /\ Sockets'
      BY <1>1, <1>2, <1>3, <2>1 DEF IInv, Frozen, Sockets, In, pinVars
    <2>5. Secured' /\ Whole'
      BY <1>1, <1>3, <2>1 DEF IInv, Secured, Whole, Accepted, Stages, pinVars, Pinned
    <2> QED BY <2>2, <2>3, <2>4, <2>5 DEF IInv
  <1>4. CASE stage' # "dial"
    <2>1. /\ untried' = untried
          /\ \E e \in {"JWKS_HTTP_REQUEST_NOT_PINNED", "JWKS_TLS_TARGET_INVALID"} : Fail(e)
      BY <1>4 DEF Fetch
    <2>2. PICK e \in {"JWKS_HTTP_REQUEST_NOT_PINNED", "JWKS_TLS_TARGET_INVALID"} : Fail(e)
      BY <2>1
    <2>3. e # "none" /\ got' <= MaxHeader + MaxBody + 1 /\ got' \in 0..sent
      BY <1>1, <1>2, <2>2 DEF wireVars, IInv, Wire
    <2>4. UNCHANGED <<pinVars, untried, spent, failed, peer, contacted, response, sent, closed>>
      BY <1>1, <2>1 DEF wireVars
    <2> QED BY <2>2, <2>3, <2>4, Failing
  <1> QED BY <1>3, <1>4

\* The dialer moves; nothing has been read.
LEMMA DialKeeps ==
  ASSUME IInv, NEW d \in 0..Budget,
         Attempt \/ TimePasses \/ Connect(d) \/ Handshake(d) \/ AttemptFails(d)
  PROVE  IInv'
  <1>1. /\ stage \in {"dial", "connect", "handshake"}
        /\ stage' \in {"dial", "connect", "handshake", "send"}
        /\ UNCHANGED <<error, pinVars, wireVars>>
    BY DEF Attempt, TimePasses, Connect, Handshake, AttemptFails
  <1>2. Budget \in Nat /\ Addresses \subseteq Nat /\ NoPeer \notin Addresses
    BY FetchAssumption
  <1>3. Types'
    <2>1. Types /\ spent \in Nat /\ spent <= Budget
      BY <1>2 DEF IInv, Types
    <2>2. spent' \in 0..Budget
      BY <1>2, <2>1 DEF Remaining, Attempt, TimePasses, Connect, Handshake, AttemptFails
    <2>3. /\ untried' \subseteq Addresses /\ open' \subseteq Addresses
          /\ contacted' \subseteq Addresses
          /\ peer' \in Addresses \union {NoPeer} /\ failed' \in BOOLEAN
      BY <2>1 DEF Types, Attempt, TimePasses, Connect, Handshake, AttemptFails
    <2> QED BY <1>1, <2>1, <2>2, <2>3 DEF Types, Stages, pinVars, wireVars, Total
  <1>4. Wire'
    BY <1>1 DEF IInv, Wire, Stages, HeadInv, BodyInv, wireVars
  <1>5. Frozen'
    <2>1. Types /\ Frozen /\ UNCHANGED <<trust, target, answer>> /\ In(answer)' = In(answer)
      BY <1>1 DEF IInv, pinVars, In
    <2>2. CASE Attempt
      <3>1. PICK a \in untried : /\ \A b \in untried : a <= b
                                /\ untried' = untried \ {a} /\ contacted' = contacted \union {a}
        BY <2>2 DEF Attempt
      <3>2. a \in target.addresses /\ untried \subseteq Nat /\ contacted \subseteq Nat
        BY <1>2, <2>1, <3>1 DEF Types, Frozen
      <3>3. \A x \in contacted', b \in untried' : x < b
        <4> SUFFICES ASSUME NEW x \in contacted', NEW b \in untried' PROVE x < b
          OBVIOUS
        <4>1. b \in untried /\ b # a /\ a <= b /\ a \in Nat /\ b \in Nat
          BY <3>1, <3>2
        <4>2. CASE x = a
          BY <4>1, <4>2
        <4>3. CASE x \in contacted
          BY <2>1, <4>1, <4>3 DEF Frozen
        <4> QED BY <3>1, <4>2, <4>3
      <3>4. untried' \subseteq target.addresses /\ contacted' \subseteq target.addresses
        BY <2>1, <3>1, <3>2 DEF Frozen
      <3> QED BY <1>1, <2>1, <3>3, <3>4 DEF Frozen
    <2>3. CASE untried' = untried /\ contacted' = contacted
      BY <1>1, <2>1, <2>3 DEF Frozen
    <2> QED BY <2>2, <2>3 DEF TimePasses, Connect, Handshake, AttemptFails
  <1>6. Sockets'
    BY <1>1, <1>2 DEF IInv, Types, Sockets, Attempt, TimePasses, Connect, Handshake, AttemptFails
  <1>7. Secured' /\ Whole'
    BY <1>1 DEF IInv, Sockets, Secured, Whole, Accepted, Stages, pinVars, Pinned, Attempt,
       TimePasses, Connect, Handshake, AttemptFails
  <1> QED BY <1>3, <1>4, <1>5, <1>6, <1>7 DEF IInv

LEMMA DialEndsKeeps == ASSUME IInv, DialEnds PROVE IInv'
  <1>1. PICK e \in {"JWKS_TLS_CONNECT_FAILED", "JWKS_TLS_CONNECT_TIMEOUT"} : Fail(e)
    <2>1. CASE failed
      BY <2>1 DEF DialEnds
    <2>2. CASE ~failed
      BY <2>2 DEF DialEnds
    <2> QED BY <2>1, <2>2
  <1>2. got' \in 0..sent /\ got' <= MaxHeader + MaxBody + 1
    BY DEF DialEnds, wireVars, IInv, Types, Wire
  <1>3. UNCHANGED <<pinVars, untried, spent, failed, peer, contacted, response, sent, closed>>
    BY DEF DialEnds, wireVars
  <1>4. e # "none"
    BY <1>1
  <1> QED BY <1>1, <1>2, <1>3, <1>4, Failing

\* The server's steps, and the request that is sent.
LEMMA ServerKeeps == ASSUME IInv, Deliver \/ Hangup \/ SendRequest PROVE IInv'
  <1>1. /\ UNCHANGED <<error, pinVars, dialVars, response, got>>
        /\ stage' = stage \/ (stage = "send" /\ stage' = "head")
    BY DEF Deliver, Hangup, SendRequest, wireVars
  <1>2. response.head \in Nat \ {0} /\ response.body \in Nat /\ Total \in Nat /\ MaxHeader \in Nat
    BY ResponseFields, FetchAssumption DEF IInv, Types
  <1>3. Types'
    <2>1. sent' \in 0..Total /\ got \in 0..sent' /\ closed' \in BOOLEAN
      <3>1. sent \in 0..Total /\ got \in 0..sent /\ closed \in BOOLEAN
        BY DEF IInv, Types
      <3>2. CASE Deliver
        BY <1>2, <3>1, <3>2 DEF Deliver
      <3>3. CASE Hangup
        BY <3>1, <3>3 DEF Hangup
      <3>4. CASE SendRequest
        BY <3>1, <3>4 DEF SendRequest, wireVars
      <3> QED BY <3>2, <3>3, <3>4
    <2>2. stage' \in Stages /\ Types
      BY <1>1 DEF IInv, Types, Stages
    <2>3. Total' = Total
      BY <1>1 DEF Total
    <2> QED BY <1>1, <2>1, <2>2, <2>3 DEF Types, pinVars, dialVars
  <1>4. Wire'
    BY <1>1, <1>2 DEF IInv, Wire, Stages, HeadInv, BodyInv, BodyGot, Stated
  <1>5. Frozen' /\ Sockets'
    BY <1>1 DEF IInv, Frozen, Sockets, pinVars, dialVars, In
  <1>6. Secured'
    BY <1>1, <1>2 DEF IInv, Secured, Accepted, Stages, pinVars, dialVars, Pinned
  <1>7. Whole'
    <2>1. stage' # "done"
      BY DEF Deliver, Hangup, SendRequest
    <2> QED BY <2>1 DEF Whole, Accepted
  <1> QED BY <1>3, <1>4, <1>5, <1>6, <1>7 DEF IInv

LEMMA SocketKeeps == ASSUME IInv, SocketFails \/ ReadTimesOut PROVE IInv'
  <1>1. PICK e \in {"JWKS_HTTP_WRITE_TIMEOUT", "JWKS_HTTP_WRITE_FAILED", "JWKS_HTTP_READ_FAILED",
                    "JWKS_HTTP_READ_TIMEOUT"} : Fail(e)
    BY DEF SocketFails, ReadTimesOut
  <1>2. got' \in 0..sent /\ got' <= MaxHeader + MaxBody + 1
    BY DEF SocketFails, ReadTimesOut, wireVars, IInv, Types, Wire
  <1>3. UNCHANGED <<pinVars, untried, spent, failed, peer, contacted, response, sent, closed>>
    BY DEF SocketFails, ReadTimesOut, wireVars
  <1>4. e # "none"
    BY <1>1
  <1> QED BY <1>1, <1>2, <1>3, <1>4, Failing

\* A step of the reader that goes on, from a state whose wire it leaves in order.
LEMMA ReaderGoesOn ==
  ASSUME IInv, stage \in {"head", "body"}, stage' \in {"head", "body", "envelope"}, Wire',
         got' \in 0..sent, UNCHANGED <<error, pinVars, dialVars, response, sent, closed>>
  PROVE  IInv'
  <1>1. Types'
    BY DEF IInv, Types, Stages, pinVars, dialVars, Total
  <1>2. Frozen' /\ Sockets'
    BY DEF IInv, Frozen, Sockets, pinVars, dialVars, In
  <1>3. Secured' /\ Whole'
    BY DEF IInv, Secured, Whole, Accepted, Stages, pinVars, dialVars, Pinned
  <1> QED BY <1>1, <1>2, <1>3 DEF IInv

LEMMA ReceiveKeeps == ASSUME IInv, Receive PROVE IInv'
  <1> DEFINE n == got + (IF sent - got < Room THEN sent - got ELSE Room)
  <1>1. /\ got' = n /\ Reading /\ got < sent
        /\ UNCHANGED <<pinVars, untried, spent, failed, peer, contacted, response, sent, closed>>
        /\ IF FramingError(n) # "none" THEN Fail(FramingError(n))
           ELSE /\ stage' = IF n < response.head THEN "head" ELSE "body"
                /\ UNCHANGED <<error, open>>
    BY DEF Receive
  <1>2. /\ response.head \in Nat \ {0} /\ response.body \in Nat /\ Total \in Nat
        /\ response.length \in Nat \union {Unstated} /\ sent \in 0..Total /\ got \in 0..sent
    BY ResponseFields DEF IInv, Types
  <1>3. MaxHeader \in Nat /\ MaxBody \in Nat /\ Unstated \notin Nat
    BY FetchAssumption
  <1>4. /\ Room \in Nat
        /\ stage = "head" => got + Room <= MaxHeader + 1
        /\ stage = "body" /\ Stated => BodyGot + Room <= response.length
        /\ stage = "body" /\ ~Stated => BodyGot + Room <= MaxBody + 1
    BY <1>1, RoomBound DEF IInv
  <1>5. stage \in {"head", "body"}
    BY <1>1 DEF Reading
  <1>6. n \in 0..sent /\ n <= got + Room /\ got <= n
    BY <1>1, <1>2, <1>4
  <1>7. n <= MaxHeader + MaxBody + 1
    BY <1>2, <1>3, <1>4, <1>5, <1>6 DEF IInv, Wire, BodyInv, BodyGot, Stated
  <1> HIDE DEF n
  <1>8. CASE FramingError(n) # "none"
    BY <1>1, <1>6, <1>7, <1>8, Failing DEF pinVars
  <1>9. CASE FramingError(n) = "none"
    <2>1. /\ stage' = IF n < response.head THEN "head" ELSE "body"
          /\ UNCHANGED <<error, pinVars, dialVars, response, sent, closed>>
      BY <1>1, <1>9 DEF dialVars
    <2>2. /\ n < response.head => n < MaxHeader
          /\ ~(n < response.head) =>
               /\ response.head <= MaxHeader /\ response.header \notin DOMAIN HeadRejects
               /\ Stated => response.length <= MaxBody /\ n - response.head <= response.length
               /\ ~Stated => n - response.head <= MaxBody
      BY <1>2, <1>3, <1>6, <1>9, RejectsAreErrors DEF FramingError, Stated
    <2>3. Wire'
      BY <1>1, <1>2, <1>3, <1>6, <1>7, <2>1, <2>2 DEF Wire, HeadInv, BodyInv, BodyGot, Stated,
         Stages
    <2> QED BY <1>1, <1>5, <1>6, <2>1, <2>3, ReaderGoesOn
  <1> QED BY <1>8, <1>9

LEMMA EndOfStreamKeeps == ASSUME IInv, EndOfStream \/ BodyRead PROVE IInv'
  <1>1. /\ got' = got /\ got \in 0..sent /\ got <= MaxHeader + MaxBody + 1
        /\ stage \in {"head", "body"}
        /\ UNCHANGED <<pinVars, untried, spent, failed, peer, contacted, response, sent, closed>>
    BY DEF IInv, Types, Wire, EndOfStream, BodyRead, wireVars, dialVars, Reading
  <1>2. CASE stage' = "envelope"
    <2>1. stage = "body" /\ UNCHANGED <<error, pinVars, dialVars, response, sent, closed>>
      BY <1>2 DEF EndOfStream, BodyRead, Fail, dialVars, wireVars
    <2>2. Wire'
      BY <1>1, <1>2, <2>1 DEF IInv, Wire, HeadInv, BodyInv, BodyGot, Stated, Stages
    <2> QED BY <1>1, <1>2, <2>1, <2>2, ReaderGoesOn
  <1>3. CASE stage' # "envelope"
    <2>1. PICK e \in {"JWKS_HTTP_EOF_BEFORE_HEADERS", "JWKS_HTTP_EOF_BEFORE_BODY"} : Fail(e)
      BY <1>3 DEF EndOfStream, BodyRead
    <2>2. e # "none" /\ got' \in 0..sent /\ got' <= MaxHeader + MaxBody + 1
      BY <1>1, <2>1
    <2> QED BY <1>1, <2>1, <2>2, Failing
  <1> QED BY <1>2, <1>3

LEMMA DecideKeeps == ASSUME IInv, Decide PROVE IInv'
  <1>1. /\ stage = "envelope" /\ Fail(EnvelopeError)
        /\ UNCHANGED <<pinVars, untried, spent, failed, peer, contacted, wireVars>>
    BY DEF Decide
  <1>2. got \in 0..sent /\ got <= MaxHeader + MaxBody + 1 /\ sent \in 0..Total
    BY DEF IInv, Types, Wire
  <1>3. CASE EnvelopeError # "none"
    BY <1>1, <1>2, <1>3, Failing DEF wireVars, pinVars
  <1>4. CASE EnvelopeError = "none"
    <2>1. stage' = "done" /\ error' = "none" /\ open' = {}
      BY <1>1, <1>4 DEF Fail
    <2>2. /\ response.head \in Nat \ {0} /\ response.body \in Nat /\ response.status \in Nat
          /\ response.blank \in Nat
          /\ response.header \in {"good"} \union DOMAIN HeadRejects \union DOMAIN EnvelopeRejects
          /\ response.text \in {"jwks"} \union DOMAIN TextRejects
      BY ResponseFields DEF IInv, Types
    <2>3. /\ response.status = 200 /\ BodyGot # 0 /\ ~(BodyGot > MaxBody)
          /\ response.header \notin DOMAIN EnvelopeRejects /\ TextError = "none"
          /\ (Stated => BodyGot = response.length)
      BY <1>4, RejectsAreErrors DEF EnvelopeError
    <2>4. response.text = "jwks" /\ ~(BodyGot + response.blank < response.body)
      BY <2>2, <2>3, RejectsAreErrors DEF TextError, TextRejects
    <2>5. response.header = "good"
      BY <1>1, <2>2, <2>3 DEF IInv, Wire, BodyInv
    <2>6. response.head <= got
      BY <1>1, <1>2 DEF IInv, Wire, BodyInv
    <2>7. got + response.blank >= Total /\ BodyGot \in 1..MaxBody
      BY <1>2, <2>2, <2>3, <2>4, <2>6, FetchAssumption DEF BodyGot, Total
    <2>8. Types' /\ Wire'
      BY <1>1, <1>2, <2>1 DEF IInv, Types, Wire, HeadInv, BodyInv, Stages, pinVars, wireVars, Total
    <2>9. Frozen' /\ Sockets'
      BY <1>1, <2>1 DEF IInv, Frozen, Sockets, pinVars, In
    <2>10. Secured'
      BY <1>1, <2>1 DEF IInv, Secured, Accepted, Stages, pinVars, Pinned
    <2>11. Whole'
      BY <1>1, <2>3, <2>4, <2>5, <2>7 DEF Whole, wireVars, Total, BodyGot, Stated
    <2> QED BY <2>8, <2>9, <2>10, <2>11 DEF IInv
  <1> QED BY <1>3, <1>4

\* Every step of the resolver, the dialer, the server and the reader keeps it.
THEOREM NextKeeps == IInv /\ [Next]_vars => IInv'
  <1> SUFFICES ASSUME IInv, [Next]_vars PROVE IInv'
    OBVIOUS
  <1>1. CASE \E t \in Trusts, ans \in Answers : Freeze(t, ans)
    BY <1>1, FreezeKeeps
  <1>2. CASE Step
    <2>1. 0 \in 0..Budget
      BY FetchAssumption
    <2>2. CASE Fetch
      BY <2>2, FetchKeeps
    <2>3. CASE Attempt \/ \E d \in 0..Budget : Connect(d) \/ Handshake(d) \/ AttemptFails(d)
      BY <2>1, <2>3, DialKeeps
    <2>4. CASE DialEnds
      BY <2>4, DialEndsKeeps
    <2>5. CASE SendRequest
      BY <2>5, ServerKeeps
    <2>6. CASE Receive
      BY <2>6, ReceiveKeeps
    <2>7. CASE EndOfStream \/ BodyRead
      BY <2>7, EndOfStreamKeeps
    <2>8. CASE ReadTimesOut
      BY <2>8, SocketKeeps
    <2>9. CASE Decide
      BY <2>9, DecideKeeps
    <2> QED BY <1>2, <2>2, <2>3, <2>4, <2>5, <2>6, <2>7, <2>8, <2>9 DEF Step
  <1>3. CASE TimePasses
    <2>1. 0 \in 0..Budget
      BY FetchAssumption
    <2> QED BY <1>3, <2>1, DialKeeps
  <1>4. CASE SocketFails
    BY <1>4, SocketKeeps
  <1>5. CASE Deliver \/ Hangup
    BY <1>5, ServerKeeps
  <1>6. CASE UNCHANGED vars
    BY <1>6 DEF IInv, Types, Wire, HeadInv, BodyInv, Frozen, Sockets, Secured, Whole, Accepted,
       Pinned, Total, Stated, BodyGot, In, vars, pinVars, dialVars, wireVars
  <1> QED BY <1>1, <1>2, <1>3, <1>4, <1>5, <1>6 DEF Next

------------------------------------------------------------------------------
(* The theorems *)

\* IInv holds in every state.
THEOREM Invariance == Spec => []IInv
  <1>1. Init => IInv
    BY InitHolds
  <1>2. IInv /\ [Next]_vars => IInv'
    BY NextKeeps
  <1> QED BY <1>1, <1>2, PTL DEF Spec

\* Every variable keeps its type, and no response makes the process hold more than the
\* limits of head and body (_read_http_response).
THEOREM TypesHold == Spec => []TypeOK
  <1>1. IInv => TypeOK
    BY DEF IInv, Types, Stages, Wire, TypeOK
  <1> QED BY <1>1, Invariance, PTL

\* What is accepted as the key set is the whole document of the pinned host, from an
\* approved address (parse_pinned_jwks_response and everything before it).
THEOREM DocumentsArePinned == Spec => []DocumentIsThePinned
  <1>1. IInv => DocumentIsThePinned
    BY DEF IInv, Frozen, Secured, Whole, Accepted, Pinned, DocumentIsThePinned
  <1> QED BY <1>1, Invariance, PTL

\* Only approved addresses are tried, in order and once each, and no socket is
\* left open (open_pinned_tls_connection, the finally of fetch_pinned_jwks_over_tls).
THEOREM ContactsStayBounded == Spec => []ContactsAreBounded
  <1>1. IInv => ContactsAreBounded
    <2> SUFFICES ASSUME IInv PROVE ContactsAreBounded
      OBVIOUS
    <2>1. Frozen /\ Sockets
      BY DEF IInv
    <2>2. contacted \subseteq In(answer) /\ (contacted # {} => In(answer) \subseteq Public)
      BY <2>1 DEF Frozen
    <2> QED BY <2>1, <2>2 DEF Frozen, Sockets, ContactsAreBounded
  <1> QED BY <1>1, Invariance, PTL
=============================================================================
