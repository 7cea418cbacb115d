------------------------------ MODULE JwksFetch ------------------------------
(***************************************************************************)
(* One fetch of an issuer's key set: the egress guard freezes one answer   *)
(* of the resolver into a target, the dialer opens TLS to one of its       *)
(* addresses, the reader frames one HTTP response, and the envelope decides *)
(* whether its body is a document.  Bytes are counted, not kept: a         *)
(* response is its head, its body and what is wrong with either.           *)
(***************************************************************************)
EXTENDS Naturals, Sequences, FiniteSets

CONSTANTS
  Trusts,          \* operator pins: [url, host, port, literal]
  Addresses,       \* numbered in the order of `sorted'; one that is no address is not Public
  Public,          \* the globally routable ones
  Certified,       \* Certified[a]: the hosts for which a can prove itself
  Answers,         \* what the resolver may answer: sequences of addresses
  Responses,       \* what a server may send
  MaxAddresses, Budget, MaxHeader, MaxBody, Chunk,   \* 16, 3 s, 32768, 262144, 4096
  Unstated,        \* no Content-Length
  NoPeer

\* A response's body ends with `blank' bytes of white space, which no parser needs.
\* What can be wrong with a head, with the envelope's headers and with the text.
HeadRejects ==
  [lines |-> "JWKS_HTTP_HEADERS_REJECTED", status_line |-> "JWKS_HTTP_STATUS_LINE_INVALID",
   length_twice |-> "JWKS_HTTP_CONTENT_LENGTH_INVALID",
   transfer_encoding |-> "JWKS_HTTP_TRANSFER_ENCODING_REJECTED"]

EnvelopeRejects ==
  [type_twice |-> "JWKS_HTTP_DUPLICATE_SECURITY_HEADER",
   no_type |-> "JWKS_HTTP_CONTENT_TYPE_REQUIRED", type |-> "JWKS_HTTP_CONTENT_TYPE_REJECTED",
   encoding |-> "JWKS_HTTP_CONTENT_ENCODING_REJECTED"]

TextRejects ==
  [not_utf8 |-> "JWKS_HTTP_UTF8_REQUIRED", duplicate_member |-> "JWKS_JSON_DUPLICATE_MEMBER",
   not_object |-> "JWKS_HTTP_JSON_OBJECT_REQUIRED", not_json |-> "JWKS_HTTP_JSON_INVALID"]

ResponseRecords ==
  [head : Nat \ {0}, body : Nat, blank : Nat, length : Nat \union {Unstated}, status : Nat,
   header : {"good"} \union DOMAIN HeadRejects \union DOMAIN EnvelopeRejects,
   text : {"jwks"} \union DOMAIN TextRejects]

ASSUME FetchAssumption ==
  /\ Addresses \subseteq Nat /\ Public \subseteq Addresses
  /\ Answers \subseteq Seq(Addresses) /\ Responses \subseteq ResponseRecords /\ Responses # {}
  /\ \A r \in Responses : r.blank # 0 => r.blank < r.body
  /\ MaxAddresses \in Nat /\ Budget \in Nat /\ MaxHeader \in Nat /\ MaxBody \in Nat
  /\ Chunk \in Nat \ {0}
  /\ Unstated \notin Nat /\ NoPeer \notin Addresses

VARIABLES
  stage, error,
  trust, target, answer,             \* the caller's pin, the frozen target, the resolver's answer
  untried, spent, failed,            \* the dialer: addresses left, time used, a failure seen
  peer, open, contacted,             \* the address in use, open sockets, every address ever tried
  response, sent, closed, got        \* the server's side, and the bytes this side has read

dialVars == <<untried, spent, failed, peer, open, contacted>>
pinVars  == <<trust, target, answer>>
wireVars == <<response, sent, closed, got>>
vars == <<stage, error, pinVars, dialVars, wireVars>>

In(seq) == {seq[i] : i \in DOMAIN seq}

NoTarget == [url |-> "none", host |-> "none", port |-> 0, addresses |-> {}]

Init ==
  /\ stage = "new" /\ error = "none"
  /\ trust \in Trusts /\ target = NoTarget /\ answer = <<>>
  /\ untried = {} /\ spent = 0 /\ failed = FALSE
  /\ peer = NoPeer /\ open = {} /\ contacted = {}
  /\ response \in Responses /\ sent = 0 /\ closed = FALSE /\ got = 0

\* The answer of the call; `finally' closes the connection.
Fail(e) == stage' = "done" /\ error' = e /\ open' = {}

----------------------------------------------------------------------------
(* build_pinned_tls_target, and the request pinned to it.                  *)

GuardError(t, ans) ==
  IF t.port # 443 THEN "JWKS_EGRESS_PORT_REJECTED"
  ELSE IF t.literal THEN "JWKS_EGRESS_IP_LITERAL_REJECTED"
  ELSE IF Len(ans) \notin 1..MaxAddresses THEN "JWKS_EGRESS_DNS_ANSWER_REJECTED"
  ELSE IF ~(In(ans) \subseteq Public) THEN "JWKS_EGRESS_NON_PUBLIC_ADDRESS"
  ELSE "none"

\* The only resolution of the host, by the caller, for the pin t.
Freeze(t, ans) ==
  /\ stage = "new"
  /\ answer' = ans
  /\ IF GuardError(t, ans) # "none"
       THEN Fail(GuardError(t, ans)) /\ UNCHANGED target
       ELSE /\ target' = [url |-> t.url, host |-> t.host, port |-> t.port, addresses |-> In(ans)]
            /\ stage' = "target" /\ UNCHANGED <<error, open>>
  /\ UNCHANGED <<trust, untried, spent, failed, peer, contacted, wireVars>>

Pinned == trust.url = target.url /\ trust.host = target.host /\ target.port = 443

ValidTarget == target.port = 443 /\ target.addresses # {} /\ target.addresses \subseteq Public

\* fetch_pinned_jwks_over_tls with the caller's own pin, up to the dialer's deadline.
Fetch ==
  /\ stage = "target"
  /\ IF ~Pinned THEN Fail("JWKS_HTTP_REQUEST_NOT_PINNED") /\ UNCHANGED untried
     ELSE IF ~ValidTarget THEN Fail("JWKS_TLS_TARGET_INVALID") /\ UNCHANGED untried
     ELSE stage' = "dial" /\ untried' = target.addresses /\ UNCHANGED <<error, open>>
  /\ UNCHANGED <<pinVars, spent, failed, peer, contacted, wireVars>>

----------------------------------------------------------------------------
(* open_pinned_tls_connection: one deadline for all the addresses.         *)

Remaining == Budget - spent

\* The process is not running while the deadline comes nearer.
TimePasses ==
  /\ stage = "dial" /\ spent < Budget /\ spent' = spent + 1
  /\ UNCHANGED <<stage, error, pinVars, untried, failed, peer, open, contacted, wireVars>>

Attempt ==
  /\ stage = "dial" /\ spent < Budget
  /\ \E a \in untried :
       /\ \A b \in untried : a <= b
       /\ untried' = untried \ {a} /\ peer' = a
       /\ open' = open \union {a} /\ contacted' = contacted \union {a}
  /\ stage' = "connect"
  /\ UNCHANGED <<error, pinVars, spent, failed, wireVars>>

\* TCP is up with some of the budget left: what remains is the handshake's.
Connect(d) ==
  /\ stage = "connect" /\ d < Remaining
  /\ spent' = spent + d /\ stage' = "handshake"
  /\ UNCHANGED <<error, pinVars, untried, failed, peer, open, contacted, wireVars>>

\* Faulty variant: the certificate is checked against no name.
HandshakeWithoutName(d) ==
  /\ stage = "handshake" /\ d <= Remaining
  /\ spent' = spent + d /\ stage' = "send"
  /\ UNCHANGED <<error, pinVars, untried, failed, peer, open, contacted, wireVars>>

Handshake(d) ==
  /\ stage = "handshake" /\ d <= Remaining
  /\ target.host \in Certified[peer]
  /\ spent' = spent + d /\ stage' = "send"
  /\ UNCHANGED <<error, pinVars, untried, failed, peer, open, contacted, wireVars>>

\* Faulty variant: the socket of a failed attempt stays open.
AttemptFailsOpen(d) ==
  /\ stage \in {"connect", "handshake"} /\ d <= Remaining
  /\ spent' = spent + d /\ failed' = TRUE /\ peer' = NoPeer
  /\ stage' = "dial"
  /\ UNCHANGED <<error, pinVars, untried, open, contacted, wireVars>>

\* Refused, reset, timed out, or a certificate that does not verify.
AttemptFails(d) ==
  /\ stage \in {"connect", "handshake"} /\ d <= Remaining
  /\ spent' = spent + d /\ failed' = TRUE /\ peer' = NoPeer
  /\ open' = open \ {peer} /\ stage' = "dial"
  /\ UNCHANGED <<error, pinVars, untried, contacted, wireVars>>

DialEnds ==
  /\ stage = "dial" /\ (untried = {} \/ spent >= Budget)
  /\ Fail(IF failed THEN "JWKS_TLS_CONNECT_FAILED" ELSE "JWKS_TLS_CONNECT_TIMEOUT")
  /\ UNCHANGED <<pinVars, untried, spent, failed, peer, contacted, wireVars>>

----------------------------------------------------------------------------
(* The server: it delivers its response in pieces, and may stop or close.  *)

Total == response.head + response.body

Deliver ==
  /\ stage \in {"head", "body"} /\ ~closed /\ sent < Total
  /\ sent' \in (sent + 1)..Total
  /\ UNCHANGED <<stage, error, pinVars, dialVars, response, closed, got>>

Hangup ==
  /\ stage \in {"head", "body"} /\ ~closed /\ closed' = TRUE
  /\ UNCHANGED <<stage, error, pinVars, dialVars, response, sent, got>>

----------------------------------------------------------------------------
(* The reader.                                                             *)

SendRequest ==
  /\ stage = "send" /\ stage' = "head"
  /\ UNCHANGED <<error, pinVars, dialVars, wireVars>>

SocketFails ==
  /\ \/ /\ stage = "send"
        /\ \E e \in {"JWKS_HTTP_WRITE_TIMEOUT", "JWKS_HTTP_WRITE_FAILED"} : Fail(e)
     \/ stage \in {"head", "body"} /\ Fail("JWKS_HTTP_READ_FAILED")
  /\ UNCHANGED <<pinVars, untried, spent, failed, peer, contacted, wireVars>>

Stated == response.length # Unstated
BodyGot == got - response.head

\* Faulty variant: every recv asks for a full chunk.
RoomOfChunk == Chunk

\* The most the next recv may return.
Room ==
  LET left == IF stage = "head" THEN MaxHeader + 1 - got
              ELSE IF Stated THEN response.length - BodyGot
              ELSE MaxBody + 1 - BodyGot
  IN  IF left < Chunk THEN left ELSE Chunk

Reading == stage = "head" \/ (stage = "body" /\ ~(Stated /\ BodyGot = response.length))

\* What the bytes read so far, n of them, are refused for, outside a whole body.
FramingError(n) ==
  IF n < response.head
    THEN IF n >= MaxHeader THEN "JWKS_HTTP_HEADERS_TOO_LARGE" ELSE "none"
  ELSE IF response.head > MaxHeader THEN "JWKS_HTTP_HEADERS_TOO_LARGE"
  ELSE IF response.header \in DOMAIN HeadRejects THEN HeadRejects[response.header]
  ELSE IF Stated /\ response.length > MaxBody THEN "JWKS_HTTP_BODY_SIZE_REJECTED"
  ELSE IF Stated /\ n - response.head > response.length THEN "JWKS_HTTP_EXTRA_BODY_BYTES"
  ELSE IF ~Stated /\ n - response.head > MaxBody THEN "JWKS_HTTP_BODY_SIZE_REJECTED"
  ELSE "none"

Receive ==
  /\ Reading /\ got < sent
  /\ LET n == got + (IF sent - got < Room THEN sent - got ELSE Room) IN
       /\ got' = n
       /\ IF FramingError(n) # "none" THEN Fail(FramingError(n))
          ELSE /\ stage' = IF n < response.head THEN "head" ELSE "body"
               /\ UNCHANGED <<error, open>>
  /\ UNCHANGED <<pinVars, untried, spent, failed, peer, contacted, response, sent, closed>>

\* recv returned nothing.  Without a length that is the end of the body.
EndOfStream ==
  /\ Reading /\ got = sent /\ closed
  /\ \/ stage = "head" /\ Fail("JWKS_HTTP_EOF_BEFORE_HEADERS")
     \/ stage = "body" /\ Stated /\ Fail("JWKS_HTTP_EOF_BEFORE_BODY")
     \/ stage = "body" /\ ~Stated /\ stage' = "envelope" /\ UNCHANGED <<error, open>>
  /\ UNCHANGED <<pinVars, untried, spent, failed, peer, contacted, wireVars>>

\* Faulty variant: a socket without a read timeout.
ReadTimesOutNever == FALSE /\ UNCHANGED vars

\* Five seconds in which nothing came.
ReadTimesOut ==
  /\ Reading /\ got = sent /\ ~closed /\ Fail("JWKS_HTTP_READ_TIMEOUT")
  /\ UNCHANGED <<pinVars, untried, spent, failed, peer, contacted, wireVars>>

BodyRead ==
  /\ stage = "body" /\ ~Reading /\ stage' = "envelope"
  /\ UNCHANGED <<error, pinVars, dialVars, wireVars>>

----------------------------------------------------------------------------
(* parse_pinned_jwks_response.                                             *)

\* No prefix of the text of a JSON object is the text of one, but for the white space
\* behind it.
TextError ==
  IF response.text = "not_utf8" THEN TextRejects.not_utf8
  ELSE IF BodyGot + response.blank < response.body THEN TextRejects.not_json
  ELSE IF response.text = "jwks" THEN "none" ELSE TextRejects[response.text]

EnvelopeError ==
  IF response.status \in 300..399 THEN "JWKS_HTTP_REDIRECT_REJECTED"
  ELSE IF response.status # 200 THEN "JWKS_HTTP_STATUS_REJECTED"
  ELSE IF BodyGot = 0 \/ BodyGot > MaxBody THEN "JWKS_HTTP_BODY_SIZE_REJECTED"
  ELSE IF response.header \in DOMAIN EnvelopeRejects THEN EnvelopeRejects[response.header]
  ELSE IF Stated /\ response.length # BodyGot THEN "JWKS_HTTP_CONTENT_LENGTH_MISMATCH"
  ELSE TextError

\* The answer is the document exactly when there is no error.
Decide ==
  /\ stage = "envelope" /\ Fail(EnvelopeError)
  /\ UNCHANGED <<pinVars, untried, spent, failed, peer, contacted, wireVars>>

\* Steps of this process that do not wait for anything but a timeout.
Step ==
  \/ Fetch \/ Attempt \/ DialEnds
  \/ \E d \in 0..Budget : Connect(d) \/ Handshake(d) \/ AttemptFails(d)
  \/ SendRequest \/ Receive \/ EndOfStream \/ ReadTimesOut \/ BodyRead \/ Decide

Next ==
  \/ \E t \in Trusts, ans \in Answers : Freeze(t, ans)
  \/ Step \/ TimePasses \/ SocketFails \/ Deliver \/ Hangup

Spec == Init /\ [][Next]_vars /\ WF_vars(Step)

----------------------------------------------------------------------------
(* Properties.                                                             *)

\* The caller's pin, the dialer's account and the bytes read have the code's shapes; no
\* response makes the process hold more than the limits of head and body.
TypeOK ==
  /\ stage \in {"new", "target", "dial", "connect", "handshake", "send", "head", "body",
                "envelope", "done"}
  /\ trust \in Trusts /\ response \in Responses /\ answer \in {<<>>} \union Answers
  /\ target.addresses \subseteq Addresses
  /\ untried \subseteq Addresses /\ spent \in 0..Budget /\ failed \in BOOLEAN
  /\ peer \in Addresses \union {NoPeer} /\ open \subseteq Addresses /\ contacted \subseteq Addresses
  /\ closed \in BOOLEAN /\ sent \in 0..Total /\ got \in 0..sent
  /\ got <= MaxHeader + MaxBody + 1

\* A document is accepted only from an address of the one answer that was resolved for
\* the caller's own pin, which proved itself to be that pin's host; with status 200;
\* and only whole, however the response was cut up, stopped or closed on the way: not
\* even a response without a length can lose more than white space.
DocumentIsThePinned ==
  stage = "done" /\ error = "none" =>
    /\ peer \in In(answer) /\ trust.host \in Certified[peer] /\ trust.url = target.url
    /\ response.status = 200 /\ response.text = "jwks"
    /\ got + response.blank >= Total /\ (Stated => BodyGot = response.length)
    /\ response.header = "good" /\ BodyGot \in 1..MaxBody

\* Every address the process has ever tried is public and of the answer that was
\* frozen, all of whose addresses are; it tries one at a time, in order, and does not
\* come back to one; and whatever failed, it keeps no socket when it has answered.
ContactsAreBounded ==
  /\ contacted # {} => In(answer) \subseteq Public
  /\ contacted \subseteq In(answer)
  /\ \A a \in contacted, b \in untried : a < b
  /\ open \subseteq {peer} /\ (stage = "done" => open = {})

\* A fetch that has started ends: a server that is silent, or sends one byte at a time,
\* can neither hold it for ever nor make it read without bound.
FetchEnds == (stage = "dial") ~> (stage = "done")
==============================================================================
