---------------------------- MODULE MCJwksFetch ----------------------------
(* Four pins; the addresses 1 to 3 are public, 9 is not; 2 proves itself as*)
(* the other pin's host.  The budgets and limits are small.               *)
EXTENDS JwksFetch, TLC

Pin(u, h, p, l) == [url |-> u, host |-> h, port |-> p, literal |-> l]
MCTrusts == {Pin("A", "a", 443, FALSE), Pin("B", "b", 443, FALSE),
             Pin("C", "c", 8443, FALSE), Pin("D", "d", 443, TRUE)}
MCAddresses == {1, 2, 3, 9}
MCPublic == {1, 2, 3}
MCCertified == (1 :> {"a"}) @@ (2 :> {"b"}) @@ (3 :> {"a", "b"}) @@ (9 :> {"a"})
MCAnswers == {<<>>, <<1>>, <<2, 1>>, <<3, 3>>, <<1, 9>>, <<1, 2, 3, 1>>}

Sound == [head |-> 2, body |-> 2, blank |-> 0, length |-> 2, status |-> 200,
          header |-> "good", text |-> "jwks"]
MCResponses ==
  {Sound} \union {[Sound EXCEPT !.body = 3, !.blank = 1, !.length = n] : n \in {2, 3, Unstated}}
  \union {[Sound EXCEPT !.body = 4, !.blank = 1, !.length = 3]}
  \union {[Sound EXCEPT !.length = n] : n \in {1, 3, 4, Unstated}}
  \union {[Sound EXCEPT !.body = n, !.length = m] : n \in {0, 4}, m \in {0, 4, Unstated}}
  \union {[Sound EXCEPT !.head = 3, !.body = 5, !.length = Unstated]}
  \union {[Sound EXCEPT !.head = n] : n \in {3, 4, 5}}
  \union {[Sound EXCEPT !.status = n] : n \in {302, 500}}
  \union {[Sound EXCEPT !.header = h] :
            h \in DOMAIN HeadRejects \union DOMAIN EnvelopeRejects}
  \union {[Sound EXCEPT !.text = x] : x \in DOMAIN TextRejects}
============================================================================
