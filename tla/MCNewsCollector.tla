--------------------------- MODULE MCNewsCollector ---------------------------
(* Two feeds of one publisher, and a registry from which the second is gone. *)
EXTENDS NewsCollector

I(i, t, p, f) == [id |-> i, title |-> t, published |-> p, fit |-> f]
MCDocuments ==
  {<<>>, <<I(1, "a", 0, TRUE)>>, <<I(1, "b", 1, TRUE)>>, <<I(2, "a", 1, TRUE), I(2, "b", 1, TRUE)>>,
   <<I(3, "a", 3, TRUE), I(1, "a", 0, FALSE)>>}
MCRegistries == {{1, 2}, {1}}
==============================================================================
