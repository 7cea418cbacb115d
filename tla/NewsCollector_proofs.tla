------------------------- MODULE NewsCollector_proofs -------------------------
(***************************************************************************)
(* Proofs about the news run: the published snapshot is well formed, the   *)
(* histories it tells are true, and a deployment keeps the histories that  *)
(* were published before, whatever the feeds offer.                        *)
(*                                                                         *)
(* While a run is under way the site does not change, so what was read     *)
(* from it is still what is published; the records of the run continue     *)
(* those of the site, one merged row after the other.                      *)
(***************************************************************************)
EXTENDS NewsCollector, TLAPS, FiniteSetTheorems, SequenceTheorems, NaturalsInduction,
        WellFoundedInduction

(***************************************************************************)
(* The inductive invariant.                                                *)
(***************************************************************************)

Records ==
  [id : Ids, title : Titles, published : Int, first : Days, last : Days,
   feeds : SUBSET Nat, revisions : Seq(Revisions)]

Snapshots ==
  [generated : Days \union {None}, success : Days \union {None},
   status : {"OK", "PARTIAL", "STALE", "NOT_FETCHED"}, records : SUBSET Records,
   sources : SUBSET Nat]

Runs ==
  [at : {"idle", "previous", "collect", "feeds", "deploy"}, feeds : SUBSET Nat,
   todo : SUBSET Nat, done : SUBSET Nat, previous : Snapshots \union {None}, clock : Days,
   records : SUBSET Records, source : Nat \union {None}, rows : Seq(Items)]

Changes(a, b) ==
  a.observed <= b.observed /\ <<a.title, a.published>> # <<b.title, b.published>>

\* The revisions of r, none of which is later than clock, lead from its first sight
\* to what it shows.
History(r, clock) ==
  /\ Len(r.revisions) > 0 /\ r.first = r.revisions[1].observed
  /\ r.revisions[Len(r.revisions)].title = r.title
  /\ r.revisions[Len(r.revisions)].published = r.published
  /\ r.revisions[Len(r.revisions)].observed <= r.last /\ r.last <= clock
  /\ \A i \in 1..(Len(r.revisions) - 1) : Changes(r.revisions[i], r.revisions[i + 1])

RecordsOK(records, feeds, clock) ==
  /\ IsFiniteSet(records) /\ records \subseteq Records
  /\ \A r, s \in records : r.id = s.id => r = s
  /\ \A r \in records : /\ History(r, clock) /\ InWindow(r.published, clock)
                        /\ r.feeds \subseteq feeds

SnapshotOK(s) ==
  /\ s \in Snapshots /\ s.generated \in Days /\ s.records # {}
  /\ s.sources \in Registries
  /\ Valid(s, s.sources) /\ RecordsOK(s.records, s.sources, s.generated)

\* s is what has become of the record r.
Continues(s, r) ==
  /\ s.id = r.id /\ s.first = r.first /\ r.feeds \subseteq s.feeds
  /\ IsPrefix(r.revisions, s.revisions)

Types ==
  /\ now \in Days /\ runs \in 0..MaxRuns /\ registry \in Registries
  /\ run \in Runs

SiteInv == site # None => SnapshotOK(site)

Scheduled ==
  /\ run.at # "idle" => /\ run.feeds \in Registries
                        /\ run.todo \subseteq run.feeds /\ run.done \subseteq run.feeds
  /\ run.at # "feeds" => run.rows = <<>>

Current ==
  run.at \in {"collect", "feeds", "deploy"} =>
    run.previous = Previous /\ Valid(Previous, run.feeds)

Merging ==
  run.at \in {"feeds", "deploy"} =>
    /\ Previous.generated # None => Previous.generated <= run.clock
    /\ RecordsOK(run.records, run.feeds, run.clock)
    /\ \A r \in Previous.records : InWindow(r.published, run.clock) =>
         \E s \in run.records : Continues(s, r)
    /\ run.rows # <<>> => run.source \in run.feeds

Deployable == run.at = "deploy" => Output.records # {} /\ Valid(Output, run.feeds)

IInv == Types /\ SiteInv /\ Scheduled /\ Current /\ Merging /\ Deployable

----------------------------------------------------------------------------
(* Prefixes, and what continues what.                                      *)

LEMMA PrefixByElements ==
  ASSUME NEW S, NEW s \in Seq(S), NEW t \in Seq(S)
  PROVE  IsPrefix(s, t) <=> Len(s) <= Len(t) /\ \A i \in 1..Len(s) : s[i] = t[i]
<1> DEFINE n == Len(s)
<1>1. n \in Nat /\ Len(t) \in Nat
  BY LenProperties
<1>2. SubSeq(s, 1, n) = s
  BY SubSeqFull
<1>3. SUFFICES ASSUME n <= Len(t)
               PROVE  s = SubSeq(t, 1, n) <=> \A i \in 1..n : s[i] = t[i]
  BY <1>2 DEF IsPrefix
<1>4. /\ SubSeq(t, 1, n) \in Seq(S) /\ Len(SubSeq(t, 1, n)) = n
      /\ \A i \in 1..n : SubSeq(t, 1, n)[i] = t[i]
  <2>1. \A i \in 1..n : t[i] \in S
    BY <1>1, <1>3, ElementOfSeq
  <2>2. /\ SubSeq(t, 1, n) \in Seq(S)
        /\ Len(SubSeq(t, 1, n)) = IF 1 <= n THEN n - 1 + 1 ELSE 0
        /\ \A i \in 1..(n - 1 + 1) : SubSeq(t, 1, n)[i] = t[1 + i - 1]
    <3> HIDE DEF n
    <3> QED BY <1>1, <2>1, SubSeqProperties
  <2> HIDE DEF n
  <2>3. QED
    BY <1>1, <2>2
<1>5. QED
  BY <1>4, SeqEqual

LEMMA ContinuesItself ==
  ASSUME NEW r \in Records
  PROVE  Continues(r, r)
<1>1. r.revisions \in Seq(Revisions)
  BY DEF Records
<1>2. IsPrefix(r.revisions, r.revisions)
  BY <1>1, LenProperties, PrefixByElements
<1>3. QED
  BY <1>2 DEF Continues

LEMMA ContinuesTransitively ==
  ASSUME NEW r \in Records, NEW s \in Records, NEW t \in Records,
         Continues(s, r), Continues(t, s)
  PROVE  Continues(t, r)
<1> DEFINE a == r.revisions
           b == s.revisions
           c == t.revisions
<1>1. a \in Seq(Revisions) /\ b \in Seq(Revisions) /\ c \in Seq(Revisions)
  BY DEF Records
<1>2. Len(a) \in Nat /\ Len(b) \in Nat /\ Len(c) \in Nat
  BY <1>1, LenProperties
<1>3. IsPrefix(a, b) /\ IsPrefix(b, c)
  BY DEF Continues
<1>4. IsPrefix(a, c)
  <2> HIDE DEF a, b, c
  <2>1. Len(a) <= Len(b) /\ \A i \in 1..Len(a) : a[i] = b[i]
    BY <1>1, <1>3, PrefixByElements
  <2>2. Len(b) <= Len(c) /\ \A i \in 1..Len(b) : b[i] = c[i]
    BY <1>1, <1>3, PrefixByElements
  <2>3. Len(a) <= Len(c) /\ \A i \in 1..Len(a) : a[i] = c[i]
    BY <1>2, <2>1, <2>2
  <2>4. QED
    BY <1>1, <2>3, PrefixByElements
<1>5. QED
  BY <1>4 DEF Continues

----------------------------------------------------------------------------
(* The merge of one report.                                                *)

LEMMA RevisionType ==
  ASSUME NEW item \in Items, NEW clock \in Days
  PROVE  Revision(item, clock) \in Revisions
BY DEF Revision, Revisions, Items

LEMMA ReportOK ==
  ASSUME NEW item \in Items, NEW clock \in Days, NEW feed \in Nat
  PROVE  /\ Report(item, feed, clock) \in Records
         /\ History(Report(item, feed, clock), clock)
<1> DEFINE v == Revision(item, clock)
           p == Report(item, feed, clock)
<1>1. v \in Revisions
  BY RevisionType
<1>2. v.observed = clock /\ v.title = item.title /\ v.published = item.published
  BY DEF Revision
<1>3. <<v>> \in Seq(Revisions) /\ Len(<<v>>) = 1 /\ <<v>>[1] = v
  <2> HIDE DEF v
  <2> QED BY <1>1
<1>4. /\ p.id = item.id /\ p.title = item.title /\ p.published = item.published
      /\ p.first = clock /\ p.last = clock /\ p.feeds = {feed} /\ p.revisions = <<v>>
  BY DEF Report
<1>5. p \in Records
  <2> HIDE DEF v
  <2>1. p = [id |-> item.id, title |-> item.title, published |-> item.published,
             first |-> clock, last |-> clock, feeds |-> {feed}, revisions |-> <<v>>]
    BY DEF Report, v
  <2>2. item.id \in Ids /\ item.title \in Titles /\ item.published \in Int
    BY DEF Items
  <2> HIDE DEF p
  <2>3. QED
    BY <1>3, <2>1, <2>2 DEF Records
<1>6. clock \in Int
  BY NewsAssumption DEF Days
<1>7. History(p, clock)
  <2> HIDE DEF v, p
  <2>1. Len(p.revisions) = 1 /\ p.revisions[1] = v
    BY <1>3, <1>4
  <2>2. QED
    BY <1>2, <1>4, <1>6, <2>1 DEF History
<1>8. QED
  BY <1>5, <1>7

\* A record that is merged keeps its identity, its first sight and its revisions; its
\* history stays true.
LEMMA ContinuedOK ==
  ASSUME NEW item \in Items, NEW clock \in Days, NEW feed \in Nat,
         NEW o \in Records, o.id = item.id, History(o, clock)
  PROVE  LET c == Continued(o, Report(item, feed, clock)) IN
         /\ c \in Records /\ History(c, clock) /\ Continues(c, o)
         /\ c.published = item.published /\ c.feeds = o.feeds \union {feed}
<1> DEFINE v == Revision(item, clock)
           p == Report(item, feed, clock)
           new == <<o.title, o.published>> # <<p.title, p.published>>
           revs == IF new THEN o.revisions \o p.revisions ELSE o.revisions
           c == Continued(o, p)
           m == Len(o.revisions)
<1>1. v \in Revisions
  BY RevisionType
<1>2. v.observed = clock /\ v.title = item.title /\ v.published = item.published
  BY DEF Revision
<1>3. <<v>> \in Seq(Revisions) /\ Len(<<v>>) = 1 /\ <<v>>[1] = v
  <2> HIDE DEF v
  <2> QED BY <1>1
<1>4. /\ p.id = item.id /\ p.title = item.title /\ p.published = item.published
      /\ p.first = clock /\ p.last = clock /\ p.feeds = {feed} /\ p.revisions = <<v>>
  BY DEF Report
<1>5. p \in Records
  BY ReportOK
<1>6. /\ o.revisions \in Seq(Revisions) /\ m \in Nat
      /\ o.id \in Ids /\ o.title \in Titles /\ o.published \in Int
      /\ o.first \in Days /\ o.last \in Days /\ o.feeds \in SUBSET Nat
  <2>1. o.revisions \in Seq(Revisions)
    BY DEF Records
  <2>2. QED
    BY <2>1, LenProperties DEF Records
<1>7. /\ new => /\ revs \in Seq(Revisions) /\ Len(revs) = m + 1 /\ revs[m + 1] = v
                /\ \A i \in 1..m : revs[i] = o.revisions[i]
      /\ ~new => revs = o.revisions
  <2> HIDE DEF v, p, new
  <2>1. ASSUME new
        PROVE  /\ revs \in Seq(Revisions) /\ Len(revs) = m + 1 /\ revs[m + 1] = v
               /\ \A i \in 1..m : revs[i] = o.revisions[i]
    <3>1. revs = o.revisions \o <<v>>
      BY <1>4, <2>1
    <3>2. /\ o.revisions \o <<v>> \in Seq(Revisions)
          /\ Len(o.revisions \o <<v>>) = m + 1
          /\ \A i \in 1..(m + 1) : (o.revisions \o <<v>>)[i] =
               IF i <= m THEN o.revisions[i] ELSE <<v>>[i - m]
      BY <1>3, <1>6, ConcatProperties
    <3> HIDE DEF revs, m
    <3>3. m + 1 \in 1..(m + 1) /\ ~(m + 1 <= m) /\ (m + 1) - m = 1
      BY <1>6
    <3>4. revs[m + 1] = v
      <4>1. revs[m + 1] = IF m + 1 <= m THEN o.revisions[m + 1] ELSE <<v>>[(m + 1) - m]
        BY <3>1, <3>2, <3>3
      <4>2. revs[m + 1] = <<v>>[1]
        BY <3>3, <4>1
      <4>3. QED
        BY <1>3, <4>2
    <3>5. ASSUME NEW i \in 1..m PROVE revs[i] = o.revisions[i]
      <4>1. i \in 1..(m + 1) /\ i <= m
        BY <1>6
      <4>2. QED
        BY <3>1, <3>2, <4>1
    <3>6. QED
      BY <3>1, <3>2, <3>4, <3>5
  <2>2. QED
    BY <2>1
<1>8. revs \in Seq(Revisions) /\ Len(revs) \in Nat
  <2>1. revs \in Seq(Revisions)
    <3> HIDE DEF revs, new
    <3> QED BY <1>6, <1>7
  <2> HIDE DEF revs
  <2>2. QED
    BY <2>1, LenProperties
<1>9. /\ c.id = p.id /\ c.title = p.title /\ c.published = p.published
      /\ c.first = o.first /\ c.last = clock /\ c.feeds = o.feeds \union {feed}
      /\ c.revisions = revs /\ c \in Records
  <2>1. c = [p EXCEPT !.first = o.first, !.feeds = o.feeds \union p.feeds, !.revisions = revs]
    BY DEF Continued
  <2> HIDE DEF p, v, c, revs
  <2>2. p \in [id : Ids, title : Titles, published : Int, first : Days, last : Days,
               feeds : SUBSET Nat, revisions : Seq(Revisions)]
    BY <1>5 DEF Records
  <2>3. /\ c.id = p.id /\ c.title = p.title /\ c.published = p.published
        /\ c.first = o.first /\ c.last = p.last /\ c.feeds = o.feeds \union p.feeds
        /\ c.revisions = revs
    BY <2>1, <2>2
  <2>4. c \in Records
    BY <1>4, <1>6, <1>8, <2>1, <2>2 DEF Records
  <2>5. QED
    BY <1>4, <2>3, <2>4
<1> HIDE DEF c, p, v, revs, m
<1>10. clock \in Int /\ o.last \in Int
  BY <1>6, NewsAssumption DEF Days
<1>11. /\ m > 0 /\ o.first = o.revisions[1].observed
       /\ o.revisions[m].title = o.title /\ o.revisions[m].published = o.published
       /\ o.revisions[m].observed <= o.last /\ o.last <= clock
       /\ \A i \in 1..(m - 1) : Changes(o.revisions[i], o.revisions[i + 1])
  BY DEF History, m
<1>12. o.revisions[m].observed \in Int
  <2>1. o.revisions[m] \in Revisions
    BY <1>6, <1>11, ElementOfSeq DEF m
  <2>2. QED
    BY <2>1, NewsAssumption DEF Revisions, Days
<1>13. History(c, clock) /\ IsPrefix(o.revisions, revs)
  <2>1. CASE new
    <3>1. /\ Len(revs) = m + 1 /\ revs[m + 1] = v
          /\ \A i \in 1..m : revs[i] = o.revisions[i]
      BY <1>7, <2>1
    <3>2. IsPrefix(o.revisions, revs)
      BY <1>6, <1>8, <3>1, PrefixByElements DEF m
    <3>3. Changes(o.revisions[m], v)
      <4>1. o.revisions[m].observed <= v.observed
        BY <1>2, <1>10, <1>11, <1>12
      <4>2. <<o.revisions[m].title, o.revisions[m].published>> # <<v.title, v.published>>
        <5> HIDE DEF v, p
        <5> QED BY <1>2, <1>4, <1>11, <2>1 DEF new
      <4>3. QED
        BY <4>1, <4>2 DEF Changes
    <3>4. \A i \in 1..(Len(revs) - 1) : Changes(revs[i], revs[i + 1])
      <4> SUFFICES ASSUME NEW i \in 1..m PROVE Changes(revs[i], revs[i + 1])
        BY <1>6, <3>1
      <4>1. CASE i = m
        BY <1>6, <3>1, <3>3, <4>1
      <4>2. CASE i # m
        <5>1. i \in 1..(m - 1) /\ i + 1 \in 1..m
          BY <1>6, <4>2
        <5>2. QED
          BY <1>11, <3>1, <5>1
      <4>3. QED
        BY <4>1, <4>2
    <3>5. revs[1] = o.revisions[1]
      BY <1>6, <1>11, <3>1
    <3>6. Len(revs) > 0
      BY <1>6, <3>1
    <3>7. QED
      BY <1>2, <1>4, <1>9, <1>10, <1>11, <3>1, <3>2, <3>4, <3>5, <3>6 DEF History
  <2>2. CASE ~new
    <3>1. revs = o.revisions
      BY <1>7, <2>2
    <3>2. IsPrefix(o.revisions, revs)
      BY <1>6, <3>1, LenProperties, PrefixByElements
    <3>3. o.title = p.title /\ o.published = p.published
      BY <2>2 DEF new
    <3>4. o.revisions[m].observed <= c.last
      BY <1>9, <1>10, <1>11, <1>12
    <3>5. c.last <= clock
      BY <1>9, <1>10
    <3>6. QED
      BY <1>9, <1>11, <3>1, <3>2, <3>3, <3>4, <3>5 DEF History, m
  <2>3. QED
    BY <2>1, <2>2
<1>14. Continues(c, o)
  BY <1>4, <1>9, <1>13 DEF Continues
<1>15. QED
  BY <1>4, <1>9, <1>13, <1>14 DEF c, p

\* Merging a report keeps the records well formed, and each of them continues.
LEMMA MergedOK ==
  ASSUME NEW item \in Items, NEW clock \in Days, NEW feed \in Nat, NEW feeds, feed \in feeds,
         InWindow(item.published, clock),
         NEW records, RecordsOK(records, feeds, clock)
  PROVE  LET merged == Merged(records, Report(item, feed, clock)) IN
         /\ RecordsOK(merged, feeds, clock)
         /\ \A o \in records : \E s \in merged : Continues(s, o)
<1> DEFINE p == Report(item, feed, clock)
           old == {o \in records : o.id = p.id}
           merged == Merged(records, p)
<1>1. /\ p \in Records /\ History(p, clock)
      /\ p.id = item.id /\ p.published = item.published /\ p.feeds = {feed}
  BY ReportOK DEF Report
<1>2. /\ IsFiniteSet(records) /\ records \subseteq Records
      /\ \A r, s \in records : r.id = s.id => r = s
      /\ \A r \in records : /\ History(r, clock) /\ InWindow(r.published, clock)
                            /\ r.feeds \subseteq feeds
  BY DEF RecordsOK
<1>3. \A o \in records : Continues(o, o)
  BY <1>2, ContinuesItself
<1>4. CASE old = {}
  <2>1. merged = records \union {p}
    BY <1>4 DEF Merged
  <2> HIDE DEF merged, p
  <2>2. IsFiniteSet(merged)
    BY <1>2, <2>1, FS_AddElement
  <2>3. \A r \in records : r.id # p.id
    BY <1>4
  <2>4. \A r, s \in merged : r.id = s.id => r = s
    BY <1>2, <2>1, <2>3
  <2>5. RecordsOK(merged, feeds, clock)
    BY <1>1, <1>2, <2>1, <2>2, <2>4 DEF RecordsOK
  <2>6. QED
    BY <1>3, <2>1, <2>5 DEF merged, p
<1>5. ASSUME NEW o \in records, o.id = p.id
      PROVE  /\ RecordsOK(merged, feeds, clock)
             /\ \A q \in records : \E s \in merged : Continues(s, q)
  <2> DEFINE c == Continued(o, p)
  <2>1. old = {o}
    BY <1>2, <1>5
  <2>2. merged = (records \ {o}) \union {c}
    <3>1. merged = (records \ old) \union {Continued(q, p) : q \in old}
      BY <2>1 DEF Merged
    <3> HIDE DEF merged, old, p
    <3>2. QED
      BY <2>1, <3>1
  <2>3. /\ c \in Records /\ History(c, clock) /\ Continues(c, o)
        /\ c.published = item.published /\ c.feeds = o.feeds \union {feed}
    <3>1. o \in Records /\ o.id = item.id /\ History(o, clock)
      BY <1>1, <1>2, <1>5
    <3>2. QED
      BY <3>1, ContinuedOK
  <2>4. c.id = o.id
    BY <2>3 DEF Continues
  <2> HIDE DEF merged, c, p, old
  <2>5. IsFiniteSet(merged)
    <3>1. IsFiniteSet(records \ {o})
      BY <1>2, FS_RemoveElement
    <3>2. QED
      BY <2>2, <3>1, FS_AddElement
  <2>6. \A r, s \in merged : r.id = s.id => r = s
    BY <1>2, <2>2, <2>4
  <2>7. RecordsOK(merged, feeds, clock)
    <3>1. merged \subseteq Records
      BY <1>2, <2>2, <2>3
    <3>2. /\ History(c, clock) /\ InWindow(c.published, clock)
          /\ c.feeds \subseteq feeds
      BY <1>2, <2>3
    <3>3. \A r \in merged : /\ History(r, clock) /\ InWindow(r.published, clock)
                            /\ r.feeds \subseteq feeds
      BY <1>2, <2>2, <3>2
    <3>4. QED
      BY <2>5, <2>6, <3>1, <3>3 DEF RecordsOK
  <2>8. \A q \in records : \E s \in merged : Continues(s, q)
    BY <1>3, <2>2, <2>3
  <2>9. QED
    BY <2>7, <2>8
<1>6. QED
  BY <1>4, <1>5

----------------------------------------------------------------------------
(* The cut of the list.                                                    *)

\* A record is left out only of a full list.  Take a record that is left out and has the
\* fewest newer ones: these are all in the list.
LEMMA LeftOutOfFullList ==
  ASSUME NEW S, IsFiniteSet(S), S \subseteq Records, NEW s \in S, s \notin Newest(S)
  PROVE  Cardinality(Newest(S)) >= MaxRecords
<1> DEFINE Above(r) == {t \in S : Newer(t, r)}
           Rank(r) == Cardinality(Above(r))
           Out == S \ Newest(S)
           Ranks == {Rank(r) : r \in Out}
           Less == {q \in Nat \X Nat : q[1] < q[2]}
<1>1. \A r \in S : IsFiniteSet(Above(r)) /\ Rank(r) \in Nat
  <2> SUFFICES ASSUME NEW r \in S PROVE IsFiniteSet(Above(r)) /\ Rank(r) \in Nat
    OBVIOUS
  <2>1. Above(r) \in SUBSET S
    OBVIOUS
  <2>2. IsFiniteSet(Above(r))
    BY <2>1, FS_Subset
  <2>3. QED
    BY <2>2, FS_CardinalityType
<1>2. PICK x \in Out : \A y \in Out : Rank(x) <= Rank(y)
  <2>1. Ranks \in SUBSET Nat /\ Rank(s) \in Ranks
    BY <1>1
  <2>2. IsWellFoundedOn(Less, Nat)
    BY NatLessThanWellFounded, Zenon DEF OpToRel
  <2>3. PICK n \in Ranks : \A k \in Ranks : <<k, n>> \notin Less
    <3> HIDE DEF Less, Ranks, Rank
    <3> QED BY <2>1, <2>2, WFMin
  <2>4. PICK x \in Out : n = Rank(x)
    OBVIOUS
  <2>5. ASSUME NEW y \in Out PROVE Rank(x) <= Rank(y)
    <3>1. Rank(x) \in Nat /\ Rank(y) \in Nat /\ Rank(y) \in Ranks
      BY <1>1
    <3>2. <<Rank(y), Rank(x)>> \notin Less
      BY <2>3, <2>4, <3>1
    <3> HIDE DEF Rank
    <3>3. QED
      BY <3>1, <3>2
  <2>6. QED
    BY <2>5
<1>3. Rank(x) >= MaxRecords
  <2>1. Rank(x) \in Nat /\ ~(Rank(x) < MaxRecords)
    BY <1>1 DEF Newest
  <2> HIDE DEF Rank
  <2>2. QED
    BY <2>1, NewsAssumption
<1>4. ASSUME NEW t \in Above(x) PROVE t \in Newest(S)
  <2>1. t \in S /\ Newer(t, x)
    OBVIOUS
  <2>2. /\ t.published \in Int /\ x.published \in Int /\ t.id \in Int /\ x.id \in Int
        /\ \A u \in S : u.published \in Int /\ u.id \in Int
    <3>1. \A u \in S : u.published \in Int /\ u.id \in Ids
      BY DEF Records
    <3>2. Ids \subseteq Int
      BY NewsAssumption
    <3>3. t \in S /\ x \in S
      BY <2>1
    <3> HIDE DEF Above, Rank, Out
    <3>4. QED
      BY <3>1, <3>2, <3>3
  <2>3. Above(t) \subseteq Above(x) /\ t \notin Above(t)
    BY <2>1, <2>2 DEF Newer
  <2>4. Rank(t) < Rank(x)
    <3>1. Above(t) \in SUBSET (Above(x) \ {t})
      BY <2>3
    <3>2. /\ IsFiniteSet(Above(x) \ {t})
          /\ Cardinality(Above(x) \ {t}) = Rank(x) - 1
      <4> HIDE DEF Above
      <4> QED BY <1>1, <1>4, FS_RemoveElement
    <3>3. Rank(t) <= Cardinality(Above(x) \ {t})
      <4> HIDE DEF Above
      <4> QED BY <3>1, <3>2, FS_Subset
    <3>4. Rank(t) \in Nat /\ Rank(x) \in Nat
      BY <1>1, <2>1
    <3> HIDE DEF Rank, Above
    <3>5. QED
      BY <3>2, <3>3, <3>4
  <2>5. t \notin Out
    <3>1. Rank(t) \in Nat /\ Rank(x) \in Nat
      BY <1>1, <2>1
    <3> HIDE DEF Rank
    <3>2. QED
      BY <1>2, <2>4, <3>1
  <2>6. QED
    BY <2>1, <2>5
<1>5. Rank(x) <= Cardinality(Newest(S))
  <2>1. Newest(S) \in SUBSET S
    BY DEF Newest
  <2>2. IsFiniteSet(Newest(S))
    BY <2>1, FS_Subset
  <2>3. Above(x) \in SUBSET Newest(S)
    BY <1>4
  <2> HIDE DEF Above
  <2>4. QED
    BY <2>2, <2>3, FS_Subset
<1>6. Rank(x) \in Nat /\ Cardinality(Newest(S)) \in Nat
  <2>1. Newest(S) \in SUBSET S
    BY DEF Newest
  <2>2. QED
    BY <1>1, <2>1, FS_Subset, FS_CardinalityType
<1> HIDE DEF Rank
<1>7. QED
  BY <1>3, <1>5, <1>6, NewsAssumption

\* The list that is cut is as well formed.
LEMMA NewestOK ==
  ASSUME NEW records, NEW feeds, NEW clock, RecordsOK(records, feeds, clock)
  PROVE  RecordsOK(Newest(records), feeds, clock)
<1>1. Newest(records) \in SUBSET records
  BY DEF Newest
<1>2. IsFiniteSet(Newest(records))
  BY <1>1, FS_Subset DEF RecordsOK
<1>3. QED
  BY <1>1, <1>2 DEF RecordsOK

----------------------------------------------------------------------------
(* The invariant is inductive.                                             *)

LEMMA IdleType == Idle \in Runs
<1>1. 0 \in Days /\ <<>> \in Seq(Items)
  BY NewsAssumption DEF Days
<1>2. QED
  BY <1>1 DEF Idle, Runs

\* What a run reads from the site: well formed, and empty before the first snapshot.
LEMMA PreviousOK ==
  ASSUME SiteInv
  PROVE  /\ Previous \in Snapshots /\ IsFiniteSet(Previous.records)
         /\ Previous.records \subseteq Records
         /\ \A r, s \in Previous.records : r.id = s.id => r = s
         /\ \A r \in Previous.records :
              Previous.generated \in Days /\ History(r, Previous.generated)
<1>1. CASE site = None
  <2>1. Previous = Empty
    BY <1>1 DEF Previous
  <2>2. Empty \in Snapshots /\ Empty.records = {}
    BY DEF Empty, Snapshots
  <2>3. QED
    BY <2>1, <2>2, FS_EmptySet
<1>2. CASE site # None
  <2>1. Previous = site /\ SnapshotOK(site)
    BY <1>2 DEF Previous, SiteInv
  <2>2. QED
    BY <2>1 DEF SnapshotOK, RecordsOK
<1>3. QED
  BY <1>1, <1>2

LEMMA Initially == Init => IInv
<1> SUFFICES ASSUME Init PROVE IInv
  OBVIOUS
<1>1. 0 \in Days /\ runs \in 0..MaxRuns
  BY NewsAssumption DEF Init, Days
<1>2. Types
  BY <1>1, IdleType DEF Init, Types
<1>3. run.at = "idle" /\ run.rows = <<>> /\ site = None
  BY DEF Init, Idle
<1>4. QED
  BY <1>2, <1>3 DEF IInv, SiteInv, Scheduled, Current, Merging, Deployable

LEMMA Unscheduled ==
  ASSUME IInv, run' = Idle, UNCHANGED <<now, registry, runs, site>>
  PROVE  IInv'
<1>1. run'.at = "idle" /\ run'.rows = <<>>
  BY DEF Idle
<1>2. Types'
  BY IdleType DEF IInv, Types
<1>3. QED
  BY <1>1, <1>2 DEF IInv, SiteInv, Scheduled, Current, Merging, Deployable

\* A step of the run itself, before the deployment.
LEMMA RunMoves ==
  ASSUME IInv, UNCHANGED <<now, registry, runs, site>>,
         run' \in Runs, Scheduled', Current', Merging', Deployable'
  PROVE  IInv'
<1>1. Types' /\ SiteInv'
  BY DEF IInv, Types, SiteInv
<1>2. QED
  BY <1>1 DEF IInv

LEMMA WorldSteps ==
  ASSUME IInv,
         Tick \/ (\E R \in Registries : Commit(R)) \/ UNCHANGED vars
  PROVE  IInv'
<1>1. UNCHANGED <<runs, run, site>>
  BY DEF Tick, Commit, vars
<1>2. now' \in Days
  <2>1. now \in Days
    BY DEF IInv, Types
  <2>2. CASE Tick
    BY <2>1, <2>2, NewsAssumption DEF Tick, Days
  <2>3. CASE UNCHANGED now
    BY <2>1, <2>3
  <2>4. QED
    BY <2>2, <2>3 DEF Commit, vars
<1>3. registry' \in Registries
  BY DEF IInv, Types, Tick, Commit, vars
<1>4. Types'
  BY <1>1, <1>2, <1>3 DEF IInv, Types
<1>5. Previous' = Previous /\ Output' = Output
  BY <1>1 DEF Previous, Output, Status
<1>6. SiteInv' /\ Scheduled' /\ Current' /\ Merging' /\ Deployable'
  BY <1>1, <1>5 DEF IInv, SiteInv, Scheduled, Current, Merging, Deployable
<1>7. QED
  BY <1>4, <1>6 DEF IInv

LEMMA StartStep ==
  ASSUME IInv, Start
  PROVE  IInv'
<1> DEFINE n == [Idle EXCEPT !.at = "previous", !.feeds = registry, !.todo = registry]
<1>1. registry \in Registries /\ registry \in SUBSET Nat
  BY NewsAssumption DEF IInv, Types
<1>2. n \in Runs /\ n.at = "previous" /\ n.feeds = registry /\ n.todo = registry /\ n.done = {}
      /\ n.rows = <<>>
  <2>1. Idle.done = {} /\ Idle.rows = <<>>
    BY DEF Idle
  <2>2. QED
    BY <1>1, <2>1, IdleType DEF Runs
<1>3. run' = n /\ runs' \in 0..MaxRuns /\ UNCHANGED <<now, registry, site>>
  BY NewsAssumption DEF Start, IInv, Types
<1> HIDE DEF n
<1>4. Types' /\ SiteInv'
  BY <1>2, <1>3 DEF IInv, Types, SiteInv
<1>5. Scheduled'
  BY <1>1, <1>2, <1>3 DEF Scheduled
<1>6. Current' /\ Merging' /\ Deployable'
  BY <1>2, <1>3 DEF Current, Merging, Deployable
<1>7. QED
  BY <1>4, <1>5, <1>6 DEF IInv

LEMMA ReadPreviousStep ==
  ASSUME IInv, ReadPrevious
  PROVE  IInv'
<1>1. CASE ~Valid(Previous, run.feeds)
  BY <1>1, Unscheduled DEF ReadPrevious
<1>2. CASE Valid(Previous, run.feeds)
  <2> DEFINE n == [run EXCEPT !.at = "collect", !.previous = Previous]
  <2>1. run \in Runs /\ Previous \in Snapshots
    BY PreviousOK DEF IInv, Types
  <2>2. /\ n \in Runs /\ n.at = "collect" /\ n.previous = Previous
        /\ n.feeds = run.feeds /\ n.todo = run.todo /\ n.done = run.done /\ n.rows = run.rows
    BY <2>1 DEF Runs
  <2>3. run' = n /\ run.at = "previous" /\ UNCHANGED <<now, registry, runs, site>>
    BY <1>2 DEF ReadPrevious
  <2> HIDE DEF n
  <2>4. Previous' = Previous
    BY <2>3 DEF Previous
  <2>5. Scheduled'
    BY <2>2, <2>3 DEF IInv, Scheduled
  <2>6. Current'
    BY <1>2, <2>2, <2>3, <2>4 DEF Current
  <2>7. Merging' /\ Deployable'
    BY <2>2, <2>3 DEF Merging, Deployable
  <2>8. QED
    BY <2>2, <2>3, <2>5, <2>6, <2>7, RunMoves
<1>3. QED
  BY <1>1, <1>2

\* The histories of the snapshot are continued only by a clock that is not behind them.
LEMMA CollectStep ==
  ASSUME IInv, NEW clock \in Days, Collect(clock)
  PROVE  IInv'
<1> DEFINE future == run.previous.generated # None /\ run.previous.generated > clock
           kept == Kept(Previous, clock)
           n == [run EXCEPT !.at = "feeds", !.clock = clock, !.records = kept]
<1>1. CASE future
  BY <1>1, Unscheduled DEF Collect
<1>2. CASE ~future
  <2>1. /\ run.at = "collect" /\ run.previous = Previous /\ Valid(Previous, run.feeds)
        /\ run.feeds \in Registries /\ run \in Runs
    BY DEF Collect, IInv, Types, Current, Scheduled
  <2>2. run' = n /\ UNCHANGED <<now, registry, runs, site>>
    BY <1>2, <2>1 DEF Collect
  <2>3. /\ Previous \in Snapshots /\ IsFiniteSet(Previous.records)
        /\ Previous.records \subseteq Records
        /\ \A r, s \in Previous.records : r.id = s.id => r = s
        /\ \A r \in Previous.records :
             Previous.generated \in Days /\ History(r, Previous.generated)
    BY PreviousOK DEF IInv
  <2>4. Previous.generated # None => Previous.generated <= clock
    <3>1. Previous.generated \in Days \union {None}
      BY <2>3 DEF Snapshots
    <3>2. \A d \in Days : d \in Int
      BY NewsAssumption DEF Days
    <3>3. QED
      BY <1>2, <2>1, <3>1, <3>2
  <2>5. kept \in SUBSET Previous.records
    BY DEF Kept
  <2>6. RecordsOK(kept, run.feeds, clock)
    <3>1. IsFiniteSet(kept)
      BY <2>3, <2>5, FS_Subset
    <3>2. ASSUME NEW r \in kept
          PROVE  /\ History(r, clock) /\ InWindow(r.published, clock)
                 /\ r.feeds \subseteq run.feeds
      <4>1. InWindow(r.published, clock) /\ r.feeds \subseteq run.feeds
        BY <2>1, <2>5 DEF Kept, Valid
      <4>2. /\ r \in Records /\ Previous.generated \in Days
            /\ History(r, Previous.generated)
        BY <2>3, <2>5
      <4>3. r.last \in Int /\ Previous.generated \in Int /\ clock \in Int
        BY <4>2, NewsAssumption DEF Records, Days
      <4>4. Previous.generated <= clock
        BY <2>4, <4>2, NewsAssumption
      <4>5. r.last <= clock
        BY <4>2, <4>3, <4>4 DEF History
      <4>6. QED
        BY <4>1, <4>2, <4>5 DEF History
    <3> HIDE DEF kept
    <3>3. QED
      BY <2>3, <2>5, <3>1, <3>2 DEF RecordsOK
  <2>7. \A r \in Previous.records : InWindow(r.published, clock) =>
          \E s \in kept : Continues(s, r)
    BY <2>3, ContinuesItself DEF Kept
  <2> HIDE DEF kept
  <2>8. /\ n \in Runs /\ n.at = "feeds" /\ n.clock = clock /\ n.records = kept
        /\ n.feeds = run.feeds /\ n.todo = run.todo /\ n.done = run.done
        /\ n.previous = run.previous /\ n.rows = run.rows /\ n.source = run.source
    <3>1. kept \in SUBSET Records
      BY <2>3, <2>5
    <3>2. QED
      BY <2>1, <3>1 DEF Runs
  <2> HIDE DEF n
  <2>9. Previous' = Previous
    BY <2>2 DEF Previous
  <2>10. Scheduled' /\ Current' /\ Deployable'
    BY <2>1, <2>2, <2>8, <2>9 DEF IInv, Scheduled, Current, Deployable
  <2>11. run.rows = <<>>
    BY <2>1 DEF IInv, Scheduled
  <2>12. Merging'
    BY <2>2, <2>4, <2>6, <2>7, <2>8, <2>9, <2>11 DEF Merging
  <2>13. QED
    BY <2>2, <2>8, <2>10, <2>12, RunMoves
<1>3. QED
  BY <1>1, <1>2

LEMMA FeedReadStep ==
  ASSUME IInv, NEW f \in run.todo, NEW doc \in Documents, FeedRead(f, doc)
  PROVE  IInv'
<1> DEFINE n == [run EXCEPT !.todo = @ \ {f}, !.done = @ \union {f}, !.source = f, !.rows = doc]
<1>1. /\ run \in Runs /\ run.at = "feeds" /\ run.feeds \in Registries
      /\ run.todo \subseteq run.feeds /\ run.done \subseteq run.feeds
  BY DEF IInv, Types, Scheduled, FeedRead, Turn
<1>2. f \in run.feeds /\ f \in Nat /\ doc \in Seq(Items)
  BY <1>1, NewsAssumption
<1>3. /\ n \in Runs /\ n.at = "feeds" /\ n.feeds = run.feeds
      /\ n.todo = run.todo \ {f} /\ n.done = run.done \union {f}
      /\ n.previous = run.previous /\ n.clock = run.clock /\ n.records = run.records
      /\ n.source = f
  BY <1>1, <1>2 DEF Runs
<1>4. run' = n /\ UNCHANGED <<now, registry, runs, site>>
  BY DEF FeedRead
<1> HIDE DEF n
<1>5. Previous' = Previous
  BY <1>4 DEF Previous
<1>6. Scheduled' /\ Current' /\ Merging' /\ Deployable'
  BY <1>1, <1>2, <1>3, <1>4, <1>5 DEF IInv, Scheduled, Current, Merging, Deployable
<1>7. QED
  BY <1>3, <1>4, <1>6, RunMoves

LEMMA FeedFailsStep ==
  ASSUME IInv, NEW f \in run.todo, FeedFails(f)
  PROVE  IInv'
<1> DEFINE n == [run EXCEPT !.todo = @ \ {f}]
<1>1. /\ run \in Runs /\ run.at = "feeds" /\ run.feeds \in Registries
      /\ run.todo \subseteq run.feeds /\ run.done \subseteq run.feeds
  BY DEF IInv, Types, Scheduled, FeedFails, Turn
<1>2. /\ n \in Runs /\ n.at = "feeds" /\ n.feeds = run.feeds
      /\ n.todo = run.todo \ {f} /\ n.done = run.done
      /\ n.previous = run.previous /\ n.clock = run.clock /\ n.records = run.records
      /\ n.source = run.source /\ n.rows = run.rows
  BY <1>1 DEF Runs
<1>3. run' = n /\ UNCHANGED <<now, registry, runs, site>>
  BY DEF FeedFails
<1> HIDE DEF n
<1>4. Previous' = Previous
  BY <1>3 DEF Previous
<1>5. Scheduled' /\ Current' /\ Merging' /\ Deployable'
  BY <1>1, <1>2, <1>3, <1>4 DEF IInv, Scheduled, Current, Merging, Deployable
<1>6. QED
  BY <1>2, <1>3, <1>5, RunMoves

LEMMA MergeRowStep ==
  ASSUME IInv, MergeRow
  PROVE  IInv'
<1> DEFINE item == Head(run.rows)
           merged == Merged(run.records, Report(item, run.source, run.clock))
           records == IF Accepted(item, run.clock) THEN merged ELSE run.records
           n == [run EXCEPT !.rows = Tail(run.rows), !.records = records]
<1>1. /\ run \in Runs /\ run.at = "feeds" /\ run.rows # <<>>
      /\ run.feeds \in Registries /\ run.feeds \in SUBSET Nat /\ run.source \in run.feeds
      /\ run.todo \subseteq run.feeds /\ run.done \subseteq run.feeds
  BY NewsAssumption DEF IInv, Types, Scheduled, Merging, MergeRow
<1>2. item \in Items /\ Tail(run.rows) \in Seq(Items)
  <2>1. run.rows \in Seq(Items)
    BY <1>1 DEF Runs
  <2>2. QED
    BY <1>1, <2>1, HeadTailProperties
<1>3. run.clock \in Days /\ run.source \in Nat
  BY <1>1 DEF Runs
<1>4. /\ RecordsOK(run.records, run.feeds, run.clock)
      /\ \A r \in Previous.records : InWindow(r.published, run.clock) =>
           \E s \in run.records : Continues(s, r)
      /\ Previous.generated # None => Previous.generated <= run.clock
  BY <1>1 DEF IInv, Merging
<1>5. /\ RecordsOK(records, run.feeds, run.clock)
      /\ \A o \in run.records : \E s \in records : Continues(s, o)
  <2>1. CASE Accepted(item, run.clock)
    <3>1. InWindow(item.published, run.clock)
      BY <2>1 DEF Accepted
    <3>2. /\ RecordsOK(merged, run.feeds, run.clock)
          /\ \A o \in run.records : \E s \in merged : Continues(s, o)
      <4> HIDE DEF item
      <4> QED BY <1>1, <1>2, <1>3, <1>4, <3>1, MergedOK
    <3>3. records = merged
      BY <2>1
    <3> HIDE DEF records, merged
    <3>4. QED
      BY <3>2, <3>3
  <2>2. CASE ~Accepted(item, run.clock)
    <3>1. records = run.records
      BY <2>2
    <3> HIDE DEF records
    <3>2. run.records \subseteq Records
      BY <1>4 DEF RecordsOK
    <3>3. QED
      BY <1>4, <3>1, <3>2, ContinuesItself
  <2>3. QED
    BY <2>1, <2>2
<1> HIDE DEF records
<1>6. records \in SUBSET Records /\ run.records \in SUBSET Records
  BY <1>4, <1>5 DEF RecordsOK
<1>7. \A r \in Previous.records : InWindow(r.published, run.clock) =>
        \E s \in records : Continues(s, r)
  <2> SUFFICES ASSUME NEW r \in Previous.records, InWindow(r.published, run.clock)
               PROVE  \E s \in records : Continues(s, r)
    OBVIOUS
  <2>1. PICK o \in run.records : Continues(o, r)
    BY <1>4
  <2>2. PICK s \in records : Continues(s, o)
    BY <1>5
  <2>3. r \in Records
    BY PreviousOK DEF IInv
  <2>4. Continues(s, r)
    BY <1>6, <2>1, <2>2, <2>3, ContinuesTransitively
  <2>5. QED
    BY <2>4
<1>8. /\ n \in Runs /\ n.at = "feeds" /\ n.feeds = run.feeds
      /\ n.todo = run.todo /\ n.done = run.done /\ n.previous = run.previous
      /\ n.clock = run.clock /\ n.records = records /\ n.source = run.source
  BY <1>1, <1>2, <1>6 DEF Runs
<1>9. run' = n /\ UNCHANGED <<now, registry, runs, site>>
  BY DEF MergeRow, records
<1> HIDE DEF n, item, merged
<1>10. Previous' = Previous
  BY <1>9 DEF Previous
<1>11. Scheduled' /\ Current' /\ Deployable'
  BY <1>1, <1>8, <1>9, <1>10 DEF IInv, Scheduled, Current, Deployable
<1>12. Merging'
  BY <1>1, <1>4, <1>5, <1>7, <1>8, <1>9, <1>10 DEF Merging
<1>13. QED
  BY <1>8, <1>9, <1>11, <1>12, RunMoves

LEMMA FinishStep ==
  ASSUME IInv, Finish
  PROVE  IInv'
<1> DEFINE sound == Output.records # {} /\ Valid(Output, run.feeds)
           n == [run EXCEPT !.at = "deploy"]
<1>1. CASE ~sound
  BY <1>1, Unscheduled DEF Finish
<1>2. CASE sound
  <2>1. /\ run \in Runs /\ run.at = "feeds" /\ run.rows = <<>>
        /\ run' = n /\ UNCHANGED <<now, registry, runs, site>>
    BY <1>2 DEF IInv, Types, Finish
  <2>2. /\ n \in Runs /\ n.at = "deploy" /\ n.feeds = run.feeds
        /\ n.todo = run.todo /\ n.done = run.done /\ n.previous = run.previous
        /\ n.clock = run.clock /\ n.records = run.records /\ n.source = run.source
        /\ n.rows = run.rows
    BY <2>1 DEF Runs
  <2> HIDE DEF n
  <2>3. Previous' = Previous /\ Output' = Output
    BY <2>1, <2>2 DEF Previous, Output, Status
  <2>4. Scheduled' /\ Current' /\ Merging'
    BY <2>1, <2>2, <2>3 DEF IInv, Scheduled, Current, Merging
  <2>5. Deployable'
    BY <1>2, <2>1, <2>2, <2>3 DEF Deployable
  <2>6. QED
    BY <2>1, <2>2, <2>4, <2>5, RunMoves
<1>3. QED
  BY <1>1, <1>2

\* What is deployed.
LEMMA OutputOK ==
  ASSUME IInv, run.at = "deploy"
  PROVE  SnapshotOK(Output)
<1>1. /\ run \in Runs /\ run.feeds \in Registries /\ run.previous = Previous
      /\ RecordsOK(run.records, run.feeds, run.clock)
      /\ Output.records # {} /\ Valid(Output, run.feeds)
  BY DEF IInv, Types, Scheduled, Current, Merging, Deployable
<1>2. /\ Output.generated = run.clock /\ Output.records = Newest(run.records)
      /\ Output.status = Status
      /\ Output.success = IF run.done # {} THEN run.clock ELSE run.previous.success
      /\ Output.sources = run.feeds
  BY DEF Output
<1>3. run.clock \in Days
  BY <1>1 DEF Runs
<1>4. RecordsOK(Newest(run.records), run.feeds, run.clock)
  BY <1>1, NewestOK
<1>5. Output \in Snapshots
  <2>1. Previous \in Snapshots
    BY PreviousOK DEF IInv
  <2>2. Output.success \in Days \union {None}
    BY <1>1, <1>2, <1>3, <2>1 DEF Snapshots
  <2>3. Output.status \in {"OK", "PARTIAL", "STALE", "NOT_FETCHED"}
    BY <1>2 DEF Status
  <2>4. Output.records \in SUBSET Records
    BY <1>2, <1>4 DEF RecordsOK
  <2>5. Output = [generated |-> Output.generated, status |-> Output.status,
                  records |-> Output.records, sources |-> Output.sources,
                  success |-> Output.success]
    BY DEF Output
  <2>6. Output.sources \in SUBSET Nat
    BY <1>1, <1>2, NewsAssumption
  <2>7. QED
    BY <1>2, <1>3, <2>2, <2>3, <2>4, <2>5, <2>6 DEF Snapshots
<1>6. QED
  BY <1>1, <1>2, <1>3, <1>4, <1>5 DEF SnapshotOK

LEMMA DeployStep ==
  ASSUME IInv, Deploy
  PROVE  IInv'
<1>1. /\ run.at = "deploy" /\ site' = Output /\ run' = Idle
      /\ UNCHANGED <<now, registry, runs>>
  BY DEF Deploy
<1>2. Types'
  BY <1>1, IdleType DEF IInv, Types
<1>3. SiteInv'
  BY <1>1, OutputOK DEF SiteInv
<1>4. run'.at = "idle" /\ run'.rows = <<>>
  BY <1>1 DEF Idle
<1>5. Scheduled' /\ Current' /\ Merging' /\ Deployable'
  BY <1>4 DEF Scheduled, Current, Merging, Deployable
<1>6. QED
  BY <1>2, <1>3, <1>5 DEF IInv

LEMMA NextStep == IInv /\ [Next]_vars => IInv'
<1> SUFFICES ASSUME IInv, [Next]_vars PROVE IInv'
  OBVIOUS
<1>1. CASE Tick \/ (\E R \in Registries : Commit(R)) \/ UNCHANGED vars
  BY <1>1, WorldSteps
<1>2. CASE Start
  BY <1>2, StartStep
<1>3. CASE JobFails
  BY <1>3, Unscheduled DEF JobFails
<1>4. CASE ReadPrevious
  BY <1>4, ReadPreviousStep
<1>5. CASE MergeRow
  BY <1>5, MergeRowStep
<1>6. CASE Finish
  BY <1>6, FinishStep
<1>7. CASE Deploy
  BY <1>7, DeployStep
<1>8. ASSUME NEW clock \in {now, now - 1} \intersect Days, Collect(clock) PROVE IInv'
  BY <1>8, CollectStep
<1>9. ASSUME NEW f \in run.todo, FeedFails(f) PROVE IInv'
  BY <1>9, FeedFailsStep
<1>10. ASSUME NEW f \in run.todo, NEW doc \in Documents, FeedRead(f, doc) PROVE IInv'
  BY <1>10, FeedReadStep
<1>11. QED
  BY <1>1, <1>2, <1>3, <1>4, <1>5, <1>6, <1>7, <1>8, <1>9, <1>10 DEF Next

\* The inductive invariant holds in every state of the news run.
THEOREM Invariance == Spec => []IInv
<1>1. Init => IInv
  BY Initially
<1>2. IInv /\ [Next]_vars => IInv'
  BY NextStep
<1>3. QED
  BY <1>1, <1>2, PTL DEF Spec

----------------------------------------------------------------------------
(* What it gives.                                                          *)

\* The published snapshot is one that the next run of the registry that wrote it can
\* read: only its feeds, no two records of one id, no more than the list may hold, all in
\* the window (validate_snapshot on what collect wrote).
THEOREM TypesHold == Spec => []TypeOK
<1>1. IInv => TypeOK
  <2> SUFFICES ASSUME IInv PROVE TypeOK
    OBVIOUS
  <2>1. /\ now \in Days /\ runs \in 0..MaxRuns /\ registry \in Registries
        /\ run.at \in {"idle", "previous", "collect", "feeds", "deploy"}
    BY DEF IInv, Types, Runs
  <2>2. ASSUME site # None
        PROVE  /\ site.generated \in Days /\ site.records # {}
               /\ \A r, s \in site.records : r.id = s.id => r = s
               /\ site.sources \in Registries /\ Valid(site, site.sources)
               /\ \A r \in site.records : /\ r.id \in Ids /\ r.revisions \in Seq(Revisions)
                                          /\ InWindow(r.published, site.generated)
    <3>1. /\ site.sources \in Registries /\ Valid(site, site.sources)
          /\ RecordsOK(site.records, site.sources, site.generated)
      BY <2>2 DEF IInv, SiteInv, SnapshotOK
    <3>2. \A r \in Records : r.id \in Ids /\ r.revisions \in Seq(Revisions)
      BY DEF Records
    <3>3. site.generated \in Days /\ site.records # {}
      BY <2>2 DEF IInv, SiteInv, SnapshotOK
    <3>4. QED
      BY <3>1, <3>2, <3>3 DEF RecordsOK
  <2>3. QED
    BY <2>1, <2>2 DEF TypeOK
<1>2. QED
  BY <1>1, Invariance, PTL

\* Every published history tells what was seen, in order: it starts at the first sight,
\* its dates do not go back although the clocks of the runners may, each revision
\* changes something, and the last is what the page shows (the merge in collect).
THEOREM HistoriesAreTrue == Spec => []HistoryIsTrue
<1>1. IInv => HistoryIsTrue
  <2> SUFFICES ASSUME IInv, site # None, NEW r \in site.records
               PROVE  LET n == Len(r.revisions) IN
                      /\ n > 0 /\ r.first = r.revisions[1].observed
                      /\ r.revisions[n].title = r.title
                      /\ r.revisions[n].published = r.published
                      /\ r.revisions[n].observed <= r.last /\ r.last <= site.generated
                      /\ \A i \in 1..(n - 1) :
                           LET a == r.revisions[i]
                               b == r.revisions[i + 1]
                           IN  a.observed <= b.observed
                               /\ <<a.title, a.published>> # <<b.title, b.published>>
    BY DEF HistoryIsTrue
  <2>1. History(r, site.generated)
    BY DEF IInv, SiteInv, SnapshotOK, RecordsOK
  <2>2. QED
    BY <2>1 DEF History, Changes
<1>2. QED
  BY <1>1, Invariance, PTL

\* A step that changes the site is a deployment, and what it leaves out of the records
\* it continues did not fit into a full list.
LEMMA DeploymentKeeps ==
  ASSUME IInv, Deploy, site # None
  PROVE  /\ site'.generated >= site.generated
         /\ site'.success # site.success =>
              site'.status # "STALE" /\ site'.success = site'.generated
         /\ \A r \in site.records : InWindow(r.published, site'.generated) =>
              \/ \E s \in site'.records :
                   /\ s.id = r.id /\ s.first = r.first /\ r.feeds \subseteq s.feeds
                   /\ IsPrefix(r.revisions, s.revisions)
              \/ Cardinality(site'.records) = MaxRecords
<1>1. /\ run.at = "deploy" /\ site' = Output /\ run \in Runs /\ run.clock \in Days
      /\ run.previous = site /\ Previous = site /\ SnapshotOK(site)
  BY DEF Deploy, IInv, Types, SiteInv, Current, Previous, Runs
<1>2. /\ site'.generated = run.clock /\ site'.records = Newest(run.records)
      /\ site'.status = Status
      /\ site'.success = IF run.done # {} THEN run.clock ELSE site.success
  BY <1>1 DEF Output
<1>3. site'.generated >= site.generated
  <2>1. site.generated \in Days
    BY <1>1 DEF SnapshotOK
  <2>2. site.generated # None
    BY <2>1, NewsAssumption
  <2>3. site.generated <= run.clock
    BY <1>1, <2>2 DEF IInv, Merging
  <2>4. site.generated \in Int /\ run.clock \in Int
    BY <1>1, <2>1, NewsAssumption DEF Days
  <2>5. QED
    BY <1>2, <2>3, <2>4
<1>4. ASSUME site'.success # site.success
      PROVE  site'.status # "STALE" /\ site'.success = site'.generated
  <2>1. run.done # {}
    BY <1>2, <1>4
  <2>2. Status # "STALE"
    BY <2>1 DEF Status
  <2>3. QED
    BY <1>2, <2>1, <2>2
<1>5. ASSUME NEW r \in site.records, InWindow(r.published, site'.generated)
      PROVE  \/ \E s \in site'.records :
                  /\ s.id = r.id /\ s.first = r.first /\ r.feeds \subseteq s.feeds
                  /\ IsPrefix(r.revisions, s.revisions)
             \/ Cardinality(site'.records) = MaxRecords
  <2>1. PICK s \in run.records : Continues(s, r)
    BY <1>1, <1>2, <1>5 DEF IInv, Merging
  <2>2. CASE s \in Newest(run.records)
    BY <1>2, <2>1, <2>2 DEF Continues
  <2>3. CASE s \notin Newest(run.records)
    <3>1. IsFiniteSet(run.records) /\ run.records \subseteq Records
      BY <1>1 DEF IInv, Merging, RecordsOK
    <3>2. Cardinality(Newest(run.records)) >= MaxRecords
      BY <2>3, <3>1, LeftOutOfFullList
    <3>3. Cardinality(Newest(run.records)) <= MaxRecords
      BY <1>1, <1>2 DEF IInv, Deployable, Valid
    <3>4. Cardinality(Newest(run.records)) \in Nat
      <4>1. Newest(run.records) \in SUBSET run.records
        BY DEF Newest
      <4>2. QED
        BY <3>1, <4>1, FS_Subset, FS_CardinalityType
    <3>5. QED
      BY <1>2, <3>2, <3>3, <3>4, NewsAssumption
  <2>4. QED
    BY <2>2, <2>3
<1>6. QED
  BY <1>3, <1>4, <1>5

\* Across failed feeds, cancelled and failed runs and runners whose clocks differ: a
\* published record that is still in the window stays, with its first sight, its feeds
\* and all its revisions, unless a full list pushed it out; the snapshot's time never
\* goes back; the time of the last success advances only with a feed that was read.
THEOREM HistoriesAreKept == Spec => HistoryIsKept
<1>1. IInv /\ [Next]_vars =>
        [site # None /\ site' # site =>
           /\ site'.generated >= site.generated
           /\ site'.success # site.success =>
                site'.status # "STALE" /\ site'.success = site'.generated
           /\ \A r \in site.records : InWindow(r.published, site'.generated) =>
                \/ \E s \in site'.records :
                     /\ s.id = r.id /\ s.first = r.first /\ r.feeds \subseteq s.feeds
                     /\ IsPrefix(r.revisions, s.revisions)
                \/ Cardinality(site'.records) = MaxRecords]_vars
  <2> SUFFICES ASSUME IInv, [Next]_vars, site # None, site' # site
               PROVE  Deploy
    BY DeploymentKeeps
  <2>1. QED
    BY DEF Next, vars, Tick, Commit, Start, JobFails, ReadPrevious, Collect, FeedRead,
           FeedFails, MergeRow, Finish
<1>2. QED
  BY <1>1, Invariance, PTL DEF Spec, HistoryIsKept

===============================================================================
