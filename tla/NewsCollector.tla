---------------------------- MODULE NewsCollector ----------------------------
(***************************************************************************)
(* The daily news run: it reads the snapshot that is published, fetches    *)
(* the registered feeds one after the other, merges what they offer into   *)
(* the seven-day window, and its output replaces the site.  A newer run of *)
(* the workflow cancels the one in progress.                               *)
(*                                                                         *)
(* Time is counted in days.  An item is its record id, title and date, and *)
(* `fit' for the scope and address rules; ids are numbered as they sort.   *)
(***************************************************************************)
EXTENDS Integers, Sequences, FiniteSets, SequencesExt

CONSTANTS
  Registries,     \* the sets of feeds (numbers) that sources.json may hold
  Documents,      \* what a feed may offer: sequences of [id, title, published, fit]
  Ids, Titles,
  WindowDays, MaxRecords,     \* 7, 240
  MaxTime, MaxRuns,           \* bounds
  None

Days == 0..MaxTime
Items == [id : Ids, title : Titles, published : Int, fit : BOOLEAN]

ASSUME NewsAssumption ==
  /\ \A R \in Registries : R \subseteq Nat /\ R # {}
  /\ Documents \subseteq Seq(Items) /\ Ids \subseteq Nat
  /\ None \notin Days
  /\ WindowDays \in Nat /\ MaxRecords \in Nat /\ MaxTime \in Nat /\ MaxRuns \in Nat

VARIABLES
  now, registry, runs,
  site,       \* the published snapshot, or None before the first
  run         \* the run of the workflow

vars == <<now, registry, runs, site, run>>

Idle == [at |-> "idle", feeds |-> {}, todo |-> {}, done |-> {}, previous |-> None, clock |-> 0,
         records |-> {}, source |-> None, rows |-> <<>>]

\* A snapshot's `sources' is its health list: one entry for each feed of its registry.
Empty == [generated |-> None, success |-> None, status |-> "NOT_FETCHED", records |-> {},
          sources |-> {}]

Init ==
  /\ now = 0 /\ runs = 0 /\ registry \in Registries
  /\ site = None /\ run = Idle

InWindow(day, clock) == clock - WindowDays <= day /\ day <= clock

----------------------------------------------------------------------------
(* The world: a day passes, a commit changes the registry, the workflow    *)
(* starts (and cancels its predecessor).                                   *)

Tick == now < MaxTime /\ now' = now + 1 /\ UNCHANGED <<registry, runs, site, run>>

Commit(R) == registry # R /\ registry' = R /\ UNCHANGED <<now, runs, site, run>>

Start ==
  /\ runs < MaxRuns /\ runs' = runs + 1
  /\ run' = [Idle EXCEPT !.at = "previous", !.feeds = registry, !.todo = registry]
  /\ UNCHANGED <<now, registry, site>>

\* A step of the job fails, here or in the tests around it: nothing is deployed.
JobFails == run.at # "idle" /\ run' = Idle /\ UNCHANGED <<now, registry, runs, site>>

----------------------------------------------------------------------------
(* previous_snapshot and the start of collect.                             *)

\* validate_snapshot: a record that names a feed no longer registered is invalid.
Valid(s, feeds) ==
  /\ Cardinality(s.records) <= MaxRecords
  /\ \A r \in s.records : r.feeds \subseteq feeds

\* Only a missing page is an empty history.
Previous == IF site = None THEN Empty ELSE site

ReadPrevious ==
  /\ run.at = "previous"
  /\ run' = IF Valid(Previous, run.feeds) THEN [run EXCEPT !.at = "collect", !.previous = Previous]
                                          ELSE Idle
  /\ UNCHANGED <<now, registry, runs, site>>

\* Faulty variant: records of the snapshot do not leave the window.
KeptForEver(s, clock) == s.records

Kept(s, clock) == {r \in s.records : InWindow(r.published, clock)}

\* Faulty variant: the clock of this runner is not compared with the snapshot's.
CollectAnyTime(clock) ==
  /\ run.at = "collect"
  /\ run' = [run EXCEPT !.at = "feeds", !.clock = clock, !.records = Kept(run.previous, clock)]
  /\ UNCHANGED <<now, registry, runs, site>>

\* A snapshot of the future stops the run (FUTURE_SNAPSHOT).
Collect(clock) ==
  /\ run.at = "collect"
  /\ run' = IF run.previous.generated # None /\ run.previous.generated > clock THEN Idle
            ELSE [run EXCEPT !.at = "feeds", !.clock = clock,
                             !.records = Kept(run.previous, clock)]
  /\ UNCHANGED <<now, registry, runs, site>>

----------------------------------------------------------------------------
(* parse_feed and the merge.                                               *)

Accepted(item, clock) == item.fit /\ InWindow(item.published, clock)

Revision(item, clock) == [observed |-> clock, title |-> item.title, published |-> item.published]

Report(item, feed, clock) ==
  [id |-> item.id, title |-> item.title, published |-> item.published, first |-> clock,
   last |-> clock, feeds |-> {feed}, revisions |-> <<Revision(item, clock)>>]

\* Faulty variant: a changed headline starts a new history.
ContinuedAnew(old, r) ==
  [r EXCEPT !.first = old.first, !.feeds = old.feeds \union r.feeds,
            !.revisions = IF <<old.title, old.published>> # <<r.title, r.published>>
                            THEN r.revisions ELSE old.revisions]

\* The report r of a record that is known as old.
Continued(old, r) ==
  [r EXCEPT !.first = old.first, !.feeds = old.feeds \union r.feeds,
            !.revisions = IF <<old.title, old.published>> # <<r.title, r.published>>
                            THEN old.revisions \o r.revisions ELSE old.revisions]

Merged(records, r) ==
  LET old == {o \in records : o.id = r.id} IN
  IF old = {} THEN records \union {r}
  ELSE (records \ old) \union {Continued(o, r) : o \in old}

Turn(f) ==
  /\ run.at = "feeds" /\ run.rows = <<>>
  /\ f \in run.todo /\ \A g \in run.todo : f <= g

\* The document is parsed before its first row is merged.
FeedRead(f, doc) ==
  /\ Turn(f)
  /\ run' = [run EXCEPT !.todo = @ \ {f}, !.done = @ \union {f}, !.source = f, !.rows = doc]
  /\ UNCHANGED <<now, registry, runs, site>>

MergeRow ==
  /\ run.at = "feeds" /\ run.rows # <<>>
  /\ LET item == Head(run.rows) IN
     run' = [run EXCEPT !.rows = Tail(@),
                        !.records = IF Accepted(item, run.clock)
                                      THEN Merged(@, Report(item, run.source, run.clock)) ELSE @]
  /\ UNCHANGED <<now, registry, runs, site>>

\* Network, address rules, size, encoding or XML: the feed is UNAVAILABLE.
FeedFails(f) ==
  /\ Turn(f) /\ run' = [run EXCEPT !.todo = @ \ {f}]
  /\ UNCHANGED <<now, registry, runs, site>>

----------------------------------------------------------------------------
(* The output and its deployment.                                          *)

Newer(r, s) == r.published > s.published \/ (r.published = s.published /\ r.id > s.id)

Newest(records) == {r \in records : Cardinality({s \in records : Newer(s, r)}) < MaxRecords}

Status == IF run.done = run.feeds THEN "OK" ELSE IF run.done # {} THEN "PARTIAL" ELSE "STALE"

Output ==
  [generated |-> run.clock, status |-> Status, records |-> Newest(run.records),
   sources |-> run.feeds,
   success |-> IF run.done # {} THEN run.clock ELSE run.previous.success]

\* Without records there is nothing to publish: the job fails after the snapshot is
\* written, or before it when no feed answered either.
Finish ==
  /\ run.at = "feeds" /\ run.todo = {} /\ run.rows = <<>>
  /\ run' = IF Output.records # {} /\ Valid(Output, run.feeds)
              THEN [run EXCEPT !.at = "deploy"] ELSE Idle
  /\ UNCHANGED <<now, registry, runs, site>>

Deploy ==
  /\ run.at = "deploy" /\ site' = Output /\ run' = Idle
  /\ UNCHANGED <<now, registry, runs>>

\* The runner's clock may be a day behind the one before.
Next ==
  \/ Tick \/ Start \/ JobFails \/ ReadPrevious \/ MergeRow \/ Finish \/ Deploy
  \/ \E R \in Registries : Commit(R)
  \/ \E clock \in {now, now - 1} \intersect Days : Collect(clock)
  \/ \E f \in run.todo : FeedFails(f) \/ \E doc \in Documents : FeedRead(f, doc)

Spec == Init /\ [][Next]_vars

----------------------------------------------------------------------------
(* Properties.                                                             *)

Revisions == [observed : Days, title : Titles, published : Int]

\* The published snapshot is one that the next run of the registry that wrote it can
\* read (its health list names that registry's feeds, and no record any other): no two
\* records of one id, no more than the list may hold, all in the window.
TypeOK ==
  /\ now \in Days /\ runs \in 0..MaxRuns /\ registry \in Registries
  /\ run.at \in {"idle", "previous", "collect", "feeds", "deploy"}
  /\ site # None =>
       /\ site.generated \in Days /\ site.records # {}
       /\ \A r, s \in site.records : r.id = s.id => r = s
       /\ site.sources \in Registries /\ Valid(site, site.sources)
       /\ \A r \in site.records : /\ r.id \in Ids /\ r.revisions \in Seq(Revisions)
                                  /\ InWindow(r.published, site.generated)

\* The history of a record tells what was seen, in order: it starts when the record was
\* first seen, its dates do not go back although runners' clocks may, each revision
\* changes something, and the last is the headline and date that are shown.
HistoryIsTrue ==
  site # None => \A r \in site.records :
    LET n == Len(r.revisions) IN
    /\ n > 0 /\ r.first = r.revisions[1].observed
    /\ r.revisions[n].title = r.title /\ r.revisions[n].published = r.published
    /\ r.revisions[n].observed <= r.last /\ r.last <= site.generated
    /\ \A i \in 1..(n - 1) :
         LET a == r.revisions[i]
             b == r.revisions[i + 1]
         IN  a.observed <= b.observed /\ <<a.title, a.published>> # <<b.title, b.published>>

\* Across failed feeds, cancelled and failed runs: a published record that is still in
\* the window stays, with its first sight, its feeds and all its revisions, unless a
\* full list pushed it out; the snapshot's time never goes back; and the time of the
\* last successful fetch advances only with a feed that was read.
HistoryIsKept ==
  [][site # None /\ site' # site =>
       /\ site'.generated >= site.generated
       /\ site'.success # site.success =>
            site'.status # "STALE" /\ site'.success = site'.generated
       /\ \A r \in site.records : InWindow(r.published, site'.generated) =>
            \/ \E s \in site'.records :
                 /\ s.id = r.id /\ s.first = r.first /\ r.feeds \subseteq s.feeds
                 /\ IsPrefix(r.revisions, s.revisions)
            \/ Cardinality(site'.records) = MaxRecords]_vars
=============================================================================
