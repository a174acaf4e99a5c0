----------------------------- MODULE Catalogue -----------------------------
(***************************************************************************)
(* Concurrent requests on one SQLite database (app/core/service.py and     *)
(* bump_counter of app/core/intelligence.py), and what they keep beside    *)
(* the rows: the catalogue of fingerprints, the reporters that have signed *)
(* and the daily counters.  Beside the requests run the pruner and the     *)
(* scripts that purge demo rows and rebuild the catalogue.                 *)
(*                                                                         *)
(* A session reads with no transaction open, each SELECT on its own, so    *)
(* what it read may be stale when it writes.  Its first INSERT, UPDATE or  *)
(* DELETE begins a transaction and takes the one write lock, which it      *)
(* holds until it commits or rolls back; another writer waits for the lock *)
(* until its busy timeout and then fails.  The ORM writes a counter it has *)
(* read as the number it computed, not as an increment.                    *)
(*                                                                         *)
(* Abstracted: every column that is not counted, and time (any row may     *)
(* have become old enough to be pruned).  A success and a recovery outcome *)
(* are a report without a fingerprint.                                     *)
(***************************************************************************)
EXTENDS Integers, FiniteSets

CONSTANTS
  Sessions,         \* requests that can be in progress at once
  Fingerprints,
  NoFingerprint,    \* a report that is not of a failure
  Reporters,        \* reporters that sign their requests
  Unsigned,         \* a request with no verified signature
  NoOne,            \* nobody holds the write lock
  MaxRequests,      \* bound: requests ever started
  MaxPurges         \* bound: runs of a purge script

ASSUME CatalogueAssumption ==
  /\ NoFingerprint \notin Fingerprints
  /\ Unsigned \notin Reporters
  /\ NoOne \notin Sessions
  /\ MaxRequests \in Nat /\ MaxPurges \in Nat

Sources == {"agent", "demo_agent"}
Counters == {"query_known", "query_unknown", "cross_agent_help"}

VARIABLES
  raw,           \* [fingerprint][source]: raw failure rows
  archived,      \* [fingerprint][source]: rows counted in the archive
  catalogue,     \* observation_count of the fingerprints that have a row
  reporterKeys,  \* signed_requests of the reporters that have a row
  counters,      \* daily_counters
  lock,          \* the session whose transaction is open, or NoOne
  session,       \* what each request holds in memory
  tool,          \* what a catalogue rebuild has read
  requests,      \* requests started
  purges,        \* purges run
  reported,      \* history: [fingerprint] reports ever committed
  signed,        \* history: [reporter] verified reports ever committed
  firsts,        \* history: [fingerprint] answers that called it unknown
  dropped,       \* history: [fingerprint] times its catalogue row was deleted
  counted        \* history: queries whose counters were committed

tables == <<raw, archived, catalogue, reporterKeys, counters>>
history == <<reported, signed, firsts, dropped, counted>>
vars == <<tables, lock, session, tool, requests, purges, history>>

-----------------------------------------------------------------------------
Total(rows, f) == rows[f]["agent"] + rows[f]["demo_agent"]

Idle == [pc |-> "idle", fingerprint |-> NoFingerprint, reporter |-> Unsigned,
         source |-> "agent", seen |-> 0, signedSeen |-> 0, known |-> FALSE]

NoRead == [pc |-> "idle", counts |-> [f \in {} |-> 0]]

NoCounts == [k \in {} |-> 0]

With(counts, k, n) == [x \in DOMAIN counts \cup {k} |-> IF x = k THEN n ELSE counts[x]]

CanWrite(q) == lock \in {NoOne, q}

Init ==
  /\ raw = [f \in Fingerprints |-> [s \in Sources |-> 0]]
  /\ archived = [f \in Fingerprints |-> [s \in Sources |-> 0]]
  /\ catalogue = NoCounts
  /\ reporterKeys = NoCounts
  /\ counters = [c \in Counters |-> 0]
  /\ lock = NoOne
  /\ session = [q \in Sessions |-> Idle]
  /\ tool = NoRead
  /\ requests = 0
  /\ purges = 0
  /\ reported = [f \in Fingerprints |-> 0]
  /\ signed = [r \in Reporters |-> 0]
  /\ firsts = [f \in Fingerprints |-> 0]
  /\ dropped = [f \in Fingerprints |-> 0]
  /\ counted = 0

-----------------------------------------------------------------------------
(* Reports.                                                                *)

(* After the catalogue comes the reporter's row, if the request is signed. *)
AfterTouch(r) == IF r = Unsigned THEN "commit" ELSE "sign"

StartReport(q) ==
  /\ session[q].pc = "idle"
  /\ requests < MaxRequests
  /\ \E f \in Fingerprints \cup {NoFingerprint}, r \in Reporters \cup {Unsigned},
        s \in Sources :
       session' = [session EXCEPT ![q] =
         [@ EXCEPT !.pc = IF f = NoFingerprint THEN AfterTouch(r) ELSE "touch",
                   !.fingerprint = f, !.reporter = r, !.source = s]]
  /\ requests' = requests + 1
  /\ UNCHANGED <<tables, lock, tool, purges, history>>

(* Fault: a failure that is not found is not inserted.                     *)
TouchSelectOnly(q) ==
  LET f == session[q].fingerprint IN
  /\ session[q].pc = "touch"
  /\ session' = [session EXCEPT ![q] =
       [@ EXCEPT !.pc = AfterTouch(session[q].reporter),
                 !.seen = IF f \in DOMAIN catalogue THEN catalogue[f] ELSE 0,
                 !.known = TRUE]]
  /\ UNCHANGED <<tables, lock, tool, requests, purges, history>>

(* _touch_fingerprint: the row is looked up ...                            *)
TouchSelect(q) ==
  LET f == session[q].fingerprint IN
  /\ session[q].pc = "touch"
  /\ \/ /\ f \in DOMAIN catalogue
        /\ session' = [session EXCEPT ![q] =
             [@ EXCEPT !.pc = AfterTouch(session[q].reporter),
                       !.seen = catalogue[f], !.known = TRUE]]
     \/ /\ f \notin DOMAIN catalogue
        /\ session' = [session EXCEPT ![q].pc = "insert"]
  /\ UNCHANGED <<tables, lock, tool, requests, purges, history>>

(* ... or inserted, which begins the transaction, unless another request   *)
(* has inserted it: then everything is rolled back and it is looked up     *)
(* again.                                                                  *)
TouchInsert(q) ==
  LET f == session[q].fingerprint IN
  /\ session[q].pc = "insert"
  /\ CanWrite(q)
  /\ \/ /\ f \notin DOMAIN catalogue
        /\ lock' = q
        /\ session' = [session EXCEPT ![q].pc = AfterTouch(session[q].reporter)]
     \/ /\ f \in DOMAIN catalogue
        /\ session' = [session EXCEPT ![q].pc = "reselect"]
        /\ UNCHANGED lock
  /\ UNCHANGED <<tables, tool, requests, purges, history>>

TouchReselect(q) ==
  LET f == session[q].fingerprint IN
  /\ session[q].pc = "reselect"
  /\ session' = [session EXCEPT ![q] =
       [@ EXCEPT !.pc = AfterTouch(session[q].reporter),
                 !.seen = IF f \in DOMAIN catalogue THEN catalogue[f] ELSE 0,
                 !.known = TRUE]]
  /\ UNCHANGED <<tables, lock, tool, requests, purges, history>>

(* note_verified_reporter.                                                 *)
NoteVerifiedReporter(q) ==
  LET r == session[q].reporter IN
  /\ session[q].pc = "sign"
  /\ session' = [session EXCEPT ![q] =
       [@ EXCEPT !.pc = "commit",
                 !.signedSeen = IF r \in DOMAIN reporterKeys THEN reporterKeys[r] ELSE 0]]
  /\ UNCHANGED <<tables, lock, tool, requests, purges, history>>

(* What the commit would write: a catalogue row inserted earlier by this   *)
(* transaction (not known), an updated one (seen), or none at all (known,  *)
(* and nothing seen); a new reporter row, or an updated one.               *)
CatalogueFits(q) ==
  session[q].seen > 0 => session[q].fingerprint \in DOMAIN catalogue

ReporterFits(q) ==
  LET r == session[q].reporter IN
  r # Unsigned => (r \in DOMAIN reporterKeys <=> session[q].signedSeen > 0)

Commit(q) ==
  LET s == session[q]
      f == s.fingerprint
  IN
  /\ s.pc = "commit"
  /\ CanWrite(q)
  /\ CatalogueFits(q) /\ ReporterFits(q)
  /\ IF f = NoFingerprint THEN UNCHANGED <<raw, catalogue, reported, firsts>>
     ELSE /\ raw' = [raw EXCEPT ![f][s.source] = @ + 1]
          /\ reported' = [reported EXCEPT ![f] = @ + 1]
          /\ catalogue' = IF s.known /\ s.seen = 0 THEN catalogue
                          ELSE With(catalogue, f, s.seen + 1)
          /\ firsts' = [firsts EXCEPT ![f] = @ + IF s.known THEN 0 ELSE 1]
  /\ IF s.reporter = Unsigned THEN UNCHANGED <<reporterKeys, signed>>
     ELSE /\ reporterKeys' = With(reporterKeys, s.reporter, s.signedSeen + 1)
          /\ signed' = [signed EXCEPT ![s.reporter] = @ + 1]
  /\ lock' = NoOne
  /\ session' = [session EXCEPT ![q] = [Idle EXCEPT !.pc = "answered"]]
  /\ UNCHANGED <<archived, counters, tool, requests, purges, dropped, counted>>

(* Fault: a reporter row that is already there fails nothing and ends      *)
(* nothing.                                                                *)
CommitFailsOnCatalogue(q) ==
  /\ session[q].pc = "commit"
  /\ CanWrite(q)
  /\ ~CatalogueFits(q)
  /\ lock' = NoOne
  /\ session' = [session EXCEPT ![q] = [Idle EXCEPT !.pc = "failed"]]
  /\ UNCHANGED <<tables, tool, requests, purges, history>>

(* A row to update is gone, or a row to insert is there: the request fails *)
(* and its whole transaction is rolled back.                               *)
CommitFails(q) ==
  /\ session[q].pc = "commit"
  /\ CanWrite(q)
  /\ ~(CatalogueFits(q) /\ ReporterFits(q))
  /\ lock' = NoOne
  /\ session' = [session EXCEPT ![q] = [Idle EXCEPT !.pc = "failed"]]
  /\ UNCHANGED <<tables, tool, requests, purges, history>>

(* The busy timeout of a request that waits for another's transaction.     *)
LockTimeout(q) ==
  /\ session[q].pc \in {"insert", "commit"}
  /\ ~CanWrite(q)
  /\ session' = [session EXCEPT ![q] = [Idle EXCEPT !.pc = "failed"]]
  /\ UNCHANGED <<tables, lock, tool, requests, purges, history>>

-----------------------------------------------------------------------------
(* Queries: reads, and then counters that may not fail the answer.         *)

StartQuery(q) ==
  /\ session[q].pc = "idle"
  /\ requests < MaxRequests
  /\ \E f \in Fingerprints :
       session' = [session EXCEPT ![q] =
         [@ EXCEPT !.pc = "count", !.fingerprint = f,
                   !.known = Total(raw, f) + Total(archived, f) > 0]]
  /\ requests' = requests + 1
  /\ UNCHANGED <<tables, lock, tool, purges, history>>

BumpCounters(q) ==
  /\ session[q].pc = "count"
  /\ CanWrite(q)
  /\ \E helped \in BOOLEAN :
       counters' = [c \in Counters |-> counters[c] +
         IF \/ c = "query_known" /\ session[q].known
            \/ c = "query_unknown" /\ ~session[q].known
            \/ c = "cross_agent_help" /\ helped
         THEN 1 ELSE 0]
  /\ counted' = counted + 1
  /\ session' = [session EXCEPT ![q] = [Idle EXCEPT !.pc = "answered"]]
  /\ UNCHANGED <<raw, archived, catalogue, reporterKeys, lock, tool, requests,
                 purges, reported, signed, firsts, dropped>>

CounterTimeout(q) ==
  /\ session[q].pc = "count"
  /\ ~CanWrite(q)
  /\ session' = [session EXCEPT ![q] = [Idle EXCEPT !.pc = "answered"]]
  /\ UNCHANGED <<tables, lock, tool, requests, purges, history>>

Finish(q) ==
  /\ session[q].pc \in {"answered", "failed"}
  /\ session' = [session EXCEPT ![q] = Idle]
  /\ UNCHANGED <<tables, lock, tool, requests, purges, history>>

(* The service is restarted: open transactions are rolled back.            *)
Restart ==
  /\ session' = [q \in Sessions |-> Idle]
  /\ lock' = NoOne
  /\ UNCHANGED <<tables, tool, requests, purges, history>>

-----------------------------------------------------------------------------
(* The other writers: each is one transaction, after reads of its own.     *)

(* The pruner folds the raw rows of a fingerprint, all of them old.        *)
Archive(f) ==
  /\ lock = NoOne
  /\ Total(raw, f) > 0
  /\ archived' = [archived EXCEPT ![f] = [s \in Sources |-> @[s] + raw[f][s]]]
  /\ raw' = [raw EXCEPT ![f] = [s \in Sources |-> 0]]
  /\ UNCHANGED <<catalogue, reporterKeys, counters, lock, session, tool,
                 requests, purges, history>>

(* Demo rows are deleted, raw and archived, and with them every catalogue  *)
(* row that has no raw row left.                                           *)
Orphans(rows) == {f \in DOMAIN catalogue : Total(rows, f) = 0}

Purge ==
  /\ lock = NoOne
  /\ purges < MaxPurges
  /\ purges' = purges + 1
  /\ raw' = [f \in Fingerprints |-> [raw[f] EXCEPT !["demo_agent"] = 0]]
  /\ archived' = [f \in Fingerprints |-> [archived[f] EXCEPT !["demo_agent"] = 0]]
  /\ catalogue' = [f \in DOMAIN catalogue \ Orphans(raw') |-> catalogue[f]]
  /\ dropped' = [f \in Fingerprints |->
                   dropped[f] + IF f \in Orphans(raw') THEN 1 ELSE 0]
  /\ tool' = [NoRead EXCEPT !.pc = "purged"]
  /\ UNCHANGED <<reporterKeys, counters, lock, session, requests,
                 reported, signed, firsts, counted>>

(* The catalogue is recomputed from the raw rows: read ...                 *)
RebuildRead ==
  /\ tool.pc = "purged"
  /\ tool' = [pc |-> "read",
              counts |-> [f \in {g \in Fingerprints : Total(raw, g) > 0} |-> Total(raw, f)]]
  /\ UNCHANGED <<tables, lock, session, requests, purges, history>>

(* ... and written, row by row found or missing, in one transaction.       *)
RebuildWrite ==
  /\ tool.pc = "read"
  /\ lock = NoOne
  /\ catalogue' = [f \in DOMAIN catalogue \cup DOMAIN tool.counts |->
                     IF f \in DOMAIN tool.counts THEN tool.counts[f] ELSE catalogue[f]]
  /\ tool' = NoRead
  /\ UNCHANGED <<raw, archived, reporterKeys, counters, lock, session,
                 requests, purges, history>>

ReportStep(q) ==
  \/ TouchSelect(q) \/ TouchInsert(q) \/ TouchReselect(q)
  \/ NoteVerifiedReporter(q)
  \/ Commit(q) \/ CommitFails(q) \/ LockTimeout(q)

QueryStep(q) == BumpCounters(q) \/ CounterTimeout(q)

Next ==
  \/ \E q \in Sessions :
       StartReport(q) \/ ReportStep(q) \/ StartQuery(q) \/ QueryStep(q) \/ Finish(q)
  \/ Restart
  \/ \E f \in Fingerprints : Archive(f)
  \/ Purge \/ RebuildRead \/ RebuildWrite

Spec == Init /\ [][Next]_vars

(* A request that can take its next step takes it: the event loop and the  *)
(* database serve every session, and waiting for the lock is bounded by    *)
(* the busy timeout.                                                       *)
FairSpec ==
  /\ Spec
  /\ \A q \in Sessions : WF_vars(ReportStep(q) \/ QueryStep(q) \/ Finish(q))

-----------------------------------------------------------------------------
(* Properties.                                                             *)

Counts(f, K) == f = [k \in DOMAIN f |-> f[k]] /\ DOMAIN f \subseteq K
                /\ \A k \in DOMAIN f : f[k] \in Nat

PCs == {"idle", "touch", "insert", "reselect", "sign", "commit", "count",
        "answered", "failed"}

Request == [pc : PCs, fingerprint : Fingerprints \cup {NoFingerprint},
            reporter : Reporters \cup {Unsigned}, source : Sources,
            seen : Nat, signedSeen : Nat, known : BOOLEAN]

SessionOK(s) ==
  /\ s \in Request
  /\ s.pc \in {"touch", "insert", "reselect"} => s.fingerprint # NoFingerprint
  /\ s.pc = "sign" => s.reporter # Unsigned

(* Type invariant.                                                         *)
TypeOK ==
  /\ raw \in [Fingerprints -> [Sources -> Nat]]
  /\ archived \in [Fingerprints -> [Sources -> Nat]]
  /\ Counts(catalogue, Fingerprints)
  /\ Counts(reporterKeys, Reporters)
  /\ counters \in [Counters -> Nat]
  /\ lock \in Sessions \cup {NoOne}
  /\ session \in [Sessions -> Request]
  /\ \A q \in Sessions : SessionOK(session[q])
  /\ tool = [pc |-> tool.pc, counts |-> tool.counts]
  /\ tool.pc \in {"idle", "purged", "read"}
  /\ Counts(tool.counts, Fingerprints)
  /\ requests \in Nat /\ purges \in Nat /\ counted \in Nat
  /\ reported \in [Fingerprints -> Nat]
  /\ signed \in [Reporters -> Nat]
  /\ firsts \in [Fingerprints -> Nat]
  /\ dropped \in [Fingerprints -> Nat]

(* The catalogue never runs ahead of the reports: whatever was stale when  *)
(* it was written, by a request or by a rebuild, a count it holds is one   *)
(* that so many committed reports had earned.                              *)
CountWithinReports ==
  \A f \in DOMAIN catalogue : catalogue[f] \in 1 .. reported[f]

(* Two agents are never both told that they saw a failure first, however   *)
(* their lookups and inserts interleave; only deleting the catalogue row   *)
(* makes a failure new again.                                              *)
FirstSightOnce ==
  \A f \in Fingerprints :
    firsts[f] + (IF f \in DOMAIN catalogue THEN 0 ELSE 1) <= 1 + dropped[f]

(* A failure with a raw row has its catalogue row, unless a purge took it: *)
(* a request that fails half way leaves neither, one that succeeds both.   *)
CataloguedUnlessPurged ==
  \A f \in Fingerprints :
    Total(raw, f) > 0 => f \in DOMAIN catalogue \/ dropped[f] > 0

(* A reporter is remembered as verified from its first committed signed    *)
(* report on, and never for more reports than it signed.                   *)
VerifiedRemembered ==
  /\ DOMAIN reporterKeys = {r \in Reporters : signed[r] > 0}
  /\ \A r \in DOMAIN reporterKeys : reporterKeys[r] \in 1 .. signed[r]

(* The counters are exact although many queries write them at once, and    *)
(* help is never counted without its query.                                *)
CountersExact ==
  /\ counters["query_known"] + counters["query_unknown"] = counted
  /\ counters["cross_agent_help"] <= counted

(* An open transaction is that of the one request that is creating a       *)
(* catalogue row, which nobody else can create meanwhile; and a request    *)
(* that is creating one has not lost its transaction.                      *)
Creating(s) == s.pc \in {"sign", "commit"} /\ s.fingerprint # NoFingerprint /\ ~s.known

LockIsInserter ==
  /\ \A q \in Sessions : lock = q <=> Creating(session[q])
  /\ \A q \in Sessions : lock = q => session[q].fingerprint \notin DOMAIN catalogue

(* Every request is answered or refused.  The holder of the write lock is  *)
(* such a request (LockIsInserter), so the lock is always given back too.  *)
RequestsEnd ==
  \A q \in Sessions : session[q].pc # "idle" ~> session[q].pc = "idle"

-----------------------------------------------------------------------------
(* What is remembered between two steps, without which the properties      *)
(* above are not inductive.                                                *)

(* A request has nothing in memory before it has read.                     *)
FreshBeforeReading(s) ==
  s.pc \in {"idle", "touch", "insert", "reselect"} =>
    s.seen = 0 /\ s.signedSeen = 0 /\ ~s.known

(* What it has read, or is inserting, has been surpassed by commits.       *)
SeenWithinReports(s) ==
  /\ s.fingerprint # NoFingerprint => s.seen <= reported[s.fingerprint]
  /\ s.reporter # Unsigned => s.signedSeen <= signed[s.reporter]
  /\ Creating(s) => s.seen = 0

(* A row that was there, and then was not, has been deleted.               *)
LostOnlyToPurge(s) ==
  s.fingerprint # NoFingerprint =>
    /\ s.pc = "reselect" =>
         s.fingerprint \in DOMAIN catalogue \/ dropped[s.fingerprint] > 0
    /\ s.pc \in {"sign", "commit"} /\ s.known /\ s.seen = 0 =>
         dropped[s.fingerprint] > 0

SessionsRemember ==
  \A q \in Sessions :
    /\ FreshBeforeReading(session[q])
    /\ SeenWithinReports(session[q])
    /\ LostOnlyToPurge(session[q])

(* A rebuild has read counts that so many reports had earned.              *)
RebuildWithinReports ==
  /\ \A f \in Fingerprints : Total(raw, f) <= reported[f]
  /\ \A f \in DOMAIN tool.counts : tool.counts[f] \in 1 .. reported[f]

IInv ==
  /\ TypeOK /\ LockIsInserter /\ SessionsRemember /\ RebuildWithinReports
  /\ CountWithinReports /\ FirstSightOnce /\ CataloguedUnlessPurged
  /\ VerifiedRemembered /\ CountersExact

=============================================================================
