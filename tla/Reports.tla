------------------------------- MODULE Reports -------------------------------
(***************************************************************************)
(* Reports from the public: backend/internal/reports/reports.go behind the *)
(* handlers of backend/internal/api/reports.go.                            *)
(*                                                                         *)
(* The API process serves requests concurrently (Workers).  Create and     *)
(* Confirm are each TWO statements on the database, outside a transaction: *)
(* what the first one read may be stale when the second one runs.  A       *)
(* moderator works from a queue fetched earlier.  The process may be       *)
(* replaced at any moment, which ends the requests in flight and, when     *)
(* REPORT_SALT is not set, changes the salt of the fingerprints.           *)
(***************************************************************************)
EXTENDS Integers, FiniteSets

CONSTANTS
  Ids,              \* report ids (uuids) the database may hand out
  Workers,          \* requests the API can have in flight at once
  Addresses,        \* client addresses
  Network,          \* normaliseAddress: what an address is counted as
  Moderators,       \* people at the moderation page
  Presented,        \* the token each of them sends
  ModerationToken,  \* MODERATION_TOKEN, or NoToken when it is not set
  NoToken,
  SaltConfigured,   \* is REPORT_SALT set?
  RateLimit,        \* reports per submitter ...
  RateWindow,       \* ... within this much time
  QueueLimit,       \* LIMIT of the moderation queue
  MaxNow,           \* bound of the model: the clock stops here
  MaxSalts          \* bound of the model: restarts that draw a new salt

ASSUME WorkersAssumption == IsFiniteSet(Workers) /\ Workers # {}
ASSUME IdsAssumption     == IsFiniteSet(Ids)
ASSUME NumbersAssumption ==
  /\ RateLimit \in Nat \ {0} /\ RateWindow \in Nat \ {0} /\ QueueLimit \in Nat \ {0}
  /\ MaxNow \in Nat /\ MaxSalts \in Nat
ASSUME SaltAssumption    == SaltConfigured \in BOOLEAN

VARIABLES
  now,            \* the database's clock
  salt,           \* which salt the running API process uses
  reports,        \* the table: a partial function of Ids
  confirmations,  \* the table report_confirmations: rows [report, by]
  request,        \* what each worker is doing, and for whom
  queue,          \* the moderation queue each moderator last fetched
  seen            \* history: reports some token holder has been shown

vars == <<now, salt, reports, confirmations, request, queue, seen>>

Statuses == {"pending", "approved", "rejected"}

(* An HMAC of the normalised address: equal exactly when salt and network  *)
(* are equal.                                                              *)
Fingerprints == [salt : 0..MaxSalts, network : {Network[a] : a \in Addresses}]

Fingerprint(a) == [salt |-> salt, network |-> Network[a]]

Rows == [by : Fingerprints, at : 0..MaxNow, status : Statuses]

Idle == [pc |-> "idle"]

Requests ==
  {Idle} \cup [pc : {"count", "insert"}, by : Fingerprints]
         \cup [pc : {"exists", "confirm"}, by : Fingerprints, id : Ids]

Stored == DOMAIN reports

(* Reports that count against a submitter: created_at > now - RateWindow.  *)
Recent(f) == {r \in Stored : reports[r].by = f /\ reports[r].at > now - RateWindow}

(* Requests that have passed the limit and not inserted their row yet.     *)
Passed(f) == {w \in Workers : request[w].pc = "insert" /\ request[w].by = f}

Init ==
  /\ now = 0
  /\ salt = 0
  /\ reports = [r \in {} |-> Idle]
  /\ confirmations = {}
  /\ request = [w \in Workers |-> Idle]
  /\ queue = [m \in Moderators |-> {}]
  /\ seen = {}

-----------------------------------------------------------------------------
(* POST /api/reports                                                       *)

\* The handler has validated the body and calls Create.
CreateReport(w, a) ==
  /\ request[w] = Idle
  /\ request' = [request EXCEPT ![w] = [pc |-> "count", by |-> Fingerprint(a)]]
  /\ UNCHANGED <<now, salt, reports, confirmations, queue, seen>>

\* Mutant: the comparison is off by one.
WithinLimit_OneMore(f) == Cardinality(Recent(f)) <= RateLimit

\* The limit compares with >=, so the RateLimit-th report still goes through.
WithinLimit(f) == Cardinality(Recent(f)) < RateLimit

\* Create's first statement: SELECT count(*); too many end with a 429.
CountRecent(w) ==
  /\ request[w].pc = "count"
  /\ request' = [request EXCEPT ![w] =
       IF WithinLimit(@.by) THEN [pc |-> "insert", by |-> @.by] ELSE Idle]
  /\ UNCHANGED <<now, salt, reports, confirmations, queue, seen>>

\* Mutants: a status the table does not allow; a row published without review.
NewRow_UnknownStatus(f) == [by |-> f, at |-> now, status |-> "open"]
NewRow_Published(f) == [by |-> f, at |-> now, status |-> "approved"]

\* The row as it is stored: created now, and pending by the column's default.
NewRow(f) == [by |-> f, at |-> now, status |-> "pending"]

\* Create's second statement: the INSERT, and the 201.  The row is visible from
\* the instant it bears, as if the statement took no time.
InsertReport(w) ==
  /\ request[w].pc = "insert"
  /\ \E r \in Ids \ Stored :
       reports' = [s \in Stored \cup {r} |->
                     IF s = r THEN NewRow(request[w].by) ELSE reports[s]]
  /\ request' = [request EXCEPT ![w] = Idle]
  /\ UNCHANGED <<now, salt, confirmations, queue, seen>>

-----------------------------------------------------------------------------
(* POST /api/reports/{id}/confirm                                          *)

ConfirmReport(w, a, r) ==
  /\ request[w] = Idle
  /\ request' = [request EXCEPT ![w] = [pc |-> "exists", by |-> Fingerprint(a), id |-> r]]
  /\ UNCHANGED <<now, salt, reports, confirmations, queue, seen>>

\* Confirm's first statement: any stored report will do, whatever its status
\* and whoever sent it; otherwise a 404.
CheckExists(w) ==
  /\ request[w].pc = "exists"
  /\ request' = [request EXCEPT ![w] =
       IF @.id \in Stored THEN [pc |-> "confirm", by |-> @.by, id |-> @.id] ELSE Idle]
  /\ UNCHANGED <<now, salt, reports, confirmations, queue, seen>>

\* Confirm's second statement: ON CONFLICT DO NOTHING on the primary key
\* (report_id, submitter_hash), so a second row of the same pair is no row.
InsertConfirmation(w) ==
  /\ request[w].pc = "confirm"
  /\ confirmations' = confirmations \cup {[report |-> request[w].id, by |-> request[w].by]}
  /\ request' = [request EXCEPT ![w] = Idle]
  /\ UNCHANGED <<now, salt, reports, queue, seen>>

-----------------------------------------------------------------------------
(* The moderation endpoints                                                *)

\* Mutant: the empty header matches the empty configuration.
Authorised_EmptyMatches(m) == Presented[m] = ModerationToken

\* moderationOnly: no token configured means no moderation at all; an empty
\* Authorization header must not match an empty configuration.
Authorised(m) == ModerationToken # NoToken /\ Presented[m] = ModerationToken

\* Mutant: the ORDER BY is lost, any QueueLimit reports will do.
IsQueue_Unordered(page, status) ==
  LET matching == {r \in Stored : reports[r].status = status} IN
  /\ page \subseteq matching
  /\ Cardinality(page) <= QueueLimit
  /\ page # matching => Cardinality(page) = QueueLimit

\* ListByStatus: ORDER BY created_at LIMIT QueueLimit (ties in any order).
IsQueue(page, status) ==
  LET matching == {r \in Stored : reports[r].status = status} IN
  /\ page \subseteq matching
  /\ Cardinality(page) <= QueueLimit
  /\ page # matching => Cardinality(page) = QueueLimit
  /\ \A r \in page, s \in matching \ page : reports[r].at <= reports[s].at

ListQueue(m, status) ==
  /\ Authorised(m)
  /\ \E page \in SUBSET Stored :
       /\ IsQueue(page, status)
       /\ queue' = [queue EXCEPT ![m] = page]
       /\ seen' = seen \cup page
  /\ UNCHANGED <<now, salt, reports, confirmations, request>>

\* UPDATE ... WHERE id = $1: the status the row has by then is not looked at.
Moderate(m, r, decision) ==
  /\ Authorised(m)
  /\ r \in queue[m] /\ r \in Stored
  /\ reports' = [reports EXCEPT ![r].status = decision]
  /\ UNCHANGED <<now, salt, confirmations, request, queue, seen>>

-----------------------------------------------------------------------------
(* The surroundings                                                        *)

Tick ==
  /\ now < MaxNow
  /\ now' = now + 1
  /\ UNCHANGED <<salt, reports, confirmations, request, queue, seen>>

\* The 30 s timeout, or a client that hangs up: the context ends between two
\* statements and the handler returns.
Abandon(w) ==
  /\ request[w] # Idle
  /\ request' = [request EXCEPT ![w] = Idle]
  /\ UNCHANGED <<now, salt, reports, confirmations, queue, seen>>

\* Mutant: the configured salt is ignored.
NextSalt_AlwaysRandom == salt + 1

\* reportSalt runs once per process: the configured salt, or a random one.
NextSalt == IF SaltConfigured THEN salt ELSE salt + 1

\* The API process is replaced.  Open pages in browsers stay as they are.
Restart ==
  /\ NextSalt <= MaxSalts
  /\ salt' = NextSalt
  /\ request' = [w \in Workers |-> Idle]
  /\ UNCHANGED <<now, reports, confirmations, queue, seen>>

Serve(w) ==
  \/ \E a \in Addresses : CreateReport(w, a)
  \/ CountRecent(w)
  \/ InsertReport(w)
  \/ \E a \in Addresses, r \in Ids : ConfirmReport(w, a, r)
  \/ CheckExists(w)
  \/ InsertConfirmation(w)
  \/ Abandon(w)

Review(m) ==
  \/ \E status \in Statuses : ListQueue(m, status)
  \/ \E r \in Ids, decision \in {"approved", "rejected"} : Moderate(m, r, decision)

Next ==
  \/ \E w \in Workers : Serve(w)
  \/ \E m \in Moderators : Review(m)
  \/ Tick
  \/ Restart

Spec == Init /\ [][Next]_vars

-----------------------------------------------------------------------------
(* Properties                                                              *)

TypeOK ==
  /\ now \in 0..MaxNow
  /\ salt \in 0..MaxSalts
  /\ Stored \subseteq Ids
  /\ reports \in [Stored -> Rows]
  /\ confirmations \subseteq [report : Ids, by : Fingerprints]
  /\ request \in [Workers -> Requests]
  /\ queue \in [Moderators -> SUBSET Ids]
  /\ seen \subseteq Ids

(* The limit that does hold.  The count and the insert are two statements, *)
(* so requests in flight together can all pass the same count; but not     *)
(* more of them than the server runs at once: a submitter's reports in the *)
(* window plus its requests past the check never exceed the limit by more  *)
(* than Workers - 1.                                                       *)
OvershootBounded ==
  \A f \in Fingerprints :
    Cardinality(Recent(f)) + Cardinality(Passed(f)) <= RateLimit + Cardinality(Workers) - 1

(* What the map shows has been looked at by somebody with the token.       *)
PublicWasReviewed ==
  \A r \in Stored : reports[r].status = "approved" => r \in seen

(* Without a configured token nobody moderates and nothing is ever public: *)
(* an empty Authorization header does not match the empty configuration.   *)
UnmoderatedStaysHidden ==
  ModerationToken = NoToken => \A r \in Stored : reports[r].status = "pending"

(* The queue is served oldest first: nobody's report is passed over.  When *)
(* a report has been shown to a moderator, every report created before it  *)
(* has been shown too, although each page is cut off at QueueLimit.        *)
OldestReviewedFirst ==
  \A r, s \in Stored : s \in seen /\ reports[r].at < reports[s].at => r \in seen

(* Why both hold: no row is younger than the clock, a page only holds what *)
(* has been shown, and a report is not decided before it has been shown.   *)
ReviewInv ==
  /\ \A r \in Stored : reports[r].at <= now
  /\ \A r \in Stored : reports[r].status # "pending" => r \in seen
  /\ \A m \in Moderators : queue[m] \subseteq seen
  /\ seen \subseteq Stored

(* A confirmation count is a count of networks: with a configured salt one *)
(* network confirms a report at most once, across restarts too.            *)
OneConfirmationEach ==
  SaltConfigured =>
    \A c, d \in confirmations :
      c.report = d.report /\ c.by.network = d.by.network => c = d

(* Why it holds: with a configured salt there is only ever one salt.       *)
OneSalt ==
  SaltConfigured =>
    /\ salt = 0
    /\ \A w \in Workers : request[w] # Idle => request[w].by.salt = 0
    /\ \A c \in confirmations : c.by.salt = 0

(* A confirmation belongs to a stored report (the foreign key never fails  *)
(* a request that passed the check).                                       *)
ConfirmationsOfReports ==
  /\ \A c \in confirmations : c.report \in Stored
  /\ \A w \in Workers : request[w].pc = "confirm" => request[w].id \in Stored

-----------------------------------------------------------------------------
(* What the documentation says and the code does not do                    *)

(* DEPLOY.md: at most RateLimit reports per sender and day.                *)
LimitPerSender ==
  \A f \in Fingerprints : Cardinality(Recent(f)) <= RateLimit
=============================================================================
