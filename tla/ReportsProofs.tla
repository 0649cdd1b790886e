---------------------------- MODULE ReportsProofs ----------------------------
(* Theorems about Reports, for every number of submitters, requests,       *)
(* reports and moderators and every limit.                                 *)
EXTENDS Reports, FiniteSetTheorems, TLAPS

USE DEF Stored, Idle

-----------------------------------------------------------------------------
(* Types                                                                   *)

\* The process's salt is in range, so every fingerprint it computes is.
LEMMA FingerprintType ==
  ASSUME TypeOK, NEW a \in Addresses
  PROVE  Fingerprint(a) \in Fingerprints
BY DEF TypeOK, Fingerprint, Fingerprints

\* A request past its first statement carries a fingerprint, and a
\* confirmation also the report's id.
LEMMA RequestType ==
  ASSUME TypeOK, NEW w \in Workers
  PROVE  /\ request[w] \in Requests
         /\ request[w] # Idle => request[w].by \in Fingerprints
         /\ request[w].pc \in {"exists", "confirm"} => request[w].id \in Ids
         /\ request[w].pc = "insert" => request[w] # Idle
BY DEF TypeOK, Requests

\* Every reachable state is well typed.
THEOREM TypeCorrect == Spec => []TypeOK
<1>1. Init => TypeOK
  BY NumbersAssumption DEF Init, TypeOK, Requests, Rows
<1>2. TypeOK /\ [Next]_vars => TypeOK'
  <2> SUFFICES ASSUME TypeOK, [Next]_vars
               PROVE  TypeOK'
    OBVIOUS
  <2> USE DEF TypeOK
  <2>1. ASSUME NEW w \in Workers, NEW a \in Addresses, CreateReport(w, a)
        PROVE  TypeOK'
    BY <2>1, FingerprintType DEF CreateReport, Requests
  <2>2. ASSUME NEW w \in Workers, CountRecent(w)
        PROVE  TypeOK'
    BY <2>2, RequestType DEF CountRecent, Requests
  <2>3. ASSUME NEW w \in Workers, InsertReport(w)
        PROVE  TypeOK'
    <3>1. PICK r \in Ids \ Stored :
            reports' = [s \in Stored \cup {r} |->
                          IF s = r THEN NewRow(request[w].by) ELSE reports[s]]
      BY <2>3 DEF InsertReport
    <3>2. NewRow(request[w].by) \in Rows
      BY <2>3, RequestType DEF InsertReport, NewRow, Rows, Statuses
    <3> QED
      BY <2>3, <3>1, <3>2 DEF InsertReport, Requests
  <2>4. ASSUME NEW w \in Workers, NEW a \in Addresses, NEW r \in Ids, ConfirmReport(w, a, r)
        PROVE  TypeOK'
    BY <2>4, FingerprintType DEF ConfirmReport, Requests
  <2>5. ASSUME NEW w \in Workers, CheckExists(w)
        PROVE  TypeOK'
    BY <2>5, RequestType DEF CheckExists, Requests
  <2>6. ASSUME NEW w \in Workers, InsertConfirmation(w)
        PROVE  TypeOK'
    BY <2>6, RequestType DEF InsertConfirmation, Requests
  <2>7. ASSUME NEW w \in Workers, Abandon(w)
        PROVE  TypeOK'
    BY <2>7 DEF Abandon, Requests
  <2>8. ASSUME NEW m \in Moderators, NEW status \in Statuses, ListQueue(m, status)
        PROVE  TypeOK'
    BY <2>8 DEF ListQueue
  <2>9. ASSUME NEW m \in Moderators, NEW r \in Ids,
               NEW decision \in {"approved", "rejected"}, Moderate(m, r, decision)
        PROVE  TypeOK'
    BY <2>9 DEF Moderate, Rows, Statuses
  <2>10. ASSUME Tick
         PROVE  TypeOK'
    BY <2>10, NumbersAssumption DEF Tick
  <2>11. ASSUME Restart
         PROVE  TypeOK'
    BY <2>11, NumbersAssumption, SaltAssumption DEF Restart, NextSalt, Requests
  <2>12. ASSUME UNCHANGED vars
         PROVE  TypeOK'
    BY <2>12 DEF vars
  <2> QED
    BY <2>1, <2>2, <2>3, <2>4, <2>5, <2>6, <2>7, <2>8, <2>9, <2>10, <2>11, <2>12
    DEF Next, Serve, Review
<1> QED
  BY <1>1, <1>2, PTL DEF Spec

-----------------------------------------------------------------------------
(* Moderation                                                              *)

\* A page of the queue keeps the order: what it shows first was either
\* shown before or is older than what it leaves out.
LEMMA PageInOrder ==
  ASSUME TypeOK, ReviewInv, OldestReviewedFirst,
         NEW status \in Statuses, NEW page \in SUBSET Stored, IsQueue(page, status),
         NEW r \in Stored, NEW s \in Stored,
         s \in seen \cup page, reports[r].at < reports[s].at
  PROVE  r \in seen \cup page
<1>1. CASE s \in seen
  BY <1>1 DEF OldestReviewedFirst
<1>2. CASE s \in page /\ reports[r].status = status
  BY <1>2 DEF IsQueue, TypeOK, Rows
<1>3. CASE s \in page /\ reports[r].status # status
  <2>1. CASE status = "pending"
    BY <1>3, <2>1 DEF ReviewInv
  <2>2. CASE status # "pending"
    <3>1. s \in seen
      BY <1>3, <2>2 DEF IsQueue, ReviewInv
    <3> QED
      BY <3>1 DEF OldestReviewedFirst
  <2> QED
    BY <2>1, <2>2
<1> QED
  BY <1>1, <1>2, <1>3

\* What moderators have been shown, and in which order: the two parts
\* support each other.
LEMMA ReviewStep ==
  ASSUME TypeOK, ReviewInv, OldestReviewedFirst, [Next]_vars
  PROVE  ReviewInv' /\ OldestReviewedFirst'
<1> USE DEF ReviewInv, OldestReviewedFirst
<1>1. ASSUME NEW w \in Workers, InsertReport(w)
      PROVE  ReviewInv' /\ OldestReviewedFirst'
  <2>1. PICK r \in Ids \ Stored :
          reports' = [s \in Stored \cup {r} |->
                        IF s = r THEN NewRow(request[w].by) ELSE reports[s]]
    BY <1>1 DEF InsertReport
  <2>2. UNCHANGED <<now, queue, seen>>
    BY <1>1 DEF InsertReport
  <2>3. ReviewInv'
    BY <2>1, <2>2 DEF TypeOK, NewRow, Rows
  <2>4. OldestReviewedFirst'
    BY <2>1, <2>2 DEF TypeOK, NewRow, Rows
  <2> QED
    BY <2>3, <2>4
<1>2. ASSUME NEW m \in Moderators, NEW status \in Statuses, ListQueue(m, status)
      PROVE  ReviewInv' /\ OldestReviewedFirst'
  <2>1. PICK page \in SUBSET Stored :
          /\ IsQueue(page, status)
          /\ queue' = [queue EXCEPT ![m] = page]
          /\ seen' = seen \cup page
    BY <1>2 DEF ListQueue
  <2>2. UNCHANGED <<now, reports>>
    BY <1>2 DEF ListQueue
  <2>3. ReviewInv'
    BY <2>1, <2>2 DEF TypeOK
  <2>4. OldestReviewedFirst'
    BY <2>1, <2>2, PageInOrder
  <2> QED
    BY <2>3, <2>4
<1>3. ASSUME NEW m \in Moderators, NEW r \in Ids,
             NEW decision \in {"approved", "rejected"}, Moderate(m, r, decision)
      PROVE  ReviewInv' /\ OldestReviewedFirst'
  <2>1. /\ reports' = [reports EXCEPT ![r].status = decision]
        /\ r \in seen
        /\ UNCHANGED <<now, queue, seen>>
    BY <1>3 DEF Moderate
  <2>2. /\ DOMAIN reports' = Stored
        /\ \A s \in Stored : reports'[s].at = reports[s].at
        /\ \A s \in Stored \ {r} : reports'[s].status = reports[s].status
    BY <2>1 DEF TypeOK, Rows
  <2> QED
    BY <2>1, <2>2
<1>4. ASSUME Tick
      PROVE  ReviewInv' /\ OldestReviewedFirst'
  BY <1>4 DEF Tick, TypeOK, Rows
<1>5. ASSUME UNCHANGED <<now, reports, queue, seen>>
      PROVE  ReviewInv' /\ OldestReviewedFirst'
  BY <1>5
<1> QED
  BY <1>1, <1>2, <1>3, <1>4, <1>5
  DEF Next, Serve, Review, CreateReport, CountRecent, ConfirmReport, CheckExists,
      InsertConfirmation, Abandon, Restart, vars

\* Every report is shown to a moderator before any younger one is: none is
\* passed over by the cut-off of the queue.
THEOREM OldestFirst == Spec => [](ReviewInv /\ OldestReviewedFirst)
<1>1. Init => ReviewInv /\ OldestReviewedFirst
  BY DEF Init, ReviewInv, OldestReviewedFirst
<1> QED
  BY <1>1, ReviewStep, TypeCorrect, PTL DEF Spec

\* What is public was shown to somebody with the token first.
THEOREM PublicOnlyAfterReview == Spec => []PublicWasReviewed
<1>1. ReviewInv => PublicWasReviewed
  BY DEF ReviewInv, PublicWasReviewed
<1> QED
  BY <1>1, OldestFirst, PTL

\* Without a configured token nothing is ever public.
THEOREM NothingPublicUnmoderated == Spec => []UnmoderatedStaysHidden
<1> USE DEF UnmoderatedStaysHidden
<1>1. Init => UnmoderatedStaysHidden
  BY DEF Init
<1>2. UnmoderatedStaysHidden /\ [Next]_vars => UnmoderatedStaysHidden'
  <2> SUFFICES ASSUME UnmoderatedStaysHidden, [Next]_vars, ModerationToken = NoToken
               PROVE  \A r \in DOMAIN reports' : reports'[r].status = "pending"
    OBVIOUS
  <2>1. ASSUME NEW w \in Workers, InsertReport(w)
        PROVE  \A r \in DOMAIN reports' : reports'[r].status = "pending"
    BY <2>1 DEF InsertReport, NewRow
  <2>2. ASSUME UNCHANGED reports
        PROVE  \A r \in DOMAIN reports' : reports'[r].status = "pending"
    BY <2>2
  <2> QED
    BY <2>1, <2>2
    DEF Next, Serve, Review, CreateReport, CountRecent, ConfirmReport, CheckExists,
        InsertConfirmation, Abandon, ListQueue, Moderate, Authorised, Tick, Restart, vars
<1> QED
  BY <1>1, <1>2, PTL DEF Spec

-----------------------------------------------------------------------------
(* Confirmations                                                           *)

\* Reports are never deleted, so what Confirm's first statement found is
\* still there when its second one inserts.
THEOREM ConfirmationsRefer == Spec => []ConfirmationsOfReports
<1> USE DEF ConfirmationsOfReports
<1>1. Init => ConfirmationsOfReports
  BY DEF Init
<1>2. TypeOK /\ ConfirmationsOfReports /\ [Next]_vars => ConfirmationsOfReports'
  <2> SUFFICES ASSUME TypeOK, ConfirmationsOfReports, [Next]_vars
               PROVE  ConfirmationsOfReports'
    OBVIOUS
  <2> USE DEF TypeOK
  <2>1. ASSUME NEW w \in Workers, Serve(w)
        PROVE  ConfirmationsOfReports'
    <3>1. ASSUME InsertReport(w)
          PROVE  ConfirmationsOfReports'
      BY <3>1 DEF InsertReport
    <3>2. ASSUME CheckExists(w)
          PROVE  ConfirmationsOfReports'
      BY <3>2 DEF CheckExists
    <3>3. ASSUME InsertConfirmation(w)
          PROVE  ConfirmationsOfReports'
      BY <3>3 DEF InsertConfirmation
    <3>4. ASSUME CountRecent(w)
          PROVE  ConfirmationsOfReports'
      BY <3>4 DEF CountRecent
    <3>5. ASSUME Abandon(w) \/ \E a \in Addresses : CreateReport(w, a)
          PROVE  ConfirmationsOfReports'
      BY <3>5 DEF Abandon, CreateReport
    <3>6. ASSUME \E a \in Addresses, r \in Ids : ConfirmReport(w, a, r)
          PROVE  ConfirmationsOfReports'
      BY <3>6 DEF ConfirmReport
    <3> QED
      BY <2>1, <3>1, <3>2, <3>3, <3>4, <3>5, <3>6 DEF Serve
  <2>2. ASSUME NEW m \in Moderators, Review(m)
        PROVE  ConfirmationsOfReports'
    BY <2>2 DEF Review, ListQueue, Moderate
  <2>3. ASSUME Tick \/ Restart \/ UNCHANGED vars
        PROVE  ConfirmationsOfReports'
    BY <2>3 DEF Tick, Restart, vars
  <2> QED
    BY <2>1, <2>2, <2>3 DEF Next
<1> QED
  BY <1>1, <1>2, TypeCorrect, PTL DEF Spec

\* With REPORT_SALT set, a network confirms a report at most once, however
\* often the API is restarted.
THEOREM ConfirmedOnce == Spec => [](OneSalt /\ OneConfirmationEach)
<1>1. TypeOK /\ OneSalt => OneConfirmationEach
  <2> SUFFICES ASSUME TypeOK, OneSalt, SaltConfigured,
                      NEW c \in confirmations, NEW d \in confirmations,
                      c.report = d.report, c.by.network = d.by.network
               PROVE  c = d
    BY DEF OneConfirmationEach
  <2>1. c.by = d.by
    BY DEF OneSalt, TypeOK, Fingerprints
  <2> QED
    BY <2>1 DEF TypeOK
<1>2. Init => OneSalt
  BY DEF Init, OneSalt
<1>3. TypeOK /\ OneSalt /\ [Next]_vars => OneSalt'
  <2> SUFFICES ASSUME TypeOK, OneSalt, [Next]_vars, SaltConfigured
               PROVE  OneSalt'
    BY DEF OneSalt
  <2> USE DEF OneSalt, TypeOK
  <2>1. ASSUME NEW w \in Workers, Serve(w)
        PROVE  OneSalt'
    BY <2>1 DEF Serve, CreateReport, CountRecent, InsertReport, ConfirmReport,
                CheckExists, InsertConfirmation, Abandon, Fingerprint
  <2>2. ASSUME NEW m \in Moderators, Review(m)
        PROVE  OneSalt'
    BY <2>2 DEF Review, ListQueue, Moderate
  <2>3. ASSUME Tick \/ Restart \/ UNCHANGED vars
        PROVE  OneSalt'
    BY <2>3 DEF Tick, Restart, NextSalt, vars
  <2> QED
    BY <2>1, <2>2, <2>3 DEF Next
<1> QED
  BY <1>1, <1>2, <1>3, TypeCorrect, PTL DEF Spec

-----------------------------------------------------------------------------
(* The rate limit                                                          *)

\* The sets the limit is about are finite, so they can be counted.
LEMMA Countable ==
  ASSUME TypeOK, NEW f
  PROVE  /\ IsFiniteSet(Recent(f)) /\ Cardinality(Recent(f)) \in Nat
         /\ IsFiniteSet(Passed(f)) /\ Cardinality(Passed(f)) \in Nat
         /\ Cardinality(Passed(f)) <= Cardinality(Workers)
         /\ Cardinality(Workers) \in Nat
<1>1. Recent(f) \in SUBSET Ids /\ Passed(f) \in SUBSET Workers
  BY DEF Recent, Passed, TypeOK
<1> QED
  BY <1>1, WorkersAssumption, IdsAssumption, FS_Subset, FS_CardinalityType

\* A step after which neither set holds anything new keeps the bound.
LEMMA NothingNew ==
  ASSUME TypeOK, TypeOK', OvershootBounded,
         \A f \in Fingerprints : Recent(f)' \subseteq Recent(f) /\ Passed(f)' \subseteq Passed(f)
  PROVE  OvershootBounded'
<1> SUFFICES ASSUME NEW f \in Fingerprints
             PROVE  Cardinality(Recent(f)') + Cardinality(Passed(f)')
                      <= RateLimit + Cardinality(Workers) - 1
  BY DEF OvershootBounded, Fingerprints
<1>1. Cardinality(Recent(f)') <= Cardinality(Recent(f))
  BY Countable, FS_Subset
<1>2. Cardinality(Passed(f)') <= Cardinality(Passed(f))
  BY Countable, FS_Subset
<1>3. Cardinality(Recent(f)') \in Nat /\ Cardinality(Passed(f)') \in Nat
  BY <1>1, <1>2, Countable, FS_Subset, FS_CardinalityType
<1> QED
  BY <1>1, <1>2, <1>3, Countable, NumbersAssumption DEF OvershootBounded

\* A request that passes the check found room for one more report, and there
\* are no more requests past the check than there are workers.
LEMMA CheckKeepsBound ==
  ASSUME TypeOK, TypeOK', OvershootBounded, NEW w \in Workers, CountRecent(w),
         WithinLimit(request[w].by)
  PROVE  OvershootBounded'
<1> SUFFICES ASSUME NEW f \in Fingerprints
             PROVE  Cardinality(Recent(f)') + Cardinality(Passed(f)')
                      <= RateLimit + Cardinality(Workers) - 1
  BY DEF OvershootBounded, Fingerprints
<1>1. Recent(f)' = Recent(f)
  BY DEF CountRecent, Recent
<1>2. request[w].by \in Fingerprints
  BY RequestType DEF CountRecent
<1>3. CASE f = request[w].by
  <2>1. Cardinality(Recent(f)) < RateLimit
    BY <1>3 DEF WithinLimit
  <2>2. Cardinality(Passed(f)') <= Cardinality(Workers) /\ Cardinality(Passed(f)') \in Nat
    <3>1. Passed(f)' \in SUBSET Workers
      BY DEF Passed
    <3> QED
      BY <3>1, WorkersAssumption, FS_Subset, FS_CardinalityType
  <2> QED
    BY <1>1, <2>1, <2>2, Countable, NumbersAssumption
<1>4. CASE f # request[w].by
  <2>1. Passed(f)' = Passed(f)
    BY <1>4 DEF CountRecent, Passed, TypeOK
  <2> QED
    BY <1>1, <2>1 DEF OvershootBounded
<1> QED
  BY <1>3, <1>4

\* The insert moves its request from the one set to the other.
LEMMA InsertKeepsBound ==
  ASSUME TypeOK, TypeOK', OvershootBounded, NEW w \in Workers, InsertReport(w)
  PROVE  OvershootBounded'
<1> SUFFICES ASSUME NEW f \in Fingerprints
             PROVE  Cardinality(Recent(f)') + Cardinality(Passed(f)')
                      <= RateLimit + Cardinality(Workers) - 1
  BY DEF OvershootBounded, Fingerprints
<1>1. PICK r \in Ids \ Stored :
        reports' = [s \in Stored \cup {r} |->
                      IF s = r THEN NewRow(request[w].by) ELSE reports[s]]
  BY DEF InsertReport
<1>2. request' = [request EXCEPT ![w] = Idle] /\ now' = now
  BY DEF InsertReport
<1>3. r \notin Recent(f)
  BY DEF Recent
<1>4. CASE f = request[w].by
  <2>1. Recent(f)' \subseteq Recent(f) \cup {r}
    BY <1>1, <1>2 DEF Recent
  <2>2. Passed(f)' = Passed(f) \ {w} /\ w \in Passed(f)
    BY <1>2, <1>4 DEF Passed, TypeOK, InsertReport
  <2>3. Cardinality(Recent(f)') <= Cardinality(Recent(f)) + 1 /\ Cardinality(Recent(f)') \in Nat
    <3>1. /\ IsFiniteSet(Recent(f) \cup {r})
          /\ Cardinality(Recent(f) \cup {r}) = Cardinality(Recent(f)) + 1
      BY <1>3, Countable, FS_AddElement
    <3>2. /\ IsFiniteSet(Recent(f)')
          /\ Cardinality(Recent(f)') <= Cardinality(Recent(f) \cup {r})
      BY <2>1, <3>1, FS_Subset
    <3> QED
      BY <3>1, <3>2, FS_CardinalityType
  <2>4. Cardinality(Passed(f)') = Cardinality(Passed(f)) - 1
    BY <2>2, Countable, FS_RemoveElement
  <2> QED
    BY <2>3, <2>4, Countable, NumbersAssumption DEF OvershootBounded
<1>5. CASE f # request[w].by
  <2>1. Recent(f)' = Recent(f)
    BY <1>1, <1>2, <1>5 DEF Recent, NewRow
  <2>2. Passed(f)' = Passed(f)
    BY <1>2, <1>5 DEF Passed, TypeOK, InsertReport
  <2> QED
    BY <2>1, <2>2 DEF OvershootBounded
<1> QED
  BY <1>4, <1>5

\* The bound the two unprotected statements of Create do keep: a submitter
\* exceeds the limit by less than the number of requests served at once.
THEOREM RateLimitOvershoot == Spec => []OvershootBounded
<1>1. Init => OvershootBounded
  <2> SUFFICES ASSUME Init, NEW f \in Fingerprints
               PROVE  Cardinality(Recent(f)) + Cardinality(Passed(f))
                        <= RateLimit + Cardinality(Workers) - 1
    BY DEF OvershootBounded
  <2>1. Recent(f) = {} /\ Passed(f) = {}
    BY DEF Init, Recent, Passed
  <2>2. Cardinality(Workers) \in Nat /\ Cardinality(Workers) # 0
    BY WorkersAssumption, FS_CardinalityType, FS_EmptySet
  <2> QED
    BY <2>1, <2>2, FS_EmptySet, NumbersAssumption
<1>2. TypeOK /\ TypeOK' /\ OvershootBounded /\ [Next]_vars => OvershootBounded'
  <2> SUFFICES ASSUME TypeOK, TypeOK', OvershootBounded, [Next]_vars
               PROVE  OvershootBounded'
    OBVIOUS
  <2>1. ASSUME NEW w \in Workers, CountRecent(w)
        PROVE  OvershootBounded'
    <3>1. CASE WithinLimit(request[w].by)
      BY <2>1, <3>1, CheckKeepsBound
    <3>2. CASE ~ WithinLimit(request[w].by)
      BY <2>1, <3>2, NothingNew DEF CountRecent, Recent, Passed, TypeOK
    <3> QED
      BY <3>1, <3>2
  <2>2. ASSUME NEW w \in Workers, InsertReport(w)
        PROVE  OvershootBounded'
    BY <2>2, InsertKeepsBound
  <2>3. ASSUME NEW w \in Workers,
               \/ \E a \in Addresses : CreateReport(w, a)
               \/ \E a \in Addresses, r \in Ids : ConfirmReport(w, a, r)
               \/ CheckExists(w) \/ InsertConfirmation(w) \/ Abandon(w)
        PROVE  OvershootBounded'
    <3>1. UNCHANGED <<now, reports>>
      BY <2>3 DEF CreateReport, ConfirmReport, CheckExists, InsertConfirmation, Abandon
    <3>2. \E q : request' = [request EXCEPT ![w] = q] /\ q.pc # "insert"
      BY <2>3 DEF CreateReport, ConfirmReport, CheckExists, InsertConfirmation, Abandon
    <3> QED
      BY <3>1, <3>2, NothingNew DEF Recent, Passed, TypeOK
  <2>4. ASSUME NEW m \in Moderators, Review(m)
        PROVE  OvershootBounded'
    <3>1. UNCHANGED <<now, request>> /\ DOMAIN reports' = DOMAIN reports
      BY <2>4 DEF Review, ListQueue, Moderate, TypeOK
    <3>2. \A r \in Stored : reports'[r].by = reports[r].by /\ reports'[r].at = reports[r].at
      BY <2>4 DEF Review, ListQueue, Moderate, TypeOK, Rows
    <3> QED
      BY <3>1, <3>2, NothingNew DEF Recent, Passed
  <2>5. ASSUME Tick
        PROVE  OvershootBounded'
    BY <2>5, NothingNew, NumbersAssumption DEF Tick, Recent, Passed, TypeOK, Rows
  <2>6. ASSUME Restart
        PROVE  OvershootBounded'
    BY <2>6, NothingNew DEF Restart, Recent, Passed
  <2>7. ASSUME UNCHANGED vars
        PROVE  OvershootBounded'
    BY <2>7, NothingNew DEF vars, Recent, Passed
  <2> QED
    BY <2>1, <2>2, <2>3, <2>4, <2>5, <2>6, <2>7 DEF Next, Serve
<1> QED
  BY <1>1, <1>2, TypeCorrect, PTL DEF Spec

=============================================================================
