--------------------------- MODULE ProAccessProofs ----------------------------
(***************************************************************************)
(* Theorems about ProAccess for any plans, grace window, sweepers, admins, *)
(* end dates and bounds.  Then about the migration that gave the rows      *)
(* their grace, and carried over moderators and sessions: an instance of   *)
(* SchemaMigration, which shares the days and the grace window.  Last      *)
(* about what moderators are moderators of: an instance of Enrolment.      *)
(***************************************************************************)
EXTENDS ProAccess, SumTheorems, SequenceTheorems, TLAPS

CONSTANTS Users, Batches, None                                              \* of both
CONSTANTS Departments, Periods, SessionRows, MaxRuns                        \* of SchemaMigration
CONSTANTS                                                                   \* of Enrolment
    Profiles, Applications, Codes, Rolls, Workers, KindOf, DepartmentOf, Rows, Accounts,
    University, MaxMoves, CodesPerHour
VARIABLES                                                                   \* of SchemaMigration
    applied, run, runs, legacy, migrated, subscription, pro, cr, moderators, revoked, unnoticed,
    imported, planned, before, session, student, links
VARIABLES                                                                   \* of Enrolment
    person, profile, application, worker, overwritten, doubled, strays, enrollment, helpers, drawn, raced

Upgrade == INSTANCE SchemaMigration
Moving == INSTANCE Enrolment WITH user <- person, moderators <- helpers

-----------------------------------------------------------------------------
(* The operators *)

LEMMA RowsOfSeq ==
  ASSUME NEW rs \in Seq(Row)
  PROVE  /\ Len(rs) \in Nat
         /\ DOMAIN rs = 1..Len(rs)
         /\ rs = <<>> <=> Len(rs) = 0
         /\ IsFiniteSet(DOMAIN rs)
         /\ \A i \in DOMAIN rs :
                /\ rs[i] \in Row
                /\ rs[i].days \in Nat
                /\ rs[i].end \in Nat
                /\ rs[i].grace \in Nat
                /\ rs[i].refunded \in BOOLEAN
<1>1. Len(rs) \in Nat /\ DOMAIN rs = 1..Len(rs) /\ (rs = <<>> <=> Len(rs) = 0)
  BY LenProperties, EmptySeq
<1>2. IsFiniteSet(DOMAIN rs)
  BY <1>1, FS_Interval
<1>3. ASSUME NEW i \in DOMAIN rs
      PROVE  rs[i] \in Row /\ rs[i].days \in Nat /\ rs[i].end \in Nat /\ rs[i].grace \in Nat
             /\ rs[i].refunded \in BOOLEAN
  <2>1. rs[i] \in Row
    BY <1>1, ElementOfSeq
  <2>2. Row = [days : Plans \cup {0}, end : Nat, grace : Nat, refunded : BOOLEAN]
    BY DEF Row, Dates, Lifetime
  <2>3. Plans \cup {0} \subseteq Nat
    BY PlansAreDays
  <2> QED
    BY <2>1, <2>2, <2>3
<1> QED
  BY <1>1, <1>2, <1>3

\* A refund marks its row and changes nothing else, if it has a row at all.
LEMMA MarkKeepsRows ==
  ASSUME NEW rs \in Seq(Row), NEW i \in Nat
  PROVE  /\ MarkRefunded(rs, i) \in Seq(Row)
         /\ Len(MarkRefunded(rs, i)) = Len(rs)
         /\ DOMAIN MarkRefunded(rs, i) = DOMAIN rs
         /\ \A j \in DOMAIN rs :
                /\ MarkRefunded(rs, i)[j].days = rs[j].days
                /\ MarkRefunded(rs, i)[j].end = rs[j].end
                /\ MarkRefunded(rs, i)[j].grace = rs[j].grace
                /\ rs[j].refunded => MarkRefunded(rs, i)[j].refunded
<1>1. DOMAIN rs = 1..Len(rs) /\ Len(rs) \in Nat
  BY RowsOfSeq
<1>2. CASE i \in DOMAIN rs
  <2>1. i # 0 /\ i \in 1..Len(rs)
    BY <1>1, <1>2
  <2> DEFINE row == [rs[i] EXCEPT !.refunded = TRUE]
  <2>2. rs[i] \in Row
    BY <1>2, RowsOfSeq
  <2>3. row \in Row /\ row.days = rs[i].days /\ row.end = rs[i].end /\ row.grace = rs[i].grace
        /\ row.refunded
    BY <2>2 DEF Row
  <2>4. MarkRefunded(rs, i) = [rs EXCEPT ![i] = row]
    BY <2>1 DEF MarkRefunded
  <2> HIDE DEF row
  <2>5. /\ [rs EXCEPT ![i] = row] \in Seq(Row)
        /\ Len([rs EXCEPT ![i] = row]) = Len(rs)
        /\ \A j \in 1..Len(rs) : [rs EXCEPT ![i] = row][j] = IF j = i THEN row ELSE rs[j]
    BY <2>1, <2>3, ExceptSeq
  <2> QED
    BY <1>1, <2>3, <2>4, <2>5
<1>3. CASE i \notin DOMAIN rs
  <2>1. MarkRefunded(rs, i) = rs
    <3>1. [rs EXCEPT ![i].refunded = TRUE] = [j \in DOMAIN rs |-> rs[j]]
      BY <1>3
    <3>2. rs = [j \in DOMAIN rs |-> rs[j]]
      BY LenProperties
    <3> QED
      BY <3>1, <3>2 DEF MarkRefunded
  <2> QED
    BY <2>1
<1> QED
  BY <1>2, <1>3

\* What recomputePro finds: no expiry if a lifetime row runs, else the last end.
LEMMA LastEndOfRunning ==
  ASSUME NEW rs \in Seq(Row), NEW day
  PROVE  /\ LastEnd(Running(rs, day)) \in Nat
         /\ LastEnd(Running(rs, day)) # Never =>
                \A r \in Running(rs, day) :
                    r.end # Never /\ r.end <= LastEnd(Running(rs, day))
         /\ Running(rs, day) # {} =>
                \E r \in Running(rs, day) : r.end = LastEnd(Running(rs, day))
<1> DEFINE S == {j \in DOMAIN rs : ~rs[j].refunded /\ (rs[j].end = Never \/ rs[j].end > day)}
           running == Running(rs, day)
           f == [j \in S |-> rs[j].end]
<1>1. running = {rs[i] : i \in S}
  BY DEF Running
<1>2. \A r \in running : r.end \in Nat
  BY <1>1, RowsOfSeq
<1>3. CASE running = {} \/ \E r \in running : r.end = Never
  BY <1>3 DEF LastEnd, Never
<1>4. CASE running # {} /\ \A r \in running : r.end # Never
  <2> DEFINE last == CHOOSE r \in running : \A q \in running : q.end <= r.end
  <2>1. LastEnd(running) = last.end
    BY <1>4 DEF LastEnd
  <2>2. IsFiniteSet(S)
    BY RowsOfSeq, FS_Subset, S \in SUBSET (DOMAIN rs)
  <2>3. S # {}
    BY <1>1, <1>4
  <2>4. \A j \in S : f[j] \in Nat
    BY RowsOfSeq
  <2>5. PICK m \in S : \A j \in S : f[j] <= f[m]
    <3> HIDE DEF S, f
    <3> QED
      BY <2>2, <2>3, <2>4, MaxExists
  <2>6. rs[m] \in running /\ \A q \in running : q.end <= rs[m].end
    BY <1>1, <2>5
  <2>7. last \in running /\ \A q \in running : q.end <= last.end
    <3> HIDE DEF running
    <3> QED
      BY <2>6
  <2>8. last.end \in Nat
    BY <1>2, <2>7
  <2> HIDE DEF last
  <2> QED
    BY <1>4, <2>1, <2>7, <2>8
<1> QED
  BY <1>3, <1>4

-----------------------------------------------------------------------------
(* Type correctness *)

LEMMA NotIdle ==
  TypeOK =>
       /\ \A r \in Refunders : refund[r] # NoRefund =>
            /\ refund[r].row \in Nat
            /\ refund[r].seen \in Seq(Row)
            /\ refund[r].at \in Nat
       /\ \A e \in Editors : edit[e] # NoEdit =>
            /\ edit[e].row \in Nat
            /\ edit[e].end \in Nat
            /\ edit[e].pro \in BOOLEAN
BY DEF TypeOK, Refunds, Edits, Dates

LEMMA EndsAreDates ==
  ASSUME TypeOK
  PROVE  /\ now \in Nat
         /\ proExpiry \in Nat
         /\ \A days \in Plans \cup {Lifetime} : days \in Nat /\ SubscriptionEnd(days) \in Nat
         /\ \A days \in Plans \cup {Lifetime}, end \in Nat :
                /\ NewRow(days, end) \in Row
                /\ GraceEnd(end) \in Nat
                /\ Adjusted(NewRow(days, end), end) \in Row
<1>1. now \in Nat /\ proExpiry \in Nat
  BY BoundsAreCounts DEF TypeOK, Dates
<1>2. CurrentExpiry \in Nat
  BY <1>1, RowsOfSeq DEF CurrentExpiry, TypeOK
<1>3. \A days \in Plans \cup {Lifetime} : days \in Nat
  BY PlansAreDays DEF Lifetime
<1>4. \A days \in Plans \cup {Lifetime} : SubscriptionEnd(days) \in Nat
  BY <1>1, <1>2, <1>3 DEF SubscriptionEnd, Later, Never
<1>5. \A end \in Nat : GraceEnd(end) \in Nat
  BY GraceIsDays DEF GraceEnd, Never
<1>6. \A days \in Plans \cup {Lifetime}, end \in Nat :
          NewRow(days, end) \in Row /\ Adjusted(NewRow(days, end), end) \in Row
  BY <1>5 DEF NewRow, Row, Dates, Adjusted
<1> QED
  BY <1>1, <1>3, <1>4, <1>5, <1>6

LEMMA InsertType ==
  ASSUME TypeOK, NEW row \in Row, Insert(row)
  PROVE  TypeOK'
<1>1. rows' \in Seq(Row)
  BY AppendProperties DEF Insert, TypeOK
<1>2. proExpiry' \in Dates
  BY DEF Insert, Row
<1> QED
  BY <1>1, <1>2 DEF Insert, TypeOK

LEMMA TypeStep ==
  ASSUME TypeOK, [Next]_vars
  PROVE  TypeOK'
<1>1. CASE UNCHANGED vars
  BY <1>1 DEF vars, user, TypeOK
<1>2. CASE Tick
  BY <1>2, BoundsAreCounts DEF Tick, user, TypeOK
<1>3. ASSUME NEW days \in Plans \cup {Lifetime}, GrantSubscription(days) PROVE TypeOK'
  BY <1>3, EndsAreDates, InsertType DEF GrantSubscription
<1>4. ASSUME NEW s \in Sweepers, Sweep(s) PROVE TypeOK'
  <2>1. CASE ReadLapsed(s)
    BY <2>1 DEF ReadLapsed, user, TypeOK
  <2>2. CASE ClearPro(s)
    <3>1. sweep' \in SUBSET Sweepers /\ proExpiry' \in Dates
      BY <2>2 DEF ClearPro, TypeOK, Dates, Never
    <3>2. overtaken' \in BOOLEAN
      BY <2>2 DEF ClearPro
    <3> QED
      BY <2>2, <3>1, <3>2 DEF ClearPro, TypeOK
  <2> QED
    BY <1>4, <2>1, <2>2 DEF Sweep
<1>5. ASSUME NEW r \in Refunders, CommitRefund(r) PROVE TypeOK'
  <2>1. refund[r].row \in Nat /\ refund[r].seen \in Seq(Row)
    BY <1>5, NotIdle DEF CommitRefund
  <2>2. rows' \in Seq(Row)
    BY <1>5, <2>1, MarkKeepsRows DEF CommitRefund, TypeOK
  <2>3. proExpiry' \in Dates
    BY <1>5, <2>1, LastEndOfRunning DEF CommitRefund, Dates
  <2>4. refund' \in [Refunders -> Refunds \cup {NoRefund}]
    BY <1>5 DEF CommitRefund, TypeOK
  <2>5. isPro' \in BOOLEAN /\ overtaken' \in BOOLEAN
    BY <1>5 DEF CommitRefund, TypeOK
  <2> QED
    BY <1>5, <2>2, <2>3, <2>4, <2>5 DEF CommitRefund, TypeOK
<1>6. ASSUME NEW r \in Refunders, AbandonRefund(r) PROVE TypeOK'
  BY <1>6 DEF AbandonRefund, user, TypeOK
<1>7. ASSUME NEW r \in Refunders, NEW i \in 0..Len(rows), ReadForRefund(r, i) PROVE TypeOK'
  <2>1. i \in Nat
    BY RowsOfSeq DEF TypeOK
  <2> DEFINE call == [step |-> "read", row |-> i, seen |-> MarkRefunded(rows, i), at |-> now]
  <2>2. call \in Refunds
    BY <2>1, MarkKeepsRows, EndsAreDates DEF Refunds, TypeOK
  <2>3. refund' = [refund EXCEPT ![r] = call]
    BY <1>7 DEF ReadForRefund
  <2> HIDE DEF call
  <2> QED
    BY <1>7, <2>2, <2>3 DEF ReadForRefund, user, TypeOK
<1>8. ASSUME NEW e \in Editors, CommitEdit(e) PROVE TypeOK'
  <2>1. edit[e].row \in Nat /\ edit[e].end \in Nat /\ edit[e].pro \in BOOLEAN
    BY <1>8, NotIdle DEF CommitEdit
  <2>2. rows' \in Seq(Row)
    <3>1. CASE edit[e].row \in DOMAIN rows
      <4> DEFINE row == Adjusted(rows[edit[e].row], edit[e].end)
      <4>1. rows[edit[e].row] \in Row /\ edit[e].row \in 1..Len(rows)
        BY <3>1, RowsOfSeq DEF TypeOK
      <4>2. row \in Row
        BY <2>1, <4>1 DEF Adjusted, Row, Dates
      <4>3. rows' = [rows EXCEPT ![edit[e].row] = row]
        BY <1>8 DEF CommitEdit
      <4> HIDE DEF row
      <4> QED
        BY <4>1, <4>2, <4>3, ExceptSeq DEF TypeOK
    <3>2. CASE edit[e].row \notin DOMAIN rows
      <4>1. rows' = [j \in DOMAIN rows |-> rows[j]]
        BY <1>8, <3>2 DEF CommitEdit
      <4>2. rows = [j \in DOMAIN rows |-> rows[j]]
        BY LenProperties DEF TypeOK
      <4> QED
        BY <4>1, <4>2 DEF TypeOK
    <3> QED
      BY <3>1, <3>2
  <2> QED
    BY <1>8, <2>1, <2>2 DEF CommitEdit, TypeOK, Dates
<1>9. ASSUME NEW e \in Editors, NEW end \in EndDates, ReadForEdit(e, end) PROVE TypeOK'
  <2> DEFINE call == [step |-> "read", row |-> Len(rows), end |-> end,
                      pro |-> end = Never \/ end > now]
  <2>1. Len(rows) \in Nat /\ end \in Dates
    BY RowsOfSeq, EndDatesAreDays DEF TypeOK, Dates
  <2>2. call \in Edits
    BY <2>1 DEF Edits
  <2>3. edit' = [edit EXCEPT ![e] = call]
    BY <1>9 DEF ReadForEdit
  <2> HIDE DEF call
  <2> QED
    BY <1>9, <2>2, <2>3 DEF ReadForEdit, user, TypeOK
<1>10. ASSUME NEW end \in EndDates, CreateSubscription(end) PROVE TypeOK'
  BY <1>10, EndDatesAreDays, EndsAreDates, InsertType DEF CreateSubscription
<1> QED
  BY <1>1, <1>2, <1>3, <1>4, <1>5, <1>6, <1>7, <1>8, <1>9, <1>10
     DEF Next, Daily, Refunding, Editing

LEMMA TypeInit == Init => TypeOK
<1> SUFFICES ASSUME Init PROVE TypeOK
  OBVIOUS
<1>1. now \in 1..(Horizon + 1)
  BY BoundsAreCounts DEF Init
<1>2. rows \in Seq(Row) /\ proExpiry \in Dates
  BY EmptySeq DEF Init, Dates, Never
<1> QED
  BY <1>1, <1>2 DEF Init, TypeOK

(* Every variable keeps its type: the dates recomputePro and AdminSetExpiry   *)
(* write are dates, and no step leaves a row of another shape behind.         *)
THEOREM TypeCorrect == Spec => []TypeOK
<1>1. Init => TypeOK
  BY TypeInit
<1>2. TypeOK /\ [Next]_vars => TypeOK'
  BY TypeStep
<1> QED
  BY <1>1, <1>2, PTL DEF Spec

-----------------------------------------------------------------------------
(* Purchases, sweeps and refunds: the invariant GrantInv *)

LEMMA InsertAdds ==
  ASSUME TypeOK, NEW row \in Row, Insert(row)
  PROVE  /\ rows' # <<>>
         /\ Len(rows') = Len(rows) + 1
         /\ DOMAIN rows' = 1..(Len(rows) + 1)
         /\ \A j \in DOMAIN rows : rows'[j] = rows[j]
         /\ rows'[Len(rows) + 1] = row
<1>1. rows' = Append(rows, row) /\ rows \in Seq(Row)
  BY DEF Insert, TypeOK
<1>2. DOMAIN rows = 1..Len(rows)
  BY <1>1, RowsOfSeq
<1>3. rows' \in Seq(Row)
  BY <1>1, AppendProperties
<1>4. DOMAIN rows' = 1..Len(rows')
  BY <1>3, LenProperties
<1> QED
  BY <1>1, <1>2, <1>4, AppendProperties

\* A renewal is never lost: it runs on from the newest row of a user who is
\* Pro, and a lifetime row is followed by nothing else.
LEMMA RenewalEnd ==
  ASSUME TypeOK, NEW days \in Plans \cup {Lifetime}
  PROVE  \/ /\ SubscriptionEnd(days) = Never
            /\ days = Lifetime \/ (isPro /\ CurrentExpiry = Never)
         \/ /\ SubscriptionEnd(days) # Never
            /\ days # Lifetime
            /\ SubscriptionEnd(days) >= now + days
            /\ isPro => /\ CurrentExpiry # Never
                        /\ SubscriptionEnd(days) >= CurrentExpiry + days
            /\ \/ SubscriptionEnd(days) = now + days
               \/ isPro /\ SubscriptionEnd(days) = CurrentExpiry + days
<1>1. now \in Nat /\ now # 0 /\ proExpiry \in Nat /\ days \in Nat
  BY EndsAreDates, BoundsAreCounts DEF TypeOK
<1>2. CurrentExpiry \in Nat
  BY <1>1, RowsOfSeq DEF CurrentExpiry, TypeOK
<1>3. isPro \in BOOLEAN
  BY DEF TypeOK
<1> QED
  BY <1>1, <1>2, <1>3 DEF SubscriptionEnd, Later, Never, Lifetime

LEMMA GrantStep ==
  ASSUME TypeOK, GrantInv, NEW days \in Plans \cup {Lifetime}, GrantSubscription(days)
  PROVE  GrantInv'
<1>1. PICK n \in Nat : n = Len(rows)
  BY RowsOfSeq DEF TypeOK
<1>2. PICK end \in Nat : end = SubscriptionEnd(days)
  BY EndsAreDates
<1>3. PICK row : row = NewRow(days, end)
  OBVIOUS
<1>4. /\ row \in Row /\ row.end = end /\ row.days = days /\ row.refunded = FALSE
      /\ row.grace = GraceEnd(end) /\ row.grace \in Nat
  BY <1>3, EndsAreDates DEF NewRow
<1>5. Insert(row)
  BY <1>2, <1>3 DEF GrantSubscription
<1>6. /\ isPro' = TRUE /\ proExpiry' = GraceEnd(end) /\ now' = now
      /\ overtaken' = overtaken /\ refund' = refund
  BY <1>4, <1>5 DEF Insert
<1>7. /\ rows' # <<>>
      /\ DOMAIN rows' = 1..(n + 1)
      /\ DOMAIN rows = 1..n
      /\ \A j \in 1..n : rows'[j] = rows[j]
      /\ rows'[n + 1] = row
      /\ rows = <<>> <=> n = 0
  BY <1>1, <1>4, <1>5, InsertAdds, RowsOfSeq DEF TypeOK
<1>8. /\ now \in Nat /\ days \in Nat /\ isPro \in BOOLEAN
      /\ \A j \in 1..n : rows[j].end \in Nat /\ rows[j].days \in Nat
  BY <1>7, EndsAreDates, RowsOfSeq DEF TypeOK
<1>9. GraceEnd(end) \in Nat /\ (GraceEnd(end) = Never <=> end = Never) /\ GraceEnd(end) >= end
  BY GraceIsDays DEF GraceEnd, Never
<1>10. Standing \subseteq 1..n /\ Standing' = Standing \cup {n + 1}
  BY <1>4, <1>7 DEF Standing
<1>11. n # 0 => CurrentExpiry = rows[n].end
  BY <1>1, <1>7 DEF CurrentExpiry
<1>12. GraceFollows'
  BY <1>4, <1>7 DEF GrantInv, GraceFollows
<1>13. RefundsReadPast'
  BY <1>6, <1>7 DEF GrantInv, RefundsReadPast
<1>14. rows' = <<>> => ~isPro'
  BY <1>7
<1>15. ASSUME ~overtaken' PROVE ProByRow' /\ RowsCarry' /\ Stack(Standing)'
  <2>1. RowsCarry /\ Stack(Standing)
    BY <1>6, <1>15 DEF GrantInv
  <2>2. ASSUME NEW i \in Standing, Covers(rows[i])
        PROVE  end = Never \/ (rows[i].end # Never /\ end >= rows[i].end + days)
    <3>1. i \in 1..n /\ n \in 1..n
      BY <1>10
    <3>2. isPro
      BY <2>1, <2>2 DEF RowsCarry
    <3>3. rows[n].end = Never \/ (rows[i].end # Never /\ rows[n].end >= rows[i].end)
      <4>1. CASE i = n
        BY <1>8, <3>1, <4>1
      <4>2. CASE i < n
        BY <1>7, <2>1, <2>2, <3>1, <4>2 DEF RowsCarry
      <4> QED
        BY <3>1, <4>1, <4>2
    <3>4. end = Never \/ (rows[n].end # Never /\ end >= rows[n].end + days)
      BY <1>2, <1>11, <3>1, <3>2, RenewalEnd
    <3> QED
      BY <1>8, <3>1, <3>3, <3>4
  <2>3. ProByRow'
    BY <1>4, <1>6, <1>7, <1>9, <1>10 DEF ProByRow
  <2>4. RowsCarry'
    <3>1. ASSUME NEW i \in Standing', Covers(rows[i])'
          PROVE  /\ proExpiry' # Never => rows'[i].end # Never /\ proExpiry' >= rows'[i].end
                 /\ \A j \in DOMAIN rows' : i < j =>
                        \/ rows'[j].end = Never
                        \/ rows'[i].end # Never /\ rows'[j].end >= rows'[i].end
      <4>1. CASE i = n + 1
        BY <1>1, <1>4, <1>6, <1>7, <1>9, <4>1
      <4>2. CASE i # n + 1
        <5>1. i \in Standing /\ i \in 1..n /\ rows'[i] = rows[i]
          BY <1>7, <1>10, <4>2
        <5>2. Covers(rows[i])
          BY <1>6, <3>1, <5>1 DEF Covers
        <5>3. end = Never \/ (rows[i].end # Never /\ end >= rows[i].end + days)
          BY <2>2, <5>1, <5>2
        <5>4. end = Never \/ (rows[i].end # Never /\ end >= rows[i].end)
          BY <1>8, <5>1, <5>3
        <5>5. ASSUME NEW j \in 1..n, i < j
              PROVE rows[j].end = Never \/ (rows[i].end # Never /\ rows[j].end >= rows[i].end)
          BY <1>7, <2>1, <5>1, <5>2, <5>5 DEF RowsCarry
        <5>6. proExpiry' # Never => rows[i].end # Never /\ proExpiry' >= rows[i].end
          BY <1>6, <1>8, <1>9, <5>1, <5>4
        <5>7. ASSUME NEW j \in DOMAIN rows', i < j
              PROVE \/ rows'[j].end = Never
                    \/ rows[i].end # Never /\ rows'[j].end >= rows[i].end
          <6>1. CASE j = n + 1
            BY <1>4, <1>7, <5>4, <6>1
          <6>2. CASE j # n + 1
            BY <1>7, <5>5, <5>7, <6>2
          <6> QED
            BY <6>1, <6>2
        <5> QED
          BY <5>1, <5>6, <5>7
      <4> QED
        BY <4>1, <4>2
    <3> QED
      BY <1>6, <3>1 DEF RowsCarry
  <2>5. Stack(Standing)'
    <3>1. ASSUME NEW i \in Standing
          PROVE  /\ rows[i].end = Never => end = Never
                 /\ end # Never => end >= rows[i].end + days
      <4>1. CASE Covers(rows[i])
        BY <2>2, <4>1
      <4>2. CASE ~Covers(rows[i])
        <5>1. rows[i].end # Never /\ rows[i].end <= now
          BY <1>8, <1>10, <4>2 DEF Covers
        <5>2. end # Never => end >= now + days
          BY <1>2, RenewalEnd
        <5> QED
          BY <1>8, <1>10, <5>1, <5>2
      <4> QED
        BY <4>1, <4>2
    <3>2. ASSUME NEW j \in Standing', NEW i \in Standing', i < j
          PROVE  /\ rows'[i].end = Never => rows'[j].end = Never
                 /\ rows'[j].end # Never => rows'[j].end >= rows'[i].end + rows'[j].days
      <4>1. i \in Standing /\ i \in 1..n /\ rows'[i] = rows[i]
        BY <1>7, <1>10, <3>2
      <4>2. CASE j = n + 1
        BY <1>4, <1>7, <3>1, <4>1, <4>2
      <4>3. CASE j # n + 1
        <5>1. j \in Standing /\ rows'[j] = rows[j]
          BY <1>7, <1>10, <4>3
        <5> QED
          BY <2>1, <3>2, <4>1, <5>1 DEF Stack
      <4> QED
        BY <4>2, <4>3
    <3> QED
      BY <3>2 DEF Stack
  <2> QED
    BY <2>3, <2>4, <2>5
<1>16. NoGiftedDays'
  <2> SUFFICES ASSUME Standing' = DOMAIN rows', \A i \in Standing' : rows'[i].days # Lifetime,
                      NEW i \in Standing'
               PROVE  /\ rows'[i].end # Never
                      /\ rows'[i].end <= now' + Sum([j \in Standing' |-> rows'[j].days], Standing')
    BY DEF NoGiftedDays, PaidAhead
  <2>1. Standing = 1..n /\ Standing = DOMAIN rows
    <3>1. ASSUME NEW j \in 1..n PROVE j \in Standing
      <4>1. j \in 1..(n + 1) /\ j # n + 1
        OBVIOUS
      <4> QED
        BY <1>7, <1>10, <4>1
    <3> QED
      BY <1>7, <1>10, <3>1
  <2>2. PICK S : S = Standing
    OBVIOUS
  <2>3. PICK f : f = [j \in S |-> rows[j].days]
    OBVIOUS
  <2>4. PICK g : g = [j \in Standing' |-> rows'[j].days]
    OBVIOUS
  <2>5. IsFiniteSet(S) /\ n + 1 \notin S /\ Standing' = S \cup {n + 1}
    <3>1. n + 1 \notin 1..n /\ IsFiniteSet(1..n)
      BY FS_Interval
    <3> QED
      BY <1>10, <2>1, <2>2, <3>1
  <2>6. /\ \A j \in S : f[j] = g[j] /\ f[j] \in Nat
        /\ g[n + 1] = days
    BY <1>4, <1>7, <1>8, <2>1, <2>2, <2>3, <2>4, <2>5
  <2>7. Sum(g, S) = Sum(f, S)
    BY <2>5, <2>6, SumSame
  <2>8. Sum(f, S) \in Nat
    BY <2>5, <2>6, SumNonNegative
  <2>9. Sum(g, S \cup {n + 1}) = days + Sum(f, S)
    <3>1. \A j \in S \cup {n + 1} : g[j] \in Int
      BY <1>8, <2>6
    <3> QED
      BY <2>5, <2>6, <2>7, <3>1, SumAdd
  <2>10. \A j \in S : rows[j].end # Never /\ rows[j].end <= now + Sum(f, S)
    <3>1. \A j \in S : rows[j].days # Lifetime
      BY <1>7, <2>1, <2>2, <2>5
    <3>2. PaidAhead(Standing)
      BY <2>1 DEF GrantInv, NoGiftedDays
    <3> QED
      BY <2>2, <2>3, <3>1, <3>2 DEF PaidAhead
  <2>11. end # Never /\ end <= now + days + Sum(f, S)
    <3>1. days # Lifetime
      BY <1>4, <1>7, <2>5
    <3>2. isPro => CurrentExpiry # Never /\ CurrentExpiry <= now + Sum(f, S) /\ CurrentExpiry \in Nat
      <4>1. isPro => n # 0
        BY <1>7 DEF GrantInv
      <4>2. isPro => n \in S
        BY <2>1, <2>2, <4>1
      <4> QED
        BY <1>8, <1>11, <2>1, <2>2, <2>10, <4>1, <4>2
    <3>3. /\ end # Never
          /\ end = now + days \/ (isPro /\ end = CurrentExpiry + days)
      BY <1>2, <3>1, <3>2, RenewalEnd
    <3> QED
      BY <1>8, <2>8, <3>2, <3>3
  <2>12. Sum([j \in Standing' |-> rows'[j].days], Standing') = days + Sum(f, S)
    BY <2>4, <2>5, <2>9
  <2>13. CASE i = n + 1
    <3>1. rows'[i].end = end
      BY <1>4, <1>7, <2>13
    <3> QED
      BY <1>6, <1>8, <2>8, <2>11, <2>12, <3>1
  <2>14. CASE i # n + 1
    <3>1. i \in S /\ rows'[i].end = rows[i].end /\ rows[i].end \in Nat
      BY <1>7, <1>8, <2>1, <2>2, <2>5, <2>14
    <3> QED
      BY <1>6, <1>8, <2>8, <2>10, <2>12, <3>1
  <2> QED
    BY <2>13, <2>14
<1> QED
  BY <1>12, <1>13, <1>14, <1>15, <1>16 DEF GrantInv

\* Steps that touch neither the user, his rows nor the day.
LEMMA GrantFrame ==
  ASSUME GrantInv, UNCHANGED <<now, user, rows, overtaken>>, RefundsReadPast'
  PROVE  GrantInv'
<1>1. UNCHANGED <<now, isPro, proExpiry, rows, overtaken, Standing>>
  BY DEF user, Standing
<1>2. GraceFollows' /\ (rows' = <<>> => ~isPro')
  BY <1>1 DEF GrantInv, GraceFollows
<1>3. ASSUME ~overtaken' PROVE ProByRow' /\ RowsCarry' /\ Stack(Standing)'
  BY <1>1, <1>3 DEF GrantInv, ProByRow, RowsCarry, Covers, Stack
<1>4. NoGiftedDays'
  BY <1>1 DEF GrantInv, NoGiftedDays, PaidAhead
<1> QED
  BY <1>2, <1>3, <1>4 DEF GrantInv

LEMMA DaysPaid ==
  ASSUME TypeOK
  PROVE  /\ IsFiniteSet(Standing)
         /\ Sum([j \in Standing |-> rows[j].days], Standing) \in Nat
<1>1. IsFiniteSet(Standing)
  <2>1. Standing \in SUBSET (DOMAIN rows)
    BY DEF Standing
  <2> QED
    BY <2>1, RowsOfSeq, FS_Subset DEF TypeOK
<1>2. PICK f : f = [j \in Standing |-> rows[j].days]
  OBVIOUS
<1>3. \A j \in Standing : f[j] \in Nat
  BY <1>2, RowsOfSeq DEF TypeOK, Standing
<1> QED
  BY <1>1, <1>2, <1>3, SumNonNegative

LEMMA TickStep ==
  ASSUME TypeOK, GrantInv, Tick
  PROVE  GrantInv'
<1>1. /\ now' = now + 1
      /\ UNCHANGED <<isPro, proExpiry, rows, refund, overtaken, Standing>>
  BY DEF Tick, user, Standing
<1>2. now \in Nat /\ \A j \in DOMAIN rows : rows[j].end \in Nat
  BY EndsAreDates, RowsOfSeq DEF TypeOK
<1>3. GraceFollows' /\ (rows' = <<>> => ~isPro')
  BY <1>1 DEF GrantInv, GraceFollows
<1>4. RefundsReadPast'
  BY <1>1, <1>2, NotIdle DEF GrantInv, RefundsReadPast
<1>5. ASSUME ~overtaken' PROVE ProByRow' /\ RowsCarry' /\ Stack(Standing)'
  <2>1. ProByRow /\ RowsCarry /\ Stack(Standing)
    BY <1>1, <1>5 DEF GrantInv
  <2>2. ASSUME NEW i \in Standing, Covers(rows[i])' PROVE Covers(rows[i])
    BY <1>1, <1>2, <2>2 DEF Covers, Standing
  <2> QED
    BY <1>1, <2>1, <2>2 DEF ProByRow, RowsCarry, Stack
<1>6. NoGiftedDays'
  <2>1. PICK s \in Nat : s = Sum([j \in Standing |-> rows[j].days], Standing)
    BY DaysPaid
  <2>2. s = Sum([j \in Standing' |-> rows'[j].days], Standing')
    BY <1>1, <2>1
  <2>3. Standing \subseteq DOMAIN rows
    BY DEF Standing
  <2>4. ASSUME Standing = DOMAIN rows, \A i \in Standing : rows[i].days # Lifetime,
               NEW i \in Standing
        PROVE  rows[i].end # Never /\ rows[i].end <= now + 1 + s
    <3>1. rows[i].end # Never /\ rows[i].end <= now + s
      BY <2>1, <2>4 DEF GrantInv, NoGiftedDays, PaidAhead
    <3> QED
      BY <1>2, <2>3, <3>1
  <2> QED
    BY <1>1, <2>2, <2>4 DEF NoGiftedDays, PaidAhead
<1> QED
  BY <1>3, <1>4, <1>5, <1>6 DEF GrantInv

LEMMA SweepStep ==
  ASSUME TypeOK, GrantInv, NEW s \in Sweepers, Sweep(s)
  PROVE  GrantInv'
<1>1. CASE ReadLapsed(s)
  <2>1. RefundsReadPast'
    BY <1>1 DEF ReadLapsed, GrantInv, RefundsReadPast
  <2> QED
    BY <1>1, <2>1, GrantFrame DEF ReadLapsed
<1>2. CASE ClearPro(s)
  <2>1. /\ isPro' = FALSE /\ overtaken' = (overtaken \/ HasAccess)
        /\ UNCHANGED <<now, rows, refund, Standing>>
    BY <1>2 DEF ClearPro, Standing
  <2>2. now \in Nat /\ proExpiry \in Nat /\ \A j \in DOMAIN rows : rows[j].end \in Nat
    BY EndsAreDates, RowsOfSeq DEF TypeOK
  <2>3. GraceFollows' /\ RefundsReadPast' /\ (rows' = <<>> => ~isPro')
    BY <2>1 DEF GrantInv, GraceFollows, RefundsReadPast
  <2>4. ASSUME ~overtaken' PROVE ProByRow' /\ RowsCarry' /\ Stack(Standing)'
    <3>1. RowsCarry /\ Stack(Standing) /\ ~HasAccess
      BY <2>1, <2>4 DEF GrantInv
    <3>2. ProByRow'
      BY <2>1 DEF ProByRow
    <3>3. \A i \in Standing : ~Covers(rows[i])
      <4> SUFFICES ASSUME NEW i \in Standing, Covers(rows[i]) PROVE FALSE
        OBVIOUS
      <4>1. isPro /\ (proExpiry # Never => rows[i].end # Never /\ proExpiry >= rows[i].end)
        BY <3>1 DEF RowsCarry
      <4>2. rows[i].end \in Nat
        BY <2>2 DEF Standing
      <4> QED
        BY <2>2, <3>1, <4>1, <4>2 DEF HasAccess, Covers
    <3>4. RowsCarry'
      BY <2>1, <3>3 DEF RowsCarry, Covers
    <3>5. Stack(Standing)'
      BY <2>1, <3>1 DEF Stack
    <3> QED
      BY <3>2, <3>4, <3>5
  <2>5. NoGiftedDays'
    BY <2>1 DEF GrantInv, NoGiftedDays, PaidAhead
  <2> QED
    BY <2>3, <2>4, <2>5 DEF GrantInv
<1> QED
  BY <1>1, <1>2 DEF Sweep

\* The refund that was not overtaken finds the rows as it leaves them, so what
\* it derives Pro from is what stands.
LEMMA RefundStep ==
  ASSUME TypeOK, GrantInv, NEW r \in Refunders, CommitRefund(r)
  PROVE  GrantInv'
<1>1. PICK k, seen, at, running, last :
         /\ k = refund[r].row /\ seen = refund[r].seen /\ at = refund[r].at
         /\ running = Running(seen, at) /\ last = LastEnd(running)
  OBVIOUS
<1>2. k \in Nat /\ seen \in Seq(Row) /\ at \in Nat /\ at <= now /\ (rows = <<>> => seen = <<>>)
  BY <1>1, NotIdle DEF CommitRefund, GrantInv, RefundsReadPast
<1>3. /\ isPro' = (running # {}) /\ proExpiry' = last
      /\ rows' = MarkRefunded(rows, k)
      /\ overtaken' = (overtaken \/ rows' # seen)
      /\ now' = now
  BY <1>1 DEF CommitRefund
<1>4. /\ DOMAIN rows' = DOMAIN rows
      /\ rows' = <<>> <=> rows = <<>>
      /\ \A j \in DOMAIN rows :
             /\ rows'[j].days = rows[j].days /\ rows'[j].end = rows[j].end
             /\ rows'[j].grace = rows[j].grace /\ (rows[j].refunded => rows'[j].refunded)
  <2>1. rows \in Seq(Row)
    BY DEF TypeOK
  <2>2. rows' \in Seq(Row) /\ Len(rows') = Len(rows)
    BY <1>2, <1>3, <2>1, MarkKeepsRows
  <2>3. rows' = <<>> <=> rows = <<>>
    BY <2>1, <2>2, RowsOfSeq
  <2> QED
    BY <1>2, <1>3, <2>1, <2>3, MarkKeepsRows
<1>5. /\ now \in Nat
      /\ \A j \in DOMAIN rows : rows[j].end \in Nat /\ rows[j].days \in Nat /\ rows[j].grace \in Nat
  BY EndsAreDates, RowsOfSeq DEF TypeOK
<1>6. Standing' \subseteq Standing /\ Standing \subseteq DOMAIN rows
  BY <1>4 DEF Standing
<1>7. /\ last \in Nat
      /\ last # Never => \A q \in running : q.end # Never /\ q.end <= last
      /\ running # {} => \E q \in running : q.end = last
  BY <1>1, <1>2, LastEndOfRunning
<1>8. GraceFollows'
  BY <1>4 DEF GrantInv, GraceFollows
<1>9. RefundsReadPast'
  <2>1. \A q \in Refunders : refund'[q] = refund[q] \/ refund'[q] = NoRefund
    BY DEF CommitRefund, TypeOK
  <2> QED
    BY <1>3, <1>4, <2>1 DEF GrantInv, RefundsReadPast
<1>10. rows' = <<>> => ~isPro'
  <2>1. seen = <<>> => running = {}
    BY <1>1 DEF Running
  <2> QED
    BY <1>2, <1>3, <1>4, <2>1
<1>11. ASSUME ~overtaken' PROVE ProByRow' /\ RowsCarry' /\ Stack(Standing)'
  <2>1. RowsCarry /\ Stack(Standing) /\ rows' = seen
    BY <1>3, <1>11 DEF GrantInv
  <2>2. running = {rows'[j] : j \in {h \in Standing' : rows'[h].end = Never \/ rows'[h].end > at}}
    BY <1>1, <2>1 DEF Running, Standing
  <2>3. ProByRow'
    <3> SUFFICES ASSUME running # {}
                 PROVE  \E i \in Standing' :
                            rows'[i].end = Never \/ (last # Never /\ last <= rows'[i].grace)
      BY <1>3 DEF ProByRow
    <3>1. PICK i \in Standing' : rows'[i].end = last
      BY <1>7, <2>2
    <3>2. i \in DOMAIN rows' /\ rows'[i].end \in Nat
      BY <1>4, <1>5, <1>6, <3>1
    <3>3. rows'[i].grace = GraceEnd(rows'[i].end)
      BY <1>8, <3>2 DEF GraceFollows
    <3>4. rows'[i].end # Never => rows'[i].end <= rows'[i].grace
      BY <3>2, <3>3, GraceIsDays DEF GraceEnd
    <3> QED
      BY <3>1, <3>4
  <2>4. RowsCarry'
    <3>1. ASSUME NEW i \in Standing', Covers(rows[i])'
          PROVE  /\ isPro' = TRUE
                 /\ proExpiry' # Never => rows'[i].end # Never /\ proExpiry' >= rows'[i].end
                 /\ \A j \in DOMAIN rows' : i < j =>
                        \/ rows'[j].end = Never
                        \/ rows'[i].end # Never /\ rows'[j].end >= rows'[i].end
      <4>1. i \in Standing /\ i \in DOMAIN rows /\ rows'[i].end = rows[i].end /\ rows[i].end \in Nat
        BY <1>4, <1>5, <1>6
      <4>2. Covers(rows[i])
        BY <1>3, <3>1, <4>1 DEF Covers
      <4>3. rows'[i].end = Never \/ rows'[i].end > at
        BY <1>2, <1>5, <4>1, <4>2 DEF Covers
      <4>4. rows'[i] \in running
        BY <2>2, <4>3
      <4>5. \A j \in DOMAIN rows : i < j =>
                rows[j].end = Never \/ (rows[i].end # Never /\ rows[j].end >= rows[i].end)
        BY <2>1, <4>1, <4>2 DEF RowsCarry
      <4>6. \A j \in DOMAIN rows' : i < j =>
                \/ rows'[j].end = Never
                \/ rows'[i].end # Never /\ rows'[j].end >= rows'[i].end
        BY <1>4, <4>1, <4>5
      <4>7. last # Never => rows'[i].end # Never /\ last >= rows'[i].end
        BY <1>7, <4>1, <4>4
      <4> QED
        BY <1>3, <4>4, <4>6, <4>7
    <3> QED
      BY <3>1 DEF RowsCarry
  <2>5. Stack(Standing)'
    <3>1. ASSUME NEW j \in Standing', NEW i \in Standing', i < j
          PROVE  /\ rows'[i].end = Never => rows'[j].end = Never
                 /\ rows'[j].end # Never => rows'[j].end >= rows'[i].end + rows'[j].days
      <4>1. j \in Standing /\ i \in Standing /\ j \in DOMAIN rows /\ i \in DOMAIN rows
        BY <1>6
      <4>2. /\ rows[i].end = Never => rows[j].end = Never
            /\ rows[j].end # Never => rows[j].end >= rows[i].end + rows[j].days
        BY <2>1, <3>1, <4>1 DEF Stack
      <4> QED
        BY <1>4, <4>1, <4>2
    <3> QED
      BY <3>1 DEF Stack
  <2> QED
    BY <2>3, <2>4, <2>5
<1>12. NoGiftedDays'
  <2> SUFFICES ASSUME Standing' = DOMAIN rows'
               PROVE  PaidAhead(Standing)'
    BY DEF NoGiftedDays
  <2>1. Standing = DOMAIN rows /\ Standing' = Standing
    BY <1>4, <1>6
  <2>2. \A j \in Standing : rows'[j].days = rows[j].days /\ rows'[j].end = rows[j].end
    BY <1>4, <2>1
  <2>3. PaidAhead(Standing)
    BY <2>1 DEF GrantInv, NoGiftedDays
  <2>4. [j \in Standing' |-> rows'[j].days] = [j \in Standing |-> rows[j].days]
    BY <2>1, <2>2
  <2> QED
    BY <1>3, <2>1, <2>2, <2>3, <2>4 DEF PaidAhead
<1> QED
  BY <1>8, <1>9, <1>10, <1>11, <1>12 DEF GrantInv

LEMMA GrantInvStep ==
  ASSUME TypeOK, GrantInv, [Next]_vars, [~Editing]_vars
  PROVE  GrantInv'
<1>1. CASE UNCHANGED vars
  <2>1. RefundsReadPast'
    BY <1>1 DEF vars, GrantInv, RefundsReadPast
  <2> QED
    BY <1>1, <2>1, GrantFrame DEF vars, user
<1>2. ASSUME NEW r \in Refunders, AbandonRefund(r) PROVE GrantInv'
  <2>1. \A q \in Refunders : refund'[q] = refund[q] \/ refund'[q] = NoRefund
    BY <1>2 DEF AbandonRefund, TypeOK
  <2>2. RefundsReadPast'
    BY <1>2, <2>1 DEF AbandonRefund, GrantInv, RefundsReadPast
  <2> QED
    BY <1>2, <2>2, GrantFrame DEF AbandonRefund
<1>3. ASSUME NEW r \in Refunders, NEW i \in 0..Len(rows), ReadForRefund(r, i) PROVE GrantInv'
  <2>1. now \in Nat
    BY EndsAreDates
  <2>2. rows = <<>> => i = 0 /\ MarkRefunded(rows, i) = <<>>
    BY RowsOfSeq DEF TypeOK, MarkRefunded
  <2>3. \A q \in Refunders :
            refund'[q] = IF q = r THEN [step |-> "read", row |-> i, seen |-> MarkRefunded(rows, i),
                                        at |-> now]
                         ELSE refund[q]
    BY <1>3 DEF ReadForRefund, TypeOK
  <2>4. RefundsReadPast'
    BY <1>3, <2>1, <2>2, <2>3 DEF ReadForRefund, GrantInv, RefundsReadPast
  <2> QED
    BY <1>3, <2>4, GrantFrame DEF ReadForRefund
<1> QED
  BY <1>1, <1>2, <1>3, GrantStep, TickStep, SweepStep, RefundStep
     DEF Next, Daily, Refunding

LEMMA GrantInvInit == Init => GrantInv
<1> SUFFICES ASSUME Init PROVE GrantInv
  OBVIOUS
<1>1. DOMAIN rows = {} /\ Standing = {} /\ ~isPro
  BY DEF Init, Standing
<1> QED
  BY <1>1 DEF Init, GrantInv, GraceFollows, RefundsReadPast, ProByRow, RowsCarry, Stack,
              NoGiftedDays, PaidAhead

\* Purchases, sweeps and refunds in any order, while no admin edits by hand.
THEOREM GrantInvariant == Spec /\ [][~Editing]_vars => [](TypeOK /\ GrantInv)
<1>1. Init => TypeOK /\ GrantInv
  BY TypeInit, GrantInvInit
<1>2. (TypeOK /\ GrantInv) /\ [Next]_vars /\ [~Editing]_vars => (TypeOK /\ GrantInv)'
  BY TypeStep, GrantInvStep
<1> QED
  BY <1>1, <1>2, PTL DEF Spec

LEMMA AccessByRows == TypeOK /\ GrantInv => AccessFollowsRows
<1> SUFFICES ASSUME TypeOK, GrantInv, ~overtaken
             PROVE  /\ (\E i \in Standing : Covers(rows[i])) => HasAccess
                    /\ HasAccess => \E i \in Standing : CoversWithGrace(rows[i])
  BY DEF AccessFollowsRows
<1>1. ProByRow /\ RowsCarry
  BY DEF GrantInv
<1>2. now \in Nat /\ proExpiry \in Nat
      /\ \A j \in Standing : rows[j].end \in Nat /\ rows[j].grace \in Nat
  BY EndsAreDates, RowsOfSeq DEF TypeOK, Standing
<1>3. ASSUME NEW i \in Standing, Covers(rows[i]) PROVE HasAccess
  <2>1. isPro /\ (proExpiry # Never => rows[i].end # Never /\ proExpiry >= rows[i].end)
    BY <1>1, <1>3 DEF RowsCarry
  <2> QED
    BY <1>2, <1>3, <2>1 DEF HasAccess, Covers
<1>4. ASSUME HasAccess PROVE \E i \in Standing : CoversWithGrace(rows[i])
  <2>1. PICK i \in Standing : rows[i].end = Never \/ (proExpiry # Never /\ proExpiry <= rows[i].grace)
    BY <1>1, <1>4 DEF HasAccess, ProByRow
  <2>2. CoversWithGrace(rows[i])
    BY <1>2, <1>4, <2>1 DEF HasAccess, CoversWithGrace
  <2> QED
    BY <2>2
<1> QED
  BY <1>3, <1>4

(* Whatever the order of purchases, refunds and sweeps, with any number of    *)
(* rows, sweepers and admins, unless one overtook another's read: a user has     *)
(* access while a row that was not refunded runs, and only under such a row   *)
(* or its grace window.                                                       *)
THEOREM AccessFollowsRowsHolds == Spec /\ [][~Editing]_vars => []AccessFollowsRows
<1>1. TypeOK /\ GrantInv => AccessFollowsRows
  BY AccessByRows
<1> QED
  BY <1>1, GrantInvariant, PTL

(* Subscriptions that stand are paid for one after the other: no bought day   *)
(* is lost, and what follows a lifetime row is a lifetime row.                *)
THEOREM RenewalsStackHolds == Spec /\ [][~Editing]_vars => []RenewalsStack
<1>1. TypeOK /\ GrantInv => RenewalsStack
  BY DEF GrantInv, RenewalsStack
<1> QED
  BY <1>1, GrantInvariant, PTL

(* A user who was never refunded has no more days ahead of him than he paid   *)
(* for, whatever swept or overtook what.                                      *)
THEOREM NoGiftedDaysHolds == Spec /\ [][~Editing]_vars => []NoGiftedDays
<1>1. TypeOK /\ GrantInv => NoGiftedDays
  BY DEF GrantInv
<1> QED
  BY <1>1, GrantInvariant, PTL

-----------------------------------------------------------------------------
(* Purchases, sweeps and hand edits: the invariant EditInv *)

LEMMA NewRowEdit ==
  ASSUME TypeOK, EditInv, NEW row \in Row, row.grace = Never <=> row.end = Never, Insert(row)
  PROVE  EditInv'
<1>1. PICK n \in Nat : n = Len(rows)
  BY RowsOfSeq DEF TypeOK
<1>2. /\ rows' # <<>> /\ DOMAIN rows' = 1..(n + 1) /\ Len(rows') = n + 1
      /\ DOMAIN rows = 1..n
      /\ \A j \in 1..n : rows'[j] = rows[j]
      /\ rows'[n + 1] = row
  BY <1>1, InsertAdds, RowsOfSeq DEF TypeOK
<1>3. \A i \in DOMAIN rows' : rows'[i].grace = Never <=> rows'[i].end = Never
  BY <1>2 DEF EditInv
<1>4. \A e \in Editors : edit'[e] # NoEdit =>
          /\ edit'[e].row \in DOMAIN rows'
          /\ edit'[e].pro \/ (edit'[e].end # Never /\ edit'[e].end <= now')
  BY <1>2 DEF EditInv, Insert
<1>5. isPro' = TRUE /\ proExpiry' = rows'[Len(rows')].grace
  BY <1>2 DEF Insert
<1> QED
  BY <1>2, <1>3, <1>4, <1>5 DEF EditInv

LEMMA EditFrame ==
  ASSUME EditInv, UNCHANGED <<user, rows, overtaken, edit, now>>
  PROVE  EditInv'
BY DEF EditInv, CoversWithGrace, user

LEMMA EditInvStep ==
  ASSUME TypeOK, EditInv, [Next]_vars, [~Refunding]_vars
  PROVE  EditInv'
<1>1. CASE UNCHANGED vars
  BY <1>1, EditFrame DEF vars, user
<1>2. now \in Nat /\ proExpiry \in Nat
  BY EndsAreDates
<1>3. /\ Len(rows) \in Nat /\ DOMAIN rows = 1..Len(rows)
      /\ rows # <<>> => /\ Len(rows) \in DOMAIN rows
                        /\ rows[Len(rows)].end \in Nat
                        /\ rows[Len(rows)].grace \in Nat
                        /\ rows[Len(rows)].grace = Never <=> rows[Len(rows)].end = Never
  BY RowsOfSeq DEF TypeOK, EditInv
<1>4. CASE Tick
  <2>1. now' = now + 1 /\ UNCHANGED <<isPro, proExpiry, rows, edit, overtaken>>
    BY <1>4 DEF Tick, user
  <2>2. \A e \in Editors : edit'[e] # NoEdit =>
            /\ edit'[e].row \in DOMAIN rows'
            /\ edit'[e].pro \/ (edit'[e].end # Never /\ edit'[e].end <= now')
    BY <1>2, <2>1, NotIdle DEF EditInv
  <2>3. rows # <<>> /\ ~CoversWithGrace(rows[Len(rows)]) => ~CoversWithGrace(rows[Len(rows)])'
    BY <1>2, <1>3, <2>1 DEF CoversWithGrace
  <2> QED
    BY <2>1, <2>2, <2>3 DEF EditInv
<1>5. ASSUME NEW days \in Plans \cup {Lifetime}, NEW end \in Nat, Insert(NewRow(days, end))
      PROVE  EditInv'
  <2>1. PICK row : row = NewRow(days, end)
    OBVIOUS
  <2>2. row \in Row /\ row.end = end /\ row.grace = GraceEnd(end)
    BY <2>1, EndsAreDates DEF NewRow
  <2>3. row.grace = Never <=> row.end = Never
    BY <2>2, GraceIsDays DEF GraceEnd, Never
  <2> QED
    BY <1>5, <2>1, <2>2, <2>3, NewRowEdit
<1>6. ASSUME NEW days \in Plans \cup {Lifetime}, GrantSubscription(days) PROVE EditInv'
  BY <1>5, <1>6, EndsAreDates DEF GrantSubscription
<1>7. ASSUME NEW end \in EndDates, CreateSubscription(end) PROVE EditInv'
  BY <1>5, <1>7, EndDatesAreDays DEF CreateSubscription
<1>8. ASSUME NEW s \in Sweepers, Sweep(s) PROVE EditInv'
  <2>1. CASE ReadLapsed(s)
    BY <2>1, EditFrame DEF ReadLapsed
  <2>2. CASE ClearPro(s)
    <3>1. /\ isPro' = FALSE /\ overtaken' = (overtaken \/ HasAccess)
          /\ UNCHANGED <<now, rows, edit>>
      BY <2>2 DEF ClearPro
    <3>2. ASSUME ~overtaken', rows' # <<>> PROVE ~CoversWithGrace(rows[Len(rows)])'
      <4>1. ~overtaken /\ ~HasAccess /\ rows # <<>>
        BY <3>1, <3>2
      <4>2. ~CoversWithGrace(rows[Len(rows)])
        <5>1. CASE isPro
          <6>1. proExpiry = rows[Len(rows)].grace /\ proExpiry # Never /\ proExpiry <= now
            BY <1>2, <4>1, <5>1 DEF EditInv, HasAccess
          <6> QED
            BY <1>2, <1>3, <4>1, <6>1 DEF CoversWithGrace
        <5>2. CASE ~isPro
          BY <4>1, <5>2 DEF EditInv
        <5> QED
          BY <5>1, <5>2
      <4> QED
        BY <3>1, <4>2 DEF CoversWithGrace
    <3> QED
      BY <3>1, <3>2 DEF EditInv
  <2> QED
    BY <1>8, <2>1, <2>2 DEF Sweep
<1>9. ASSUME NEW e \in Editors, NEW end \in EndDates, ReadForEdit(e, end) PROVE EditInv'
  <2>1. UNCHANGED <<isPro, proExpiry, rows, overtaken, now>>
    BY <1>9 DEF ReadForEdit, user
  <2>2. PICK call : call = [step |-> "read", row |-> Len(rows), end |-> end,
                            pro |-> end = Never \/ end > now]
    OBVIOUS
  <2>3. end \in Nat /\ Len(rows) \in DOMAIN rows
    BY <1>3, <1>9, EndDatesAreDays DEF ReadForEdit
  <2>4. call.row \in DOMAIN rows /\ (call.pro \/ (call.end # Never /\ call.end <= now))
    <3>1. call.row = Len(rows) /\ call.end = end
      BY <2>2
    <3>2. call.pro = (end = Never \/ end > now)
      BY <2>2
    <3>3. CASE end = Never \/ end > now
      BY <2>3, <3>1, <3>2, <3>3, Zenon
    <3>4. CASE ~(end = Never \/ end > now)
      BY <1>2, <2>3, <3>1, <3>4
    <3> QED
      BY <3>3, <3>4
  <2>5. \A d \in Editors : edit'[d] = IF d = e THEN call ELSE edit[d]
    BY <1>9, <2>2 DEF ReadForEdit, TypeOK
  <2>6. \A d \in Editors : edit'[d] # NoEdit =>
            /\ edit'[d].row \in DOMAIN rows'
            /\ edit'[d].pro \/ (edit'[d].end # Never /\ edit'[d].end <= now')
    BY <2>1, <2>4, <2>5 DEF EditInv
  <2> QED
    BY <2>1, <2>6 DEF EditInv, CoversWithGrace
<1>10. ASSUME NEW e \in Editors, CommitEdit(e) PROVE EditInv'
  <2>1. PICK k, end, isOn : k = edit[e].row /\ end = edit[e].end /\ isOn = edit[e].pro
    OBVIOUS
  <2>2. k \in DOMAIN rows /\ end \in Nat /\ isOn \in BOOLEAN /\ (isOn \/ (end # Never /\ end <= now))
    BY <1>10, <2>1, NotIdle DEF CommitEdit, EditInv
  <2> DEFINE row == Adjusted(rows[k], end)
  <2>3. rows[k] \in Row /\ k \in 1..Len(rows)
    BY <2>2, RowsOfSeq DEF TypeOK
  <2>4. row \in Row /\ row.end = end /\ row.grace = end
    BY <2>2, <2>3 DEF Adjusted, Row, Dates
  <2>5. rows' = [rows EXCEPT ![k] = row]
    BY <1>10, <2>1 DEF CommitEdit
  <2> HIDE DEF row
  <2>6. /\ rows' \in Seq(Row) /\ Len(rows') = Len(rows)
        /\ DOMAIN rows' = DOMAIN rows
        /\ \A j \in DOMAIN rows : rows'[j] = IF j = k THEN row ELSE rows[j]
    BY <1>3, <2>3, <2>4, <2>5, ExceptSeq DEF TypeOK
  <2>7. \A i \in DOMAIN rows' : rows'[i].grace = Never <=> rows'[i].end = Never
    BY <2>4, <2>6 DEF EditInv
  <2>8. /\ now' = now /\ isPro' = isOn /\ proExpiry' = end
        /\ overtaken' = (overtaken \/ k # Len(rows))
        /\ \A d \in Editors : edit'[d] = edit[d] \/ edit'[d] = NoEdit
    BY <1>10, <2>1 DEF CommitEdit, TypeOK
  <2>9. \A d \in Editors : edit'[d] # NoEdit =>
            /\ edit'[d].row \in DOMAIN rows'
            /\ edit'[d].pro \/ (edit'[d].end # Never /\ edit'[d].end <= now')
    BY <2>6, <2>8 DEF EditInv
  <2>10. ASSUME ~overtaken'
         PROVE  /\ rows' # <<>>
                /\ proExpiry' = rows'[Len(rows')].grace
                /\ ~isPro' => ~CoversWithGrace(rows[Len(rows)])'
    <3>1. k = Len(rows) /\ rows'[Len(rows')] = row
      BY <2>2, <2>6, <2>8, <2>10
    <3>2. rows' # <<>>
      BY <2>2, <2>6, RowsOfSeq
    <3> QED
      BY <1>2, <2>2, <2>4, <2>8, <3>1, <3>2 DEF CoversWithGrace
  <2> QED
    BY <2>7, <2>8, <2>9, <2>10 DEF EditInv
<1> QED
  BY <1>1, <1>4, <1>6, <1>7, <1>8, <1>9, <1>10 DEF Next, Daily, Editing

LEMMA EditInvInit == Init => EditInv
BY DEF Init, EditInv

LEMMA NewestRow == TypeOK /\ EditInv => NewestRowDecides
<1> SUFFICES ASSUME TypeOK, EditInv, ~overtaken
             PROVE  HasAccess <=> rows # <<>> /\ CoversWithGrace(rows[Len(rows)])
  BY DEF NewestRowDecides
<1>1. rows # <<>> => /\ rows[Len(rows)].grace = Never <=> rows[Len(rows)].end = Never
                     /\ rows[Len(rows)].grace \in Nat
  BY RowsOfSeq DEF TypeOK, EditInv
<1>2. CASE isPro
  <2>1. rows # <<>> /\ proExpiry = rows[Len(rows)].grace
    BY <1>2 DEF EditInv
  <2> QED
    BY <1>1, <1>2, <2>1 DEF HasAccess, CoversWithGrace
<1>3. CASE ~isPro
  BY <1>3 DEF EditInv, HasAccess
<1> QED
  BY <1>2, <1>3

(* Where no refund recomputes access, the newest row decides it to the day,   *)
(* through any sequence of grants, hand-made rows, adjustments and sweeps     *)
(* none of which overtook another's read.                                     *)
THEOREM NewestRowDecidesHolds == Spec /\ [][~Refunding]_vars => []NewestRowDecides
<1>1. Init => TypeOK /\ EditInv
  BY TypeInit, EditInvInit
<1>2. (TypeOK /\ EditInv) /\ [Next]_vars /\ [~Refunding]_vars => (TypeOK /\ EditInv)'
  BY TypeStep, EditInvStep
<1>3. TypeOK /\ EditInv => NewestRowDecides
  BY NewestRow
<1> QED
  BY <1>1, <1>2, <1>3, PTL DEF Spec

-----------------------------------------------------------------------------
(* The migration *)

\* What is assumed of the constants: day 2, on which the oldest rows end, is
\* within the bound; session rows are finitely many numbers; None is no value.
MigrationConstants ==
    /\ Horizon \in Nat /\ Horizon >= 2 /\ GraceDays \in Nat /\ MaxRuns \in Nat
    /\ IsFiniteSet(SessionRows) /\ SessionRows \subseteq Nat
    /\ None \notin SessionRows
    /\ None \notin Upgrade!SessionRow
    /\ None \notin [at : Nat, done : BOOLEAN]

LEMMA StepsAre ==
  /\ Len(Upgrade!Steps) = 14 /\ DOMAIN Upgrade!Steps = 1..14
  /\ \A i \in 1..14 : Upgrade!Steps[i] = "auto" <=> i = 4
  /\ \A i \in 1..14 : Upgrade!Steps[i] \in {"cleanup_transports", "drop_notifications", "drop_fcm_token"} => i < 4
  /\ \A i \in 1..14 : i < 4 => Upgrade!Steps[i] \in {"cleanup_transports", "drop_notifications", "drop_fcm_token"}
  /\ \A i \in 1..14 : Upgrade!Steps[i] = "backfill_grace" <=> i = 11
  /\ \A i \in 1..14 : Upgrade!Steps[i] = "extend_access" <=> i = 12
  /\ \A i \in 1..14 : Upgrade!Key(Upgrade!Steps[i]) = IF i = 12 THEN "backfill_grace" ELSE Upgrade!Steps[i]
<1> DEFINE S == Upgrade!Steps
<1>1. /\ Len(S) = 14 /\ DOMAIN S = 1..14
      /\ S[1] = "cleanup_transports" /\ S[2] = "drop_notifications" /\ S[3] = "drop_fcm_token" /\ S[4] = "auto"
      /\ S[5] = "backfill_moderators" /\ S[6] = "drop_message_deleted" /\ S[7] = "drop_tables" /\ S[8] = "drop_contacts"
      /\ S[9] = "drop_uploader" /\ S[10] = "dedupe_slugs" /\ S[11] = "backfill_grace" /\ S[12] = "extend_access"
      /\ S[13] = "backfill_orphans" /\ S[14] = "globalize_sessions"
  BY DEF Upgrade!Steps
<1> HIDE DEF S
<1>2. \A i \in 1..14 : i \in {1, 2, 3, 4, 5, 6, 7, 8, 9, 10, 11, 12, 13, 14}
  OBVIOUS
<1>3. /\ \A i \in 1..14 : S[i] = "auto" <=> i = 4
      /\ \A i \in 1..14 : S[i] \in {"cleanup_transports", "drop_notifications", "drop_fcm_token"} => i < 4
      /\ \A i \in 1..14 : i < 4 => S[i] \in {"cleanup_transports", "drop_notifications", "drop_fcm_token"}
      /\ \A i \in 1..14 : S[i] = "backfill_grace" <=> i = 11
      /\ \A i \in 1..14 : S[i] = "extend_access" <=> i = 12
  BY <1>1, <1>2
<1>4. \A i \in 1..14 : Upgrade!Key(S[i]) = IF i = 12 THEN "backfill_grace" ELSE S[i]
  BY <1>3 DEF Upgrade!Key
<1> QED
  BY <1>1, <1>3, <1>4 DEF S

LEMMA DropsAre ==
  /\ Upgrade!Drops["globalize_sessions"] = "sessions.department_id"
  /\ "globalize_sessions" \in DOMAIN Upgrade!Drops
  /\ \A step \in DOMAIN Upgrade!Drops : /\ Upgrade!Drops[step] \in Upgrade!Legacy
                                        /\ Upgrade!Drops[step] = "sessions.department_id" => step = "globalize_sessions"
                                        /\ step \notin {"auto", "backfill_grace", "extend_access"}
  /\ \A step \in {"backfill_moderators", "backfill_orphans", "dedupe_slugs", "auto", "backfill_grace", "extend_access"} :
        step \notin DOMAIN Upgrade!Drops
  BY DEF Upgrade!Drops, Upgrade!Legacy

\* The position of the command, and the step it has run and not recorded.
RunTyped ==
    /\ run = None \/ run \in [at : 1..14, done : BOOLEAN]
    /\ run # None /\ run.done => Upgrade!Steps[run.at] \notin {"auto", "backfill_grace"}
Ran(step) == run # None /\ run.done /\ Upgrade!Steps[run.at] = step
Done(step) == step \in applied \/ Ran(step)

\* What the steps change.
Data == <<legacy, migrated, unnoticed, subscription, pro, cr, moderators, revoked, imported, planned, before, session, student, links>>

LEMMA Stays ==
  ASSUME Upgrade!Start \/ Upgrade!Skip \/ Upgrade!StepFails \/ Upgrade!Crash \/ \E b \in BOOLEAN : Upgrade!Record(b)
  PROVE  UNCHANGED Data /\ now' = now
  BY DEF Upgrade!Start, Upgrade!Skip, Upgrade!StepFails, Upgrade!Crash, Upgrade!Record, Upgrade!accessUnchanged,
         Upgrade!crUnchanged, Upgrade!sessionsUnchanged, Data

LEMMA NextAt ==
  ASSUME NEW r, r \in [at : 1..14, done : BOOLEAN], r = run, MigrationConstants
  PROVE  /\ (Upgrade!NextStep = None /\ r.at = 14) \/ (Upgrade!NextStep = [at |-> r.at + 1, done |-> FALSE] /\ r.at < 14)
         /\ Upgrade!NextStep = None \/ Upgrade!NextStep \in [at : 1..14, done : BOOLEAN]
         /\ Upgrade!NextStep # None => ~Upgrade!NextStep.done
  BY StepsAre DEF Upgrade!NextStep

\* The schema and the grace of the rows are not passed over.
Passed == Upgrade!Steps[run.at] \in {"auto", "backfill_grace"} => Upgrade!RunStep \/ Upgrade!Steps[run.at] \in applied

\* How the command moves: it is done with a step only by having run it.
LEMMA RunMoves ==
  ASSUME MigrationConstants, RunTyped, Upgrade!MigrationNext \/ UNCHANGED Upgrade!migrationVars
  PROVE  /\ RunTyped'
         /\ Upgrade!RunStep \/ Upgrade!ServeStep \/ UNCHANGED <<Data, now>>
         /\ applied' = applied \/ (run # None /\ run.done /\ applied' = applied \cup {Upgrade!Key(Upgrade!Steps[run.at])})
         /\ \/ run' = None \/ run' = run \/ run' = [at |-> 1, done |-> FALSE]
            \/ run # None /\ run'.at = run.at + 1 /\ ~run'.done /\ Passed
            \/ run # None /\ run.at = 11 /\ run'.at = 13 /\ ~run'.done
            \/ run # None /\ run'.at = run.at /\ run'.done /\ Upgrade!RunStep
<1>0. None \notin [at : 1..14, done : BOOLEAN]
  BY DEF MigrationConstants
<1>1. CASE Upgrade!Start
  <2>1. UNCHANGED <<Data, now>> /\ applied' = applied /\ run' = [at |-> 1, done |-> FALSE]
    BY <1>1, Stays DEF Upgrade!Start
  <2>2. RunTyped'
    BY <2>1 DEF RunTyped
  <2> QED
    BY <2>1, <2>2
<1>2. CASE Upgrade!Skip
  <2>1. UNCHANGED <<Data, now>> /\ applied' = applied /\ run' = Upgrade!NextStep /\ run # None
    BY <1>2, Stays DEF Upgrade!Skip
  <2>2. Passed
    BY <1>2 DEF Upgrade!Skip, Upgrade!Key, Passed
  <2> QED
    BY <2>1, <2>2, NextAt, <1>0 DEF RunTyped
<1>3. CASE Upgrade!RunStep
  <2>1. applied' = applied /\ run # None /\ run \in [at : 1..14, done : BOOLEAN]
    BY <1>3 DEF Upgrade!RunStep, RunTyped
  <2>2. CASE Upgrade!Steps[run.at] = "auto" \/ Upgrade!Steps[run.at] = "backfill_grace"
    <3>1. run' = Upgrade!NextStep
      BY <1>3, <2>2 DEF Upgrade!RunStep
    <3> QED
      BY <3>1, <2>1, <1>3, NextAt, <1>0 DEF RunTyped, Passed
  <2>3. CASE ~(Upgrade!Steps[run.at] = "auto" \/ Upgrade!Steps[run.at] = "backfill_grace")
    <3>1. run' = [run EXCEPT !.done = TRUE]
      BY <1>3, <2>3 DEF Upgrade!RunStep
    <3>2. run' \in [at : 1..14, done : BOOLEAN] /\ run'.at = run.at /\ run'.done
      BY <2>1, <3>1
    <3> QED
      BY <3>2, <2>1, <2>3, <1>3 DEF RunTyped
  <2> QED
    BY <2>2, <2>3
<1>4. CASE Upgrade!StepFails
  <2>1. /\ UNCHANGED <<Data, now>> /\ applied' = applied /\ run # None
        /\ run' = CASE Upgrade!Steps[run.at] = "auto" -> None
                    [] Upgrade!Steps[run.at] = "backfill_grace" -> [at |-> run.at + 2, done |-> FALSE]
                    [] OTHER -> Upgrade!NextStep
    BY <1>4, Stays DEF Upgrade!StepFails
  <2>2. run \in [at : 1..14, done : BOOLEAN] /\ run.at \in 1..14
    BY <2>1 DEF RunTyped
  <2>3. CASE Upgrade!Steps[run.at] = "auto"
    BY <2>1, <2>3 DEF RunTyped
  <2>4. CASE Upgrade!Steps[run.at] = "backfill_grace"
    <3>0. run' = [at |-> run.at + 2, done |-> FALSE]
      BY <2>1, <2>4
    <3>a. run.at = 11
      BY <2>2, <2>4, StepsAre
    <3>1. run.at = 11 /\ run' = [at |-> 13, done |-> FALSE]
      BY <3>0, <3>a
    <3>2. RunTyped'
      BY <3>1 DEF RunTyped
    <3> QED
      BY <3>1, <3>2, <2>1
  <2>5. CASE Upgrade!Steps[run.at] # "auto" /\ Upgrade!Steps[run.at] # "backfill_grace"
    <3>1. run' = Upgrade!NextStep /\ UNCHANGED <<Data, now>> /\ applied' = applied /\ run # None
      BY <2>1, <2>5
    <3> QED
      BY <3>1, <2>5, NextAt, <1>0 DEF RunTyped, Passed
  <2> QED
    BY <2>3, <2>4, <2>5
<1>5. CASE Upgrade!Crash
  <2>1. UNCHANGED <<Data, now>> /\ applied' = applied /\ run' = None
    BY <1>5, Stays DEF Upgrade!Crash
  <2> QED
    BY <2>1 DEF RunTyped
<1>6. ASSUME NEW b \in BOOLEAN, Upgrade!Record(b) 
      PROVE  /\ RunTyped'
             /\ UNCHANGED <<Data, now>>
             /\ applied' = applied \/ (run # None /\ run.done /\ applied' = applied \cup {Upgrade!Key(Upgrade!Steps[run.at])})
             /\ \/ run' = None
                \/ run # None /\ run'.at = run.at + 1 /\ ~run'.done /\ Passed
  <2>1. /\ UNCHANGED <<Data, now>> /\ run' = Upgrade!NextStep /\ run # None /\ run.done
        /\ applied' \in {applied, applied \cup {Upgrade!Key(Upgrade!Steps[run.at])}}
    BY <1>6, Stays DEF Upgrade!Record
  <2>2. Passed
    BY <2>1 DEF RunTyped, Passed
  <2> QED
    BY <2>1, <2>2, NextAt, <1>0 DEF RunTyped
<1>7. CASE Upgrade!ServeStep
  <2>1. applied' = applied /\ run' = run
    BY <1>7 DEF Upgrade!ServeStep
  <2> QED
    BY <2>1, <1>7 DEF RunTyped
<1>8. CASE UNCHANGED Upgrade!migrationVars
  <2>1. UNCHANGED <<Data, now>> /\ applied' = applied /\ run' = run
    BY <1>8 DEF Upgrade!migrationVars, Data
  <2> QED
    BY <2>1 DEF RunTyped
<1> QED
  BY <1>1, <1>2, <1>3, <1>4, <1>5, <1>6, <1>7, <1>8 DEF Upgrade!MigrationNext, Upgrade!CommandStep

\* A step is done because it was before, or because the command has run it.
LEMMA DoneBefore ==
  ASSUME MigrationConstants, RunTyped, Upgrade!MigrationNext \/ UNCHANGED Upgrade!migrationVars,
         NEW step, step \notin {"auto", "backfill_grace", "extend_access"}, Done(step)'
  PROVE  Done(step) \/ (Upgrade!RunStep /\ Upgrade!Steps[run.at] = step)
<1>1. CASE step \in applied'
  <2>1. CASE step \in applied
    BY <2>1 DEF Done
  <2>2. CASE step \notin applied
    <3>1. run # None /\ run.done /\ step = Upgrade!Key(Upgrade!Steps[run.at])
      BY <1>1, <2>2, RunMoves
    <3>2. run.at \in 1..14
      BY <3>1 DEF RunTyped
    <3>3. Upgrade!Steps[run.at] = step
      BY <3>1, <3>2, StepsAre
    <3> QED
      BY <3>1, <3>3 DEF Done, Ran
  <2> QED
    BY <2>1, <2>2
<1>2. CASE Ran(step)'
  <2>1. run' # None /\ run'.done /\ Upgrade!Steps[run'.at] = step
    BY <1>2 DEF Ran
  <2>2. CASE run' = run
    BY <2>1, <2>2 DEF Done, Ran
  <2>3. CASE run' = [at |-> 1, done |-> FALSE]
    BY <2>1, <2>3
  <2> QED
    BY <2>1, <2>2, <2>3, RunMoves
<1> QED
  BY <1>1, <1>2 DEF Done

-----------------------------------------------------------------------------
(* What is dropped *)

SchemaInv ==
    /\ "auto" \notin applied
    /\ "sessions.department_id" \notin unnoticed.legacy
    /\ \A step \in DOMAIN Upgrade!Drops : Done(step) => Upgrade!Drops[step] \notin legacy \ unnoticed.legacy
    /\ applied \subseteq {"cleanup_transports", "drop_notifications", "drop_fcm_token"} \/ migrated
    /\ run # None /\ run.at > 4 => migrated

\* A step drops what is its own, or it is noted that it failed to.
LEMMA StepDrops ==
  ASSUME Upgrade!RunStep
  PROVE  /\ legacy' \subseteq legacy /\ unnoticed.orphans \subseteq unnoticed'.orphans
         /\ unnoticed'.legacy \subseteq Upgrade!Legacy \cup unnoticed.legacy
         /\ legacy' \ unnoticed'.legacy \subseteq legacy \ unnoticed.legacy
         /\ \A x \in DOMAIN Upgrade!Drops :
                Upgrade!Steps[run.at] = x => Upgrade!Drops[x] \notin legacy' \ unnoticed'.legacy
         /\ "sessions.department_id" \notin unnoticed.legacy => "sessions.department_id" \notin unnoticed'.legacy
         /\ Upgrade!Steps[run.at] = "auto" => migrated'
         /\ migrated => migrated'
         /\ migrated \in BOOLEAN => migrated' \in BOOLEAN
<1> DEFINE x == Upgrade!Steps[run.at]
<1>1. PICK kept \in SUBSET Upgrade!MayKeep(x), missed \in SUBSET Upgrade!MayMiss(x) :
        /\ unnoticed' = [legacy |-> unnoticed.legacy \cup kept, orphans |-> unnoticed.orphans \cup missed]
        /\ legacy' = (IF x \in DOMAIN Upgrade!Drops THEN legacy \ {Upgrade!Drops[x]} ELSE legacy) \cup kept
        /\ IF x = "auto" THEN migrated' = TRUE ELSE UNCHANGED migrated
  BY DEF Upgrade!RunStep, Upgrade!Apply, Upgrade!AutoMigrate
<1> HIDE DEF x
<1>2. /\ unnoticed'.legacy = unnoticed.legacy \cup kept /\ unnoticed'.orphans = unnoticed.orphans \cup missed
  BY <1>1
<1>3. kept \subseteq legacy /\ (kept # {} => x \in DOMAIN Upgrade!Drops /\ x # "globalize_sessions" /\ kept = {Upgrade!Drops[x]})
  BY DEF Upgrade!MayKeep
<1>4. /\ legacy' \subseteq legacy /\ unnoticed.orphans \subseteq unnoticed'.orphans
      /\ legacy' \ unnoticed'.legacy \subseteq legacy \ unnoticed.legacy
      /\ x \in DOMAIN Upgrade!Drops => Upgrade!Drops[x] \notin legacy' \ unnoticed'.legacy
  BY <1>1, <1>2, <1>3
<1>5. "sessions.department_id" \notin unnoticed.legacy => "sessions.department_id" \notin unnoticed'.legacy
  BY <1>2, <1>3, DropsAre
<1>6. unnoticed'.legacy \subseteq Upgrade!Legacy \cup unnoticed.legacy
  BY <1>2, <1>3, DropsAre
<1>7. (x = "auto" => migrated') /\ (migrated => migrated') /\ (migrated \in BOOLEAN => migrated' \in BOOLEAN)
  BY <1>1
<1> QED
  BY <1>4, <1>5, <1>6, <1>7 DEF x

LEMMA ServesKeep ==
  ASSUME Upgrade!ServeStep
  PROVE  UNCHANGED <<legacy, migrated, unnoticed, cr, imported, planned, before, session, student, links, applied, run, runs>>
  BY DEF Upgrade!ServeStep, Upgrade!sessionsUnchanged

LEMMA SchemaStep ==
  ASSUME MigrationConstants, RunTyped, SchemaInv, Upgrade!MigrationNext \/ UNCHANGED Upgrade!migrationVars
  PROVE  SchemaInv'
<1>0. "auto" \notin applied'
  <2>1. CASE applied' = applied
    BY <2>1 DEF SchemaInv
  <2>2. CASE run # None /\ run.done /\ applied' = applied \cup {Upgrade!Key(Upgrade!Steps[run.at])}
    <3>1. run.at \in 1..14 /\ Upgrade!Steps[run.at] # "auto"
      BY <2>2 DEF RunTyped
    <3> QED
      BY <2>2, <3>1 DEF SchemaInv, Upgrade!Key
  <2> QED
    BY <2>1, <2>2, RunMoves
<1>1. /\ legacy' \subseteq legacy
      /\ legacy' \ unnoticed'.legacy \subseteq legacy \ unnoticed.legacy
      /\ "sessions.department_id" \notin unnoticed.legacy => "sessions.department_id" \notin unnoticed'.legacy
      /\ migrated => migrated'
  <2>1. CASE UNCHANGED <<legacy, unnoticed, migrated>>
    BY <2>1
  <2>2. CASE Upgrade!RunStep
    BY <2>2, StepDrops
  <2> QED
    BY <2>1, <2>2, RunMoves, ServesKeep DEF Data
<1>2. ASSUME NEW x \in DOMAIN Upgrade!Drops, Done(x)'
      PROVE  Upgrade!Drops[x] \notin legacy' \ unnoticed'.legacy
  <2>1. Done(x) \/ (Upgrade!RunStep /\ Upgrade!Steps[run.at] = x)
    BY <1>2, DoneBefore, DropsAre
  <2> QED
    BY <1>1, <2>1, StepDrops DEF SchemaInv
<1>3. applied' \subseteq {"cleanup_transports", "drop_notifications", "drop_fcm_token"} \/ migrated'
  <2>1. CASE applied' = applied
    BY <1>1, <2>1 DEF SchemaInv
  <2>2. CASE run # None /\ run.done /\ applied' = applied \cup {Upgrade!Key(Upgrade!Steps[run.at])}
    <3>1. run.at \in 1..14 /\ run.at # 4
      BY <2>2, StepsAre DEF RunTyped
    <3>2. CASE run.at > 4
      BY <1>1, <2>2, <3>2 DEF SchemaInv
    <3>3. CASE run.at < 4
      <4>1. Upgrade!Key(Upgrade!Steps[run.at]) \in {"cleanup_transports", "drop_notifications", "drop_fcm_token"}
        BY <3>1, <3>3, StepsAre
      <4> QED
        BY <1>1, <2>2, <4>1 DEF SchemaInv
    <3> QED
      BY <3>1, <3>2, <3>3
  <2> QED
    BY <2>1, <2>2, RunMoves
<1>4. ASSUME run' # None, run'.at > 4 PROVE migrated'
  <2>1. CASE run' = run
    BY <1>1, <1>4, <2>1 DEF SchemaInv
  <2>2. CASE run' = [at |-> 1, done |-> FALSE]
    BY <1>4, <2>2
  <2>3. CASE run # None /\ run'.at \in {run.at, 13} /\ run.at > 4
    BY <1>1, <2>3 DEF SchemaInv
  <2>4. CASE run # None /\ run'.at = run.at + 1 /\ run.at \in 1..14 /\ run.at # 4
    BY <1>1, <1>4, <2>4 DEF SchemaInv
  <2>5. CASE run # None /\ run'.at = 5 /\ run.at = 4
    <3>1. run \in [at : 1..14, done : BOOLEAN] /\ 4 \in 1..14 /\ Upgrade!Steps[4] = "auto"
      BY <2>5 DEF RunTyped, Upgrade!Steps
    <3>4. CASE Passed
      <4>1. Upgrade!RunStep
        BY <2>5, <3>1, <3>4 DEF Passed, SchemaInv
      <4> QED
        BY <2>5, <3>1, <4>1, StepDrops
    <3>5. run' # run /\ run' # [at |-> 1, done |-> FALSE] /\ run'.at # run.at /\ run'.at # 13
      BY <2>5
    <3>6. Passed
      BY <1>4, <2>5, <3>5, RunMoves
    <3> QED
      BY <3>4, <3>6
  <2>6. run # None => run.at \in 1..14
    BY DEF RunTyped
  <2> QED
    BY <1>4, <2>1, <2>2, <2>3, <2>4, <2>5, <2>6, RunMoves
<1> QED
  BY <1>0, <1>1, <1>2, <1>3, <1>4 DEF SchemaInv

-----------------------------------------------------------------------------
(* Rows, flags and moderators *)

Dated(rs) == \A i \in DOMAIN rs : rs[i].end = Upgrade!Never \/ rs[i].grace # Upgrade!Never
AccessTyped ==
    /\ subscription \in [Users -> Seq(Upgrade!Subscription)] /\ pro \in [Users -> Upgrade!Pro]
    /\ \A u \in Users : subscription[u] = <<>> => pro[u].expiry <= Horizon

LEMMA RowTyped ==
  ASSUME MigrationConstants, NEW r
  PROVE  /\ r \in Upgrade!Subscription => /\ r.end \in Nat /\ r.end <= Horizon
                                          /\ r.grace \in Nat /\ r.grace <= Horizon + GraceDays /\ r.granted \in BOOLEAN
         /\ r \in Upgrade!Pro => r.is \in BOOLEAN /\ r.expiry \in Nat /\ r.expiry <= Horizon + GraceDays
  BY DEF MigrationConstants, Upgrade!Subscription, Upgrade!Pro

\* What no step undoes: rows with their grace, and rows of whoever is Pro.
AccessKept ==
    /\ AccessTyped'
    /\ (\A u \in Users : Dated(subscription[u])) => \A u \in Users : Dated(subscription'[u])
    /\ \A u \in Users : subscription[u] # <<>> => subscription'[u] # <<>>
    /\ \A u \in Users : pro'[u].is => pro[u].is \/ subscription'[u] # <<>>

LEMMA GraceKeeps ==
  ASSUME MigrationConstants, AccessTyped, Upgrade!BackfillGrace, pro' = pro
  PROVE  AccessKept /\ \A u \in Users : Dated(subscription'[u])
<1> DEFINE With(r) == IF r.end # Upgrade!Never /\ r.grace = Upgrade!Never THEN [r EXCEPT !.grace = r.end + GraceDays] ELSE r
<1>1. ASSUME NEW r \in Upgrade!Subscription
      PROVE  With(r) \in Upgrade!Subscription /\ (With(r).end = Upgrade!Never \/ With(r).grace # Upgrade!Never)
  <2>1. CASE r.end # Upgrade!Never /\ r.grace = Upgrade!Never
    <3>1. r.end + GraceDays \in 0..(Horizon + GraceDays) /\ r.end + GraceDays # Upgrade!Never
      BY <2>1, RowTyped DEF MigrationConstants, Upgrade!Never
    <3>2. With(r) = [end |-> r.end, grace |-> r.end + GraceDays, granted |-> r.granted]
      BY <2>1 DEF Upgrade!Subscription
    <3> HIDE DEF With
    <3> QED
      BY <3>1, <3>2 DEF Upgrade!Subscription
  <2>2. CASE ~(r.end # Upgrade!Never /\ r.grace = Upgrade!Never)
    BY <2>2
  <2> QED
    BY <2>1, <2>2
<1>2. ASSUME NEW u \in Users
      PROVE  /\ subscription'[u] \in Seq(Upgrade!Subscription) /\ Dated(subscription'[u])
             /\ subscription'[u] = <<>> <=> subscription[u] = <<>>
  <2> DEFINE rs == subscription[u]
  <2>1. subscription'[u] = [i \in DOMAIN rs |-> With(rs[i])]
    BY DEF Upgrade!BackfillGrace
  <2>2. rs \in Seq(Upgrade!Subscription)
    BY DEF AccessTyped
  <2> HIDE DEF rs
  <2>3. Len(rs) \in Nat /\ DOMAIN rs = 1..Len(rs) /\ \A i \in 1..Len(rs) : rs[i] \in Upgrade!Subscription
    BY <2>2, LenProperties, ElementOfSeq
  <2> HIDE DEF With
  <2>4. \A i \in 1..Len(rs) : With(rs[i]) \in Upgrade!Subscription
    BY <1>1, <2>3
  <2>5. [i \in 1..Len(rs) |-> With(rs[i])] \in [1..Len(rs) -> Upgrade!Subscription]
    BY <2>4
  <2>6. subscription'[u] \in Seq(Upgrade!Subscription)
    BY <2>1, <2>3, <2>5, SeqDef
  <2>7. Dated(subscription'[u])
    BY <1>1, <2>1, <2>3 DEF Dated
  <2>8. DOMAIN subscription'[u] = DOMAIN rs
    BY <2>1
  <2>9. subscription'[u] = <<>> <=> rs = <<>>
    <3>1. Len(subscription'[u]) = Len(rs)
      BY <2>3, <2>6, <2>8, LenProperties
    <3> QED
      BY <3>1, <2>2, <2>6, EmptySeq
  <2> QED
    BY <2>6, <2>7, <2>9 DEF rs
<1>3. AccessTyped'
  <2>1. subscription' = [u \in Users |-> subscription'[u]]
    BY DEF Upgrade!BackfillGrace
  <2>2. \A u \in Users : subscription'[u] \in Seq(Upgrade!Subscription)
    BY <1>2
  <2>3. subscription' \in [Users -> Seq(Upgrade!Subscription)]
    BY <2>1, <2>2
  <2> QED
    BY <1>2, <2>3 DEF AccessTyped
<1> QED
  BY <1>2, <1>3 DEF AccessKept

LEMMA ExtendStep ==
  ASSUME MigrationConstants, AccessTyped, Upgrade!ExtendAccess, subscription' = subscription
  PROVE  AccessKept
<1>1. ASSUME NEW u \in Users
      PROVE  /\ pro'[u] \in Upgrade!Pro /\ pro'[u].is = pro[u].is
             /\ subscription[u] = <<>> => pro'[u] = pro[u]
  <2> DEFINE p == pro[u]
             g == Upgrade!Newest(u).grace
  <2>1. p \in Upgrade!Pro /\ subscription[u] \in Seq(Upgrade!Subscription)
    BY DEF AccessTyped
  <2>2. pro'[u] = IF p.is /\ p.expiry # Upgrade!Never /\ subscription[u] # <<>> /\ g # Upgrade!Never
                  THEN [p EXCEPT !.expiry = g] ELSE p
    BY DEF Upgrade!ExtendAccess
  <2>3. subscription[u] # <<>> => g \in 0..(Horizon + GraceDays)
    <3>1. subscription[u] # <<>> => Len(subscription[u]) \in 1..Len(subscription[u])
      BY <2>1, EmptySeq, LenProperties
    <3>2. subscription[u] # <<>> => Upgrade!Newest(u) \in Upgrade!Subscription
      BY <2>1, <3>1, ElementOfSeq DEF Upgrade!Newest
    <3> QED
      BY <3>2 DEF Upgrade!Subscription
  <2> HIDE DEF p, g
  <2> QED
    BY <2>1, <2>2, <2>3 DEF Upgrade!Pro, p
<1>2. pro' \in [Users -> Upgrade!Pro]
  <2>1. pro' = [u \in Users |-> pro'[u]]
    BY DEF Upgrade!ExtendAccess
  <2> QED
    BY <1>1, <2>1
<1> QED
  BY <1>1, <1>2 DEF AccessKept, AccessTyped

LEMMA OneRow ==
  ASSUME NEW S, NEW e \in S
  PROVE  <<e>> \in Seq(S) /\ DOMAIN <<e>> = {1} /\ <<e>>[1] = e /\ <<e>> # <<>>
  OBVIOUS

LEMMA OrphansStep ==
  ASSUME MigrationConstants, AccessTyped, NEW missed, Upgrade!BackfillOrphans(missed), pro' = pro
  PROVE  /\ AccessKept
         /\ planned => \A u \in Users : pro'[u].is => subscription'[u] # <<>> \/ u \in missed
<1>1. ASSUME NEW u \in Users
      PROVE  /\ subscription'[u] \in Seq(Upgrade!Subscription)
             /\ Dated(subscription[u]) => Dated(subscription'[u])
             /\ subscription[u] # <<>> => subscription'[u] = subscription[u]
             /\ planned /\ pro[u].is => subscription'[u] # <<>> \/ u \in missed
             /\ subscription'[u] = <<>> => subscription[u] = <<>>
  <2> DEFINE x == pro[u].expiry
             e == [end |-> x, grace |-> IF x = Upgrade!Never THEN Upgrade!Never ELSE x + GraceDays, granted |-> TRUE]
  <2>1. subscription'[u] = IF planned /\ pro[u].is /\ subscription[u] = <<>> /\ u \notin missed THEN <<e>> ELSE subscription[u]
    BY DEF Upgrade!BackfillOrphans
  <2>2. subscription[u] \in Seq(Upgrade!Subscription) /\ pro[u] \in Upgrade!Pro
    BY DEF AccessTyped
  <2>3. x \in Nat
    BY <2>2, RowTyped
  <2>4. subscription[u] = <<>> => x <= Horizon
    BY DEF AccessTyped
  <2>5. subscription[u] = <<>> => e \in Upgrade!Subscription /\ (e.end = Upgrade!Never \/ e.grace # Upgrade!Never)
    <3> HIDE DEF x
    <3> QED
      BY <2>3, <2>4 DEF Upgrade!Subscription, Upgrade!Never, MigrationConstants
  <2> HIDE DEF e
  <2>6. CASE planned /\ pro[u].is /\ subscription[u] = <<>> /\ u \notin missed
    <3>1. subscription'[u] = <<e>> /\ <<e>> \in Seq(Upgrade!Subscription) /\ DOMAIN <<e>> = {1} /\ <<e>>[1] = e /\ <<e>> # <<>>
      BY <2>1, <2>5, <2>6, OneRow
    <3> QED
      BY <2>5, <2>6, <3>1 DEF Dated
  <2>7. CASE ~(planned /\ pro[u].is /\ subscription[u] = <<>> /\ u \notin missed)
    BY <2>1, <2>2, <2>7
  <2> QED
    BY <2>6, <2>7
<1>2. subscription' \in [Users -> Seq(Upgrade!Subscription)]
  <2>1. subscription' = [u \in Users |-> subscription'[u]]
    BY DEF Upgrade!BackfillOrphans
  <2> QED
    BY <1>1, <2>1
<1> QED
  BY <1>1, <1>2 DEF AccessKept, AccessTyped

LEMMA GrantKeeps ==
  ASSUME MigrationConstants, AccessTyped, NEW u \in Users, Upgrade!Grant(u)
  PROVE  AccessKept
<1> DEFINE e == [end |-> Horizon, grace |-> Horizon + GraceDays, granted |-> FALSE]
           p == [is |-> TRUE, expiry |-> Horizon + GraceDays]
           rs == subscription[u]
<1>1. subscription' = [subscription EXCEPT ![u] = Append(rs, e)] /\ pro' = [pro EXCEPT ![u] = p]
  BY DEF Upgrade!Grant
<1>2. e \in Upgrade!Subscription /\ p \in Upgrade!Pro /\ e.grace # Upgrade!Never
  BY DEF MigrationConstants, Upgrade!Subscription, Upgrade!Pro, Upgrade!Never
<1>3. rs \in Seq(Upgrade!Subscription)
  BY DEF AccessTyped
<1> HIDE DEF e, p, rs
<1>4. /\ Append(rs, e) \in Seq(Upgrade!Subscription) /\ Append(rs, e) # <<>>
      /\ Dated(rs) => Dated(Append(rs, e))
  <2>1. /\ Append(rs, e) \in Seq(Upgrade!Subscription) /\ Append(rs, e) # <<>> /\ DOMAIN Append(rs, e) = 1..(Len(rs) + 1)
        /\ Append(rs, e)[Len(rs) + 1] = e /\ \A i \in 1..Len(rs) : Append(rs, e)[i] = rs[i]
        /\ Len(rs) \in Nat /\ DOMAIN rs = 1..Len(rs)
    BY <1>2, <1>3, AppendProperties, LenProperties
  <2> QED
    BY <1>2, <2>1 DEF Dated
<1>5. /\ subscription' \in [Users -> Seq(Upgrade!Subscription)] /\ subscription'[u] = Append(rs, e)
      /\ \A v \in Users \ {u} : subscription'[v] = subscription[v]
  BY <1>1, <1>4 DEF AccessTyped
<1>6. pro' \in [Users -> Upgrade!Pro] /\ pro'[u] = p /\ \A v \in Users \ {u} : pro'[v] = pro[v]
  BY <1>1, <1>2 DEF AccessTyped
<1>7. AccessTyped'
  BY <1>4, <1>5, <1>6 DEF AccessTyped
<1>8. (\A v \in Users : Dated(subscription[v])) => \A v \in Users : Dated(subscription'[v])
  BY <1>4, <1>5 DEF rs
<1> QED
  BY <1>4, <1>5, <1>6, <1>7, <1>8 DEF AccessKept

\* What the step that runs does to rows, moderators and sessions.
LEMMA StepDoes ==
  ASSUME Upgrade!RunStep
  PROVE  /\ Upgrade!Steps[run.at] = "backfill_grace" => Upgrade!BackfillGrace /\ pro' = pro
         /\ Upgrade!Steps[run.at] = "extend_access" => Upgrade!ExtendAccess /\ subscription' = subscription
         /\ Upgrade!Steps[run.at] = "backfill_orphans" =>
                \E missed \in SUBSET unnoticed'.orphans : Upgrade!BackfillOrphans(missed) /\ pro' = pro
         /\ Upgrade!Steps[run.at] \notin {"backfill_grace", "extend_access", "backfill_orphans"} => UNCHANGED <<subscription, pro>>
         /\ Upgrade!Steps[run.at] = "backfill_moderators" => Upgrade!BackfillModerators
         /\ Upgrade!Steps[run.at] # "backfill_moderators" => UNCHANGED <<moderators, revoked>>
         /\ UNCHANGED <<cr, imported, planned, before, applied, runs, now>>
<1> DEFINE x == Upgrade!Steps[run.at]
<1>1. Upgrade!Apply(x) /\ UNCHANGED <<applied, runs, now>>
  BY DEF Upgrade!RunStep
<1> HIDE DEF x
<1>2. PICK kept \in SUBSET Upgrade!MayKeep(x), missed \in SUBSET Upgrade!MayMiss(x) :
        /\ unnoticed' = [legacy |-> unnoticed.legacy \cup kept, orphans |-> unnoticed.orphans \cup missed]
        /\ IF x = "backfill_moderators" THEN Upgrade!BackfillModerators ELSE Upgrade!crUnchanged
        /\ CASE x = "backfill_grace" -> Upgrade!BackfillGrace /\ UNCHANGED pro
             [] x = "backfill_orphans" -> Upgrade!BackfillOrphans(missed) /\ UNCHANGED pro
             [] x = "extend_access" -> Upgrade!ExtendAccess /\ UNCHANGED subscription
             [] OTHER -> Upgrade!accessUnchanged
  BY <1>1 DEF Upgrade!Apply
<1>3. missed \in SUBSET unnoticed'.orphans
  BY <1>2
<1>4. /\ x = "backfill_moderators" => Upgrade!BackfillModerators
      /\ x # "backfill_moderators" => UNCHANGED <<moderators, revoked>>
      /\ UNCHANGED <<cr, imported, planned, before>>
  BY <1>2 DEF Upgrade!BackfillModerators, Upgrade!crUnchanged
<1>5. /\ x = "backfill_grace" => Upgrade!BackfillGrace /\ pro' = pro
      /\ x = "extend_access" => Upgrade!ExtendAccess /\ subscription' = subscription
      /\ x = "backfill_orphans" => Upgrade!BackfillOrphans(missed) /\ pro' = pro
      /\ x \notin {"backfill_grace", "extend_access", "backfill_orphans"} => UNCHANGED <<subscription, pro>>
  BY <1>2 DEF Upgrade!accessUnchanged
<1> QED
  BY <1>1, <1>3, <1>4, <1>5 DEF x

LEMMA AccessSame ==
  ASSUME AccessTyped, UNCHANGED subscription,
         \/ UNCHANGED pro
         \/ \E u \in Users : pro[u].is /\ pro' = [pro EXCEPT ![u].is = FALSE]
  PROVE  AccessKept
<1>1. CASE UNCHANGED pro
  BY <1>1 DEF AccessKept, AccessTyped
<1>2. ASSUME NEW u \in Users, pro' = [pro EXCEPT ![u].is = FALSE] PROVE AccessKept
  <2>1. pro[u] \in Upgrade!Pro
    BY DEF AccessTyped
  <2> DEFINE p == [pro[u] EXCEPT !.is = FALSE]
  <2>2. p \in Upgrade!Pro /\ p.expiry = pro[u].expiry /\ p.is = FALSE
    BY <2>1 DEF Upgrade!Pro
  <2>3. pro' = [pro EXCEPT ![u] = p]
    BY <1>2
  <2> HIDE DEF p
  <2>4. pro' \in [Users -> Upgrade!Pro] /\ pro'[u] = p /\ \A v \in Users \ {u} : pro'[v] = pro[v]
    BY <2>2, <2>3 DEF AccessTyped
  <2> QED
    BY <2>2, <2>4 DEF AccessKept, AccessTyped
<1> QED
  BY <1>1, <1>2

LEMMA AccessStep ==
  ASSUME MigrationConstants, RunTyped, AccessTyped, Upgrade!MigrationNext \/ UNCHANGED Upgrade!migrationVars
  PROVE  /\ AccessKept
         /\ Upgrade!RunStep /\ Upgrade!Steps[run.at] = "backfill_grace" => \A u \in Users : Dated(subscription'[u])
         /\ Upgrade!RunStep /\ Upgrade!Steps[run.at] = "backfill_orphans" /\ planned =>
                \A u \in Users : pro'[u].is => subscription'[u] # <<>> \/ u \in unnoticed'.orphans
<1>1. CASE Upgrade!RunStep
  <2>1. CASE Upgrade!Steps[run.at] = "backfill_grace"
    BY <1>1, <2>1, StepDoes, GraceKeeps
  <2>2. CASE Upgrade!Steps[run.at] = "extend_access"
    BY <1>1, <2>2, StepDoes, ExtendStep
  <2>3. CASE Upgrade!Steps[run.at] = "backfill_orphans"
    <3>1. PICK missed \in SUBSET unnoticed'.orphans : Upgrade!BackfillOrphans(missed) /\ pro' = pro
      BY <1>1, <2>3, StepDoes
    <3> QED
      BY <2>3, <3>1, OrphansStep
  <2>4. CASE Upgrade!Steps[run.at] \notin {"backfill_grace", "extend_access", "backfill_orphans"}
    BY <1>1, <2>4, StepDoes, AccessSame
  <2> QED
    BY <2>1, <2>2, <2>3, <2>4
<1>2. CASE Upgrade!ServeStep
  <2>1. AccessKept
    <3>1. CASE Upgrade!Tick
      BY <3>1, AccessSame DEF Upgrade!Tick
    <3>2. ASSUME NEW u \in Users, Upgrade!Sweep(u) PROVE AccessKept
      BY <3>2, AccessSame DEF Upgrade!Sweep
    <3>3. ASSUME NEW u \in Users, Upgrade!Grant(u) PROVE AccessKept
      BY <3>3, GrantKeeps
    <3>4. ASSUME NEW m, Upgrade!Revoke(m) PROVE AccessKept
      BY <3>4, AccessSame DEF Upgrade!Revoke
    <3> QED
      BY <1>2, <3>1, <3>2, <3>3, <3>4 DEF Upgrade!ServeStep
  <2> QED
    BY <1>1, <2>1
<1>3. CASE UNCHANGED <<Data, now>>
  <2>1. AccessKept
    BY <1>3, AccessSame DEF Data
  <2> QED
    BY <1>1, <2>1
<1> QED
  BY <1>1, <1>2, <1>3, RunMoves

AccessInv ==
    /\ AccessTyped
    /\ "backfill_grace" \in applied \/ (run # None /\ run.at = 12) => \A u \in Users : Dated(subscription[u])
    /\ Done("backfill_orphans") /\ planned =>
           \A u \in Users : pro[u].is => subscription[u] # <<>> \/ u \in unnoticed.orphans

LEMMA AccessInvStep ==
  ASSUME MigrationConstants, RunTyped, SchemaInv, AccessInv, Upgrade!MigrationNext \/ UNCHANGED Upgrade!migrationVars
  PROVE  AccessInv'
<1>1. AccessTyped /\ AccessKept /\ planned' = planned /\ unnoticed.orphans \subseteq unnoticed'.orphans
  <2>1. AccessTyped
    BY DEF AccessInv
  <2>2. CASE Upgrade!RunStep
    BY <2>1, <2>2, AccessStep, StepDoes, StepDrops
  <2>3. CASE UNCHANGED <<planned, unnoticed>>
    BY <2>1, <2>3, AccessStep
  <2> QED
    BY <2>2, <2>3, RunMoves, ServesKeep DEF Data
<1>2. ASSUME "backfill_grace" \in applied' \/ (run' # None /\ run'.at = 12)
      PROVE  \A u \in Users : Dated(subscription'[u])
  <2>1. CASE "backfill_grace" \in applied \/ (run # None /\ run.at = 12)
    BY <1>1, <2>1 DEF AccessInv, AccessKept
  <2>2. CASE Upgrade!RunStep /\ run.at = 11
    <3>1. Upgrade!Steps[run.at] = "backfill_grace"
      BY <2>2 DEF Upgrade!Steps
    <3> QED
      BY <1>1, <2>2, <3>1, AccessStep
  <2>3. CASE "backfill_grace" \in applied' /\ "backfill_grace" \notin applied
    <3>1. run # None /\ run.done /\ "backfill_grace" = Upgrade!Key(Upgrade!Steps[run.at])
      BY <2>3, RunMoves
    <3>2. run.at \in 1..14 /\ Upgrade!Steps[run.at] # "backfill_grace"
      BY <3>1 DEF RunTyped
    <3>3. run.at = 12
      BY <3>1, <3>2, StepsAre
    <3> QED
      BY <2>1, <3>1, <3>3
  <2>4. CASE run' # None /\ run'.at = 12 /\ ~(run # None /\ run.at = 12)
    <3>1. run' # run /\ run' # [at |-> 1, done |-> FALSE] /\ run'.at # 13
      BY <2>4
    <3>2. run # None /\ run'.at = run.at + 1 /\ Passed
      BY <2>4, <3>1, RunMoves
    <3>3. run.at \in 1..14
      BY <3>2 DEF RunTyped
    <3>4. run.at = 11
      BY <2>4, <3>2, <3>3
    <3>5. Upgrade!Steps[run.at] = "backfill_grace"
      BY <3>4 DEF Upgrade!Steps
    <3> QED
      BY <2>1, <2>2, <3>2, <3>4, <3>5 DEF Passed
  <2> QED
    BY <1>2, <2>1, <2>2, <2>3, <2>4
<1>3. ASSUME Done("backfill_orphans")', planned'
      PROVE  \A u \in Users : pro'[u].is => subscription'[u] # <<>> \/ u \in unnoticed'.orphans
  <2>1. Done("backfill_orphans") \/ (Upgrade!RunStep /\ Upgrade!Steps[run.at] = "backfill_orphans")
    BY <1>3, DoneBefore
  <2>2. CASE Done("backfill_orphans")
    BY <1>1, <1>3, <2>2 DEF AccessInv, AccessKept
  <2>3. CASE Upgrade!RunStep /\ Upgrade!Steps[run.at] = "backfill_orphans"
    BY <1>1, <1>3, <2>3, AccessStep
  <2> QED
    BY <2>1, <2>2, <2>3
<1> QED
  BY <1>1, <1>2, <1>3 DEF AccessInv, AccessKept

ModeratorsInv ==
    Done("backfill_moderators") => {c \in cr : c[1] \notin imported} \subseteq moderators \cup revoked

LEMMA ModeratorsStep ==
  ASSUME MigrationConstants, RunTyped, ModeratorsInv, Upgrade!MigrationNext \/ UNCHANGED Upgrade!migrationVars
  PROVE  ModeratorsInv'
<1>1. /\ moderators \cup revoked \subseteq moderators' \cup revoked'
      /\ UNCHANGED <<cr, imported>>
  <2>1. CASE Upgrade!RunStep
    BY <2>1, StepDoes DEF Upgrade!BackfillModerators
  <2>2. CASE Upgrade!ServeStep
    BY <2>2, ServesKeep DEF Upgrade!ServeStep, Upgrade!Tick, Upgrade!Sweep, Upgrade!Grant, Upgrade!Revoke
  <2>3. CASE UNCHANGED <<Data, now>>
    BY <2>3 DEF Data
  <2> QED
    BY <2>1, <2>2, <2>3, RunMoves
<1>2. ASSUME Done("backfill_moderators")'
      PROVE  {c \in cr : c[1] \notin imported} \subseteq moderators' \cup revoked'
  <2>1. Done("backfill_moderators") \/ (Upgrade!RunStep /\ Upgrade!Steps[run.at] = "backfill_moderators")
    BY <1>2, DoneBefore
  <2>2. CASE Upgrade!RunStep /\ Upgrade!Steps[run.at] = "backfill_moderators"
    BY <2>2, StepDoes DEF Upgrade!BackfillModerators
  <2> QED
    BY <1>1, <2>1, <2>2 DEF ModeratorsInv
<1> QED
  BY <1>1, <1>2 DEF ModeratorsInv

-----------------------------------------------------------------------------
(* Periods *)

\* The smallest number of a finite set is the farthest from the largest.
LEMMA LeastExists ==
  ASSUME NEW S, IsFiniteSet(S), S # {}, S \subseteq Nat
  PROVE  \E m \in S : \A x \in S : m <= x
<1> DEFINE f == [x \in S |-> x]
<1>1. PICK top \in S : \A x \in S : x <= top
  <2>1. \A x \in S : f[x] \in Nat
    OBVIOUS
  <2> HIDE DEF f
  <2>2. \E x \in S : \A y \in S : f[y] <= f[x]
    BY <2>1, MaxExists
  <2> QED
    BY <2>2 DEF f
<1> DEFINE g == [x \in S |-> top - x]
<1>2. \A x \in S : g[x] \in Nat
  BY <1>1
<1>3. \E x \in S : \A y \in S : g[y] <= g[x]
  <2> HIDE DEF g
  <2> QED
    BY <1>2, MaxExists
<1>4. PICK m \in S : \A y \in S : top - y <= top - m
  BY <1>3
<1>5. \A y \in S : m <= y
  BY <1>4
<1> QED
  BY <1>5

\* The rows of a period, those it keeps one of, and that one.
OfPeriod(p) == {o \in SessionRows : session[o] # None /\ session[o].period = p}
LiveOf(p) == {o \in OfPeriod(p) : session[o].live}
Candidates(p) == IF LiveOf(p) # {} THEN LiveOf(p) ELSE OfPeriod(p)
KeptOf(p) == CHOOSE o \in Candidates(p) : \A x \in Candidates(p) : o <= x

LEMMA KeptIs ==
  ASSUME MigrationConstants, NEW s \in SessionRows, session[s] # None
  PROVE  /\ Upgrade!Kept(s) = KeptOf(session[s].period)
         /\ Upgrade!Kept(s) \in SessionRows /\ session[Upgrade!Kept(s)] # None
         /\ session[Upgrade!Kept(s)].period = session[s].period
<1> DEFINE p == session[s].period
           C == Candidates(p)
<1>1. Upgrade!Kept(s) = KeptOf(p)
  BY DEF Upgrade!Kept, KeptOf, Candidates, LiveOf, OfPeriod
<1>2. s \in OfPeriod(p) /\ C \subseteq OfPeriod(p) /\ C # {} /\ OfPeriod(p) \subseteq SessionRows
  BY DEF Candidates, LiveOf, OfPeriod
<1> HIDE DEF C, p
<1>3. IsFiniteSet(C) /\ C \subseteq Nat
  BY <1>2, FS_Subset DEF MigrationConstants
<1>4. \E o \in C : \A x \in C : o <= x
  BY <1>2, <1>3, LeastExists
<1>5. KeptOf(p) \in C
  BY <1>4 DEF KeptOf, C
<1>6. KeptOf(p) \in OfPeriod(p)
  BY <1>2, <1>5
<1> QED
  BY <1>1, <1>6 DEF OfPeriod, p

SessionTyped ==
    /\ session \in [SessionRows -> Upgrade!SessionRow \cup {None}]
    /\ student \in [Users -> SessionRows] /\ links \subseteq Batches \X SessionRows
\* Students and batches keep their periods.
Pointed ==
    /\ \A u \in Users : session[student[u]] # None /\ session[student[u]].period = before.student[u]
    /\ \A l \in links : session[l[2]] # None
    /\ {<<l[1], session[l[2]].period>> : l \in links} = before.links
\* What globalize_sessions leaves.
Global ==
    /\ "sessions.department_id" \notin legacy
    /\ \A s \in SessionRows : session[s] # None => session[s].live
    /\ \A s, t \in SessionRows : session[s] # None /\ session[t] # None /\ session[s].period = session[t].period => s = t
SessionInv ==
    /\ SessionTyped /\ Pointed
    /\ "sessions.department_id" \in legacy => \A s \in SessionRows : session[s] # None
    /\ Done("globalize_sessions") => Global

LEMMA RowFields ==
  ASSUME MigrationConstants, NEW r \in Upgrade!SessionRow
  PROVE  r # None /\ r.live \in BOOLEAN /\ r.period \in Periods /\ r.department \in Departments \cup {None}
  BY DEF MigrationConstants, Upgrade!SessionRow

\* A duplicate goes to the Trash, and keeps its period.
LEMMA DedupeStep ==
  ASSUME MigrationConstants, SessionTyped, Pointed, \A s \in SessionRows : session[s] # None,
         Upgrade!DedupeSlugs, UNCHANGED <<student, links, before>>
  PROVE  SessionTyped' /\ Pointed' /\ \A s \in SessionRows : session'[s] # None
<1>1. ASSUME NEW s \in SessionRows
      PROVE  session'[s] \in Upgrade!SessionRow /\ session'[s].period = session[s].period
  <2>1. session[s] \in Upgrade!SessionRow
    BY DEF SessionTyped
  <2> DEFINE r == session[s]
             out == [r EXCEPT !.live = FALSE]
  <2>2. session'[s] = r \/ session'[s] = out
    BY DEF Upgrade!DedupeSlugs
  <2>3. out \in Upgrade!SessionRow /\ out.period = r.period
    BY <2>1 DEF Upgrade!SessionRow
  <2> QED
    BY <2>1, <2>2, <2>3
<1>2. SessionTyped'
  <2>1. session' = [s \in SessionRows |-> session'[s]]
    BY DEF Upgrade!DedupeSlugs
  <2>2. \A s \in SessionRows : session'[s] \in Upgrade!SessionRow \cup {None}
    BY <1>1
  <2>3. session' \in [SessionRows -> Upgrade!SessionRow \cup {None}]
    BY <2>1, <2>2
  <2> QED
    BY <2>3 DEF SessionTyped
<1>3. \A s \in SessionRows : session'[s] # None /\ session'[s].period = session[s].period
  BY <1>1, RowFields
<1>4. (\A u \in Users : student[u] \in SessionRows) /\ (\A l \in links : l[2] \in SessionRows)
  BY DEF SessionTyped
<1>5. {<<l[1], session'[l[2]].period>> : l \in links} = {<<l[1], session[l[2]].period>> : l \in links}
  BY <1>3, <1>4
<1>6. Pointed'
  BY <1>3, <1>4, <1>5 DEF Pointed
<1> QED
  BY <1>2, <1>3, <1>6

\* Every period keeps one row, and what pointed at the others points at it.
LEMMA GlobalizeStep ==
  ASSUME MigrationConstants, SessionTyped, Pointed, Upgrade!GlobalizeSessions, UNCHANGED before,
         "sessions.department_id" \notin legacy'
  PROVE  SessionTyped' /\ Pointed' /\ Global'
<1> DEFINE new(s) == [department |-> None, period |-> session[s].period, live |-> TRUE]
<1>1. ASSUME NEW s \in SessionRows
      PROVE  /\ session'[s] = IF session[s] # None /\ s = Upgrade!Kept(s) THEN new(s) ELSE None
             /\ session[s] # None => /\ new(s) \in Upgrade!SessionRow /\ new(s) # None
                                     /\ new(s).live /\ new(s).period = session[s].period
  <2>1. session[s] # None => session[s] \in Upgrade!SessionRow /\ session[s].period \in Periods
    BY RowFields DEF SessionTyped
  <2>2. session[s] # None => new(s) \in Upgrade!SessionRow
    BY <2>1 DEF Upgrade!SessionRow
  <2> QED
    BY <2>2, RowFields DEF Upgrade!GlobalizeSessions
<1> HIDE DEF new
<1>2. session' \in [SessionRows -> Upgrade!SessionRow \cup {None}]
  <2>1. session' = [s \in SessionRows |-> session'[s]]
    BY DEF Upgrade!GlobalizeSessions
  <2>2. \A s \in SessionRows : session'[s] \in Upgrade!SessionRow \cup {None}
    BY <1>1
  <2> QED
    BY <2>1, <2>2
\* The row a period keeps is kept, and is that of the period.
<1>3. ASSUME NEW s \in SessionRows, session[s] # None
      PROVE  /\ Upgrade!Repointed(s) \in SessionRows /\ session'[Upgrade!Repointed(s)] # None
             /\ session'[Upgrade!Repointed(s)].period = session[s].period
  <2> DEFINE k == Upgrade!Kept(s)
  <2>1. k \in SessionRows /\ session[k] # None /\ session[k].period = session[s].period /\ k = KeptOf(session[s].period)
    BY <1>3, KeptIs
  <2> HIDE DEF k
  <2>2. Upgrade!Kept(k) = k
    BY <2>1, KeptIs
  <2>3. session'[k] = new(k) /\ new(k) # None /\ new(k).period = session[k].period
    BY <1>1, <2>1, <2>2
  <2> QED
    BY <2>1, <2>3 DEF Upgrade!Repointed, k
<1>4. /\ \A u \in Users : student[u] \in SessionRows /\ student[u] # None /\ session[student[u]] # None
      /\ \A l \in links : l[2] \in SessionRows /\ l[1] \in Batches /\ session[l[2]] # None
  BY DEF SessionTyped, Pointed, MigrationConstants
<1>5. \A u \in Users : student'[u] = Upgrade!Repointed(student[u])
  BY <1>4 DEF Upgrade!GlobalizeSessions
<1>6. student' \in [Users -> SessionRows]
  <2>1. student' = [u \in Users |-> student'[u]]
    BY DEF Upgrade!GlobalizeSessions
  <2>2. \A u \in Users : student'[u] \in SessionRows
    BY <1>3, <1>4, <1>5
  <2> QED
    BY <2>1, <2>2
<1>7. links' = {<<l[1], Upgrade!Repointed(l[2])>> : l \in links}
  BY DEF Upgrade!GlobalizeSessions
<1>8. links' \subseteq Batches \X SessionRows /\ \A l \in links' : session'[l[2]] # None
  BY <1>3, <1>4, <1>7
<1>9. {<<l[1], session'[l[2]].period>> : l \in links'} = {<<l[1], session[l[2]].period>> : l \in links}
  <2>1. \A l \in links : session'[Upgrade!Repointed(l[2])].period = session[l[2]].period
    BY <1>3, <1>4
  <2> DEFINE A == {<<l[1], session'[l[2]].period>> : l \in links'}
             B == {<<l[1], session[l[2]].period>> : l \in links}
  <2>2. ASSUME NEW l \in links
        PROVE  \E m \in links' : m[1] = l[1] /\ session'[m[2]].period = session[l[2]].period
    <3> DEFINE m == <<l[1], Upgrade!Repointed(l[2])>>
    <3>1. m \in links' /\ m[1] = l[1] /\ m[2] = Upgrade!Repointed(l[2])
      BY <1>7
    <3> HIDE DEF m
    <3> QED
      BY <2>1, <3>1
  <2>3. ASSUME NEW m \in links'
        PROVE  \E l \in links : m[1] = l[1] /\ session'[m[2]].period = session[l[2]].period
    <3>1. PICK l \in links : m = <<l[1], Upgrade!Repointed(l[2])>>
      BY <1>7
    <3>2. m[1] = l[1] /\ m[2] = Upgrade!Repointed(l[2])
      BY <3>1
    <3> QED
      BY <2>1, <3>2
  <2>4. A \subseteq B
    BY <2>3
  <2>5. B \subseteq A
    BY <2>2
  <2> QED
    BY <2>4, <2>5
<1>10. Pointed'
  <2>1. \A u \in Users : session'[student'[u]] # None /\ session'[student'[u]].period = session[student[u]].period
    BY <1>3, <1>4, <1>5
  <2> QED
    BY <2>1, <1>8, <1>9 DEF Pointed
<1>11. Global'
  <2>1. \A s \in SessionRows : session'[s] # None => session'[s].live /\ session'[s].period = session[s].period
                                                     /\ session[s] # None /\ s = KeptOf(session[s].period)
    BY <1>1, KeptIs
  <2> QED
    BY <2>1 DEF Global
<1> QED
  BY <1>2, <1>6, <1>8, <1>10, <1>11 DEF SessionTyped

LEMMA StepMoves ==
  ASSUME Upgrade!RunStep
  PROVE  /\ Upgrade!Steps[run.at] = "dedupe_slugs" =>
                Upgrade!DedupeSlugs /\ UNCHANGED <<student, links>> /\ "sessions.department_id" \in legacy
         /\ Upgrade!Steps[run.at] = "globalize_sessions" => Upgrade!GlobalizeSessions /\ "sessions.department_id" \notin legacy'
         /\ Upgrade!Steps[run.at] \notin {"dedupe_slugs", "globalize_sessions"} => UNCHANGED <<session, student, links>>
<1> DEFINE x == Upgrade!Steps[run.at]
<1>1. Upgrade!Apply(x) /\ (x = "dedupe_slugs" => "sessions.department_id" \in legacy)
  BY DEF Upgrade!RunStep
<1> HIDE DEF x
<1>2. PICK kept \in SUBSET Upgrade!MayKeep(x), missed \in SUBSET Upgrade!MayMiss(x) :
        /\ legacy' = (IF x \in DOMAIN Upgrade!Drops THEN legacy \ {Upgrade!Drops[x]} ELSE legacy) \cup kept
        /\ CASE x = "dedupe_slugs" -> Upgrade!DedupeSlugs /\ UNCHANGED <<student, links>>
             [] x = "globalize_sessions" -> Upgrade!GlobalizeSessions
             [] OTHER -> Upgrade!sessionsUnchanged
  BY <1>1 DEF Upgrade!Apply
<1>3. x = "globalize_sessions" => kept = {}
  BY DEF Upgrade!MayKeep
<1>4. x = "globalize_sessions" => "sessions.department_id" \notin legacy'
  BY <1>2, <1>3, DropsAre
<1>5. /\ x = "dedupe_slugs" => Upgrade!DedupeSlugs /\ UNCHANGED <<student, links>>
      /\ x = "globalize_sessions" => Upgrade!GlobalizeSessions
      /\ x \notin {"dedupe_slugs", "globalize_sessions"} => UNCHANGED <<session, student, links>>
  BY <1>2 DEF Upgrade!sessionsUnchanged
<1> QED
  BY <1>1, <1>4, <1>5 DEF x

LEMMA SessionStep ==
  ASSUME MigrationConstants, RunTyped, SessionInv, Upgrade!MigrationNext \/ UNCHANGED Upgrade!migrationVars
  PROVE  SessionInv'
<1>1. CASE Upgrade!RunStep /\ Upgrade!Steps[run.at] = "dedupe_slugs"
  <2>1. Upgrade!DedupeSlugs /\ UNCHANGED <<student, links, before>> /\ "sessions.department_id" \in legacy
    BY <1>1, StepMoves, StepDoes
  <2>2. SessionTyped /\ Pointed /\ (\A s \in SessionRows : session[s] # None) /\ ~Done("globalize_sessions")
    BY <2>1 DEF SessionInv, Global
  <2>3. ~Done("globalize_sessions")'
    BY <1>1, <2>2, DoneBefore
  <2> QED
    BY <2>1, <2>2, <2>3, DedupeStep DEF SessionInv
<1>2. CASE Upgrade!RunStep /\ Upgrade!Steps[run.at] = "globalize_sessions"
  <2>1. Upgrade!GlobalizeSessions /\ before' = before /\ "sessions.department_id" \notin legacy'
    BY <1>2, StepMoves, StepDoes
  <2>2. SessionTyped' /\ Pointed' /\ Global'
    BY <2>1, GlobalizeStep DEF SessionInv
  <2> QED
    BY <2>1, <2>2 DEF SessionInv
<1>3. CASE UNCHANGED <<session, student, links, before>> /\ legacy' \subseteq legacy
           /\ ~(Upgrade!RunStep /\ Upgrade!Steps[run.at] = "globalize_sessions")
  <2>1. Done("globalize_sessions")' => Done("globalize_sessions")
    BY <1>3, DoneBefore
  <2>2. Global => Global'
    BY <1>3 DEF Global
  <2>3. SessionTyped' /\ Pointed'
    BY <1>3 DEF SessionInv, SessionTyped, Pointed
  <2> QED
    BY <1>3, <2>1, <2>2, <2>3 DEF SessionInv
<1>4. CASE Upgrade!RunStep /\ Upgrade!Steps[run.at] \notin {"dedupe_slugs", "globalize_sessions"}
  BY <1>3, <1>4, StepMoves, StepDoes, StepDrops
<1>5. CASE ~Upgrade!RunStep
  <2>1. UNCHANGED <<session, student, links, before, legacy>>
    BY <1>5, RunMoves, ServesKeep DEF Data
  <2> QED
    BY <1>3, <1>5, <2>1
<1> QED
  BY <1>1, <1>2, <1>4, <1>5

-----------------------------------------------------------------------------
(* The theorem *)

\* The rest of the type invariant.
RestTyped ==
    /\ now \in 1..Horizon /\ runs \in 0..MaxRuns
    /\ applied \subseteq {Upgrade!Key(Upgrade!Steps[i]) : i \in DOMAIN Upgrade!Steps} \ {"auto"}
    /\ legacy \subseteq Upgrade!Legacy /\ migrated \in BOOLEAN
    /\ cr \subseteq Users \X Batches /\ moderators \subseteq Users \X Batches /\ revoked \subseteq Users \X Batches
    /\ unnoticed.legacy \subseteq Upgrade!Legacy /\ unnoticed.orphans \subseteq Users
    /\ imported \subseteq Users /\ planned \in BOOLEAN
    /\ before.student \in [Users -> Periods] /\ before.links \subseteq Batches \X Periods

MigrationInv == RunTyped /\ SchemaInv /\ AccessInv /\ ModeratorsInv /\ SessionInv /\ RestTyped

LEMMA RestStep ==
  ASSUME MigrationConstants, RunTyped, SchemaInv, RestTyped, Upgrade!MigrationNext \/ UNCHANGED Upgrade!migrationVars
  PROVE  RestTyped'
<1>1. now' \in 1..Horizon /\ runs' \in 0..MaxRuns
  <2>1. CASE Upgrade!Start
    BY <2>1 DEF Upgrade!Start, RestTyped, MigrationConstants
  <2>2. CASE Upgrade!Tick /\ runs' = runs
    BY <2>2 DEF Upgrade!Tick, RestTyped, MigrationConstants
  <2>3. CASE UNCHANGED <<now, runs>>
    BY <2>3 DEF RestTyped
  <2> QED
    BY <2>1, <2>2, <2>3 DEF Upgrade!MigrationNext, Upgrade!CommandStep, Upgrade!ServeStep, Upgrade!Skip, Upgrade!RunStep,
       Upgrade!StepFails, Upgrade!Crash, Upgrade!Record, Upgrade!Sweep, Upgrade!Grant, Upgrade!Revoke, Upgrade!migrationVars
<1>2. applied' \subseteq {Upgrade!Key(Upgrade!Steps[i]) : i \in DOMAIN Upgrade!Steps} \ {"auto"}
  <2>1. CASE run # None /\ run.done /\ applied' = applied \cup {Upgrade!Key(Upgrade!Steps[run.at])}
    <3>1. run.at \in DOMAIN Upgrade!Steps
      BY <2>1, StepsAre DEF RunTyped
    <3>2. "auto" \notin applied'
      BY SchemaStep DEF SchemaInv
    <3> QED
      BY <2>1, <3>1, <3>2 DEF RestTyped
  <2> QED
    BY <2>1, RunMoves DEF RestTyped
<1>3. /\ legacy' \subseteq Upgrade!Legacy /\ migrated' \in BOOLEAN
      /\ UNCHANGED <<cr, imported, planned, before>>
      /\ unnoticed'.legacy \subseteq Upgrade!Legacy
  <2>1. CASE Upgrade!RunStep
    BY <2>1, StepDrops, StepDoes DEF RestTyped
  <2>2. CASE UNCHANGED <<legacy, migrated, unnoticed, cr, imported, planned, before>>
    BY <2>2 DEF RestTyped
  <2> QED
    BY <2>1, <2>2, RunMoves, ServesKeep DEF Data
<1>4. unnoticed'.orphans \subseteq Users
  <2>1. CASE Upgrade!RunStep
    <3>1. PICK missed \in SUBSET Upgrade!MayMiss(Upgrade!Steps[run.at]) :
             unnoticed'.orphans = unnoticed.orphans \cup missed
      BY <2>1 DEF Upgrade!RunStep, Upgrade!Apply
    <3>2. missed \subseteq Users
      BY DEF Upgrade!MayMiss
    <3> QED
      BY <3>1, <3>2 DEF RestTyped
  <2>2. CASE unnoticed' = unnoticed
    BY <2>2 DEF RestTyped
  <2> QED
    BY <2>1, <2>2, RunMoves, ServesKeep DEF Data
<1>5. moderators' \subseteq Users \X Batches /\ revoked' \subseteq Users \X Batches
  <2>1. CASE Upgrade!RunStep
    BY <2>1, StepDoes DEF RestTyped, Upgrade!BackfillModerators
  <2>2. CASE Upgrade!ServeStep
    BY <2>2 DEF RestTyped, Upgrade!ServeStep, Upgrade!Tick, Upgrade!Sweep, Upgrade!Grant, Upgrade!Revoke
  <2>3. CASE UNCHANGED <<Data, now>>
    BY <2>3 DEF RestTyped, Data
  <2> QED
    BY <2>1, <2>2, <2>3, RunMoves
<1> QED
  BY <1>1, <1>2, <1>3, <1>4, <1>5 DEF RestTyped

LEMMA MigrationInvInit ==
  ASSUME MigrationConstants
  PROVE  Upgrade!MigrationInit => MigrationInv
<1> SUFFICES ASSUME Upgrade!MigrationInit PROVE MigrationInv
  OBVIOUS
<1>1. /\ now = 1 /\ applied = {} /\ run = None /\ runs = 0 /\ migrated = FALSE /\ legacy = Upgrade!Legacy
      /\ moderators = {} /\ revoked = {} /\ unnoticed = [legacy |-> {}, orphans |-> {}]
      /\ \A x : ~Done(x)
  BY DEF Upgrade!MigrationInit, Done, Ran
<1>2. RunTyped /\ SchemaInv /\ ModeratorsInv
  BY <1>1 DEF RunTyped, SchemaInv, ModeratorsInv
<1>3. AccessInv
  <2> DEFINE e == [end |-> 2, grace |-> 0, granted |-> FALSE]
  <2>1. e \in Upgrade!Subscription /\ <<e>> \in Seq(Upgrade!Subscription) /\ <<>> \in Seq(Upgrade!Subscription)
    BY DEF Upgrade!Subscription, MigrationConstants
  <2>2. \A p \in {[is |-> FALSE, expiry |-> 0], [is |-> TRUE, expiry |-> 0], [is |-> TRUE, expiry |-> 2]} :
           p \in Upgrade!Pro /\ p.expiry <= Horizon
    <3>1. /\ 0 \in 0..(Horizon + GraceDays) /\ 0 <= Horizon
          /\ 2 \in 0..(Horizon + GraceDays) /\ 2 <= Horizon
      BY DEF MigrationConstants
    <3>2. \A b \in BOOLEAN, d \in {0, 2} : [is |-> b, expiry |-> d] \in Upgrade!Pro /\ [is |-> b, expiry |-> d].expiry <= Horizon
      BY <3>1 DEF Upgrade!Pro
    <3> QED
      BY <3>2
  <2>3. /\ subscription \in [Users -> {<<>>, <<e>>}]
        /\ pro \in [Users -> {[is |-> FALSE, expiry |-> 0], [is |-> TRUE, expiry |-> 0], [is |-> TRUE, expiry |-> 2]}]
    BY DEF Upgrade!MigrationInit, Upgrade!Never
  <2> HIDE DEF e
  <2>4. \A u \in Users : subscription[u] \in Seq(Upgrade!Subscription) /\ pro[u] \in Upgrade!Pro /\ pro[u].expiry <= Horizon
    BY <2>1, <2>2, <2>3
  <2>5. AccessTyped
    BY <2>3, <2>4 DEF AccessTyped
  <2> QED
    BY <1>1, <2>5 DEF AccessInv
<1>4. /\ session \in [SessionRows -> Upgrade!SessionRow] /\ student \in [Users -> SessionRows]
      /\ \E s \in SessionRows : links = {<<b, s>> : b \in Batches}
      /\ before = [student |-> [u \in Users |-> session[student[u]].period],
                   links |-> {<<l[1], session[l[2]].period>> : l \in links}]
  BY DEF Upgrade!MigrationInit
<1>5. links \subseteq Batches \X SessionRows
  BY <1>4
<1>6. \A s \in SessionRows : session[s] # None /\ session[s].period \in Periods
  BY <1>4, RowFields
<1>7. /\ \A u \in Users : student[u] \in SessionRows /\ before.student[u] = session[student[u]].period
      /\ \A l \in links : l[2] \in SessionRows /\ l[1] \in Batches
      /\ before.links = {<<l[1], session[l[2]].period>> : l \in links}
  BY <1>4, <1>5
<1>8. SessionInv
  BY <1>1, <1>4, <1>5, <1>6, <1>7 DEF SessionInv, SessionTyped, Pointed
<1>9. before.student \in [Users -> Periods] /\ before.links \subseteq Batches \X Periods
  <2>1. before.student = [u \in Users |-> session[student[u]].period]
    BY <1>4
  <2> QED
    BY <1>6, <1>7, <2>1
<1>10. RestTyped
  <2>1. now \in 1..Horizon /\ runs \in 0..MaxRuns
    BY <1>1 DEF MigrationConstants
  <2>2. cr \subseteq Users \X Batches /\ imported \subseteq Users /\ planned \in BOOLEAN
    BY DEF Upgrade!MigrationInit
  <2>3. unnoticed.legacy = {} /\ unnoticed.orphans = {}
    BY <1>1
  <2> QED
    BY <1>1, <1>9, <2>1, <2>2, <2>3 DEF RestTyped
<1> QED
  BY <1>2, <1>3, <1>8, <1>10 DEF MigrationInv

LEMMA MigrationInvStep ==
  ASSUME MigrationConstants, MigrationInv, Upgrade!MigrationNext \/ UNCHANGED Upgrade!migrationVars
  PROVE  MigrationInv'
<1> USE DEF MigrationInv
<1>1. RunTyped'
  BY RunMoves
<1>2. SchemaInv' /\ ModeratorsInv' /\ SessionInv'
  BY SchemaStep, ModeratorsStep, SessionStep
<1>3. AccessInv' /\ RestTyped'
  BY AccessInvStep, RestStep
<1> QED
  BY <1>1, <1>2, <1>3

LEMMA MigrationInvImplies ==
  ASSUME MigrationConstants, MigrationInv
  PROVE  Upgrade!MigrationTypeOK /\ Upgrade!MigrationsAgree
<1>1. Upgrade!MigrationTypeOK
  BY StepsAre DEF MigrationInv, RunTyped, AccessInv, AccessTyped, SessionInv, SessionTyped, RestTyped, Upgrade!MigrationTypeOK
<1>2. Upgrade!SchemaHolds /\ Upgrade!ModeratorsHold /\ Upgrade!OrphansHold
  BY DEF MigrationInv, SchemaInv, ModeratorsInv, AccessInv, Done, Upgrade!SchemaHolds, Upgrade!ModeratorsHold,
         Upgrade!OrphansHold
<1>3. Upgrade!GraceHolds
  BY DEF MigrationInv, AccessInv, Dated, Upgrade!GraceHolds
<1>4. Upgrade!PeriodsHold
  BY DEF MigrationInv, SessionInv, Pointed, Global, Done, Upgrade!PeriodsHold
<1> QED
  BY <1>1, <1>2, <1>3, <1>4 DEF Upgrade!MigrationsAgree

\* Whatever fails, is cut short or is repeated, a recorded step of the
\* migration has done its work, but for the statements whose error it ignored,
\* and students and batches keep their periods (connection.go:58-562).
THEOREM MigrationsLoseNothing ==
  ASSUME MigrationConstants
  PROVE  Upgrade!MigrationSpec => [](Upgrade!MigrationTypeOK /\ Upgrade!MigrationsAgree)
<1>1. Upgrade!MigrationInit => MigrationInv
  BY MigrationInvInit
<1>2. MigrationInv /\ [Upgrade!MigrationNext]_(Upgrade!migrationVars) => MigrationInv'
  BY MigrationInvStep
<1>3. MigrationInv => Upgrade!MigrationTypeOK /\ Upgrade!MigrationsAgree
  BY MigrationInvImplies
<1> QED
  BY <1>1, <1>2, <1>3, PTL DEF Upgrade!MigrationSpec

-----------------------------------------------------------------------------
(* Students who move between batches, and their moderators *)

\* What is assumed of the constants: a value that is no user, no profile and
\* no scope, a place there is, forms that hold a row or an account, and
\* natural bounds.
EnrolmentConstants ==
    /\ None \notin Users /\ None \notin Profiles /\ None \notin Moving!ScopeIds
    /\ Batches # {} /\ Rolls # {}
    /\ KindOf \in [Profiles -> Moving!Kinds]
    /\ \A form \in Rows : form \in Moving!Row /\ form.state # "free"
    /\ Accounts \subseteq Moving!Account
    /\ MaxMoves \in Nat /\ CodesPerHour \in Nat

SavingTask == {t \in [step : {"generate", "edit"}, profile : Profiles, was : Moving!Row, row : Moving!Row] :
                   t.row.state # "free" /\ (t.step = "generate" => t.row.place = t.was.place)}
AccountTask == [step : {"account"}, user : Users, was : Moving!Account, row : Moving!Account]
ClaimTask == [step : {"claim"}, user : Users, code : Codes, kind : {"student"}]
SubmitTask == [step : {"submit"}, user : Users, place : Moving!Place]
ApproveTask == [step : {"approve"}, application : Applications, match : Profiles \cup {None}]
PromoteTask == {t \in [step : {"promote"}, profile : Profiles, batch : Batches, was : Moving!Row] :
                    t.was.state = "live" /\ t.batch # t.was.place[1]}
RevertTask == [step : {"revert"}, profile : Profiles, was : Moving!Row, latest : Seq(Moving!Place) \ {<<>>}]
AssignTask == [step : {"assign"}, user : Users, profile : Profiles, scope : Moving!Scopes, id : Moving!ScopeIds]
Tasks == [step : {"idle"}] \cup SavingTask \cup AccountTask \cup ClaimTask \cup SubmitTask \cup ApproveTask
             \cup PromoteTask \cup RevertTask \cup AssignTask

EnrolmentTyped ==
    /\ person \in [Users -> Moving!Account]
    /\ profile \in [Profiles -> Moving!Row]
    /\ application \in [Applications -> Moving!Application \cup {Moving!NoApplication}]
    /\ worker \in [Workers -> Tasks]
    /\ overwritten \subseteq Profiles \cup Users /\ doubled \subseteq Moving!Place /\ strays \subseteq Profiles
    /\ enrollment \in [Profiles -> Seq(Moving!Place)]
    /\ helpers \subseteq Moving!Moderator
    /\ drawn \in [Users -> 0..CodesPerHour]
    /\ raced \subseteq Profiles

LEMMA TaskKinds ==
  ASSUME NEW t \in Tasks
  PROVE  /\ t.step \in {"generate", "edit"} => t \in SavingTask
         /\ t.step = "account" => t \in AccountTask
         /\ t.step = "claim" => t \in ClaimTask
         /\ t.step = "submit" => t \in SubmitTask
         /\ t.step = "approve" => t \in ApproveTask
         /\ t.step = "promote" => t \in PromoteTask
         /\ t.step = "revert" => t \in RevertTask
         /\ t.step = "assign" => t \in AssignTask
BY DEF Tasks, SavingTask, AccountTask, ClaimTask, SubmitTask, ApproveTask, PromoteTask, RevertTask, AssignTask

LEMMA TaskTyped ==
  ASSUME EnrolmentTyped, NEW w \in Workers
  PROVE  /\ worker[w].step \in {"generate", "edit"} => worker[w] \in SavingTask
         /\ worker[w].step = "account" => worker[w] \in AccountTask
         /\ worker[w].step = "claim" => worker[w] \in ClaimTask
         /\ worker[w].step = "submit" => worker[w] \in SubmitTask
         /\ worker[w].step = "approve" => worker[w] \in ApproveTask
         /\ worker[w].step = "promote" => worker[w] \in PromoteTask
         /\ worker[w].step = "revert" => worker[w] \in RevertTask
         /\ worker[w].step = "assign" => worker[w] \in AssignTask
<1>1. worker[w] \in Tasks
  BY DEF EnrolmentTyped
<1> QED
  BY <1>1, TaskKinds

LEMMA TaskSet ==
  ASSUME EnrolmentTyped, NEW w \in Workers, NEW t \in Tasks, worker' = [worker EXCEPT ![w] = t]
  PROVE  worker' \in [Workers -> Tasks] /\ worker'[w] = t /\ \A v \in Workers : v # w => worker'[v] = worker[v]
BY DEF EnrolmentTyped

LEMMA TaskOver ==
  ASSUME EnrolmentTyped, NEW w \in Workers, worker' = [worker EXCEPT ![w] = Moving!Idle]
  PROVE  /\ worker' \in [Workers -> Tasks] /\ worker'[w].step = "idle"
         /\ \A v \in Workers : v # w => worker'[v] = worker[v]
<1>1. Moving!Idle \in Tasks /\ Moving!Idle.step = "idle"
  BY DEF Tasks, Moving!Idle
<1> QED
  BY <1>1, TaskSet

LEMMA NewRowTyped ==
  ASSUME EnrolmentConstants
  PROVE  Moving!FreeRow \in Moving!Row
<1>1. (CHOOSE p \in Moving!Place : TRUE) \in Moving!Place
  <2>1. PICK b \in Batches, r \in Rolls : TRUE
    BY DEF EnrolmentConstants
  <2>2. <<b, r>> \in Moving!Place
    BY DEF Moving!Place
  <2> QED
    BY <2>2
<1> QED
  BY <1>1 DEF Moving!FreeRow, Moving!Row

\* No account has two profiles, and a profile that has an owner is a claimed one.
OwnersHold ==
    /\ \A s \in Profiles : /\ profile[s].claimed <=> profile[s].owner # None
                           /\ profile[s].owner # None => KindOf[s] = "student" /\ profile[s].state # "free"
    /\ \A s, t \in Profiles : profile[s].owner = profile[t].owner /\ profile[s].owner # None => s = t

\* What a request relies on: what it has locked, and that an owner stays.
TaskHolds(t) ==
    /\ t.step = "generate" =>
          t.row.owner = t.was.owner /\ t.row.claimed = t.was.claimed /\ t.row.state = t.was.state
    /\ t.step = "approve" =>
          /\ application[t.application].status = "pending"
          /\ t.match # None => /\ KindOf[t.match] = "student" /\ profile[t.match].state = "live"
                               /\ profile[t.match].owner = None
                               /\ profile[t.match].place = application[t.application].place
    /\ t.step = "promote" /\ t.was.owner # None => profile[t.profile].owner = t.was.owner
    /\ t.step = "assign" => profile[t.profile].owner = t.user
Distinct(t, r) ==
    t.step = "approve" /\ r.step = "approve" => t.application # r.application /\ (t.match # None => t.match # r.match)
TasksHold ==
    /\ \A w \in Workers : TaskHolds(worker[w])
    /\ \A v, w \in Workers : v # w => Distinct(worker[v], worker[w])

\* A moderator owns a profile.
HelpersOwn == \A m \in helpers : \E s \in Profiles : profile[s].owner = m.user

\* Where the account of a student is, and what it moderates.
MoveHolds(s) ==
    LET u == profile[s].owner
        batch == profile[s].place[1]
    IN  /\ u # None /\ Moving!Live(s) /\ person[u].live => person[u].department = DepartmentOf[batch]
        /\ \A m \in helpers : m.user = u /\ m.scope = "batch" => m.id = batch
MovesHold == \A s \in Profiles \ raced : MoveHolds(s)

EnrolmentInv == EnrolmentTyped /\ (overwritten = {} => OwnersHold /\ TasksHold /\ HelpersOwn /\ MovesHold)

\* The places of a student, the present one last; who was never there has none.
Apart(places, present) ==
    /\ \A i \in 1..(Len(places) - 1) : places[i][1] # places[i + 1][1]
    /\ Len(places) > 0 => places[Len(places)][1] # present
PastHolds ==
    /\ \A s \in Profiles : profile[s].state = "free" => enrollment[s] = <<>>
    /\ \A s \in Profiles \ (raced \cup overwritten) : Apart(enrollment[s], profile[s].place[1])
    /\ \A w \in Workers : worker[w].step = "promote" => profile[worker[w].profile].state # "free"

\* A request that is being approved is there.
Asked == \A w \in Workers : worker[w].step = "approve" => application[worker[w].application] \in Moving!Application

\* A request takes up a task that holds, and nothing else changes.
LEMMA TaskTaken ==
  ASSUME EnrolmentInv, NEW w \in Workers, NEW t \in Tasks, worker' = [worker EXCEPT ![w] = t],
         UNCHANGED <<person, profile, application, overwritten, doubled, strays, enrollment, helpers, raced>>,
         drawn' \in [Users -> 0..CodesPerHour],
         overwritten = {} => TaskHolds(t) /\ \A v \in Workers : v # w => Distinct(t, worker[v]) /\ Distinct(worker[v], t)
  PROVE  EnrolmentInv'
<1>1. worker' \in [Workers -> Tasks] /\ worker'[w] = t /\ \A v \in Workers : v # w => worker'[v] = worker[v]
  BY TaskSet DEF EnrolmentInv
<1>2. EnrolmentTyped'
  BY <1>1 DEF EnrolmentInv, EnrolmentTyped
<1>3. ASSUME overwritten = {} PROVE (OwnersHold /\ TasksHold /\ HelpersOwn /\ MovesHold)'
  <2>1. OwnersHold' /\ HelpersOwn' /\ MovesHold'
    BY <1>3 DEF EnrolmentInv, OwnersHold, HelpersOwn, MovesHold, MoveHolds, Moving!Live
  <2>2. \A v \in Workers : TaskHolds(worker'[v])
    BY <1>1, <1>3 DEF EnrolmentInv, TasksHold
  <2>3. \A v \in Workers : TaskHolds(worker[v])'
    BY <2>2 DEF TaskHolds
  <2>4. \A u, v \in Workers : u # v => Distinct(worker'[u], worker'[v])
    BY <1>1, <1>3 DEF EnrolmentInv, TasksHold
  <2>5. TasksHold'
    BY <2>3, <2>4 DEF TasksHold, Distinct
  <2> QED
    BY <2>1, <2>5
<1> QED
  BY <1>2, <1>3 DEF EnrolmentInv

LEMMA StartsKeep ==
  ASSUME EnrolmentConstants, EnrolmentInv, NEW w \in Workers,
         \/ \E s \in Profiles : \E form \in Rows \cup {profile[s]} : Moving!StartEdit(w, s, form) /\ UNCHANGED drawn
         \/ \E u \in Users : \E form \in Accounts \cup {person[u]} : Moving!StartEditUser(w, u, form) /\ UNCHANGED drawn
         \/ \E s \in Profiles : Moving!StartGenerate(w, s) /\ drawn' \in [Users -> 0..CodesPerHour]
         \/ \E u \in Users, p \in Moving!Place : Moving!StartSubmit(w, u, p) /\ UNCHANGED drawn
         \/ \E u \in Users, c \in Codes : Moving!StartClaim(w, u, c, "student") /\ UNCHANGED drawn
         \/ Moving!Drop(w) /\ UNCHANGED drawn,
         UNCHANGED <<enrollment, helpers, raced>>
  PROVE  EnrolmentInv'
<1>0. drawn \in [Users -> 0..CodesPerHour] /\ Moving!Idle \in Tasks /\ Moving!Idle.step = "idle"
  BY DEF EnrolmentInv, EnrolmentTyped, Moving!Idle, Tasks
<1>1. ASSUME NEW s \in Profiles, NEW form \in Rows \cup {profile[s]}, Moving!StartEdit(w, s, form), UNCHANGED drawn
      PROVE  EnrolmentInv'
  <2> DEFINE t == [step |-> "edit", profile |-> s, was |-> profile[s], row |-> form]
  <2>1. worker' = [worker EXCEPT ![w] = t] /\ profile[s].state = "live"
        /\ UNCHANGED <<person, profile, application, overwritten, doubled, strays>>
    BY <1>1 DEF Moving!StartEdit, Moving!Live
  <2>2. t \in SavingTask /\ t.step = "edit"
    <3>1. profile[s] \in Moving!Row /\ form \in Moving!Row /\ form.state # "free"
      BY <2>1 DEF EnrolmentConstants, EnrolmentInv, EnrolmentTyped
    <3> QED
      BY <3>1 DEF SavingTask
  <2> HIDE DEF t
  <2>3. t \in Tasks /\ TaskHolds(t) /\ \A v \in Workers : Distinct(t, worker[v]) /\ Distinct(worker[v], t)
    BY <2>2 DEF Tasks, TaskHolds, Distinct
  <2> QED
    BY <1>0, <1>1, <2>1, <2>3, TaskTaken
<1>2. ASSUME NEW s \in Profiles, Moving!StartGenerate(w, s), drawn' \in [Users -> 0..CodesPerHour]
      PROVE  EnrolmentInv'
  <2>1. PICK code \in Moving!Drawn(s) :
            worker' = [worker EXCEPT ![w] = [step |-> "generate", profile |-> s, was |-> profile[s],
                                             row |-> [profile[s] EXCEPT !.code = code]]]
    BY <1>2 DEF Moving!StartGenerate
  <2>2. profile[s].state = "live" /\ UNCHANGED <<person, profile, application, overwritten, doubled, strays>>
    BY <1>2 DEF Moving!StartGenerate, Moving!Unclaimed, Moving!Live
  <2> DEFINE row == [profile[s] EXCEPT !.code = code]
             t == [step |-> "generate", profile |-> s, was |-> profile[s], row |-> row]
  <2>3. code \in Codes
    BY DEF Moving!Drawn
  <2>4. profile[s] \in Moving!Row
    BY DEF EnrolmentInv, EnrolmentTyped
  <2>5. /\ row \in Moving!Row /\ row.owner = profile[s].owner /\ row.claimed = profile[s].claimed
        /\ row.state = profile[s].state /\ row.place = profile[s].place
    BY <2>3, <2>4 DEF Moving!Row
  <2>6. worker' = [worker EXCEPT ![w] = t]
    BY <2>1
  <2> HIDE DEF row
  <2>7. t \in SavingTask /\ t.step = "generate" /\ t.row = row /\ t.was = profile[s]
    BY <2>2, <2>4, <2>5 DEF SavingTask
  <2> HIDE DEF t
  <2>8. t \in Tasks /\ TaskHolds(t) /\ \A v \in Workers : Distinct(t, worker[v]) /\ Distinct(worker[v], t)
    BY <2>5, <2>7 DEF Tasks, TaskHolds, Distinct
  <2> QED
    BY <1>2, <2>2, <2>6, <2>8, TaskTaken
<1>3. ASSUME NEW u \in Users, NEW p \in Moving!Place, Moving!StartSubmit(w, u, p), UNCHANGED drawn
      PROVE  EnrolmentInv'
  <2> DEFINE t == [step |-> "submit", user |-> u, place |-> p]
  <2>1. worker' = [worker EXCEPT ![w] = t] /\ UNCHANGED <<person, profile, application, overwritten, doubled, strays>>
    BY <1>3 DEF Moving!StartSubmit
  <2>2. t \in Tasks /\ t.step = "submit"
    BY DEF SubmitTask, Tasks
  <2> HIDE DEF t
  <2>3. TaskHolds(t) /\ \A v \in Workers : Distinct(t, worker[v]) /\ Distinct(worker[v], t)
    BY <2>2 DEF TaskHolds, Distinct
  <2> QED
    BY <1>0, <1>3, <2>1, <2>2, <2>3, TaskTaken
<1>4. ASSUME NEW u \in Users, NEW c \in Codes, Moving!StartClaim(w, u, c, "student"), UNCHANGED drawn
      PROVE  EnrolmentInv'
  <2> DEFINE t == [step |-> "claim", user |-> u, code |-> c, kind |-> "student"]
  <2>1. worker' = [worker EXCEPT ![w] = t] /\ UNCHANGED <<person, profile, application, overwritten, doubled, strays>>
    BY <1>4 DEF Moving!StartClaim
  <2>2. t \in Tasks /\ t.step = "claim"
    BY DEF ClaimTask, Tasks
  <2> HIDE DEF t
  <2>3. TaskHolds(t) /\ \A v \in Workers : Distinct(t, worker[v]) /\ Distinct(worker[v], t)
    BY <2>2 DEF TaskHolds, Distinct
  <2> QED
    BY <1>0, <1>4, <2>1, <2>2, <2>3, TaskTaken
<1>5. ASSUME Moving!Drop(w), UNCHANGED drawn
      PROVE  EnrolmentInv'
  <2>1. worker' = [worker EXCEPT ![w] = Moving!Idle] /\ UNCHANGED <<person, profile, application, overwritten, doubled, strays>>
    BY <1>5 DEF Moving!Drop
  <2>2. TaskHolds(Moving!Idle) /\ \A v \in Workers : Distinct(Moving!Idle, worker[v]) /\ Distinct(worker[v], Moving!Idle)
    BY <1>0 DEF TaskHolds, Distinct
  <2> QED
    BY <1>0, <1>5, <2>1, <2>2, TaskTaken
<1>6. ASSUME NEW u \in Users, NEW form \in Accounts \cup {person[u]}, Moving!StartEditUser(w, u, form), UNCHANGED drawn
      PROVE  EnrolmentInv'
  <2> DEFINE t == [step |-> "account", user |-> u, was |-> person[u], row |-> form]
  <2>1. worker' = [worker EXCEPT ![w] = t] /\ UNCHANGED <<person, profile, application, overwritten, doubled, strays>>
    BY <1>6 DEF Moving!StartEditUser
  <2>2. person[u] \in Moving!Account /\ form \in Moving!Account
    BY DEF EnrolmentConstants, EnrolmentInv, EnrolmentTyped
  <2>3. t \in Tasks /\ t.step = "account"
    BY <2>2 DEF AccountTask, Tasks
  <2> HIDE DEF t
  <2>4. TaskHolds(t) /\ \A v \in Workers : Distinct(t, worker[v]) /\ Distinct(worker[v], t)
    BY <2>3 DEF TaskHolds, Distinct
  <2> QED
    BY <1>0, <1>6, <2>1, <2>3, <2>4, TaskTaken
<1> QED
  BY <1>1, <1>2, <1>3, <1>4, <1>5, <1>6

LEMMA StartApproveKeeps ==
  ASSUME EnrolmentConstants, EnrolmentInv, NEW w \in Workers, NEW q \in Applications, Moving!StartApprove(w, q),
         UNCHANGED <<enrollment, helpers, drawn, raced>>
  PROVE  EnrolmentInv'
<1> DEFINE S == Moving!InPlace(application[q].place)
<1>1. PICK s \in IF S = {} THEN {None} ELSE S \ Moving!Locked :
          /\ s # None => Moving!Available(s)
          /\ worker' = [worker EXCEPT ![w] = [step |-> "approve", application |-> q, match |-> s]]
  BY DEF Moving!StartApprove
<1> DEFINE t == [step |-> "approve", application |-> q, match |-> s]
<1>2. UNCHANGED <<person, profile, application, overwritten, doubled, strays>> /\ q \in Moving!Pending \ Moving!Approving
  BY DEF Moving!StartApprove
<1>3. s \in Profiles \cup {None}
  BY DEF Moving!InPlace
<1>4. t \in ApproveTask /\ t.step = "approve" /\ t.application = q /\ t.match = s
  BY <1>3 DEF ApproveTask
<1>5. worker' = [worker EXCEPT ![w] = t]
  BY <1>1
<1> HIDE DEF t
<1>6. t \in Tasks
  BY <1>4 DEF Tasks
<1>7. TaskHolds(t)
  <2>1. application[q].status = "pending"
    BY <1>2 DEF Moving!Pending
  <2>2. s # None => /\ KindOf[s] = "student" /\ profile[s].state = "live" /\ profile[s].owner = None
                    /\ profile[s].place = application[q].place
    BY <1>1 DEF Moving!InPlace, Moving!Live, Moving!Available
  <2> QED
    BY <1>4, <2>1, <2>2 DEF TaskHolds
<1>8. \A v \in Workers : Distinct(t, worker[v]) /\ Distinct(worker[v], t)
  <2>1. \A v \in Workers : worker[v].step = "approve" => worker[v].application # q
    BY <1>2 DEF Moving!Approving
  <2>2. \A v \in Workers : worker[v].step = "approve" /\ s # None => worker[v].match # s
    BY <1>1 DEF Moving!Locked
  <2> QED
    BY <1>4, <2>1, <2>2 DEF Distinct
<1>9. drawn' \in [Users -> 0..CodesPerHour]
  BY DEF EnrolmentInv, EnrolmentTyped
<1> QED
  BY <1>2, <1>5, <1>6, <1>7, <1>8, <1>9, TaskTaken

LEMMA StartMovesKeep ==
  ASSUME EnrolmentConstants, EnrolmentInv, NEW w \in Workers,
         \/ \E s \in Profiles : Moving!StartRevert(w, s) \/ \E b \in Batches : Moving!StartPromote(w, s, b)
         \/ \E u \in Users, scope \in Moving!Scopes : Moving!StartAssign(w, u, scope)
  PROVE  EnrolmentInv'
<1>0. drawn \in [Users -> 0..CodesPerHour]
  BY DEF EnrolmentInv, EnrolmentTyped
<1>1. ASSUME NEW s \in Profiles, Moving!StartRevert(w, s)
      PROVE  EnrolmentInv'
  <2> DEFINE t == [step |-> "revert", profile |-> s, was |-> profile[s], latest |-> enrollment[s]]
  <2>1. worker' = [worker EXCEPT ![w] = t] /\ Moving!Live(s) /\ enrollment[s] # <<>>
        /\ UNCHANGED <<person, profile, application, overwritten, doubled, strays, enrollment, helpers, raced, drawn>>
    BY <1>1 DEF Moving!StartRevert, Moving!othersUnchanged
  <2>2. t \in RevertTask /\ t.step = "revert" /\ t.profile = s
    BY <2>1 DEF RevertTask, EnrolmentInv, EnrolmentTyped
  <2> HIDE DEF t
  <2>3. t \in Tasks /\ TaskHolds(t) /\ \A v \in Workers : Distinct(t, worker[v]) /\ Distinct(worker[v], t)
    BY <2>1, <2>2 DEF Tasks, TaskHolds, Distinct, Moving!Live
  <2> QED
    BY <1>0, <2>1, <2>3, TaskTaken
<1>2. ASSUME NEW s \in Profiles, NEW b \in Batches, Moving!StartPromote(w, s, b)
      PROVE  EnrolmentInv'
  <2> DEFINE t == [step |-> "promote", profile |-> s, batch |-> b, was |-> profile[s]]
  <2>1. worker' = [worker EXCEPT ![w] = t] /\ Moving!Live(s) /\ profile[s].place[1] # b
        /\ UNCHANGED <<person, profile, application, overwritten, doubled, strays, enrollment, helpers, raced, drawn>>
    BY <1>2 DEF Moving!StartPromote, Moving!othersUnchanged
  <2>2. t \in PromoteTask /\ t.step = "promote" /\ t.profile = s /\ t.was = profile[s] /\ t.batch = b
    BY <2>1 DEF PromoteTask, EnrolmentInv, EnrolmentTyped, Moving!Live
  <2> HIDE DEF t
  <2>3. t \in Tasks /\ TaskHolds(t) /\ \A v \in Workers : Distinct(t, worker[v]) /\ Distinct(worker[v], t)
    BY <2>1, <2>2 DEF Tasks, TaskHolds, Distinct, Moving!Live
  <2> QED
    BY <1>0, <2>1, <2>3, TaskTaken
<1>3. ASSUME NEW u \in Users, NEW scope \in Moving!Scopes, Moving!StartAssign(w, u, scope)
      PROVE  EnrolmentInv'
  <2>1. PICK s \in Moving!Linked(u, "student") :
            worker' = [worker EXCEPT ![w] = [step |-> "assign", user |-> u, profile |-> s, scope |-> scope,
                                             id |-> Moving!Target(profile[s].place[1])[scope]]]
    BY <1>3 DEF Moving!StartAssign
  <2>2. UNCHANGED <<person, profile, application, overwritten, doubled, strays, enrollment, helpers, raced, drawn>>
    BY <1>3 DEF Moving!StartAssign, Moving!othersUnchanged
  <2> DEFINE i == Moving!Target(profile[s].place[1])[scope]
             t == [step |-> "assign", user |-> u, profile |-> s, scope |-> scope, id |-> i]
  <2>3. s \in Profiles /\ profile[s].owner = u
    BY DEF Moving!Linked
  <2>4. i \in Moving!ScopeIds
    <3>1. profile[s].place[1] \in Batches
      BY <2>3 DEF EnrolmentInv, EnrolmentTyped, Moving!Row, Moving!Place
    <3> QED
      BY <3>1 DEF Moving!Target, Moving!Scopes, Moving!ScopeIds
  <2>5. worker' = [worker EXCEPT ![w] = t]
    BY <2>1
  <2> HIDE DEF i
  <2>6. t \in AssignTask /\ t.step = "assign" /\ t.profile = s /\ t.user = u
    BY <2>3, <2>4 DEF AssignTask
  <2> HIDE DEF t
  <2>7. t \in Tasks /\ TaskHolds(t) /\ \A v \in Workers : Distinct(t, worker[v]) /\ Distinct(worker[v], t)
    BY <2>3, <2>6 DEF Tasks, TaskHolds, Distinct
  <2> QED
    BY <1>0, <2>2, <2>5, <2>7, TaskTaken
<1> QED
  BY <1>1, <1>2, <1>3

\* Only requests with documents change, and none that is being approved.
LEMMA RequestsKeep ==
  ASSUME EnrolmentInv, UNCHANGED <<person, profile, overwritten, doubled, strays, enrollment, helpers, drawn, raced>>,
         application' \in [Applications -> Moving!Application \cup {Moving!NoApplication}], worker' \in [Workers -> Tasks],
         \A v \in Workers : worker'[v] = worker[v] \/ worker'[v].step = "idle",
         \A v \in Workers : worker[v].step = "approve" => application'[worker[v].application] = application[worker[v].application]
  PROVE  EnrolmentInv'
<1>1. EnrolmentTyped'
  BY DEF EnrolmentInv, EnrolmentTyped
<1>2. ASSUME overwritten = {} PROVE (OwnersHold /\ TasksHold /\ HelpersOwn /\ MovesHold)'
  <2>1. OwnersHold' /\ HelpersOwn' /\ MovesHold'
    BY <1>2 DEF EnrolmentInv, OwnersHold, HelpersOwn, MovesHold, MoveHolds, Moving!Live
  <2>2. ASSUME NEW v \in Workers PROVE TaskHolds(worker[v])'
    <3>1. TaskHolds(worker[v])
      BY <1>2 DEF EnrolmentInv, TasksHold
    <3>2. worker'[v] = worker[v] \/ worker'[v].step = "idle"
      OBVIOUS
    <3> QED
      BY <3>1, <3>2 DEF TaskHolds
  <2>3. ASSUME NEW u \in Workers, NEW v \in Workers, u # v PROVE Distinct(worker'[u], worker'[v])
    <3>1. Distinct(worker[u], worker[v])
      BY <1>2, <2>3 DEF EnrolmentInv, TasksHold
    <3> QED
      BY <3>1 DEF Distinct
  <2>4. TasksHold'
    BY <2>2, <2>3 DEF TasksHold, Distinct
  <2> QED
    BY <2>1, <2>4
<1> QED
  BY <1>1, <1>2 DEF EnrolmentInv

LEMMA SubmitKeeps ==
  ASSUME EnrolmentInv, NEW w \in Workers, NEW q \in Applications, Moving!Submit(w, q),
         UNCHANGED <<enrollment, helpers, drawn, raced>>
  PROVE  EnrolmentInv'
<1> DEFINE a == [status |-> "pending", user |-> worker[w].user, place |-> worker[w].place, escalated |-> FALSE, linked |-> None]
<1>1. /\ worker[w].step = "submit" /\ application[q] = Moving!NoApplication
      /\ application' = [application EXCEPT ![q] = a] /\ worker' = [worker EXCEPT ![w] = Moving!Idle]
      /\ UNCHANGED <<person, profile, overwritten, doubled, strays>>
  BY DEF Moving!Submit
<1>2. worker[w] \in SubmitTask
  BY <1>1, TaskTyped DEF EnrolmentInv
<1>3. a \in Moving!Application
  BY <1>2 DEF SubmitTask, Moving!Application
<1> HIDE DEF a
<1>4. application' \in [Applications -> Moving!Application \cup {Moving!NoApplication}]
      /\ \A r \in Applications : r # q => application'[r] = application[r]
  BY <1>1, <1>3 DEF EnrolmentInv, EnrolmentTyped
<1>5. worker' \in [Workers -> Tasks] /\ \A v \in Workers : worker'[v] = worker[v] \/ worker'[v].step = "idle"
  BY <1>1, TaskOver DEF EnrolmentInv
<1>6. CASE overwritten = {}
  <2>1. ASSUME NEW v \in Workers, worker[v].step = "approve"
        PROVE  application'[worker[v].application] = application[worker[v].application]
    <3>1. application[worker[v].application].status = "pending"
      BY <1>6, <2>1 DEF EnrolmentInv, TasksHold, TaskHolds
    <3>2. worker[v].application \in Applications
      BY <2>1, TaskTyped DEF EnrolmentInv, ApproveTask
    <3> QED
      BY <1>1, <1>4, <3>1, <3>2 DEF Moving!NoApplication
  <2> QED
    BY <1>1, <1>4, <1>5, <2>1, RequestsKeep
<1>7. CASE overwritten # {}
  BY <1>1, <1>4, <1>5, <1>7 DEF EnrolmentInv, EnrolmentTyped
<1> QED
  BY <1>6, <1>7

LEMMA ReviewsKeep ==
  ASSUME EnrolmentInv, NEW q \in Applications, Moving!Escalate(q) \/ Moving!Reject(q),
         UNCHANGED <<enrollment, helpers, drawn, raced>>
  PROVE  EnrolmentInv'
<1>1. /\ q \in Moving!Pending \ Moving!Approving
      /\ UNCHANGED <<person, profile, worker, overwritten, doubled, strays>>
      /\ \/ application' = [application EXCEPT ![q] = [application[q] EXCEPT !.escalated = TRUE]]
         \/ application' = [application EXCEPT ![q] = [application[q] EXCEPT !.status = "rejected", !.escalated = FALSE]]
  BY DEF Moving!Escalate, Moving!Reject
<1>2. application[q] \in Moving!Application
  BY <1>1 DEF EnrolmentInv, EnrolmentTyped, Moving!Pending, Moving!NoApplication
<1>3. /\ [application[q] EXCEPT !.escalated = TRUE] \in Moving!Application
      /\ [application[q] EXCEPT !.status = "rejected", !.escalated = FALSE] \in Moving!Application
  BY <1>2 DEF Moving!Application
<1>4. application' \in [Applications -> Moving!Application \cup {Moving!NoApplication}]
      /\ \A r \in Applications : r # q => application'[r] = application[r]
  <2> HIDE DEF Moving!Application
  <2> QED
    BY <1>1, <1>3 DEF EnrolmentInv, EnrolmentTyped
<1>5. \A v \in Workers : worker[v].step = "approve" => application'[worker[v].application] = application[worker[v].application]
  <2>1. \A v \in Workers : worker[v].step = "approve" => worker[v].application # q
    BY <1>1 DEF Moving!Approving
  <2>2. \A v \in Workers : worker[v].step = "approve" => worker[v].application \in Applications
    BY TaskTyped DEF EnrolmentInv, ApproveTask
  <2> QED
    BY <1>4, <2>1, <2>2
<1> QED
  BY <1>1, <1>4, <1>5, RequestsKeep DEF EnrolmentInv, EnrolmentTyped

\* No profile that has an owner changes it, and a request that is
\* being approved keeps what it has locked.
LEMMA TasksKept ==
  ASSUME EnrolmentConstants, EnrolmentInv, overwritten = {},
         \A v \in Workers : worker'[v] = worker[v] \/ worker'[v].step = "idle",
         \A s \in Profiles : profile[s].owner # None => profile'[s].owner = profile[s].owner,
         \A v \in Workers : worker'[v].step = "approve" =>
            /\ application'[worker[v].application].status = application[worker[v].application].status
            /\ application'[worker[v].application].place = application[worker[v].application].place
            /\ worker[v].match # None =>
                  /\ profile'[worker[v].match].state = profile[worker[v].match].state
                  /\ profile'[worker[v].match].owner = profile[worker[v].match].owner
                  /\ profile'[worker[v].match].place = profile[worker[v].match].place
  PROVE  TasksHold'
<1>1. ASSUME NEW v \in Workers PROVE TaskHolds(worker[v])'
  <2>1. TaskHolds(worker[v])
    BY DEF EnrolmentInv, TasksHold
  <2>2. worker'[v] = worker[v] \/ worker'[v].step = "idle"
    OBVIOUS
  <2>3. CASE worker'[v].step = "idle"
    BY <2>3 DEF TaskHolds
  <2>4. CASE worker'[v] = worker[v]
    <3>1. worker[v].step = "promote" => worker[v].profile \in Profiles
      BY TaskTyped DEF EnrolmentInv, PromoteTask
    <3>2. worker[v].step = "assign" => worker[v].profile \in Profiles /\ worker[v].user \in Users
      BY TaskTyped DEF EnrolmentInv, AssignTask
    <3>3. worker[v].step = "promote" /\ worker[v].was.owner # None => profile'[worker[v].profile].owner = worker[v].was.owner
      BY <2>1, <3>1 DEF TaskHolds
    <3>4. worker[v].step = "assign" => profile'[worker[v].profile].owner = worker[v].user
      BY <2>1, <3>2 DEF TaskHolds, EnrolmentConstants
    <3>5. worker[v].step = "approve" =>
            /\ application'[worker[v].application].status = "pending"
            /\ worker[v].match # None =>
                  /\ KindOf[worker[v].match] = "student" /\ profile'[worker[v].match].state = "live"
                  /\ profile'[worker[v].match].owner = None
                  /\ profile'[worker[v].match].place = application'[worker[v].application].place
      BY <2>1, <2>4 DEF TaskHolds
    <3> QED
      BY <2>1, <2>4, <3>3, <3>4, <3>5 DEF TaskHolds
  <2> QED
    BY <2>2, <2>3, <2>4
<1>2. ASSUME NEW u \in Workers, NEW v \in Workers, u # v PROVE Distinct(worker'[u], worker'[v])
  <2>1. Distinct(worker[u], worker[v])
    BY <1>2 DEF EnrolmentInv, TasksHold
  <2> QED
    BY <2>1 DEF Distinct
<1> QED
  BY <1>1, <1>2 DEF TasksHold, Distinct

LEMMA ExpiryKeeps ==
  ASSUME EnrolmentConstants, EnrolmentInv, NEW u \in Users, Moving!OldestExpires(u)
  PROVE  EnrolmentInv'
<1>1. drawn[u] > 0 /\ drawn' = [drawn EXCEPT ![u] = drawn[u] - 1] /\ drawn[u] \in 0..CodesPerHour
      /\ UNCHANGED <<person, profile, application, worker, overwritten, doubled, strays, enrollment, helpers, raced>>
  BY DEF Moving!OldestExpires, Moving!profileVars, EnrolmentInv, EnrolmentTyped
<1>2. drawn[u] - 1 \in 0..CodesPerHour
  BY <1>1 DEF EnrolmentConstants
<1>3. drawn' \in [Users -> 0..CodesPerHour]
  BY <1>1, <1>2 DEF EnrolmentInv, EnrolmentTyped
<1>4. UNCHANGED <<OwnersHold, TasksHold, HelpersOwn, MovesHold>>
  BY <1>1 DEF OwnersHold, TasksHold, TaskHolds, Distinct, HelpersOwn, MovesHold, MoveHolds, Moving!Live
<1> QED
  BY <1>1, <1>3, <1>4 DEF EnrolmentInv, EnrolmentTyped

\* A row is saved over the one that was read, in its code alone; or over
\* another, or as a form has it.
LEMMA SaveRowKeeps ==
  ASSUME EnrolmentConstants, EnrolmentInv, NEW w \in Workers, Moving!SaveRow(w),
         UNCHANGED <<enrollment, helpers, drawn, raced>>
  PROVE  EnrolmentInv'
<1> DEFINE r == worker[w]
           s == r.profile
<1>1. /\ r.step \in {"generate", "edit"} /\ profile' = [profile EXCEPT ![s] = r.row]
      /\ overwritten' = IF profile[s] = r.was /\ (r.step = "generate" \/ r.row = r.was)
                        THEN overwritten ELSE overwritten \cup {s}
      /\ worker' = [worker EXCEPT ![w] = Moving!Idle]
      /\ UNCHANGED <<person, application, doubled, strays>>
  BY DEF Moving!SaveRow, Moving!Saved
<1>2. r \in SavingTask
  BY <1>1, TaskTyped DEF EnrolmentInv
<1>3. s \in Profiles /\ r.row \in Moving!Row
  BY <1>2 DEF SavingTask
<1>4. profile' \in [Profiles -> Moving!Row] /\ profile'[s] = r.row /\ \A t \in Profiles : t # s => profile'[t] = profile[t]
  <2> HIDE DEF s
  <2> QED
    BY <1>1, <1>3 DEF EnrolmentInv, EnrolmentTyped
<1>5. worker' \in [Workers -> Tasks] /\ \A v \in Workers : worker'[v] = worker[v] \/ worker'[v].step = "idle"
  BY <1>1, TaskOver DEF EnrolmentInv
<1>6. EnrolmentTyped'
  BY <1>1, <1>3, <1>4, <1>5 DEF EnrolmentInv, EnrolmentTyped
<1>7. ASSUME overwritten' = {} PROVE (OwnersHold /\ TasksHold /\ HelpersOwn /\ MovesHold)'
  <2>1. overwritten = {} /\ profile[s] = r.was /\ (r.step = "generate" \/ r.row = r.was)
    BY <1>1, <1>7
  <2>2. TaskHolds(r)
    BY <2>1 DEF EnrolmentInv, TasksHold
  <2>3. ASSUME NEW t \in Profiles
        PROVE  /\ profile'[t].owner = profile[t].owner /\ (profile'[t].claimed <=> profile[t].claimed)
               /\ profile'[t].state = profile[t].state /\ profile'[t].place = profile[t].place
    <3>1. CASE t = s
      BY <1>1, <1>2, <1>4, <2>1, <2>2, <3>1 DEF TaskHolds, SavingTask
    <3>2. CASE t # s
      BY <1>4, <3>2
    <3> QED
      BY <3>1, <3>2
  <2> HIDE DEF r, s
  <2>4. OwnersHold'
    BY <2>1, <2>3 DEF EnrolmentInv, OwnersHold
  <2>5. HelpersOwn'
    BY <2>1, <2>3 DEF EnrolmentInv, HelpersOwn
  <2>6. MovesHold'
    BY <1>1, <2>1, <2>3 DEF EnrolmentInv, MovesHold, MoveHolds, Moving!Live
  <2>7. TasksHold'
    <3>1. \A v \in Workers : worker'[v].step = "approve" => worker[v] \in ApproveTask
      BY <1>5, TaskTyped DEF EnrolmentInv
    <3>2. \A v \in Workers : worker'[v].step = "approve" => worker[v].match \in Profiles \cup {None}
      BY <3>1 DEF ApproveTask
    <3> QED
      BY <1>1, <1>5, <2>1, <2>3, <3>2, TasksKept
  <2> QED
    BY <2>4, <2>5, <2>6, <2>7
<1> QED
  BY <1>6, <1>7 DEF EnrolmentInv

\* An account is saved as it was; or over a newer row, or as a form has it.
LEMMA SaveUserKeeps ==
  ASSUME EnrolmentConstants, EnrolmentInv, NEW w \in Workers, Moving!SaveUser(w),
         UNCHANGED <<enrollment, helpers, drawn, raced>>
  PROVE  EnrolmentInv'
<1> DEFINE r == worker[w]
           u == r.user
           new == [r.row EXCEPT !.old = person[u].old]
<1>1. /\ r.step = "account" /\ person' = [person EXCEPT ![u] = new]
      /\ overwritten' = IF [person[u] EXCEPT !.old = r.was.old] = r.was /\ r.row = r.was
                        THEN overwritten ELSE overwritten \cup {u}
      /\ worker' = [worker EXCEPT ![w] = Moving!Idle]
      /\ UNCHANGED <<profile, application, doubled, strays>>
  BY DEF Moving!SaveUser
<1>2. u \in Users /\ r.was \in Moving!Account /\ r.row \in Moving!Account
  <2>1. r \in AccountTask
    BY <1>1, TaskTyped DEF EnrolmentInv
  <2> QED
    BY <2>1 DEF AccountTask
<1>3. person[u] \in Moving!Account
  BY <1>2 DEF EnrolmentInv, EnrolmentTyped
<1>4. new \in Moving!Account /\ new.live = r.row.live /\ new.department = r.row.department
  BY <1>2, <1>3 DEF Moving!Account
<1>5. [person[u] EXCEPT !.old = r.was.old] = r.was => r.was.live = person[u].live /\ r.was.department = person[u].department
  BY <1>3 DEF Moving!Account
<1>6. worker' \in [Workers -> Tasks] /\ \A v \in Workers : worker'[v] = worker[v] \/ worker'[v].step = "idle"
  BY <1>1, TaskOver DEF EnrolmentInv
<1> HIDE DEF new
<1>7. person' \in [Users -> Moving!Account] /\ person'[u] = new /\ \A v \in Users : v # u => person'[v] = person[v]
  <2> HIDE DEF u
  <2> QED
    BY <1>1, <1>2, <1>4 DEF EnrolmentInv, EnrolmentTyped
<1>8. EnrolmentTyped'
  BY <1>1, <1>2, <1>6, <1>7 DEF EnrolmentInv, EnrolmentTyped
<1>9. ASSUME overwritten' = {} PROVE (OwnersHold /\ TasksHold /\ HelpersOwn /\ MovesHold)'
  <2>1. overwritten = {} /\ new.live = person[u].live /\ new.department = person[u].department
    BY <1>1, <1>4, <1>5, <1>9
  <2>2. \A v \in Users : person'[v].live = person[v].live /\ person'[v].department = person[v].department
    BY <1>7, <2>1
  <2> HIDE DEF r, u
  <2>3. OwnersHold' /\ HelpersOwn'
    BY <1>1, <2>1 DEF EnrolmentInv, OwnersHold, HelpersOwn
  <2>4. MovesHold'
    <3>1. ASSUME NEW s \in Profiles \ raced PROVE MoveHolds(s)'
      <4>1. MoveHolds(s)
        BY <2>1, <3>1 DEF EnrolmentInv, MovesHold
      <4>2. profile[s].owner \in Users \cup {None}
        BY <3>1 DEF EnrolmentInv, EnrolmentTyped, Moving!Row
      <4> QED
        BY <1>1, <2>2, <4>1, <4>2 DEF MoveHolds, Moving!Live
    <3> QED
      BY <3>1 DEF MovesHold
  <2>5. TasksHold'
    BY <1>1, <1>6, <2>1, TasksKept
  <2> QED
    BY <2>3, <2>4, <2>5
<1> QED
  BY <1>8, <1>9 DEF EnrolmentInv

-----------------------------------------------------------------------------
(* Owners and moves *)

\* A profile as it is entered to be claimed.
LEMMA EnteredTyped ==
  ASSUME EnrolmentConstants, NEW c \in Codes, NEW p \in Moving!Place
  PROVE  Moving!Entered(c, p) \in Moving!Row /\ Moving!Entered(c, p).state = "live"
<1> DEFINE new == [Moving!FreeRow EXCEPT !.state = "live", !.code = c, !.place = p]
<1>1. Moving!FreeRow \in Moving!Row
  BY NewRowTyped
<1>2. new \in Moving!Row /\ new.state = "live"
  BY <1>1 DEF Moving!Row
<1> QED
  BY <1>2 DEF Moving!Entered

\* A student is entered: a profile without a past, and without owner unless a
\* form names one.
LEMMA CreateProfileKeeps ==
  ASSUME EnrolmentConstants, EnrolmentInv, NEW s \in Profiles, NEW form \in Moving!Row, form.state # "free",
         Moving!CreateProfile(s, form), UNCHANGED <<enrollment, helpers, drawn, raced>>
  PROVE  EnrolmentInv'
<1>1. /\ profile[s].state = "free" /\ profile' = [profile EXCEPT ![s] = form]
      /\ overwritten' = IF form.owner = None /\ ~form.claimed THEN overwritten ELSE overwritten \cup {s}
      /\ doubled' = doubled \/ doubled' = doubled \cup {form.place}
      /\ UNCHANGED <<person, application, worker, strays>>
  BY DEF Moving!CreateProfile
<1>2. form.place \in Moving!Place
  BY DEF Moving!Row
<1>3. profile' \in [Profiles -> Moving!Row] /\ profile'[s] = form /\ \A t \in Profiles : t # s => profile'[t] = profile[t]
  BY <1>1 DEF EnrolmentInv, EnrolmentTyped
<1>4. EnrolmentTyped'
  BY <1>1, <1>2, <1>3 DEF EnrolmentInv, EnrolmentTyped
<1>5. ASSUME overwritten' = {} PROVE (OwnersHold /\ TasksHold /\ HelpersOwn /\ MovesHold)'
  <2>0. overwritten = {} /\ form.owner = None /\ ~form.claimed
    BY <1>1, <1>5
  <2>1. profile[s].owner = None
    BY <1>1, <2>0 DEF EnrolmentInv, OwnersHold
  <2>2. OwnersHold'
    BY <1>3, <2>0, <2>1 DEF EnrolmentInv, OwnersHold
  <2>3. \A m \in helpers : m.user # None
    BY DEF EnrolmentInv, EnrolmentTyped, Moving!Moderator, EnrolmentConstants
  <2>4. HelpersOwn'
    BY <1>3, <2>0, <2>1, <2>3 DEF EnrolmentInv, HelpersOwn
  <2>5. MovesHold'
    <3>1. ASSUME NEW t \in Profiles \ raced PROVE MoveHolds(t)'
      <4>1. CASE t = s
        <5>1. profile'[t].owner = None
          BY <1>3, <2>0, <4>1
        <5> QED
          BY <1>1, <2>3, <5>1 DEF MoveHolds
      <4>2. CASE t # s
        <5>1. profile'[t] = profile[t] /\ MoveHolds(t)
          BY <1>3, <2>0, <4>2 DEF EnrolmentInv, MovesHold
        <5> QED
          BY <1>1, <5>1 DEF MoveHolds, Moving!Live
      <4> QED
        BY <4>1, <4>2
    <3> QED
      BY <3>1 DEF MovesHold
  <2>6. TasksHold'
    <3>1. \A t \in Profiles : profile[t].state # "free" => profile'[t] = profile[t]
      BY <1>1, <1>3
    <3>2. ASSUME NEW v \in Workers, worker[v].step = "approve", worker[v].match # None
          PROVE  profile'[worker[v].match] = profile[worker[v].match]
      <4>1. worker[v].match \in Profiles
        BY <3>2, TaskTyped DEF EnrolmentInv, ApproveTask
      <4>2. profile[worker[v].match].state = "live"
        BY <2>0, <3>2 DEF EnrolmentInv, TasksHold, TaskHolds
      <4> QED
        BY <3>1, <4>1, <4>2
    <3> QED
      BY <1>1, <1>3, <2>0, <2>1, <3>2, TasksKept
  <2> QED
    BY <2>2, <2>4, <2>5, <2>6
<1> QED
  BY <1>1, <1>4, <1>5 DEF EnrolmentInv

\* A profile without owner is given to an account that has none.
LEMMA GiveKeeps ==
  ASSUME EnrolmentConstants, EnrolmentInv, NEW w \in Workers, NEW s \in Profiles, NEW u \in Users,
         NEW p \in Moving!Place, NEW x \in Moving!Place,
         worker' = [worker EXCEPT ![w] = Moving!Idle],
         profile' = [profile EXCEPT ![s] = [profile[s] EXCEPT !.owner = u, !.claimed = TRUE, !.code = None, !.state = "live", !.place = x]],
         person' = Moving!Verified(u, "student", p),
         Moving!Indexed(u, "student") = {},
         overwritten = {} => KindOf[s] = "student" /\ profile[s].owner = None /\ x = p,
         application' \in [Applications -> Moving!Application \cup {Moving!NoApplication}],
         overwritten = {} => \A v \in Workers : v # w /\ worker[v].step = "approve" =>
            worker[v].match # s /\ application'[worker[v].application] = application[worker[v].application],
         doubled' \subseteq Moving!Place, strays' \subseteq Profiles, UNCHANGED <<overwritten, enrollment, helpers, drawn, raced>>
  PROVE  EnrolmentInv'
<1> DEFINE row == [profile[s] EXCEPT !.owner = u, !.claimed = TRUE, !.code = None, !.state = "live", !.place = x]
<1>1. row \in Moving!Row /\ row.owner = u /\ row.claimed /\ row.state = "live" /\ row.place = x
  <2>1. profile[s] \in Moving!Row
    BY DEF EnrolmentInv, EnrolmentTyped
  <2> QED
    BY <2>1 DEF Moving!Row
<1>2. profile' = [profile EXCEPT ![s] = row]
  OBVIOUS
<1> HIDE DEF row
<1>3. profile' \in [Profiles -> Moving!Row] /\ profile'[s] = row /\ \A t \in Profiles : t # s => profile'[t] = profile[t]
  BY <1>1, <1>2 DEF EnrolmentInv, EnrolmentTyped
<1>4. /\ worker' \in [Workers -> Tasks] /\ worker'[w].step = "idle"
      /\ \A v \in Workers : v # w => worker'[v] = worker[v]
  BY TaskOver DEF EnrolmentInv
<1>5. /\ person' \in [Users -> Moving!Account] /\ \A v \in Users : v # u => person'[v] = person[v]
      /\ person'[u].live => person'[u].department = DepartmentOf[p[1]]
  <2> DEFINE place == [person[u] EXCEPT !.verified = TRUE, !.role = "student", !.department = DepartmentOf[p[1]]]
  <2>1. person[u] \in Moving!Account /\ p[1] \in Batches
    BY DEF EnrolmentInv, EnrolmentTyped, Moving!Place
  <2>2. place \in Moving!Account /\ place.department = DepartmentOf[p[1]]
    BY <2>1 DEF Moving!Account, Moving!Kinds
  <2>3. person' = IF person[u].live THEN [person EXCEPT ![u] = place] ELSE person
    BY DEF Moving!Verified
  <2> HIDE DEF place
  <2> QED
    BY <2>2, <2>3 DEF EnrolmentInv, EnrolmentTyped
<1>6. EnrolmentTyped'
  BY <1>3, <1>4, <1>5 DEF EnrolmentInv, EnrolmentTyped
<1>7. ASSUME overwritten = {} PROVE (OwnersHold /\ TasksHold /\ HelpersOwn /\ MovesHold)'
  <2>1. \A t \in Profiles : profile[t].owner # u
    BY <1>7 DEF EnrolmentInv, OwnersHold, Moving!Indexed, EnrolmentConstants
  <2>2. OwnersHold'
    BY <1>1, <1>3, <1>7, <2>1 DEF EnrolmentInv, OwnersHold, EnrolmentConstants
  <2>3. \A m \in helpers : m.user # None /\ m.user # u
    BY <1>7, <2>1 DEF EnrolmentInv, EnrolmentTyped, HelpersOwn, Moving!Moderator, EnrolmentConstants
  <2>4. HelpersOwn'
    BY <1>3, <1>7, <2>3 DEF EnrolmentInv, HelpersOwn
  <2>5. MovesHold'
    <3>1. ASSUME NEW t \in Profiles \ raced PROVE MoveHolds(t)'
      <4>1. MoveHolds(t)
        BY <1>7, <3>1 DEF EnrolmentInv, MovesHold
      <4>2. CASE t = s
        <5>1. profile'[s].owner = u /\ profile'[s].place = p
          BY <1>1, <1>3, <1>7
        <5> QED
          BY <1>5, <2>3, <4>2, <5>1 DEF MoveHolds
      <4>3. CASE t # s
        <5>1. profile'[t] = profile[t] /\ profile[t].owner \in Users \cup {None} /\ profile[t].owner # u
          BY <1>3, <2>1, <4>3 DEF EnrolmentInv, EnrolmentTyped, Moving!Row
        <5>2. profile[t].owner # None => person'[profile[t].owner] = person[profile[t].owner]
          BY <1>5, <5>1
        <5> QED
          BY <4>1, <5>1, <5>2 DEF MoveHolds, Moving!Live
      <4> QED
        BY <4>2, <4>3
    <3> QED
      BY <3>1 DEF MovesHold
  <2>6. TasksHold'
    <3>1. \A t \in Profiles : profile[t].owner # None => profile'[t].owner = profile[t].owner
      BY <1>1, <1>3, <1>7
    <3>2. ASSUME NEW v \in Workers, worker'[v].step = "approve"
          PROVE  /\ application'[worker[v].application] = application[worker[v].application]
                 /\ worker[v].match # None => profile'[worker[v].match] = profile[worker[v].match]
      <4>1. v # w /\ worker[v].step = "approve"
        BY <1>4, <3>2
      <4>2. worker[v].match \in Profiles \cup {None}
        BY <4>1, TaskTyped DEF EnrolmentInv, ApproveTask
      <4> QED
        BY <1>3, <1>7, <4>1, <4>2
    <3> QED
      BY <1>4, <1>7, <3>1, <3>2, TasksKept
  <2> QED
    BY <2>2, <2>4, <2>5, <2>6
<1> QED
  BY <1>6, <1>7 DEF EnrolmentInv

LEMMA ClaimStudentKeeps ==
  ASSUME EnrolmentConstants, EnrolmentInv, NEW w \in Workers, Moving!ClaimStudent(w),
         UNCHANGED <<enrollment, helpers, drawn, raced>>
  PROVE  EnrolmentInv'
<1> DEFINE u == worker[w].user
<1>1. PICK s \in Moving!Claimable(worker[w].code, "student") \ Moving!Locked :
          /\ profile' = [profile EXCEPT ![s] = Moving!Give(s, u)]
          /\ strays' = IF person[u].live THEN strays ELSE strays \cup {s}
          /\ person' = Moving!Verified(u, "student", profile[s].place)
  BY DEF Moving!ClaimStudent, Moving!claimProfile
<1>2. /\ worker[w].step = "claim" /\ Moving!Indexed(u, "student") = {} /\ worker' = [worker EXCEPT ![w] = Moving!Idle]
      /\ UNCHANGED <<application, overwritten, doubled>>
  BY DEF Moving!ClaimStudent, Moving!claimProfile
<1>3. u \in Users
  BY <1>2, TaskTyped DEF EnrolmentInv, ClaimTask
<1>4. s \in Profiles /\ KindOf[s] = "student" /\ profile[s].state = "live" /\ ~profile[s].claimed /\ s \notin Moving!Locked
  BY <1>1 DEF Moving!Claimable, Moving!Unclaimed, Moving!Live
<1>5. profile[s] \in Moving!Row /\ profile[s].place \in Moving!Place
  BY <1>4 DEF EnrolmentInv, EnrolmentTyped, Moving!Row
<1>6. Moving!Give(s, u) = [profile[s] EXCEPT !.owner = u, !.claimed = TRUE, !.code = None, !.state = "live", !.place = profile[s].place]
  BY <1>4, <1>5 DEF Moving!Give, Moving!Row
<1> DEFINE p == profile[s].place
<1>7. overwritten = {} => KindOf[s] = "student" /\ profile[s].owner = None /\ p = p
  BY <1>4 DEF EnrolmentInv, OwnersHold
<1>8. \A v \in Workers : worker[v].step = "approve" => worker[v].match # s
  BY <1>4 DEF Moving!Locked
<1>9. strays' \subseteq Profiles /\ doubled' \subseteq Moving!Place
      /\ application' \in [Applications -> Moving!Application \cup {Moving!NoApplication}]
  BY <1>1, <1>2, <1>4 DEF EnrolmentInv, EnrolmentTyped
<1>10. profile' = [profile EXCEPT ![s] = [profile[s] EXCEPT !.owner = u, !.claimed = TRUE, !.code = None,
                                          !.state = "live", !.place = p]]
  BY <1>1, <1>6
<1>11. overwritten = {} => \A v \in Workers : v # w /\ worker[v].step = "approve" =>
          worker[v].match # s /\ application'[worker[v].application] = application[worker[v].application]
  BY <1>2, <1>8
<1>12. person' = Moving!Verified(u, "student", p) /\ p \in Moving!Place
  BY <1>1, <1>5
<1> HIDE DEF u, p
<1> QED
  BY <1>2, <1>3, <1>4, <1>7, <1>9, <1>10, <1>11, <1>12, GiveKeeps

LEMMA ApproveKeeps ==
  ASSUME EnrolmentConstants, EnrolmentInv, Asked, NEW w \in Workers, Moving!Approve(w),
         UNCHANGED <<enrollment, helpers, drawn, raced>>
  PROVE  EnrolmentInv'
<1> DEFINE q == worker[w].application
           a == application[q]
           match == worker[w].match
<1>1. worker[w].step = "approve"
  BY DEF Moving!Approve
<1>2. PICK s \in IF match = None THEN {t \in Profiles : profile[t].state = "free" /\ KindOf[t] = "student"} ELSE {match} :
          /\ profile' = [profile EXCEPT ![s] = [Moving!Give(s, a.user) EXCEPT !.state = "live", !.place =
                             IF match = None THEN a.place ELSE profile[s].place]]
          /\ application' = [application EXCEPT ![q] = [a EXCEPT !.status = "approved", !.escalated = FALSE, !.linked = s]]
          /\ strays' = IF person[a.user].live THEN strays ELSE strays \cup {s}
  BY DEF Moving!Approve
<1>3. /\ Moving!Indexed(a.user, "student") = {} /\ person' = Moving!Verified(a.user, "student", a.place)
      /\ doubled' = doubled \/ doubled' = doubled \cup {a.place}
      /\ worker' = [worker EXCEPT ![w] = Moving!Idle] /\ UNCHANGED overwritten
  BY DEF Moving!Approve
<1>4. q \in Applications /\ match \in Profiles \cup {None} /\ a \in Moving!Application
  BY <1>1, TaskTyped DEF EnrolmentInv, ApproveTask, Asked
<1>5. a.user \in Users /\ a.place \in Moving!Place
  BY <1>4 DEF Moving!Application
<1>6. s \in Profiles /\ (match # None => s = match)
  BY <1>2, <1>4
<1>7. overwritten = {} => TaskHolds(worker[w])
  BY DEF EnrolmentInv, TasksHold
<1>8. overwritten = {} => /\ KindOf[s] = "student" /\ profile[s].owner = None
                          /\ match # None => profile[s].place = a.place
  <2>1. CASE match = None
    BY <1>2, <2>1 DEF EnrolmentInv, OwnersHold
  <2>2. CASE match # None
    BY <1>1, <1>6, <1>7, <2>2 DEF TaskHolds
  <2> QED
    BY <2>1, <2>2
<1> DEFINE x == IF match = None THEN a.place ELSE profile[s].place
           given == [a EXCEPT !.status = "approved", !.escalated = FALSE, !.linked = s]
<1>9. x \in Moving!Place /\ (overwritten = {} => x = a.place)
  BY <1>5, <1>6, <1>8 DEF EnrolmentInv, EnrolmentTyped, Moving!Row
<1>10. profile' = [profile EXCEPT ![s] = [profile[s] EXCEPT !.owner = a.user, !.claimed = TRUE, !.code = None,
                                          !.state = "live", !.place = x]]
  <2>1. profile[s] \in Moving!Row
    BY <1>6 DEF EnrolmentInv, EnrolmentTyped
  <2>2. [Moving!Give(s, a.user) EXCEPT !.state = "live", !.place = x]
           = [profile[s] EXCEPT !.owner = a.user, !.claimed = TRUE, !.code = None, !.state = "live", !.place = x]
    BY <2>1 DEF Moving!Give, Moving!Row
  <2> QED
    BY <1>2, <2>2
<1>11. given \in Moving!Application
  BY <1>4, <1>6 DEF Moving!Application
<1>12. application' = [application EXCEPT ![q] = given]
  BY <1>2
<1> HIDE DEF given, x
<1>13. /\ application' \in [Applications -> Moving!Application \cup {Moving!NoApplication}]
       /\ \A r \in Applications : r # q => application'[r] = application[r]
  <2> HIDE DEF q
  <2> QED
    BY <1>4, <1>11, <1>12 DEF EnrolmentInv, EnrolmentTyped
<1>14. ASSUME overwritten = {}, NEW v \in Workers, v # w, worker[v].step = "approve"
       PROVE  worker[v].match # s /\ application'[worker[v].application] = application[worker[v].application]
  <2>1. worker[v].application \in Applications
    BY <1>14, TaskTyped DEF EnrolmentInv, ApproveTask
  <2>2. Distinct(worker[v], worker[w]) /\ TaskHolds(worker[v])
    BY <1>14 DEF EnrolmentInv, TasksHold
  <2>3. worker[v].application # q /\ (worker[v].match # None => worker[v].match # match)
    BY <1>1, <1>14, <2>2 DEF Distinct
  <2>4. worker[v].match # s
    <3>1. s # None
      BY <1>6 DEF EnrolmentConstants
    <3>2. CASE match # None
      BY <1>6, <2>3, <3>1, <3>2
    <3>3. CASE match = None
      BY <1>2, <1>14, <2>2, <3>1, <3>3 DEF TaskHolds
    <3> QED
      BY <3>2, <3>3
  <2> QED
    BY <1>13, <2>1, <2>3, <2>4
<1>15. strays' \subseteq Profiles /\ doubled' \subseteq Moving!Place
  BY <1>2, <1>3, <1>5, <1>6 DEF EnrolmentInv, EnrolmentTyped
<1> HIDE DEF q, a, match
<1> QED
  BY <1>3, <1>5, <1>6, <1>8, <1>9, <1>10, <1>13, <1>14, <1>15, GiveKeeps

\* Update and Revoke: a role changes its term, or goes.
LEMMA TermsKeep ==
  ASSUME EnrolmentConstants, EnrolmentInv, NEW m \in helpers,
         Moving!Revoke(m) \/ \E term \in {"coming", "running", "over"} : Moving!UpdateTerm(m, term)
  PROVE  EnrolmentInv'
<1>1. UNCHANGED <<person, profile, application, worker, overwritten, doubled, strays, enrollment, drawn, raced>>
  BY DEF Moving!Revoke, Moving!UpdateTerm, Moving!othersUnchanged
<1>2. /\ helpers' \subseteq Moving!Moderator
      /\ \A n \in helpers' : \E r \in helpers : r.user = n.user /\ r.scope = n.scope /\ r.id = n.id
  <2>1. m \in Moving!Moderator /\ helpers \subseteq Moving!Moderator
    BY DEF EnrolmentInv, EnrolmentTyped
  <2>2. ASSUME NEW term \in {"coming", "running", "over"}, helpers' = (helpers \ {m}) \cup {[m EXCEPT !.term = term]}
        PROVE  <1>2!1 /\ <1>2!2
    <3> DEFINE n == [m EXCEPT !.term = term]
    <3>1. n \in Moving!Moderator /\ n.user = m.user /\ n.scope = m.scope /\ n.id = m.id
      BY <2>1 DEF Moving!Moderator
    <3>2. helpers' = (helpers \ {m}) \cup {n}
      BY <2>2
    <3> HIDE DEF n
    <3> QED
      BY <2>1, <3>1, <3>2
  <2>3. ASSUME helpers' = helpers \ {m} PROVE <1>2!1 /\ <1>2!2
    BY <2>1, <2>3
  <2> QED
    BY <2>2, <2>3 DEF Moving!Revoke, Moving!UpdateTerm
<1>3. EnrolmentTyped'
  BY <1>1, <1>2 DEF EnrolmentInv, EnrolmentTyped
<1>4. ASSUME overwritten = {} PROVE (OwnersHold /\ TasksHold /\ HelpersOwn /\ MovesHold)'
  <2>1. OwnersHold' /\ TasksHold'
    BY <1>1, <1>4 DEF EnrolmentInv, OwnersHold, TasksHold, TaskHolds, Distinct
  <2>2. HelpersOwn'
    BY <1>1, <1>2, <1>4 DEF EnrolmentInv, HelpersOwn
  <2>3. ASSUME NEW s \in Profiles \ raced PROVE MoveHolds(s)'
    <3>1. MoveHolds(s)
      BY <1>4 DEF EnrolmentInv, MovesHold
    <3> QED
      BY <1>1, <1>2, <3>1 DEF MoveHolds, Moving!Live
  <2>4. MovesHold'
    BY <1>1, <1>4, <2>3 DEF EnrolmentInv, MovesHold
  <2> QED
    BY <2>1, <2>2, <2>4
<1> QED
  BY <1>1, <1>3, <1>4 DEF EnrolmentInv

LEMMA AssignKeeps ==
  ASSUME EnrolmentConstants, EnrolmentInv, NEW w \in Workers, NEW term \in {"coming", "running", "over"}, Moving!Assign(w, term)
  PROVE  EnrolmentInv'
<1> DEFINE r == worker[w]
           m == [user |-> r.user, scope |-> r.scope, id |-> r.id, term |-> term]
<1>1. /\ r.step = "assign" /\ helpers' = helpers \cup {m} /\ worker' = [worker EXCEPT ![w] = Moving!Idle]
      /\ raced' = IF r.scope = "batch" /\ profile[r.profile].place[1] # r.id THEN raced \cup {r.profile} ELSE raced
      /\ UNCHANGED <<person, profile, enrollment, application, overwritten, doubled, strays, drawn>>
  BY DEF Moving!Assign, Moving!othersUnchanged
<1>2. r \in AssignTask
  BY <1>1, TaskTyped DEF EnrolmentInv
<1>3. m \in Moving!Moderator /\ m.user = r.user /\ m.scope = r.scope /\ m.id = r.id
  BY <1>2 DEF AssignTask, Moving!Moderator
<1>4. r.profile \in Profiles /\ r.user \in Users
  BY <1>2 DEF AssignTask
<1> HIDE DEF m
<1>5. worker' \in [Workers -> Tasks] /\ \A v \in Workers : worker'[v] = worker[v] \/ worker'[v].step = "idle"
  BY <1>1, TaskOver DEF EnrolmentInv
<1>6. EnrolmentTyped'
  BY <1>1, <1>3, <1>4, <1>5 DEF EnrolmentInv, EnrolmentTyped
<1>7. ASSUME overwritten = {} PROVE (OwnersHold /\ TasksHold /\ HelpersOwn /\ MovesHold)'
  <2>1. profile[r.profile].owner = r.user
    BY <1>1, <1>7 DEF EnrolmentInv, TasksHold, TaskHolds
  <2>2. OwnersHold'
    BY <1>1, <1>7 DEF EnrolmentInv, OwnersHold
  <2>3. TasksHold'
    BY <1>1, <1>5, <1>7, TasksKept
  <2>4. HelpersOwn'
    <3>1. \A n \in helpers : \E s \in Profiles : profile[s].owner = n.user
      BY <1>7 DEF EnrolmentInv, HelpersOwn
    <3> QED
      BY <1>1, <1>3, <1>4, <2>1, <3>1 DEF HelpersOwn
  <2>5. ASSUME NEW s \in Profiles, s \notin raced' PROVE MoveHolds(s)'
    <3>1. MoveHolds(s)
      BY <1>1, <1>7, <2>5 DEF EnrolmentInv, MovesHold
    <3>2. ASSUME NEW n \in helpers', n.user = profile[s].owner, n.scope = "batch"
          PROVE  n.id = profile[s].place[1]
      <4>1. CASE n \in helpers
        BY <3>1, <3>2, <4>1 DEF MoveHolds
      <4>2. CASE n = m
        <5>1. s = r.profile
          BY <1>3, <1>4, <1>7, <2>1, <3>2, <4>2 DEF EnrolmentInv, OwnersHold, EnrolmentConstants
        <5> QED
          BY <1>1, <1>3, <2>5, <3>2, <4>2, <5>1
      <4> QED
        BY <1>1, <4>1, <4>2
    <3> QED
      BY <1>1, <3>1, <3>2 DEF MoveHolds, Moving!Live
  <2>6. MovesHold'
    BY <1>1, <1>7, <2>5 DEF EnrolmentInv, MovesHold
  <2> QED
    BY <2>2, <2>3, <2>4, <2>6
<1> QED
  BY <1>1, <1>6, <1>7 DEF EnrolmentInv

\* The account follows its student from one batch to another.
LEMMA MovedAccount ==
  ASSUME EnrolmentInv, NEW u \in Users \cup {None}, NEW from \in Batches, NEW to \in Batches,
         person' = Moving!Moved(u, from, to)
  PROVE  /\ person' \in [Users -> Moving!Account]
         /\ \A v \in Users : v # u => person'[v] = person[v]
         /\ u # None /\ person'[u].live =>
               person[u].live /\ (person[u].department = DepartmentOf[from] => person'[u].department = DepartmentOf[to])
<1>1. CASE u # None /\ DepartmentOf[from] # DepartmentOf[to] /\ person[u].live
  <2> DEFINE a == [person[u] EXCEPT !.department = DepartmentOf[to]]
  <2>1. u \in Users /\ person[u] \in Moving!Account
    BY <1>1 DEF EnrolmentInv, EnrolmentTyped
  <2>2. a \in Moving!Account /\ a.department = DepartmentOf[to]
    BY <2>1 DEF Moving!Account
  <2>3. person' = [person EXCEPT ![u] = a]
    BY <1>1 DEF Moving!Moved
  <2> HIDE DEF a
  <2> QED
    BY <1>1, <2>1, <2>2, <2>3 DEF EnrolmentInv, EnrolmentTyped
<1>2. CASE ~(u # None /\ DepartmentOf[from] # DepartmentOf[to] /\ person[u].live)
  <2>1. person' = person
    BY <1>2 DEF Moving!Moved
  <2> QED
    BY <1>2, <2>1 DEF EnrolmentInv, EnrolmentTyped
<1> QED
  BY <1>1, <1>2

\* A student moves: nobody else's place, roles or account changes.
LEMMA MoveKeeps ==
  ASSUME EnrolmentConstants, EnrolmentInv, NEW w \in Workers, NEW s \in Profiles,
         worker' = [worker EXCEPT ![w] = Moving!Idle],
         profile' \in [Profiles -> Moving!Row], \A t \in Profiles : t # s => profile'[t] = profile[t],
         profile'[s].owner = profile[s].owner, profile'[s].claimed <=> profile[s].claimed, profile'[s].state = profile[s].state,
         enrollment' \in [Profiles -> Seq(Moving!Place)], \A t \in Profiles : t # s => enrollment'[t] = enrollment[t],
         person' \in [Users -> Moving!Account], helpers' \subseteq helpers, raced \subseteq raced', raced' \subseteq Profiles,
         s \notin Moving!Locked,
         overwritten = {} => /\ \A v \in Users : v # profile[s].owner => person'[v] = person[v]
                             /\ s \notin raced' => MoveHolds(s)',
         UNCHANGED <<application, overwritten, doubled, strays, drawn>>
  PROVE  EnrolmentInv'
<1>1. worker' \in [Workers -> Tasks] /\ \A v \in Workers : worker'[v] = worker[v] \/ worker'[v].step = "idle"
  BY TaskOver DEF EnrolmentInv
<1>2. EnrolmentTyped'
  BY <1>1 DEF EnrolmentInv, EnrolmentTyped
<1>3. ASSUME overwritten = {} PROVE (OwnersHold /\ TasksHold /\ HelpersOwn /\ MovesHold)'
  <2>1. \A t \in Profiles : profile'[t].owner = profile[t].owner /\ (profile'[t].claimed <=> profile[t].claimed)
                            /\ profile'[t].state = profile[t].state
    OBVIOUS
  <2>2. OwnersHold'
    <3>1. OwnersHold
      BY <1>3 DEF EnrolmentInv
    <3>2. ASSUME NEW t \in Profiles
          PROVE  /\ profile'[t].claimed <=> profile'[t].owner # None
                 /\ profile'[t].owner # None => KindOf[t] = "student" /\ profile'[t].state # "free"
      <4>1. /\ profile[t].claimed <=> profile[t].owner # None
            /\ profile[t].owner # None => KindOf[t] = "student" /\ profile[t].state # "free"
        BY <3>1 DEF OwnersHold
      <4> QED
        BY <2>1, <4>1
    <3>3. \A t, r \in Profiles : profile'[t].owner = profile'[r].owner /\ profile'[t].owner # None => t = r
      BY <2>1, <3>1 DEF OwnersHold
    <3> QED
      BY <3>2, <3>3 DEF OwnersHold
  <2>3. HelpersOwn'
    BY <1>3, <2>1 DEF EnrolmentInv, HelpersOwn
  <2>4. TasksHold'
    <3>1. ASSUME NEW v \in Workers, worker'[v].step = "approve", worker[v].match # None
          PROVE  profile'[worker[v].match] = profile[worker[v].match]
      <4>1. worker[v].step = "approve"
        BY <1>1, <3>1
      <4>2. worker[v].match \in Profiles /\ worker[v].match # s
        BY <3>1, <4>1, TaskTyped DEF EnrolmentInv, ApproveTask, Moving!Locked
      <4> QED
        BY <4>2
    <3> QED
      BY <1>1, <1>3, <2>1, <3>1, TasksKept
  <2>5. ASSUME NEW t \in Profiles, t \notin raced', t # s PROVE MoveHolds(t)'
    <3>1. MoveHolds(t)
      BY <1>3, <2>5 DEF EnrolmentInv, MovesHold
    <3>2. profile[t].owner # None => profile[t].owner # profile[s].owner /\ profile[t].owner \in Users
      BY <1>3, <2>5 DEF EnrolmentInv, OwnersHold, EnrolmentTyped, Moving!Row
    <3>3. profile[t].owner # None => person'[profile[t].owner] = person[profile[t].owner]
      BY <1>3, <3>2
    <3>4. profile'[t] = profile[t] /\ enrollment'[t] = enrollment[t]
      BY <2>5
    <3> QED
      BY <3>1, <3>3, <3>4 DEF MoveHolds, Moving!Live
  <2>6. MovesHold'
    BY <1>3, <2>5 DEF MovesHold
  <2> QED
    BY <2>2, <2>3, <2>4, <2>6
<1> QED
  BY <1>2, <1>3 DEF EnrolmentInv

LEMMA PromoteKeeps ==
  ASSUME EnrolmentConstants, EnrolmentInv, NEW w \in Workers, NEW roll \in Rolls, Moving!Promote(w, roll)
  PROVE  EnrolmentInv'
<1> DEFINE s == worker[w].profile
           was == worker[w].was
           to == worker[w].batch
           from == was.place[1]
           past == Append(enrollment[s], was.place)
           there == [profile[s] EXCEPT !.place = <<to, roll>>]
<1>1. /\ worker[w].step = "promote" /\ s \notin Moving!Locked
      /\ enrollment' = [enrollment EXCEPT ![s] = past]
      /\ profile' = IF Moving!Live(s) THEN [profile EXCEPT ![s].place = <<to, roll>>] ELSE profile
      /\ person' = Moving!Moved(was.owner, from, to)
      /\ helpers' = IF was.owner = None THEN helpers ELSE Moving!Without(was.owner, from)
      /\ raced' = IF profile[s] = was THEN raced ELSE raced \cup {s}
      /\ worker' = [worker EXCEPT ![w] = Moving!Idle]
      /\ UNCHANGED <<application, overwritten, doubled, strays, drawn>>
  BY DEF Moving!Promote, Moving!othersUnchanged
<1>2. /\ s \in Profiles /\ was \in Moving!Row /\ to \in Batches /\ was.owner \in Users \cup {None}
      /\ was.place \in Moving!Place /\ from \in Batches /\ was.state = "live"
  BY <1>1, TaskTyped DEF EnrolmentInv, PromoteTask, Moving!Row, Moving!Place
<1>3. /\ profile[s] \in Moving!Row /\ there \in Moving!Row /\ there.owner = profile[s].owner /\ there.state = profile[s].state
      /\ (there.claimed <=> profile[s].claimed) /\ there.place[1] = to
  <2>1. <<to, roll>> \in Moving!Place
    BY <1>2 DEF Moving!Place
  <2>2. profile[s] \in Moving!Row
    BY <1>2 DEF EnrolmentInv, EnrolmentTyped
  <2>3. there.place = <<to, roll>>
    BY <2>2 DEF Moving!Row
  <2> QED
    BY <2>1, <2>2, <2>3 DEF Moving!Row
<1>4. enrollment[s] \in Seq(Moving!Place) /\ past \in Seq(Moving!Place)
  BY <1>2 DEF EnrolmentInv, EnrolmentTyped
<1>5. profile' = IF Moving!Live(s) THEN [profile EXCEPT ![s] = there] ELSE profile
  BY <1>1
<1> HIDE DEF there
<1>6. /\ profile' \in [Profiles -> Moving!Row] /\ \A t \in Profiles : t # s => profile'[t] = profile[t]
      /\ profile'[s] = IF Moving!Live(s) THEN there ELSE profile[s]
  <2> HIDE DEF s
  <2> QED
    BY <1>2, <1>3, <1>5 DEF EnrolmentInv, EnrolmentTyped
<1>7. /\ enrollment' \in [Profiles -> Seq(Moving!Place)] /\ enrollment'[s] = past
      /\ \A t \in Profiles : t # s => enrollment'[t] = enrollment[t]
  <2> HIDE DEF s, past
  <2> QED
    BY <1>1, <1>2, <1>4 DEF EnrolmentInv, EnrolmentTyped
<1>8. /\ person' \in [Users -> Moving!Account] /\ \A v \in Users : v # was.owner => person'[v] = person[v]
      /\ was.owner # None /\ person'[was.owner].live => person[was.owner].live
            /\ (person[was.owner].department = DepartmentOf[from] => person'[was.owner].department = DepartmentOf[to])
  <2> HIDE DEF was, from, to
  <2> QED
    BY <1>1, <1>2, MovedAccount
<1>9. /\ helpers' \subseteq helpers /\ raced \subseteq raced' /\ raced' \subseteq Profiles
      /\ \A m \in helpers' : was.owner # None /\ m.user = was.owner /\ m.scope = "batch" => m.id # from
  BY <1>1, <1>2 DEF Moving!Without, EnrolmentInv, EnrolmentTyped
<1>10. ASSUME overwritten = {}
       PROVE  \A v \in Users : v # profile[s].owner => person'[v] = person[v]
  <2>1. TaskHolds(worker[w])
    BY <1>10 DEF EnrolmentInv, TasksHold
  <2>2. was.owner # None => profile[s].owner = was.owner
    BY <1>1, <2>1 DEF TaskHolds
  <2> QED
    BY <1>2, <1>8, <2>2 DEF EnrolmentConstants
<1>11. ASSUME overwritten = {}, s \notin raced' PROVE MoveHolds(worker[w].profile)
  BY <1>2, <1>9, <1>11 DEF EnrolmentInv, MovesHold
<1> SUFFICES ASSUME NEW p \in Profiles, p = s PROVE EnrolmentInv'
  BY <1>2
<1>12. ASSUME overwritten = {}, p \notin raced' PROVE MoveHolds(p)'
  <2>1. profile[p] = was /\ Moving!Live(p) /\ MoveHolds(p)
    BY <1>1, <1>2, <1>11, <1>12 DEF Moving!Live
  <2>2. profile'[p] = there /\ there.owner = was.owner /\ there.place[1] = to
    BY <1>3, <1>6, <2>1
  <2>3. was.owner # None /\ person'[was.owner].live => person'[was.owner].department = DepartmentOf[to]
    BY <1>8, <2>1 DEF MoveHolds
  <2>4. \A m \in helpers' : m.user = was.owner /\ m.scope = "batch" => m.id = to
    <3>1. \A m \in helpers : m.user # None
      BY DEF EnrolmentInv, EnrolmentTyped, Moving!Moderator, EnrolmentConstants
    <3> QED
      BY <1>9, <2>1, <3>1 DEF MoveHolds
  <2> HIDE DEF past, to, was, from, s
  <2> QED
    BY <2>2, <2>3, <2>4 DEF MoveHolds
<1>13. profile'[p].owner = profile[p].owner /\ (profile'[p].claimed <=> profile[p].claimed) /\ profile'[p].state = profile[p].state
  BY <1>3, <1>6
<1> HIDE DEF past, to, was, from, s
<1> QED
  BY <1>1, <1>6, <1>7, <1>8, <1>9, <1>10, <1>12, <1>13, MoveKeeps

LEMMA RevertKeeps ==
  ASSUME EnrolmentConstants, EnrolmentInv, NEW w \in Workers, Moving!Revert(w)
  PROVE  EnrolmentInv'
<1> DEFINE r == worker[w]
           s == r.profile
           n == Len(r.latest)
           back == r.latest[n]
           e == enrollment[s]
           left == IF Len(e) >= n /\ e[n] = back THEN SubSeq(e, 1, n - 1) \o SubSeq(e, n + 1, Len(e)) ELSE e
           there == [profile[s] EXCEPT !.place = back]
           owner == profile[s].owner
           from == profile[s].place[1]
<1>1. /\ r.step = "revert" /\ Moving!Live(s) /\ s \notin Moving!Locked
      /\ profile' = [profile EXCEPT ![s].place = back]
      /\ person' = Moving!Moved(owner, from, back[1])
      /\ enrollment' = [enrollment EXCEPT ![s] = left]
      /\ raced' = IF (profile[s] = r.was /\ e = r.latest) /\ ~\E m \in helpers : m.user = owner /\ m.scope = "batch"
                  THEN raced ELSE raced \cup {s}
      /\ worker' = [worker EXCEPT ![w] = Moving!Idle]
      /\ UNCHANGED <<application, overwritten, doubled, strays, drawn, helpers>>
  BY DEF Moving!Revert, Moving!othersUnchanged
<1>2. s \in Profiles /\ r.latest \in Seq(Moving!Place) /\ r.latest # <<>>
  BY <1>1, TaskTyped DEF EnrolmentInv, RevertTask
<1>3. n \in Nat /\ n >= 1 /\ back \in Moving!Place /\ back[1] \in Batches
  <2>1. n \in Nat /\ n # 0
    BY <1>2
  <2>2. back \in Moving!Place
    BY <1>2, <2>1
  <2> QED
    BY <2>1, <2>2 DEF Moving!Place
<1>4. /\ profile[s] \in Moving!Row /\ there \in Moving!Row /\ there.owner = owner /\ there.state = profile[s].state
      /\ (there.claimed <=> profile[s].claimed) /\ there.place = back
      /\ owner \in Users \cup {None} /\ from \in Batches
  <2>1. profile[s] \in Moving!Row
    BY <1>2 DEF EnrolmentInv, EnrolmentTyped
  <2> HIDE DEF back
  <2> QED
    BY <1>3, <2>1 DEF Moving!Row, Moving!Place
<1>5. profile' = [profile EXCEPT ![s] = there]
  BY <1>1
<1> HIDE DEF there
<1>6. profile' \in [Profiles -> Moving!Row] /\ profile'[s] = there /\ \A t \in Profiles : t # s => profile'[t] = profile[t]
  <2> HIDE DEF s
  <2> QED
    BY <1>2, <1>4, <1>5 DEF EnrolmentInv, EnrolmentTyped
<1>7. e \in Seq(Moving!Place) /\ Len(e) \in Nat
  BY <1>2 DEF EnrolmentInv, EnrolmentTyped
<1>8. left \in Seq(Moving!Place)
  <2> HIDE DEF e, n, back
  <2>1. CASE Len(e) >= n
    <3>1. SubSeq(e, 1, n - 1) \in Seq(Moving!Place) /\ SubSeq(e, n + 1, Len(e)) \in Seq(Moving!Place)
      BY <1>3, <1>7, <2>1
    <3>2. SubSeq(e, 1, n - 1) \o SubSeq(e, n + 1, Len(e)) \in Seq(Moving!Place)
      BY <3>1
    <3> QED
      BY <1>7, <3>2
  <2>2. CASE ~(Len(e) >= n)
    BY <1>7, <2>2
  <2> QED
    BY <2>1, <2>2
<1>9. /\ enrollment' \in [Profiles -> Seq(Moving!Place)] /\ enrollment'[s] = left
      /\ \A t \in Profiles : t # s => enrollment'[t] = enrollment[t]
  <2> HIDE DEF s, left
  <2> QED
    BY <1>1, <1>2, <1>8 DEF EnrolmentInv, EnrolmentTyped
<1>10. /\ person' \in [Users -> Moving!Account] /\ \A v \in Users : v # owner => person'[v] = person[v]
       /\ owner # None /\ person'[owner].live => person[owner].live
             /\ (person[owner].department = DepartmentOf[from] => person'[owner].department = DepartmentOf[back[1]])
  <2> HIDE DEF owner, from, back
  <2> QED
    BY <1>1, <1>3, <1>4, MovedAccount
<1>11. helpers' \subseteq helpers /\ raced \subseteq raced' /\ raced' \subseteq Profiles
  BY <1>1, <1>2 DEF EnrolmentInv, EnrolmentTyped
<1>12. ASSUME overwritten = {}, s \notin raced' PROVE MoveHolds(worker[w].profile)
  BY <1>2, <1>11, <1>12 DEF EnrolmentInv, MovesHold
<1> SUFFICES ASSUME NEW p \in Profiles, p = s PROVE EnrolmentInv'
  BY <1>2
<1>13. ASSUME overwritten = {}, p \notin raced' PROVE MoveHolds(p)'
  <2>1. e = r.latest /\ Moving!Live(p) /\ MoveHolds(p) /\ ~\E m \in helpers : m.user = owner /\ m.scope = "batch"
    BY <1>1, <1>12, <1>13
  <2>2. profile'[p] = there
    BY <1>6
  <2>3. owner # None /\ person'[owner].live => person'[owner].department = DepartmentOf[back[1]]
    BY <1>10, <2>1 DEF MoveHolds
  <2>4. profile'[p].owner = owner /\ profile'[p].place[1] = back[1]
    BY <1>4, <2>2
  <2>5. \A m \in helpers' : ~(m.user = owner /\ m.scope = "batch")
    BY <1>11, <2>1
  <2> HIDE DEF left, back, s, owner, from
  <2> QED
    BY <2>3, <2>4, <2>5 DEF MoveHolds
<1>14. profile'[p].owner = profile[p].owner /\ (profile'[p].claimed <=> profile[p].claimed) /\ profile'[p].state = profile[p].state
  BY <1>4, <1>6
<1>15. /\ \A v \in Users : v # profile[p].owner => person'[v] = person[v]
       /\ p \notin Moving!Locked
  BY <1>1, <1>10
<1> HIDE DEF left, back, owner, from, e, n, s, r
<1> QED
  BY <1>1, <1>6, <1>9, <1>10, <1>11, <1>13, <1>14, <1>15, MoveKeeps

-----------------------------------------------------------------------------
(* The past of a student *)

\* A request that was just taken up.
Fresh(t) ==
    /\ t.step = "approve" => t.application \in Moving!Pending
    /\ t.step = "promote" => t.profile \in Profiles /\ profile[t.profile].state # "free"

LEMMA WorkersAsk ==
  ASSUME EnrolmentInv, Moving!EnrolmentNext, NEW v \in Workers
  PROVE  worker'[v] = worker[v] \/ Fresh(worker'[v])
<1> DEFINE New(t) == worker'[t] = worker[t] \/ Fresh(worker'[t])
<1>1. \A w \in Workers : worker' = [worker EXCEPT ![w] = Moving!Idle] => New(v)
  BY DEF EnrolmentInv, EnrolmentTyped, Moving!Idle, Fresh
<1>2. ASSUME Moving!MoveStep
      PROVE  New(v)
  <2>1. ASSUME NEW w \in Workers, NEW q \in Applications, Moving!StartApprove(w, q)
        PROVE  New(v)
    BY <2>1 DEF Moving!StartApprove, EnrolmentInv, EnrolmentTyped, Fresh
  <2>2. ASSUME NEW q \in Applications, Moving!Escalate(q) \/ Moving!Reject(q) PROVE worker' = worker
    BY <2>2 DEF Moving!Escalate, Moving!Reject
  <2>3. ASSUME NEW w \in Workers, NEW s \in Profiles, Moving!StartRevert(w, s) \/ \E b \in Batches : Moving!StartPromote(w, s, b)
        PROVE  New(v)
    BY <2>3 DEF Moving!StartRevert, Moving!StartPromote, Moving!Live, EnrolmentInv, EnrolmentTyped, Fresh
  <2>4. ASSUME NEW w \in Workers, NEW u \in Users, NEW scope \in Moving!Scopes, Moving!StartAssign(w, u, scope)
        PROVE  New(v)
    BY <2>4 DEF Moving!StartAssign, EnrolmentInv, EnrolmentTyped, Fresh
  <2>5. ASSUME NEW w \in Workers, \/ \E r \in Rolls : Moving!Promote(w, r)
                                  \/ Moving!Revert(w)
                                  \/ \E term \in {"coming", "running", "over"} : Moving!Assign(w, term)
        PROVE  worker' = [worker EXCEPT ![w] = Moving!Idle]
    BY <2>5 DEF Moving!Promote, Moving!Revert, Moving!Assign
  <2>6. ASSUME NEW m \in helpers, Moving!Revoke(m) \/ \E term \in {"coming", "running", "over"} : Moving!UpdateTerm(m, term)
        PROVE  worker' = worker
    BY <2>6 DEF Moving!Revoke, Moving!UpdateTerm
  <2>7. ASSUME NEW w \in Workers, NEW s \in Profiles, Moving!StartGenerate(w, s)
        PROVE  New(v)
    BY <2>7 DEF Moving!StartGenerate, EnrolmentInv, EnrolmentTyped, Fresh
  <2>8. ASSUME NEW u \in Users, Moving!OldestExpires(u) PROVE worker' = worker
    BY <2>8 DEF Moving!OldestExpires, Moving!profileVars
  <2>9. ASSUME NEW w \in Workers, NEW u \in Users, \/ \E q \in Applications : Moving!ReviewByModerator(w, u, q)
                                                   \/ \E s \in Profiles : Moving!GenerateByModerator(w, u, s)
        PROVE  New(v)
    BY <2>1, <2>2, <2>7, <2>9 DEF Moving!ReviewByModerator, Moving!GenerateByModerator
  <2>10. CASE \E w \in Workers : \/ \E u \in Users, q \in Applications : Moving!ReviewByModerator(w, u, q)
                                 \/ \E u \in Users, s \in Profiles : Moving!GenerateByModerator(w, u, s)
    BY <2>9, <2>10
  <2>11. CASE \/ \E w \in Workers, s \in Profiles : Moving!StartRevert(w, s) \/ \E b \in Batches : Moving!StartPromote(w, s, b)
              \/ \E w \in Workers, u \in Users, scope \in Moving!Scopes : Moving!StartAssign(w, u, scope)
    BY <2>3, <2>4, <2>11
  <2>12. CASE \E w \in Workers : \/ \E r \in Rolls : Moving!Promote(w, r)
                                 \/ Moving!Revert(w)
                                 \/ \E term \in {"coming", "running", "over"} : Moving!Assign(w, term)
    BY <1>1, <2>5, <2>12
  <2>13. CASE \/ \E m \in helpers : Moving!Revoke(m) \/ \E term \in {"coming", "running", "over"} : Moving!UpdateTerm(m, term)
              \/ \E u \in Users : Moving!OldestExpires(u)
    BY <2>6, <2>8, <2>13
  <2> QED
    BY <1>2, <2>10, <2>11, <2>12, <2>13 DEF Moving!MoveStep
<1>3. ASSUME Moving!ProfileStep
      PROVE  New(v)
  <2>1. ASSUME NEW w \in Workers, \/ Moving!Approve(w) \/ Moving!ClaimStudent(w) \/ Moving!SaveRow(w) \/ Moving!SaveUser(w)
                                  \/ Moving!Drop(w) \/ \E q \in Applications : Moving!Submit(w, q)
        PROVE  worker' = [worker EXCEPT ![w] = Moving!Idle]
    BY <2>1 DEF Moving!Approve, Moving!ClaimStudent, Moving!claimProfile, Moving!SaveRow, Moving!SaveUser, Moving!Drop,
       Moving!Submit
  <2>2. ASSUME NEW w \in Workers, \/ \E s \in Profiles : \E form \in Rows \cup {profile[s]} : Moving!StartEdit(w, s, form)
                                  \/ \E u \in Users : \E form \in Accounts \cup {person[u]} : Moving!StartEditUser(w, u, form)
        PROVE  New(v)
    BY <2>2 DEF Moving!StartEdit, Moving!StartEditUser, EnrolmentInv, EnrolmentTyped, Fresh
  <2>3. ASSUME NEW w \in Workers, NEW u \in Users, NEW p \in Moving!Place, Moving!StartSubmit(w, u, p)
        PROVE  New(v)
    BY <2>3 DEF Moving!StartSubmit, EnrolmentInv, EnrolmentTyped, Fresh
  <2>4. ASSUME NEW w \in Workers, NEW u \in Users, NEW c \in Codes, Moving!StartClaim(w, u, c, "student")
        PROVE  New(v)
    BY <2>4 DEF Moving!StartClaim, EnrolmentInv, EnrolmentTyped, Fresh
  <2>5. ASSUME NEW s \in Profiles, NEW form, Moving!CreateProfile(s, form) PROVE worker' = worker
    BY <2>5 DEF Moving!CreateProfile
  <2> QED
    BY <1>1, <1>3, <2>1, <2>2, <2>3, <2>4, <2>5 DEF Moving!ProfileStep
<1> QED
  BY <1>2, <1>3 DEF Moving!EnrolmentNext

LEMMA AskedStays ==
  ASSUME EnrolmentInv, Asked, EnrolmentTyped',
         \A v \in Workers : worker'[v] = worker[v] \/ Fresh(worker'[v]),
         \A q \in Applications : application'[q] = application[q] \/ application'[q].status # "none"
  PROVE  Asked'
<1> SUFFICES ASSUME NEW v \in Workers, worker'[v].step = "approve"
             PROVE  application'[worker'[v].application] \in Moving!Application
  BY DEF Asked
<1>1. PICK q \in Applications : q = worker'[v].application
  BY DEF EnrolmentTyped, Tasks, SavingTask, AccountTask, ClaimTask, SubmitTask, ApproveTask, PromoteTask, RevertTask, AssignTask
<1>2. application[q] \in Moving!Application
  <2>1. CASE worker'[v] = worker[v]
    BY <1>1, <2>1 DEF Asked
  <2>2. CASE q \in Moving!Pending
    BY <2>2 DEF Moving!Pending, EnrolmentInv, EnrolmentTyped, Moving!NoApplication
  <2> QED
    BY <1>1, <2>1, <2>2 DEF Fresh
<1>3. application'[q] \in Moving!Application \cup {Moving!NoApplication}
  BY DEF EnrolmentTyped
<1> QED
  BY <1>1, <1>2, <1>3 DEF Moving!NoApplication

LEMMA RequestsStay ==
  ASSUME EnrolmentInv, Moving!EnrolmentNext, NEW r \in Applications
  PROVE  application'[r] = application[r] \/ application'[r].status # "none"
<1>1. \A q \in Applications : \A x : application' = [application EXCEPT ![q] = x] /\ x.status # "none"
          => application'[r] = application[r] \/ application'[r].status # "none"
  BY DEF EnrolmentInv, EnrolmentTyped
<1>2. ASSUME NEW q \in Applications, Moving!Escalate(q) \/ Moving!Reject(q)
      PROVE  \E x : application' = [application EXCEPT ![q] = x] /\ x.status # "none"
  <2> DEFINE x == [application[q] EXCEPT !.escalated = TRUE]
             y == [application[q] EXCEPT !.status = "rejected", !.escalated = FALSE]
  <2>1. application[q].status = "pending" /\ application[q] \in Moving!Application
    BY <1>2 DEF Moving!Escalate, Moving!Reject, Moving!Pending, EnrolmentInv, EnrolmentTyped, Moving!NoApplication
  <2>2. x.status # "none" /\ y.status # "none"
    BY <2>1 DEF Moving!Application
  <2>3. application' = [application EXCEPT ![q] = x] \/ application' = [application EXCEPT ![q] = y]
    BY <1>2 DEF Moving!Escalate, Moving!Reject
  <2> HIDE DEF x, y
  <2> QED
    BY <2>2, <2>3
<1>3. ASSUME NEW w \in Workers, Moving!Approve(w)
      PROVE  application'[r] = application[r] \/ application'[r].status # "none"
  <2> DEFINE q == worker[w].application
  <2>1. PICK s : application' = [application EXCEPT ![q] = [application[q] EXCEPT !.status = "approved", !.escalated = FALSE, !.linked = s]]
    BY <1>3 DEF Moving!Approve
  <2>2. CASE r # q
    BY <2>1, <2>2 DEF EnrolmentInv, EnrolmentTyped
  <2>3. CASE r = q
    <3> DEFINE y == [application[r] EXCEPT !.status = "approved", !.escalated = FALSE, !.linked = s]
    <3>1. application'[r] = y
      BY <2>1, <2>3 DEF EnrolmentInv, EnrolmentTyped
    <3>2. y.status = "approved"
      BY DEF EnrolmentInv, EnrolmentTyped, Moving!Application, Moving!NoApplication
    <3> QED
      BY <3>1, <3>2
  <2> QED
    BY <2>2, <2>3
<1>4. ASSUME NEW w \in Workers, NEW q \in Applications, Moving!Submit(w, q)
      PROVE  \E x : application' = [application EXCEPT ![q] = x] /\ x.status # "none"
  <2> DEFINE x == [status |-> "pending", user |-> worker[w].user, place |-> worker[w].place, escalated |-> FALSE, linked |-> None]
  <2>1. application' = [application EXCEPT ![q] = x] /\ x.status # "none"
    BY <1>4 DEF Moving!Submit
  <2> HIDE DEF x
  <2> QED
    BY <2>1
<1>5. ASSUME Moving!MoveStep PROVE application'[r] = application[r] \/ application'[r].status # "none"
  BY <1>1, <1>2, <1>5 DEF Moving!MoveStep, Moving!ReviewByModerator, Moving!GenerateByModerator, Moving!OldestExpires,
     Moving!profileVars, Moving!othersUnchanged, Moving!StartRevert, Moving!StartPromote, Moving!Promote, Moving!Revert,
     Moving!StartAssign, Moving!Assign, Moving!Revoke, Moving!UpdateTerm, Moving!StartApprove, Moving!StartGenerate
<1>6. ASSUME Moving!ProfileStep PROVE application'[r] = application[r] \/ application'[r].status # "none"
  <2>1. ASSUME NEW w \in Workers, \/ Moving!ClaimStudent(w) \/ Moving!SaveRow(w) \/ Moving!SaveUser(w) \/ Moving!Drop(w)
                                  \/ \E s \in Profiles : \E form : Moving!StartEdit(w, s, form)
                                  \/ \E u \in Users : \E form : Moving!StartEditUser(w, u, form)
                                  \/ \E u \in Users, p \in Moving!Place : Moving!StartSubmit(w, u, p)
                                  \/ \E u \in Users, c \in Codes : Moving!StartClaim(w, u, c, "student")
        PROVE  UNCHANGED application
    BY <2>1 DEF Moving!ClaimStudent, Moving!claimProfile, Moving!SaveRow, Moving!SaveUser, Moving!Drop, Moving!StartEdit,
       Moving!StartEditUser, Moving!StartSubmit, Moving!StartClaim
  <2>2. ASSUME NEW s \in Profiles, NEW form, Moving!CreateProfile(s, form) PROVE UNCHANGED application
    BY <2>2 DEF Moving!CreateProfile
  <2>3. ASSUME NEW w \in Workers, NEW q \in Applications, Moving!Submit(w, q)
        PROVE  application'[r] = application[r] \/ application'[r].status # "none"
    BY <1>1, <1>4, <2>3
  <2> QED
    BY <1>3, <1>6, <2>1, <2>2, <2>3 DEF Moving!ProfileStep
<1> QED
  BY <1>5, <1>6 DEF Moving!EnrolmentNext

\* No row becomes free, and a student who did not move has the same past.
LEMMA PastKept ==
  ASSUME EnrolmentInv, EnrolmentTyped', PastHolds, raced \subseteq raced', overwritten \subseteq overwritten',
         UNCHANGED enrollment,
         \A s \in Profiles : profile[s].state # "free" => profile'[s].state # "free",
         \A s \in Profiles \ overwritten' : profile'[s].place = profile[s].place \/ enrollment[s] = <<>>,
         \A v \in Workers : worker'[v] = worker[v] \/ Fresh(worker'[v])
  PROVE  PastHolds'
<1>1. \A s \in Profiles : profile'[s].state = "free" => enrollment'[s] = <<>>
  BY DEF PastHolds
<1>2. ASSUME NEW s \in Profiles, s \notin raced', s \notin overwritten' PROVE Apart(enrollment[s], profile'[s].place[1])
  <2>1. Apart(enrollment[s], profile[s].place[1])
    BY <1>2 DEF PastHolds
  <2>2. CASE profile'[s].place = profile[s].place
    BY <2>1, <2>2
  <2>3. CASE enrollment[s] = <<>>
    BY <2>3 DEF Apart
  <2> QED
    BY <1>2, <2>2, <2>3
<1>3. ASSUME NEW v \in Workers, worker'[v].step = "promote" PROVE profile'[worker'[v].profile].state # "free"
  <2>1. CASE worker'[v] = worker[v]
    <3>1. worker[v].profile \in Profiles /\ profile[worker[v].profile].state # "free"
      BY <1>3, <2>1, TaskTyped DEF EnrolmentInv, PromoteTask, PastHolds
    <3> QED
      BY <2>1, <3>1
  <2>2. CASE Fresh(worker'[v])
    BY <1>3, <2>2 DEF Fresh
  <2> QED
    BY <1>3, <2>1, <2>2
<1> QED
  BY <1>1, <1>2, <1>3 DEF PastHolds, Apart

\* Promote puts the batch that is left at the end of the past.
LEMMA PromoteKeepsPast ==
  ASSUME EnrolmentInv, EnrolmentTyped', PastHolds, NEW w \in Workers, NEW roll \in Rolls, Moving!Promote(w, roll)
  PROVE  PastHolds'
<1> DEFINE s == worker[w].profile
           was == worker[w].was
           to == worker[w].batch
           past == Append(enrollment[s], was.place)
<1>1. /\ worker[w].step = "promote" /\ enrollment' = [enrollment EXCEPT ![s] = past]
      /\ profile' = IF Moving!Live(s) THEN [profile EXCEPT ![s].place = <<to, roll>>] ELSE profile
      /\ raced' = IF profile[s] = was THEN raced ELSE raced \cup {s}
      /\ worker' = [worker EXCEPT ![w] = Moving!Idle] /\ UNCHANGED overwritten
  BY DEF Moving!Promote, Moving!othersUnchanged
<1>2. s \in Profiles /\ was.state = "live" /\ was.place \in Moving!Place /\ to # was.place[1] /\ profile[s].state # "free"
  BY <1>1, TaskTyped DEF EnrolmentInv, PromoteTask, Moving!Row, PastHolds
<1>3. \A t \in Profiles : /\ profile'[t].state = profile[t].state
                          /\ t # s => profile'[t].place = profile[t].place /\ enrollment'[t] = enrollment[t]
  <2>1. \A t \in Profiles : profile[t] \in Moving!Row
    BY DEF EnrolmentInv, EnrolmentTyped
  <2> HIDE DEF s, past
  <2> QED
    BY <1>1, <1>2, <2>1 DEF EnrolmentInv, EnrolmentTyped, Moving!Row
<1>4. enrollment[s] \in Seq(Moving!Place) /\ enrollment'[s] = past
  <2>1. enrollment \in [Profiles -> Seq(Moving!Place)]
    BY DEF EnrolmentInv, EnrolmentTyped
  <2> HIDE DEF s, past
  <2> QED
    BY <1>1, <1>2, <2>1
<1>5. \A t \in Profiles : profile'[t].state = "free" => enrollment'[t] = <<>>
  BY <1>2, <1>3 DEF PastHolds
<1>6. ASSUME s \notin raced', s \notin overwritten PROVE Apart(past, to) /\ profile'[s].place[1] = to
  <2>1. profile[s] = was /\ Moving!Live(s) /\ Apart(enrollment[s], was.place[1])
    BY <1>1, <1>2, <1>6 DEF PastHolds, Moving!Live
  <2>2. profile'[s].place[1] = to
    <3>1. profile[s] \in Moving!Row /\ profile' = [profile EXCEPT ![s].place = <<to, roll>>]
      BY <1>1, <1>2, <2>1 DEF EnrolmentInv, EnrolmentTyped
    <3> HIDE DEF s, to
    <3> QED
      BY <1>2, <3>1 DEF EnrolmentInv, EnrolmentTyped, Moving!Row
  <2>3. /\ Len(past) = Len(enrollment[s]) + 1 /\ past[Len(past)] = was.place /\ Len(enrollment[s]) \in Nat
        /\ \A i \in 1..Len(enrollment[s]) : past[i] = enrollment[s][i]
    BY <1>4
  <2> HIDE DEF past
  <2>4. ASSUME NEW i \in 1..(Len(past) - 1) PROVE past[i][1] # past[i + 1][1]
    <3>1. CASE i = Len(enrollment[s])
      BY <2>1, <2>3, <3>1 DEF Apart
    <3>2. CASE i # Len(enrollment[s])
      <4>1. i \in 1..(Len(enrollment[s]) - 1) /\ i \in 1..Len(enrollment[s]) /\ i + 1 \in 1..Len(enrollment[s])
        BY <2>3, <3>2
      <4> QED
        BY <2>1, <2>3, <4>1 DEF Apart
    <3> QED
      BY <3>1, <3>2
  <2> QED
    BY <1>2, <2>2, <2>3, <2>4 DEF Apart
<1>7. ASSUME NEW t \in Profiles, t \notin raced', t \notin overwritten PROVE Apart(enrollment'[t], profile'[t].place[1])
  <2>1. CASE t = s
    <3> HIDE DEF past, to
    <3> QED
      BY <1>4, <1>6, <1>7, <2>1
  <2>2. CASE t # s
    BY <1>1, <1>3, <1>7, <2>2 DEF PastHolds
  <2> QED
    BY <2>1, <2>2
<1>8. ASSUME NEW v \in Workers, worker'[v].step = "promote" PROVE profile'[worker'[v].profile].state # "free"
  <2>1. worker'[v] = worker[v]
    BY <1>1, <1>8 DEF EnrolmentInv, EnrolmentTyped, Moving!Idle
  <2>2. worker[v].profile \in Profiles /\ profile[worker[v].profile].state # "free"
    BY <1>8, <2>1, TaskTyped DEF EnrolmentInv, PromoteTask, PastHolds
  <2> QED
    BY <1>3, <2>1, <2>2
<1> QED
  BY <1>1, <1>5, <1>7, <1>8 DEF PastHolds, Apart

\* Revert takes it off again.
LEMMA RevertKeepsPast ==
  ASSUME EnrolmentInv, EnrolmentTyped', PastHolds, NEW w \in Workers, Moving!Revert(w)
  PROVE  PastHolds'
<1> DEFINE r == worker[w]
           s == r.profile
           n == Len(r.latest)
           back == r.latest[n]
           e == enrollment[s]
           left == IF Len(e) >= n /\ e[n] = back THEN SubSeq(e, 1, n - 1) \o SubSeq(e, n + 1, Len(e)) ELSE e
<1>1. /\ r.step = "revert" /\ profile[s].state = "live"
      /\ profile' = [profile EXCEPT ![s].place = back] /\ enrollment' = [enrollment EXCEPT ![s] = left]
      /\ raced \subseteq raced' /\ (s \notin raced' => e = r.latest)
      /\ worker' = [worker EXCEPT ![w] = Moving!Idle] /\ UNCHANGED overwritten
  BY DEF Moving!Revert, Moving!othersUnchanged, Moving!Live
<1>2. s \in Profiles /\ r.latest \in Seq(Moving!Place) /\ r.latest # <<>>
  BY <1>1, TaskTyped DEF EnrolmentInv, RevertTask
<1>3. n \in Nat /\ n >= 1
  BY <1>2
<1>4. e \in Seq(Moving!Place) /\ Len(e) \in Nat
  BY <1>2 DEF EnrolmentInv, EnrolmentTyped
<1>5. /\ enrollment'[s] = left /\ profile'[s].place = back
      /\ \A t \in Profiles : /\ profile'[t].state = profile[t].state
                             /\ t # s => profile'[t].place = profile[t].place /\ enrollment'[t] = enrollment[t]
  <2>1. \A t \in Profiles : profile[t] \in Moving!Row
    BY DEF EnrolmentInv, EnrolmentTyped
  <2> HIDE DEF s, left, back
  <2> QED
    BY <1>1, <1>2, <2>1 DEF EnrolmentInv, EnrolmentTyped, Moving!Row
<1>6. \A t \in Profiles : profile'[t].state = "free" => enrollment'[t] = <<>>
  BY <1>1, <1>5 DEF PastHolds
<1>7. ASSUME s \notin raced', s \notin overwritten PROVE Apart(left, back[1])
  <2>1. Apart(e, profile[s].place[1])
    BY <1>1, <1>2, <1>7 DEF PastHolds
  <2>2. Len(e) = n /\ e[n] = back
    BY <1>1, <1>7
  <2>3. \A i \in 1..(n - 1) : e[i][1] # e[i + 1][1]
    BY <2>1, <2>2 DEF Apart
  <2> HIDE DEF e, n, back
  <2>4. Len(left) = n - 1 /\ \A i \in 1..(n - 1) : left[i] = e[i]
    <3>1. left = SubSeq(e, 1, n - 1) \o SubSeq(e, n + 1, n)
      BY <1>3, <2>2
    <3>2. SubSeq(e, n + 1, n) = <<>>
      BY <1>3, <1>4, <2>2
    <3>3. SubSeq(e, 1, n - 1) \in Seq(Moving!Place) /\ Len(SubSeq(e, 1, n - 1)) = n - 1
          /\ \A i \in 1..(n - 1) : SubSeq(e, 1, n - 1)[i] = e[i]
      BY <1>3, <1>4, <2>2
    <3>4. left = SubSeq(e, 1, n - 1)
      BY <3>1, <3>2, <3>3, ConcatEmptySeq
    <3> QED
      BY <3>3, <3>4
  <2> HIDE DEF left
  <2>5. ASSUME NEW i \in 1..(Len(left) - 1) PROVE left[i][1] # left[i + 1][1]
    <3>1. i \in 1..(n - 1) /\ i + 1 \in 1..(n - 1)
      BY <1>3, <2>4
    <3> QED
      BY <2>3, <2>4, <3>1
  <2>6. ASSUME Len(left) > 0 PROVE left[Len(left)][1] # back[1]
    <3>1. n - 1 \in 1..(n - 1) /\ Len(left) = n - 1 /\ (n - 1) + 1 = n
      BY <1>3, <2>4, <2>6
    <3> QED
      BY <2>2, <2>3, <2>4, <3>1
  <2> QED
    BY <2>5, <2>6 DEF Apart
<1>8. ASSUME NEW t \in Profiles, t \notin raced', t \notin overwritten PROVE Apart(enrollment'[t], profile'[t].place[1])
  <2>1. CASE t = s
    <3> HIDE DEF left, back
    <3> QED
      BY <1>5, <1>7, <1>8, <2>1
  <2>2. CASE t # s
    BY <1>1, <1>5, <1>8, <2>2 DEF PastHolds
  <2> QED
    BY <2>1, <2>2
<1>9. ASSUME NEW v \in Workers, worker'[v].step = "promote" PROVE profile'[worker'[v].profile].state # "free"
  <2>1. worker'[v] = worker[v]
    BY <1>1, <1>9 DEF EnrolmentInv, EnrolmentTyped, Moving!Idle
  <2>2. worker[v].profile \in Profiles /\ profile[worker[v].profile].state # "free"
    BY <1>9, <2>1, TaskTyped DEF EnrolmentInv, PromoteTask, PastHolds
  <2> QED
    BY <1>5, <2>1, <2>2
<1> QED
  BY <1>1, <1>6, <1>8, <1>9 DEF PastHolds, Apart

\* What the other requests do to a profile.
LEMMA ProfilesStay ==
  ASSUME EnrolmentConstants, EnrolmentInv, PastHolds, Moving!ProfileStep, NEW t \in Profiles
  PROVE  /\ profile[t].state # "free" => profile'[t].state # "free"
         /\ t \notin overwritten' => profile'[t].place = profile[t].place \/ enrollment[t] = <<>>
         /\ overwritten \subseteq overwritten'
<1> DEFINE Goal == /\ profile[t].state # "free" => profile'[t].state # "free"
                   /\ t \notin overwritten' => profile'[t].place = profile[t].place \/ enrollment[t] = <<>>
                   /\ overwritten \subseteq overwritten'
<1>0. profile[t] \in Moving!Row /\ (profile[t].state = "free" => enrollment[t] = <<>>)
  BY DEF EnrolmentInv, EnrolmentTyped, PastHolds
<1>1. ASSUME NEW w \in Workers, Moving!Approve(w) PROVE Goal
  <2> DEFINE a == application[worker[w].application]
             match == worker[w].match
  <2>1. PICK s \in IF match = None THEN {q \in Profiles : profile[q].state = "free" /\ KindOf[q] = "student"} ELSE {match} :
            profile' = [profile EXCEPT ![s] = [Moving!Give(s, a.user) EXCEPT !.state = "live", !.place =
                               IF match = None THEN a.place ELSE profile[s].place]]
    BY <1>1 DEF Moving!Approve
  <2>2. UNCHANGED overwritten
    BY <1>1 DEF Moving!Approve
  <2> DEFINE x == IF match = None THEN a.place ELSE profile[s].place
  <2>3. CASE t # s
    BY <2>1, <2>2, <2>3 DEF EnrolmentInv, EnrolmentTyped
  <2>4. CASE t = s
    <3>1. profile' = [profile EXCEPT ![t] = [Moving!Give(t, a.user) EXCEPT !.state = "live", !.place = x]]
      BY <2>1, <2>4
    <3>2. x = profile[t].place \/ profile[t].state = "free"
      BY <2>1, <2>4
    <3> HIDE DEF x, a, match
    <3>3. profile'[t] = [Moving!Give(t, a.user) EXCEPT !.state = "live", !.place = x]
      BY <3>1 DEF EnrolmentInv, EnrolmentTyped
    <3>4. profile'[t].state = "live" /\ profile'[t].place = x
      BY <1>0, <3>3 DEF Moving!Give, Moving!Row
    <3> QED
      BY <1>0, <2>2, <3>2, <3>4
  <2> QED
    BY <2>3, <2>4
<1>2. ASSUME NEW w \in Workers, Moving!ClaimStudent(w) PROVE Goal
  <2>1. PICK s \in Profiles : profile' = [profile EXCEPT ![s] = Moving!Give(s, worker[w].user)]
    BY <1>2 DEF Moving!ClaimStudent, Moving!claimProfile, Moving!Claimable, Moving!Unclaimed
  <2>2. UNCHANGED overwritten
    BY <1>2 DEF Moving!ClaimStudent, Moving!claimProfile
  <2>3. profile'[t].state = profile[t].state /\ profile'[t].place = profile[t].place
    BY <1>0, <2>1 DEF Moving!Give, Moving!Row, EnrolmentInv, EnrolmentTyped
  <2> QED
    BY <2>2, <2>3
<1>3. ASSUME NEW w \in Workers, Moving!SaveRow(w) PROVE Goal
  <2> DEFINE r == worker[w]
  <2>1. /\ r.step \in {"generate", "edit"} /\ profile' = [profile EXCEPT ![r.profile] = r.row]
        /\ overwritten' = IF profile[r.profile] = r.was /\ (r.step = "generate" \/ r.row = r.was)
                          THEN overwritten ELSE overwritten \cup {r.profile}
    BY <1>3 DEF Moving!SaveRow, Moving!Saved
  <2>2. r.row.state # "free" /\ (r.step = "generate" => r.row.place = r.was.place) /\ r.profile \in Profiles
    BY <2>1, TaskTyped DEF EnrolmentInv, SavingTask
  <2>3. CASE t = r.profile
    <3>1. profile'[t] = r.row
      BY <2>1, <2>3 DEF EnrolmentInv, EnrolmentTyped
    <3> QED
      BY <2>1, <2>2, <2>3, <3>1
  <2>4. CASE t # r.profile
    BY <2>1, <2>4 DEF EnrolmentInv, EnrolmentTyped
  <2> QED
    BY <2>3, <2>4
<1>4. ASSUME NEW s \in Profiles, NEW form, Moving!CreateProfile(s, form) PROVE Goal
  <2>1. /\ profile[s].state = "free" /\ overwritten \subseteq overwritten'
        /\ profile' = [profile EXCEPT ![s] = form]
    BY <1>4 DEF Moving!CreateProfile
  <2>2. t # s => profile'[t] = profile[t]
    BY <2>1 DEF EnrolmentInv, EnrolmentTyped
  <2> QED
    BY <1>0, <2>1, <2>2
<1>5. ASSUME NEW w \in Workers,
             \/ Moving!Drop(w) \/ Moving!SaveUser(w)
             \/ \E s \in Profiles : \E form \in Rows \cup {profile[s]} : Moving!StartEdit(w, s, form)
             \/ \E u \in Users : \E form \in Accounts \cup {person[u]} : Moving!StartEditUser(w, u, form)
             \/ \E u \in Users, p \in Moving!Place : Moving!StartSubmit(w, u, p)
             \/ \E q \in Applications : Moving!Submit(w, q)
             \/ \E u \in Users, c \in Codes : Moving!StartClaim(w, u, c, "student")
      PROVE  Goal
  <2>1. UNCHANGED profile /\ overwritten \subseteq overwritten'
    BY <1>5 DEF Moving!Drop, Moving!SaveUser, Moving!StartEdit, Moving!StartEditUser, Moving!StartSubmit, Moving!Submit, Moving!StartClaim
  <2> QED
    BY <2>1
<1> HIDE DEF Goal
<1>6. Goal
  BY <1>1, <1>2, <1>3, <1>4, <1>5 DEF Moving!ProfileStep
<1> QED
  BY <1>6 DEF Goal

LEMMA PastStays ==
  ASSUME EnrolmentConstants, EnrolmentInv, EnrolmentTyped', PastHolds, Moving!EnrolmentNext
  PROVE  PastHolds'
<1>1. \A v \in Workers : worker'[v] = worker[v] \/ Fresh(worker'[v])
  BY WorkersAsk
<1>2. CASE Moving!ProfileStep
  <2>1. UNCHANGED <<enrollment, raced>>
    BY <1>2 DEF Moving!ProfileStep
  <2>2. CASE Profiles # {}
    BY <1>1, <1>2, <2>1, <2>2, ProfilesStay, PastKept
  <2>3. CASE Profiles = {}
    BY <1>1, <2>1, <2>3, TaskTyped DEF PastHolds, EnrolmentTyped, Tasks, SavingTask, AccountTask, ClaimTask, SubmitTask, ApproveTask,
       PromoteTask, RevertTask, AssignTask
  <2> QED
    BY <2>2, <2>3
<1>3. ASSUME UNCHANGED <<profile, enrollment, overwritten>>, raced \subseteq raced'
      PROVE  PastHolds'
  BY <1>1, <1>3, PastKept
<1>4. CASE Moving!MoveStep
  <2>1. ASSUME \/ \E w \in Workers, s \in Profiles : Moving!StartRevert(w, s) \/ \E b \in Batches : Moving!StartPromote(w, s, b)
               \/ \E w \in Workers, u \in Users, scope \in Moving!Scopes : Moving!StartAssign(w, u, scope)
               \/ \E w \in Workers, term \in {"coming", "running", "over"} : Moving!Assign(w, term)
        PROVE  PastHolds'
    BY <1>3, <2>1 DEF Moving!StartRevert, Moving!StartPromote, Moving!StartAssign, Moving!Assign, Moving!othersUnchanged
  <2>2. ASSUME \/ \E m \in helpers : Moving!Revoke(m) \/ \E term \in {"coming", "running", "over"} : Moving!UpdateTerm(m, term)
               \/ \E w \in Workers, u \in Users, q \in Applications : Moving!ReviewByModerator(w, u, q)
               \/ \E w \in Workers, u \in Users, s \in Profiles : Moving!GenerateByModerator(w, u, s)
               \/ \E u \in Users : Moving!OldestExpires(u)
        PROVE  PastHolds'
    BY <1>3, <2>2 DEF Moving!Revoke, Moving!UpdateTerm, Moving!ReviewByModerator, Moving!StartApprove, Moving!Escalate,
       Moving!Reject, Moving!GenerateByModerator, Moving!StartGenerate, Moving!OldestExpires, Moving!profileVars,
       Moving!othersUnchanged
  <2> QED
    BY <1>4, <2>1, <2>2, PromoteKeepsPast, RevertKeepsPast DEF Moving!MoveStep
<1> QED
  BY <1>2, <1>4 DEF Moving!EnrolmentNext

-----------------------------------------------------------------------------
(* The theorem about enrolments *)

LEMMA EnrolmentStep ==
  ASSUME EnrolmentConstants, EnrolmentInv, Asked, PastHolds, Moving!EnrolmentNext
  PROVE  EnrolmentInv' /\ Asked' /\ PastHolds'
<1>0. drawn \in [Users -> 0..CodesPerHour]
  BY DEF EnrolmentInv, EnrolmentTyped
<1>1. ASSUME NEW w \in Workers, NEW u \in Users, NEW q \in Applications, Moving!ReviewByModerator(w, u, q)
      PROVE  EnrolmentInv'
  BY <1>1, StartApproveKeeps, ReviewsKeep DEF Moving!ReviewByModerator
<1>2. ASSUME NEW w \in Workers, NEW u \in Users, NEW s \in Profiles, Moving!GenerateByModerator(w, u, s)
      PROVE  EnrolmentInv'
  <2>1. /\ Moving!StartGenerate(w, s) /\ drawn[u] < CodesPerHour /\ drawn' = [drawn EXCEPT ![u] = drawn[u] + 1]
        /\ UNCHANGED <<enrollment, helpers, raced>>
    BY <1>2 DEF Moving!GenerateByModerator
  <2>2. drawn[u] + 1 \in 0..CodesPerHour
    BY <1>0, <2>1 DEF EnrolmentConstants
  <2>3. drawn' \in [Users -> 0..CodesPerHour]
    BY <1>0, <2>1, <2>2
  <2> QED
    BY <2>1, <2>3, StartsKeep
<1>3. ASSUME NEW w \in Workers, NEW s \in Profiles, Moving!StartRevert(w, s) \/ \E b \in Batches : Moving!StartPromote(w, s, b)
      PROVE  EnrolmentInv'
  BY <1>3, StartMovesKeep
<1>4. ASSUME NEW w \in Workers, NEW u \in Users, NEW scope \in Moving!Scopes, Moving!StartAssign(w, u, scope)
      PROVE  EnrolmentInv'
  BY <1>4, StartMovesKeep
<1>5. Moving!MoveStep => EnrolmentInv'
  BY <1>1, <1>2, <1>3, <1>4, PromoteKeeps, RevertKeeps, AssignKeeps, TermsKeep, ExpiryKeeps DEF Moving!MoveStep
<1>6. ASSUME UNCHANGED <<enrollment, helpers, drawn, raced>>, NEW w \in Workers,
             \/ \E s \in Profiles : \E form \in Rows \cup {profile[s]} : Moving!StartEdit(w, s, form)
             \/ \E u \in Users : \E form \in Accounts \cup {person[u]} : Moving!StartEditUser(w, u, form)
             \/ \E u \in Users, p \in Moving!Place : Moving!StartSubmit(w, u, p)
             \/ \E u \in Users, c \in Codes : Moving!StartClaim(w, u, c, "student")
             \/ Moving!Drop(w)
      PROVE  EnrolmentInv'
  BY <1>6, StartsKeep
<1>7. ASSUME UNCHANGED <<enrollment, helpers, drawn, raced>>, NEW w \in Workers,
             \/ Moving!Approve(w) \/ Moving!ClaimStudent(w) \/ Moving!SaveRow(w) \/ Moving!SaveUser(w)
             \/ \E q \in Applications : Moving!Submit(w, q)
      PROVE  EnrolmentInv'
  BY <1>7, ApproveKeeps, ClaimStudentKeeps, SaveRowKeeps, SaveUserKeeps, SubmitKeeps
<1>8. ASSUME UNCHANGED <<enrollment, helpers, drawn, raced>>, NEW s \in Profiles,
             NEW form \in Rows \cup {Moving!Entered(c, p) : c \in Codes, p \in Moving!Place}, Moving!CreateProfile(s, form)
      PROVE  EnrolmentInv'
  <2>1. form \in Moving!Row /\ form.state # "free"
    BY EnteredTyped DEF EnrolmentConstants
  <2> QED
    BY <1>8, <2>1, CreateProfileKeeps
<1>11. Moving!ProfileStep => EnrolmentInv'
  BY <1>6, <1>7, <1>8 DEF Moving!ProfileStep
<1>9. EnrolmentInv'
  BY <1>5, <1>11 DEF Moving!EnrolmentNext
<1>10. EnrolmentTyped'
  BY <1>9 DEF EnrolmentInv
<1> QED
  BY <1>9, <1>10, WorkersAsk, RequestsStay, AskedStays, PastStays

LEMMA EnrolmentStart ==
  ASSUME EnrolmentConstants, Moving!EnrolmentInit
  PROVE  EnrolmentInv /\ Asked /\ PastHolds
<1>1. /\ person = [u \in Users |-> [live |-> TRUE, old |-> FALSE, verified |-> FALSE, role |-> "student", department |-> None]]
      /\ profile = [s \in Profiles |-> Moving!FreeRow]
      /\ application = [q \in Applications |-> Moving!NoApplication]
      /\ worker = [w \in Workers |-> Moving!Idle]
      /\ overwritten = {} /\ doubled = {} /\ strays = {}
      /\ enrollment = [s \in Profiles |-> <<>>] /\ helpers = {} /\ drawn = [u \in Users |-> 0] /\ raced = {}
  BY DEF Moving!EnrolmentInit, Moving!ProfileInit
<1>2. Moving!FreeRow \in Moving!Row /\ Moving!FreeRow.owner = None /\ ~Moving!FreeRow.claimed /\ Moving!FreeRow.state = "free"
  BY NewRowTyped DEF Moving!FreeRow
<1>3. EnrolmentTyped
  <2>1. [live |-> TRUE, old |-> FALSE, verified |-> FALSE, role |-> "student", department |-> None] \in Moving!Account
    BY DEF Moving!Account, Moving!Kinds
  <2>2. Moving!Idle \in Tasks
    BY DEF Moving!Idle, Tasks
  <2>3. drawn \in [Users -> 0..CodesPerHour]
    BY <1>1 DEF EnrolmentConstants
  <2> QED
    BY <1>1, <1>2, <2>1, <2>2, <2>3 DEF EnrolmentTyped
<1>4. \A w \in Workers : worker[w].step = "idle"
  BY <1>1 DEF Moving!Idle
<1>5. OwnersHold
  BY <1>1, <1>2 DEF OwnersHold
<1>6. TasksHold
  BY <1>4 DEF TasksHold, TaskHolds, Distinct
<1>7. HelpersOwn
  BY <1>1 DEF HelpersOwn
<1>8. MovesHold
  BY <1>1, <1>2 DEF MovesHold, MoveHolds
<1>9. PastHolds
  BY <1>1, <1>4 DEF PastHolds, Apart
<1> QED
  BY <1>3, <1>4, <1>5, <1>6, <1>7, <1>8, <1>9 DEF EnrolmentInv, Asked

\* A role that covers something allows in its own scope what it allows there.
LEMMA OwnScopeAllows ==
  ASSUME EnrolmentConstants, helpers \subseteq Moving!Moderator, NEW m \in helpers, NEW permission, NEW target,
         Moving!ActiveModerator(m), Moving!Covers(m, target), target.university = University,
         permission \in Moving!permissions(m.scope)
  PROVE  m \in Moving!authorizedScopes(m.user, permission)
<1> DEFINE b == CHOOSE c \in Batches : m.id \in {c, DepartmentOf[c], University}
           own == CASE m.scope = "batch" -> Moving!Target(m.id)
                    [] m.scope = "department" -> Moving!ResourceTarget(m.id)
                    [] m.scope = "university" -> [Moving!ResourceTarget(DepartmentOf[b]) EXCEPT !.department = None]
<1>1. m.scope \in Moving!Scopes /\ m.id \in Moving!ScopeIds /\ m.id # None
  BY DEF Moving!Moderator, EnrolmentConstants
<1>2. m.scope = "university" => m.id = University
  BY DEF Moving!Covers
<1>3. own[m.scope] = m.id
  <2>1. CASE m.scope = "batch"
    <3>1. own = Moving!Target(m.id)
      BY <2>1
    <3> HIDE DEF own
    <3> QED
      BY <2>1, <3>1 DEF Moving!Target
  <2>2. CASE m.scope = "department"
    <3>1. own = Moving!ResourceTarget(m.id)
      BY <2>2
    <3> HIDE DEF own
    <3> QED
      BY <2>2, <3>1 DEF Moving!ResourceTarget
  <2>3. CASE m.scope = "university"
    <3>1. own = [Moving!ResourceTarget(DepartmentOf[b]) EXCEPT !.department = None]
      BY <2>3
    <3> HIDE DEF own, b
    <3> QED
      BY <1>2, <2>3, <3>1 DEF Moving!ResourceTarget
  <2> QED
    BY <1>1, <2>1, <2>2, <2>3 DEF Moving!Scopes
<1> HIDE DEF own
<1>4. Moving!Can(m.user, permission, own)
  BY <1>1, <1>3 DEF Moving!Can, Moving!Covers
<1> QED
  BY <1>4 DEF Moving!authorizedScopes, own

LEMMA EnrolmentImplies ==
  ASSUME EnrolmentConstants, EnrolmentInv, PastHolds
  PROVE  Moving!ProfileTypeOK /\ Moving!EnrolmentTypeOK /\ Moving!EnrolmentsAgree
<1>1. Moving!ProfileTypeOK /\ Moving!EnrolmentTypeOK
  BY DEF EnrolmentInv, EnrolmentTyped, Moving!ProfileTypeOK, Moving!EnrolmentTypeOK
<1>2. ASSUME overwritten = {}, NEW s \in Profiles \ raced
      PROVE  /\ profile[s].owner # None /\ Moving!Live(s) /\ person[profile[s].owner].live =>
                   person[profile[s].owner].department = DepartmentOf[profile[s].place[1]]
             /\ \A m \in helpers : m.user = profile[s].owner /\ m.scope = "batch" => m.id = profile[s].place[1]
  BY <1>2 DEF EnrolmentInv, MovesHold, MoveHolds
<1>3. ASSUME NEW s \in Profiles \ (raced \cup overwritten), enrollment[s] # <<>>
      PROVE  enrollment[s][Len(enrollment[s])][1] # profile[s].place[1]
  <2>1. Len(enrollment[s]) > 0
    BY <1>3 DEF EnrolmentInv, EnrolmentTyped
  <2> QED
    BY <1>3, <2>1 DEF PastHolds, Apart
<1>4. helpers \subseteq Moving!Moderator
  BY DEF EnrolmentInv, EnrolmentTyped
<1>5. \A b : Moving!Target(b).university = University /\ Moving!ResourceTarget(b).university = University
  BY DEF Moving!Target, Moving!ResourceTarget
<1>6. ASSUME NEW u \in Users, NEW b \in Batches, NEW p \in {"codes.view", "verifications.review"}
      PROVE  Moving!addScopeOr(u, p, Moving!Target(b)) <=> Moving!Can(u, p, Moving!Target(b))
  <2>1. \A scope : p \in Moving!permissions(scope)
    BY DEF Moving!permissions
  <2>2. ASSUME Moving!addScopeOr(u, p, Moving!Target(b)) PROVE Moving!Can(u, p, Moving!Target(b))
    BY <2>1, <2>2 DEF Moving!addScopeOr, Moving!authorizedScopes, Moving!Can
  <2>3. ASSUME Moving!Can(u, p, Moving!Target(b)) PROVE Moving!addScopeOr(u, p, Moving!Target(b))
    BY <1>4, <1>5, <2>1, <2>3, OwnScopeAllows DEF Moving!addScopeOr, Moving!Can
  <2> QED
    BY <2>2, <2>3
<1>7. ASSUME NEW u \in Users, NEW d
      PROVE  Moving!applyResourceScopeFilter(u, Moving!ResourceTarget(d)) <=> Moving!Can(u, "resources.review", Moving!ResourceTarget(d))
  <2>1. \A scope : "resources.review" \in Moving!permissions(scope) <=> scope # "batch"
    BY DEF Moving!permissions
  <2>2. \A m : Moving!Covers(m, Moving!ResourceTarget(d)) => m.scope # "batch"
    BY DEF Moving!Covers, Moving!ResourceTarget
  <2>3. ASSUME Moving!applyResourceScopeFilter(u, Moving!ResourceTarget(d))
        PROVE  Moving!Can(u, "resources.review", Moving!ResourceTarget(d))
    BY <2>1, <2>3 DEF Moving!applyResourceScopeFilter, Moving!authorizedScopes, Moving!Can
  <2>4. ASSUME Moving!Can(u, "resources.review", Moving!ResourceTarget(d))
        PROVE  Moving!applyResourceScopeFilter(u, Moving!ResourceTarget(d))
    BY <1>4, <1>5, <2>2, <2>4, OwnScopeAllows DEF Moving!applyResourceScopeFilter, Moving!Can
  <2> QED
    BY <2>3, <2>4
<1>8. ASSUME NEW u \in Users, NEW b \in Batches, Moving!Can(u, "codes.view", Moving!Target(b))
      PROVE  Moving!Notified(b) # {}
  <2> DEFINE of(scope) == {m.user : m \in {n \in helpers : n.scope = scope /\ Moving!ActiveModerator(n)
                                                              /\ Moving!Covers(n, Moving!Target(b))}}
  <2>1. PICK m \in helpers : Moving!ActiveModerator(m) /\ Moving!Covers(m, Moving!Target(b))
    BY <1>8 DEF Moving!Can
  <2>2. m.user \in of(m.scope) /\ m.scope \in {"batch", "department", "university"}
    BY <1>4, <2>1 DEF Moving!Moderator, Moving!Scopes
  <2>3. Moving!Notified(b) = IF of("batch") # {} THEN of("batch")
                             ELSE IF of("department") # {} THEN of("department") ELSE of("university")
    BY DEF Moving!Notified
  <2> HIDE DEF of
  <2> QED
    BY <2>2, <2>3
<1> QED
  BY <1>1, <1>2, <1>6, <1>7, <1>8, <1>3 DEF Moving!EnrolmentsAgree

(* Students who move and moderators who change (enrollment_handler.go,        *)
(* moderator_admin_handler.go, moderation_handler.go): the history of a       *)
(* student agrees with its batch, unless it was moved on an old reading or    *)
(* its row was saved over a newer one or as a form has it; its account's      *)
(* department and what it moderates do too, for who was not moved or          *)
(* appointed on an old reading, while no row was so saved; the lists of a     *)
(* moderator hold exactly what it may act upon, and a batch with a moderator  *)
(* has one to notify.                                                         *)
THEOREM EnrolmentsStayTrue ==
  ASSUME EnrolmentConstants
  PROVE  Moving!EnrolmentSpec => [](Moving!ProfileTypeOK /\ Moving!EnrolmentTypeOK /\ Moving!EnrolmentsAgree)
<1> DEFINE Inv == EnrolmentInv /\ Asked /\ PastHolds
<1>1. Moving!EnrolmentInit => Inv
  BY EnrolmentStart
<1>2. Inv /\ [Moving!EnrolmentNext]_(Moving!enrolmentVars) => Inv'
  <2> SUFFICES ASSUME Inv, [Moving!EnrolmentNext]_(Moving!enrolmentVars) PROVE Inv'
    OBVIOUS
  <2>1. CASE Moving!EnrolmentNext
    BY <2>1, EnrolmentStep
  <2>2. CASE UNCHANGED Moving!enrolmentVars
    <3>1. UNCHANGED <<person, profile, application, worker, overwritten, doubled, strays, enrollment, helpers, drawn, raced>>
      BY <2>2 DEF Moving!enrolmentVars, Moving!profileVars
    <3>2. EnrolmentTyped' /\ Asked' /\ PastHolds'
      BY <3>1 DEF EnrolmentInv, EnrolmentTyped, Asked, PastHolds
    <3>3. UNCHANGED <<OwnersHold, TasksHold, HelpersOwn, MovesHold>>
      BY <3>1 DEF OwnersHold, TasksHold, TaskHolds, Distinct, HelpersOwn, MovesHold, MoveHolds, Moving!Live
    <3> QED
      BY <3>1, <3>2, <3>3 DEF EnrolmentInv
  <2> QED
    BY <2>1, <2>2
<1>3. Inv => Moving!ProfileTypeOK /\ Moving!EnrolmentTypeOK /\ Moving!EnrolmentsAgree
  BY EnrolmentImplies
<1> QED
  BY <1>1, <1>2, <1>3, PTL DEF Moving!EnrolmentSpec
=============================================================================
