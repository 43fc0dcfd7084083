---------------------------- MODULE ReconcileSweep ----------------------------
(***************************************************************************)
(* The nightly sweep over every store: runOnce takes the first `limit` rows *)
(* of dueForReconciliation and refreshes them one after the other, stepping *)
(* over failures.  Only the ORDER of last_reconciled_at matters to it, so   *)
(* the column is abstracted to that order: `due` holds the rows where it is *)
(* NULL, `checked` the others, staleest first.  What one refresh does to    *)
(* its row is module BillingSync.                                           *)
(***************************************************************************)
EXTENDS Integers, Sequences, SequencesExt

CONSTANTS
    Stores,       \* store ids, ordered as numbers
    Revoked,      \* stores whose fetch always fails
    Limit         \* rows per pass

ASSUME SweepAssumption ==
    Stores \subseteq Nat /\ Revoked \subseteq Stores /\ Limit \in Nat \ {0}

VARIABLES due, checked, pass
sweepVars == <<due, checked, pass>>

known == due \cup ToSet(checked)

SweepInit == due = {} /\ checked = <<>> /\ pass = <<>>

\* ORDER BY last_reconciled_at ASC NULLS FIRST, store_id LIMIT limit
dueForReconciliation(limit) ==
    LET order == SetToSortSeq(due, <) \o checked
    IN  SubSeq(order, 1, IF limit < Len(order) THEN limit ELSE Len(order))

\* last_reconciled_at becomes the newest, or NULL.
Stamp(s) ==
    /\ due' = due \ {s}
    /\ checked' = Append(SelectSeq(checked, LAMBDA t : t # s), s)

MarkDue(s) ==
    /\ due' = due \cup {s}
    /\ checked' = SelectSeq(checked, LAMBDA t : t # s)

\* A webhook creates the row; or the install's own fetch does, and stamps it.
Subscribe(s) ==
    /\ s \notin known
    /\ \/ due' = due \cup {s} /\ UNCHANGED checked
       \/ s \notin Revoked /\ Stamp(s)
    /\ UNCHANGED pass

\* requestRefresh: marked due, then refreshed aside, which stamps the row or
\* fails and leaves it due.
RequestAnswered(s) ==
    /\ s \in known \ Revoked
    /\ Stamp(s)
    /\ UNCHANGED pass

RequestFailed(s) ==
    /\ s \in known
    /\ MarkDue(s)
    /\ UNCHANGED pass

runOnce ==
    /\ pass = <<>> /\ known # {}
    /\ pass' = dueForReconciliation(Limit)
    /\ UNCHANGED <<due, checked>>

\* Faulty variant: only a correction is stamped, and there is nothing to correct.
CheckUnmarked(s) ==
    /\ pass # <<>> /\ Head(pass) = s /\ s \notin Revoked
    /\ pass' = Tail(pass)
    /\ UNCHANGED <<due, checked>>

\* The next store of the pass answers: corrected, unchanged or unrecognised.
Check(s) ==
    /\ pass # <<>> /\ Head(pass) = s /\ s \notin Revoked
    /\ pass' = Tail(pass)
    /\ Stamp(s)

\* ... or fails, and is stepped over without being marked.
StepOver(s) ==
    /\ pass # <<>> /\ Head(pass) = s
    /\ pass' = Tail(pass)
    /\ UNCHANGED <<due, checked>>

\* A pass is a loop in the process: it dies with it, and the next night begins another.
Interrupted == pass' = <<>> /\ UNCHANGED <<due, checked>>

SweepNext ==
    \/ runOnce
    \/ \E s \in Stores : Subscribe(s) \/ RequestAnswered(s) \/ Check(s) \/ StepOver(s)

\* The sweep runs every night and finishes; a store that can answer does when
\* it is asked again and again.
SweepFairness ==
    /\ WF_sweepVars(runOnce)
    /\ WF_sweepVars(\E s \in Stores : Check(s) \/ StepOver(s))
    /\ \A s \in Stores \ Revoked : SF_sweepVars(Check(s))

\* "One store whose credentials have been revoked must not stop the others
\* from being checked": every store that can answer is checked again and again.
EveryStoreChecked ==
    \A s \in Stores \ Revoked :
        <>[](s \notin known) \/ []<><<Check(s) \/ RequestAnswered(s)>>_sweepVars

=============================================================================
