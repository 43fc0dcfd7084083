------------------------------ MODULE LeaseQueue ------------------------------
(***************************************************************************)
(* What the ingestion queue promises, without SQL, clocks or retries: an    *)
(* event arrives once, is leased to at most one live worker at a time, only *)
(* the leaseholder reports on it, a lease is taken away only from a worker  *)
(* that died, and "processed" and "skipped" are final.  WebhookQueue is     *)
(* shown to implement this module.                                          *)
(***************************************************************************)

CONSTANTS Events,    \* (store, platform event id) pairs
          Workers,
          Null

VARIABLES state,     \* state[e]: where the event is in its life
          owner      \* owner[e]: the live worker that leases e, or Null

leaseVars == <<state, owner>>

LeaseStates == {"absent", "pending", "processing", "processed", "skipped", "failed"}

Init ==
    /\ state = [e \in Events |-> "absent"]
    /\ owner = [e \in Events |-> Null]

\* A delivery of an event never seen before.
Arrive(e) ==
    /\ state[e] = "absent"
    /\ state' = [state EXCEPT ![e] = "pending"]
    /\ UNCHANGED owner

\* A worker leases a batch of pending events.
Take(w, S) ==
    /\ \A e \in S : state[e] = "pending" /\ owner[e] = Null
    /\ state' = [e \in Events |-> IF e \in S THEN "processing" ELSE state[e]]
    /\ owner' = [e \in Events |-> IF e \in S THEN w ELSE owner[e]]

\* The leaseholder reports; "pending" is a retry, "failed" a dead letter.
Report(w, e, s) ==
    /\ owner[e] = w
    /\ state[e] = "processing"
    /\ s \in {"processed", "skipped", "pending", "failed"}
    /\ state' = [state EXCEPT ![e] = s]
    /\ owner' = [owner EXCEPT ![e] = Null]

\* A worker dies: its leases dangle, the events stay "processing".
Die(w) ==
    /\ owner' = [e \in Events |-> IF owner[e] = w THEN Null ELSE owner[e]]
    /\ UNCHANGED state

\* Dangling leases are revoked, each towards a retry or a dead letter.
Recover(S) ==
    /\ \A e \in S : state[e] = "processing" /\ owner[e] = Null
    /\ \A e \in S : state'[e] \in {"pending", "failed"}
    /\ state' \in [Events -> LeaseStates]
    /\ \A e \in Events \ S : state'[e] = state[e]
    /\ UNCHANGED owner

\* An operator replays a dead letter.
Replay(e) ==
    /\ state[e] = "failed"
    /\ state' = [state EXCEPT ![e] = "pending"]
    /\ UNCHANGED owner

Next ==
    \/ \E e \in Events : Arrive(e) \/ Replay(e)
    \/ \E w \in Workers : Die(w)
    \/ \E w \in Workers, e \in Events, s \in LeaseStates : Report(w, e, s)
    \/ \E w \in Workers, S \in SUBSET Events : Take(w, S)
    \/ \E S \in SUBSET Events : Recover(S)

Spec == Init /\ [][Next]_leaseVars

=============================================================================
