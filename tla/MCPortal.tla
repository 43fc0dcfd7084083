------------------------------- MODULE MCPortal -------------------------------
(***************************************************************************)
(* Two platforms: p is configured as it should be and comes and goes; the   *)
(* role the portal was given at q may insert orders.                         *)
(***************************************************************************)
EXTENDS Portal

Row(canInsert, platform) ==
    [read_only |-> TRUE, can_insert_orders |-> canInsert, can_read_credentials |-> FALSE,
     platforms |-> {platform}]

MCProbeRow == [p |-> Row(FALSE, "p"), q |-> Row(TRUE, "q")]
MCAcked == {[kind |-> "past_due", platform |-> "p", storeId |-> Store]}

=============================================================================
