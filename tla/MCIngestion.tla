----------------------------- MODULE MCIngestion -----------------------------
(***************************************************************************)
(* Ingestion on a small instance: two batches with the same two new events *)
(* in opposite orders, a batch that names one event twice with different   *)
(* customers, and a batch with an item no statement can store. Seeds have  *)
(* the customers of those events, one of the events, and one of their own. *)
(***************************************************************************)
EXTENDS Seeding

Click == [event |-> "click", customer |-> "ann"]
Open == [event |-> "open", customer |-> "bob"]
ClickOfBob == [event |-> "click", customer |-> "bob"]
BadText == [event |-> "bad", customer |-> "bob"]
Seeded == [event |-> "seeded", customer |-> "bob"]

MCItems == {Click, Open, ClickOfBob, BadText, Seeded}
MCUnstorable == {BadText}
MCBatches == {<<Click, Open>>, <<Open, Click>>, <<Click, ClickOfBob>>,
              <<Open, BadText, Click>>}

MCSeedRows == <<Click, Seeded>>
=============================================================================
