-------------------------- MODULE MCEventProcessing --------------------------
(***************************************************************************)
(* EventProcessing on a small instance: a purchase and an earlier          *)
(* unsubscribe of one customer, and a click of another, so that sessions   *)
(* meet on events, on a customer, and not at all. Decay is one half per    *)
(* period.                                                                 *)
(***************************************************************************)
EXTENDS EventProcessing, TLC

CONSTANTS purchase, unsubscribe, click, stray, ann, bob

MCEvents == {purchase, unsubscribe, click}
MCForeign == {stray}
MCCustomers == {ann, bob}
MCCustomerOf == [e \in Events |-> IF e = click THEN bob ELSE ann]
MCKindOf == [e \in Events |-> CASE e = purchase -> "purchase"
                                [] e = unsubscribe -> "unsubscribe"
                                [] OTHER -> "other"]
MCChannelOf == [e \in Events |-> CASE e = purchase -> "web"
                                   [] e = unsubscribe -> "sms"
                                   [] OTHER -> "push"]
MCTimeOf == [e \in Events |-> IF e = unsubscribe THEN 0 ELSE 1]
MCWeightOf == [e \in Events |-> CASE e = purchase -> 5
                                  [] e = unsubscribe -> -3
                                  [] OTHER -> 2]
MCDecay == [d \in 0 .. Horizon |-> 2^d]
MCChannels == {"sms", "push", "web"}
SessionSymmetry == Permutations(Sessions)

=============================================================================
