------------------------------ MODULE MCAudience ------------------------------
(***************************************************************************)
(* Audience with three customers, whose scores tie at the reference time   *)
(* or at the ceiling, and whose rows change while the cursor is open.      *)
(***************************************************************************)
EXTENDS Audience

Row(score, clock, optIns, lastActive, converted, sends) ==
    [score |-> score, clock |-> clock, optIns |-> optIns,
     lastActive |-> lastActive, converted |-> converted, sends |-> sends]

\* Score 2 at time 0 is score 1 at time 1; 9 is above the ceiling. The last row
\* follows a send on email that withdrew nothing.
MCRows == {Row(0, Never, {"email"}, Never, FALSE, {}),
           Row(2, 0, {"email"}, 0, FALSE, {}),
           Row(1, 1, {"email"}, 1, TRUE, {}),
           Row(9, 1, {}, 1, TRUE, {}),
           Row(9, 1, {"email"}, 1, TRUE, {<<"email", 1>>})}

Body(channel, size, minScore, inactive, converted) ==
    [channel |-> channel, size |-> size, minScore |-> minScore,
     inactive |-> inactive, converted |-> converted]

MCBodies == {Body("email", 1, {}, {}, {}),
             Body("web", 2, {1}, {}, {}),
             Body("web", 1, {}, {0}, {TRUE})}

MCDecay == [d \in Times |-> 2 ^ d]
==============================================================================
