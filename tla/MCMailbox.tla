----------------------------- MODULE MCMailbox -----------------------------
(* The mailbox of actor a0 on a small instance: two ports, four sends    *)
(* or posts, two payload values (so that max changes the accumulator and  *)
(* order is observable) and one peer actor for the forwarding path.       *)
EXTENDS Mailbox

CONSTANTS a0, a1, garbage

MCActors == {a0, a1}
MCValues == {1, 2}
=============================================================================
