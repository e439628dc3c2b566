----------------------------- MODULE PaymentBook ------------------------------
(***************************************************************************)
(* What the books promise about a payment, whoever confirms it and however *)
(* often: it is booked only after bKash took the money, at most once,      *)
(* together with its receipt, and what was booked is reversed at most      *)
(* once, together with the voiding of that receipt.                        *)
(***************************************************************************)
CONSTANT Payments

VARIABLES phase, receipt

Init ==
    /\ phase = [p \in Payments |-> "unpaid"]
    /\ receipt = [p \in Payments |-> "none"]

Moves(p, from, to) ==
    /\ phase[p] = from
    /\ phase' = [phase EXCEPT ![p] = to]

\* bKash takes the money.
Take(p) == Moves(p, "unpaid", "paid") /\ UNCHANGED receipt

Book(p) ==
    /\ Moves(p, "paid", "booked")
    /\ receipt' = [receipt EXCEPT ![p] = "issued"]

Reverse(p) ==
    /\ Moves(p, "booked", "reversed")
    /\ receipt' = [receipt EXCEPT ![p] = "voided"]

Next == \E p \in Payments : Take(p) \/ Book(p) \/ Reverse(p)

Spec == Init /\ [][Next]_<<phase, receipt>>
=============================================================================
