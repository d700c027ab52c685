---- MODULE RefundAccount ----
(* What Ticket.refund_eligible_amount promises a ticket's client: the *)
(* maximum that may be refunded, as one account.  Each refund is      *)
(* positive, is covered by what is left, and uses that much of it up. *)
EXTENDS Integers

VARIABLES
    refund_eligible_amount,     \* what may still be refunded
    paid                        \* the refunds paid out so far

account == <<refund_eligible_amount, paid>>

Unspent == paid = 0 /\ refund_eligible_amount \in Int

IssueRefund ==
    \E amount \in 1..refund_eligible_amount :
        account' = <<refund_eligible_amount - amount, paid + amount>>

RefundsAreCovered == Unspent /\ [][IssueRefund]_account
====
