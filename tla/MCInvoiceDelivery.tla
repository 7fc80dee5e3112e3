-------------------------- MODULE MCInvoiceDelivery --------------------------
(* Instances of InvoiceDelivery for TLC. *)
EXTENDS InvoiceDelivery, TLC

CONSTANTS w1, w2

Interchangeable == Permutations({w1, w2})
=============================================================================
