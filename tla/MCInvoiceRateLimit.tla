------------------------- MODULE MCInvoiceRateLimit -------------------------
(* Small instances of InvoiceRateLimit.                                      *)
EXTENDS InvoiceRateLimit
=============================================================================
