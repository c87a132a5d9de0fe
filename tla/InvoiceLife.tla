---------------------------- MODULE InvoiceLife -----------------------------
(***************************************************************************)
(* The status of an invoice and how it may change: what EInvoice, which    *)
(* follows one invoice to the tax authority and back, guarantees, and what *)
(* Billing, which sees many invoices from further away, relies on.         *)
(***************************************************************************)

Status == {"DRAFT", "SUBMITTED", "VALIDATED", "FINAL", "REJECTED"}

\* What the handlers of services/einvoice.py mean to do.  An opposition that
\* was made in time and commits after the scan turns FINAL into REJECTED.
Moves ==
    {<<"DRAFT", "SUBMITTED">>, <<"DRAFT", "VALIDATED">>,
     <<"SUBMITTED", "VALIDATED">>, <<"SUBMITTED", "REJECTED">>,
     <<"VALIDATED", "FINAL">>, <<"VALIDATED", "REJECTED">>, <<"FINAL", "REJECTED">>}

\* What they do besides when a refresh or a read commits late: the row has left
\* the status that the request found, and gets the one it was to have then.
StaleMoves == {<<"REJECTED", "VALIDATED">>, <<"REJECTED", "FINAL">>, <<"FINAL", "VALIDATED">>}

\* As far as credit notes tell the statuses apart.
Stage(status) ==
    IF status \in {"DRAFT", "SUBMITTED"} THEN "DRAFT"
    ELSE IF status \in {"VALIDATED", "FINAL"} THEN "VALIDATED"
    ELSE "REJECTED"

StageMoves == {<<Stage(m[1]), Stage(m[2])>> : m \in Moves \cup StaleMoves}
=============================================================================
