----------------------------- MODULE Quotations -----------------------------
(***************************************************************************)
(* One quotation, from draft to decision, and the invoice it becomes.      *)
(*                                                                         *)
(* accept() decides again under the row's lock.  send(), reject() and      *)
(* update() read the row and write it later, holding nothing in between,   *)
(* so one that is late may open again what was accepted or expired.        *)
(***************************************************************************)
EXTENDS Integers

CONSTANTS
  Editors, NoEditor,   \* handlers of requests
  Totals,              \* what the lines of a quotation may add up to
  NoTotal,
  MaxIssued          \* bound

ASSUME QuotationAssumption ==
  NoEditor \notin Editors /\ NoTotal \notin Totals /\ MaxIssued \in Nat

VARIABLES
  quotation,   \* [status, total, converted]
  quoteLock,
  quoteInvoices, \* invoices issued from it
  invoiced,    \* the total the last of them was issued for
  lapsed,      \* valid_until is before today
  rewritten,   \* history: figures were written into a quotation no longer a draft
  editor       \* what every handler is about to do

quotationVars == <<quotation, quoteLock, quoteInvoices, invoiced, lapsed, rewritten, editor>>

OPEN_STATUSES == {"draft", "sent"}
QuoteStatuses == OPEN_STATUSES \cup {"accepted", "rejected", "expired"}

(* converted: converted_invoice_id is set. *)
Quotation == [status: QuoteStatuses, total: Totals, converted: BOOLEAN]

Edges == [send |-> {"draft"}, reject |-> OPEN_STATUSES, edit |-> {"draft"},
          accept |-> OPEN_STATUSES]
Moves == [send |-> "sent", reject |-> "rejected"]

Editor == [at: {"free", "issue"} \cup DOMAIN Edges, total: Totals \cup {NoTotal}]
FreeEditor == [at |-> "free", total |-> NoTotal]

QuotationTypeOK ==
  /\ quotation \in Quotation
  /\ quoteLock \in Editors \cup {NoEditor}
  /\ quoteInvoices \in Nat
  /\ invoiced \in Totals \cup {NoTotal}
  /\ lapsed \in BOOLEAN /\ rewritten \in BOOLEAN
  /\ editor \in [Editors -> Editor]

(* create() *)
QuotationInit ==
  /\ quotation \in [status: {"draft"}, total: Totals, converted: {FALSE}]
  /\ quoteLock = NoEditor
  /\ quoteInvoices = 0 /\ invoiced = NoTotal
  /\ lapsed = FALSE /\ rewritten = FALSE
  /\ editor = [e \in Editors |-> FreeEditor]

FreeAgain(e) == editor' = [editor EXCEPT ![e] = FreeEditor]

-----------------------------------------------------------------------------
(* Every operation starts by reading the row and its status. *)
ReadQuotation(e, edge) ==
  /\ editor[e].at = "free"
  /\ quotation.status \in Edges[edge]
  /\ editor' = [editor EXCEPT ![e] = [at |-> edge, total |-> quotation.total]]
  /\ UNCHANGED <<quotation, quoteLock, quoteInvoices, invoiced, lapsed, rewritten>>

(* moveStatus(): the status and its stamp are written. *)
MoveStatus(e) ==
  /\ editor[e].at \in DOMAIN Moves
  /\ quoteLock = NoEditor
  /\ quotation' = [quotation EXCEPT !.status = Moves[editor[e].at]]
  /\ FreeAgain(e)
  /\ UNCHANGED <<quoteLock, quoteInvoices, invoiced, lapsed, rewritten>>

(* update(): the figures, where they differ from those read, and the day   *)
(* it is valid until.                                                      *)
EditQuotation(e, total, late) ==
  /\ editor[e].at = "edit"
  /\ quoteLock = NoEditor
  /\ quotation' = [quotation EXCEPT !.total = IF total = editor[e].total THEN @ ELSE total]
  /\ lapsed' = late
  /\ rewritten' = (rewritten \/ quotation.status # "draft")
  /\ FreeAgain(e)
  /\ UNCHANGED <<quoteLock, quoteInvoices, invoiced>>

(* accept(): the row is read again under its lock, refused if closed. *)
LockQuotation(e) ==
  /\ editor[e].at = "accept"
  /\ quoteLock = NoEditor
  /\ IF quotation.status \in OPEN_STATUSES
     THEN /\ quoteLock' = e
          /\ editor' = [editor EXCEPT ![e] = [at |-> "issue", total |-> quotation.total]]
     ELSE FreeAgain(e) /\ UNCHANGED quoteLock
  /\ UNCHANGED <<quotation, quoteInvoices, invoiced, lapsed, rewritten>>

(* Mutant: every acceptance is converted. *)
ConvertsAlways(convert) == convert

Converts(convert) == convert /\ ~quotation.converted

Accept(e, convert) ==
  /\ editor[e].at = "issue"
  /\ IF Converts(convert)
     THEN /\ quoteInvoices < MaxIssued
          /\ quoteInvoices' = quoteInvoices + 1
          /\ invoiced' = editor[e].total
     ELSE UNCHANGED <<quoteInvoices, invoiced>>
  /\ quotation' = [quotation EXCEPT !.status = "accepted",
                                    !.converted = @ \/ Converts(convert)]
  /\ quoteLock' = NoEditor
  /\ FreeAgain(e)
  /\ UNCHANGED <<lapsed, rewritten>>

(* The invoice is refused, its number was taken, or the process dies: the  *)
(* transaction rolls back.                                                 *)
AbandonAccept(e) ==
  /\ editor[e].at = "issue"
  /\ quoteLock' = NoEditor
  /\ FreeAgain(e)
  /\ UNCHANGED <<quotation, quoteInvoices, invoiced, lapsed, rewritten>>

QuotationLapses ==
  /\ lapsed' = TRUE
  /\ UNCHANGED <<quotation, quoteLock, quoteInvoices, invoiced, rewritten, editor>>

(* expireLapsed(): one conditional UPDATE. *)
ExpireLapsed ==
  /\ quoteLock = NoEditor
  /\ lapsed /\ quotation.status = "sent"
  /\ quotation' = [quotation EXCEPT !.status = "expired"]
  /\ UNCHANGED <<quoteLock, quoteInvoices, invoiced, lapsed, rewritten, editor>>

QuotationNext ==
  \/ \E e \in Editors :
       \/ \E edge \in DOMAIN Edges : ReadQuotation(e, edge)
       \/ MoveStatus(e) \/ LockQuotation(e) \/ AbandonAccept(e)
       \/ \E total \in Totals, late \in BOOLEAN : EditQuotation(e, total, late)
       \/ \E convert \in BOOLEAN : Accept(e, convert)
  \/ QuotationLapses \/ ExpireLapsed

QuotationSpec == QuotationInit /\ [][QuotationNext]_quotationVars

-----------------------------------------------------------------------------
(* Properties. *)

(* However often a quotation is opened again by a late write and accepted  *)
(* anew, one invoice comes of it, the row points at it, and it is for what *)
(* the row says, unless an edit begun on the draft was written afterwards. *)
OneInvoicePerQuotation ==
  /\ quoteInvoices = IF quotation.converted THEN 1 ELSE 0
  /\ quotation.converted /\ ~rewritten => invoiced = quotation.total
=============================================================================
