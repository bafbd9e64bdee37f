------------------------------ MODULE Library ------------------------------
(***************************************************************************)
(* The library of one school, for one title of its catalogue: copies,      *)
(* loans and fines.                                                        *)
(*                                                                         *)
(* Everything that changes available_quantity reads the book under a row   *)
(* lock.  A return reads its loan before that lock, and a settlement reads *)
(* its loan under no lock at all, so both may act on a row that has moved. *)
(***************************************************************************)
EXTENDS Integers, FiniteSets

CONSTANTS
  Librarians,        \* concurrent handlers of librarians' requests
  NoLibrarian,       \* who holds the book's lock when nobody does
  Loans,             \* rows library_transactions may get
  NoLoan,
  MaxCopies, MaxFine \* bounds: copies of the title, fine of one return

ASSUME LibraryAssumption ==
  /\ NoLibrarian \notin Librarians /\ NoLoan \notin Loans
  /\ IsFiniteSet(Loans)
  /\ MaxCopies \in Nat /\ MaxFine \in Nat

VARIABLES
  book,        \* [quantity, available, active]
  bookLock,
  loan,        \* the rows of library_transactions
  twice,       \* history: loans whose return was recorded more than once
  desk         \* what every handler holds

libraryVars == <<book, bookLock, loan, twice, desk>>

Outcomes == {"returned", "lost"}
Fines == 0 .. MaxFine
Book == [quantity: Nat, available: Nat, active: BOOLEAN]

Loan == [status: {"absent", "issued"} \cup Outcomes, fine: Fines, paid: Fines,
         waived: BOOLEAN]

(* available, paid and waived are copies of columns as they were read. *)
Desk ==
  [at: {"free", "issue", "return", "receive", "settle"}, loan: Loans \cup {NoLoan},
   available: Nat, outcome: Outcomes, fine: Fines, paid: Fines, waived: BOOLEAN]

Free ==
  [at |-> "free", loan |-> NoLoan, available |-> 0, outcome |-> "returned",
   fine |-> 0, paid |-> 0, waived |-> FALSE]

LibraryTypeOK ==
  /\ book \in Book
  /\ bookLock \in Librarians \cup {NoLibrarian}
  /\ loan \in [Loans -> Loan]
  /\ twice \subseteq Loans
  /\ desk \in [Librarians -> Desk]

(* createBook(): no copy of a new title is on loan. *)
CreateBook(n) == [quantity |-> n, available |-> n, active |-> TRUE]

LibraryInit ==
  /\ \E n \in 0 .. MaxCopies : book = CreateBook(n)
  /\ bookLock = NoLibrarian
  /\ loan = [l \in Loans |->
              [status |-> "absent", fine |-> 0, paid |-> 0, waived |-> FALSE]]
  /\ twice = {}
  /\ desk = [w \in Librarians |-> Free]

Holding(w, held) == desk' = [desk EXCEPT ![w] = held]

(* save() writes the columns that differ from the copy. *)
SavedColumn(stored, copy, new) == IF new = copy THEN stored ELSE new

LoansThatAre(status) == {l \in Loans : loan[l].status = status}

-----------------------------------------------------------------------------
(* Mutant: the book is read without LOCK.UPDATE. *)
BookGrantedFreely == TRUE

BookGranted == bookLock = NoLibrarian

(* updateBook(): one locking read, and a quantity that may not fall below  *)
(* the copies the book counts as lent.                                     *)
UpdateBook(n, active) ==
  LET onLoan == book.quantity - book.available
  IN  /\ BookGranted
      /\ n >= onLoan
      /\ book' = [quantity |-> n, available |-> n - onLoan, active |-> active]
      /\ UNCHANGED <<bookLock, loan, twice, desk>>

(* Mutant: a title is lent while the school owns a copy. *)
OwnsCopy == book.quantity >= 1

HasCopy == book.available >= 1

(* issue(): the book is read and locked ... *)
LockForIssue(w, l) ==
  /\ desk[w].at = "free" /\ loan[l].status = "absent"
  /\ BookGranted
  /\ book.active /\ HasCopy
  /\ \A v \in Librarians : desk[v].at = "issue" => desk[v].loan # l
  /\ bookLock' = w
  /\ Holding(w, [Free EXCEPT !.at = "issue", !.loan = l, !.available = book.available])
  /\ UNCHANGED <<book, loan, twice>>

(* ... and the loan and the count of the copy read are written. *)
IssueLoan(w) ==
  /\ desk[w].at = "issue"
  /\ loan' = [loan EXCEPT ![desk[w].loan].status = "issued"]
  /\ book' = [book EXCEPT !.available = desk[w].available - 1]
  /\ bookLock' = NoLibrarian
  /\ Holding(w, Free)
  /\ UNCHANGED twice

(* returnLoan(): the loan is read first and not locked. *)
ReadLoan(w, l, outcome, fine) ==
  /\ desk[w].at = "free"
  /\ loan[l].status = "issued"
  /\ Holding(w, [Free EXCEPT !.at = "return", !.loan = l, !.outcome = outcome,
                             !.fine = fine])
  /\ UNCHANGED <<book, bookLock, loan, twice>>

LockForReturn(w) ==
  /\ desk[w].at = "return"
  /\ BookGranted
  /\ bookLock' = w
  /\ Holding(w, [desk[w] EXCEPT !.at = "receive", !.available = book.available])
  /\ UNCHANGED <<book, loan, twice>>

Shelved(outcome) == IF outcome = "returned" THEN 1 ELSE 0

(* The loan is closed from the copy read before the lock; the count is     *)
(* refused past the quantity, and the transaction with it.                 *)
Receive(w) ==
  LET l == desk[w].loan
      available == desk[w].available + Shelved(desk[w].outcome)
  IN  /\ desk[w].at = "receive"
      /\ IF available > book.quantity
         THEN UNCHANGED <<book, loan, twice>>
         ELSE /\ loan' = [loan EXCEPT ![l].status = desk[w].outcome,
                                      ![l].fine = SavedColumn(@, 0, desk[w].fine)]
              /\ twice' = IF loan[l].status = "issued" THEN twice ELSE twice \cup {l}
              /\ book' = [book EXCEPT !.available = available]
      /\ bookLock' = NoLibrarian
      /\ Holding(w, Free)

(* settleFine(): read and compared ... *)
ReadFine(w, l) ==
  /\ desk[w].at = "free"
  /\ loan[l].status # "absent" /\ loan[l].fine > 0
  /\ Holding(w, [Free EXCEPT !.at = "settle", !.loan = l, !.fine = loan[l].fine,
                             !.paid = loan[l].paid, !.waived = loan[l].waived])
  /\ UNCHANGED <<book, bookLock, loan, twice>>

FinePayable(w, paid) == paid <= desk[w].fine \/ paid = desk[w].paid

(* ... then the amount paid and the waiver are written, or left alone. *)
Settle(w, paid, waived) ==
  LET l == desk[w].loan
  IN  /\ desk[w].at = "settle"
      /\ FinePayable(w, paid)
      /\ loan' = [loan EXCEPT ![l].paid = SavedColumn(@, desk[w].paid, paid),
                              ![l].waived = SavedColumn(@, desk[w].waived, waived)]
      /\ Holding(w, Free)
      /\ UNCHANGED <<book, bookLock, twice>>

LibraryNext ==
  \/ \E n \in 0 .. MaxCopies, active \in BOOLEAN : UpdateBook(n, active)
  \/ \E w \in Librarians :
       \/ \E l \in Loans :
            \/ LockForIssue(w, l)
            \/ ReadFine(w, l)
            \/ \E outcome \in Outcomes, fine \in Fines : ReadLoan(w, l, outcome, fine)
       \/ IssueLoan(w) \/ LockForReturn(w) \/ Receive(w)
       \/ \E paid \in Fines, waived \in BOOLEAN : Settle(w, paid, waived)

LibrarySpec == LibraryInit /\ [][LibraryNext]_libraryVars

-----------------------------------------------------------------------------
(* Properties. *)

(* Copies on the shelf, on loan and lost make up the quantity: no copy     *)
(* vanishes from the count, and one is counted too many only after a loan  *)
(* was returned a second time.                                             *)
ShelfAgrees ==
  LET counted == book.available + Cardinality(LoansThatAre("issued"))
                                + Cardinality(LoansThatAre("lost"))
  IN  /\ counted >= book.quantity
      /\ twice = {} => counted = book.quantity
=============================================================================
