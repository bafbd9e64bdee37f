--------------------------- MODULE School_proofs ----------------------------
(***************************************************************************)
(* What Library guarantees for any number of librarians, loans, copies and *)
(* fines: its types, and a shelf that agrees with the loans.  What         *)
(* Sessions guarantees however many tabs, browsers and calls there are and *)
(* whatever answers are lost: a session that was ended does not come back, *)
(* unless a refresh wrote over what came after it had read; and one tab    *)
(* that is all there is of the account is never refused a refresh.  And    *)
(* that a behaviour of MCSchool, their host, is one of each of its parts.  *)
(***************************************************************************)
EXTENDS MCSchool, FiniteSetTheorems, TLAPS

-----------------------------------------------------------------------------
(* Whoever counts copies holds the lock of the book, and the copy he       *)
(* counts from is what the row says.                                       *)
CountingAlone ==
  \A w \in Librarians :
    desk[w].at \in {"issue", "receive"} =>
      bookLock = w /\ desk[w].available = book.available

(* A loan about to be issued is not a row yet and takes a copy that is     *)
(* there; every other loan a handler holds is one.                         *)
InHand ==
  \A w \in Librarians :
    /\ desk[w].at # "free" => desk[w].loan \in Loans
    /\ desk[w].at = "issue" => loan[desk[w].loan].status = "absent" /\ desk[w].available >= 1
    /\ desk[w].at \in {"return", "receive", "settle"} => loan[desk[w].loan].status # "absent"

LibraryInv == LibraryTypeOK /\ ShelfAgrees /\ CountingAlone /\ InHand

Issued == Cardinality(LoansThatAre("issued"))
Lost == Cardinality(LoansThatAre("lost"))

LEMMA FreeTyped == Free \in Desk /\ Free.at = "free"
<1>1. 0 \in Fines
  BY LibraryAssumption DEF Fines
<1> QED
  BY <1>1 DEF Free, Desk, Outcomes

LEMMA CountsTyped ==
  ASSUME NEW status
  PROVE  /\ IsFiniteSet(LoansThatAre(status))
         /\ Cardinality(LoansThatAre(status)) \in Nat
<1>1. LoansThatAre(status) \subseteq Loans
  BY DEF LoansThatAre
<1> QED
  BY <1>1, LibraryAssumption, FS_Subset, FS_CardinalityType

(* Loan l alone changes its status: the rows of a status gain it, lose it, *)
(* or stay.                                                                *)
LEMMA LoanMoves ==
  ASSUME LibraryTypeOK, NEW l \in Loans, NEW status, NEW to,
         loan' \in [Loans -> Loan],
         \A o \in Loans \ {l} : loan'[o].status = loan[o].status,
         loan'[l].status = to
  PROVE  Cardinality(LoansThatAre(status))' =
           Cardinality(LoansThatAre(status))
             + (IF to = status THEN 1 ELSE 0)
             - (IF loan[l].status = status THEN 1 ELSE 0)
<1> DEFINE S == LoansThatAre(status)
<1>1. IsFiniteSet(S) /\ Cardinality(S) \in Nat
  BY CountsTyped
<1>2. LoansThatAre(status)' = IF to = status THEN S \cup {l} ELSE S \ {l}
  BY DEF LoansThatAre
<1>3. l \in S <=> loan[l].status = status
  BY DEF LoansThatAre
<1> HIDE DEF S
<1>4. CASE to = status
  <2>1. Cardinality(S \cup {l}) = IF l \in S THEN Cardinality(S) ELSE Cardinality(S) + 1
    BY <1>1, FS_AddElement
  <2> QED
    BY <1>1, <1>2, <1>3, <1>4, <2>1 DEF S
<1>5. CASE to # status
  <2>1. Cardinality(S \ {l}) = IF l \in S THEN Cardinality(S) - 1 ELSE Cardinality(S)
    BY <1>1, FS_RemoveElement
  <2> QED
    BY <1>1, <1>2, <1>3, <1>5, <2>1 DEF S
<1> QED
  BY <1>4, <1>5

LEMMA ShelfSays ==
  ASSUME LibraryTypeOK
  PROVE  /\ Issued \in Nat /\ Lost \in Nat
         /\ book.available \in Nat /\ book.quantity \in Nat
         /\ ShelfAgrees <=>
              /\ book.available + Issued + Lost >= book.quantity
              /\ twice = {} => book.available + Issued + Lost = book.quantity
<1>1. Issued \in Nat /\ Lost \in Nat
  BY CountsTyped DEF Issued, Lost
<1>2. book.available \in Nat /\ book.quantity \in Nat
  BY DEF LibraryTypeOK, Book
<1> QED
  BY <1>1, <1>2 DEF ShelfAgrees, Issued, Lost

(* A handler turns to something else.                                      *)
LEMMA DeskMoves ==
  ASSUME LibraryTypeOK, NEW w \in Librarians, NEW held \in Desk, Holding(w, held)
  PROVE  /\ desk' \in [Librarians -> Desk]
         /\ desk'[w] = held
         /\ \A v \in Librarians \ {w} : desk'[v] = desk[v]
BY DEF LibraryTypeOK, Holding

LEMMA LibraryInitInv == LibraryInit => LibraryInv
<1> SUFFICES ASSUME LibraryInit PROVE LibraryInv
  OBVIOUS
<1>1. PICK n \in 0 .. MaxCopies : book = CreateBook(n)
  BY DEF LibraryInit
<1>2. n \in Nat
  BY LibraryAssumption
<1>3. book \in Book /\ book.available = n /\ book.quantity = n
  BY <1>1, <1>2 DEF CreateBook, Book
<1>4. \A l \in Loans : loan[l] \in Loan /\ loan[l].status = "absent"
  <2>1. 0 \in Fines
    BY LibraryAssumption DEF Fines
  <2> QED
    BY <2>1 DEF LibraryInit, Loan
<1>5. LibraryTypeOK
  BY <1>3, <1>4, FreeTyped DEF LibraryInit, LibraryTypeOK
<1>6. LoansThatAre("issued") = {} /\ LoansThatAre("lost") = {}
  BY <1>4 DEF LoansThatAre
<1>7. Issued = 0 /\ Lost = 0
  BY <1>6, FS_EmptySet DEF Issued, Lost
<1>8. ShelfAgrees
  BY <1>2, <1>3, <1>5, <1>7, ShelfSays
<1>9. CountingAlone /\ InHand
  BY FreeTyped DEF LibraryInit, CountingAlone, InHand
<1> QED
  BY <1>5, <1>8, <1>9 DEF LibraryInv

(* A step of the handlers that moves no row: w takes up held.              *)
LEMMA HoldingKeeps ==
  ASSUME LibraryInv, NEW w \in Librarians, NEW held \in Desk, Holding(w, held),
         UNCHANGED <<book, loan, twice>>,
         bookLock' \in Librarians \cup {NoLibrarian},
         held.at \in {"issue", "receive"} => bookLock' = w /\ held.available = book.available,
         held.at # "free" => held.loan \in Loans,
         held.at = "issue" => loan[held.loan].status = "absent" /\ held.available >= 1,
         held.at \in {"return", "receive", "settle"} => loan[held.loan].status # "absent",
         \A v \in Librarians \ {w} : desk[v].at \in {"issue", "receive"} => bookLock' = v
  PROVE  LibraryInv'
<1>1. /\ desk' \in [Librarians -> Desk] /\ desk'[w] = held
      /\ \A v \in Librarians \ {w} : desk'[v] = desk[v]
  BY DeskMoves DEF LibraryInv
<1>2. LibraryTypeOK'
  BY <1>1 DEF LibraryInv, LibraryTypeOK
<1>3. ShelfAgrees'
  BY DEF LibraryInv, ShelfAgrees, LoansThatAre
<1>4. CountingAlone'
  BY <1>1 DEF LibraryInv, CountingAlone
<1>5. InHand'
  BY <1>1 DEF LibraryInv, InHand
<1> QED
  BY <1>2, <1>3, <1>4, <1>5 DEF LibraryInv

(* While the lock is free nobody counts.                                   *)
LEMMA NobodyCounts ==
  ASSUME LibraryInv, bookLock = NoLibrarian
  PROVE  \A v \in Librarians : desk[v].at \notin {"issue", "receive"}
BY LibraryAssumption DEF LibraryInv, CountingAlone

(* While w holds it nobody else does.                                      *)
LEMMA NobodyElseCounts ==
  ASSUME LibraryInv, NEW w \in Librarians, bookLock = w
  PROVE  \A v \in Librarians \ {w} : desk[v].at \notin {"issue", "receive"}
BY DEF LibraryInv, CountingAlone

LEMMA UpdateKeeps ==
  ASSUME LibraryInv, NEW n \in 0 .. MaxCopies, NEW active \in BOOLEAN, UpdateBook(n, active)
  PROVE  LibraryInv'
<1> DEFINE onLoan == book.quantity - book.available
<1>1. /\ n \in Nat /\ book.quantity \in Nat /\ book.available \in Nat
      /\ Issued \in Nat /\ Lost \in Nat
  BY LibraryAssumption, ShelfSays DEF LibraryInv
<1>2. /\ bookLock = NoLibrarian /\ n >= onLoan
      /\ book' = [quantity |-> n, available |-> n - onLoan, active |-> active]
      /\ UNCHANGED <<bookLock, loan, twice, desk>>
  BY DEF UpdateBook, BookGranted
<1>3. n - onLoan \in Nat
  BY <1>1, <1>2
<1>4. book' \in Book /\ book'.quantity = n /\ book'.available = n - onLoan
  BY <1>1, <1>2, <1>3 DEF Book
<1>5. LibraryTypeOK'
  BY <1>2, <1>4 DEF LibraryInv, LibraryTypeOK
<1>6. LoansThatAre("issued")' = LoansThatAre("issued") /\ LoansThatAre("lost")' = LoansThatAre("lost")
  BY <1>2 DEF LoansThatAre
<1>7. ShelfAgrees'
  <2>1. /\ book.available + Issued + Lost >= book.quantity
        /\ twice = {} => book.available + Issued + Lost = book.quantity
    BY ShelfSays DEF LibraryInv
  <2>2. /\ n - onLoan + Issued + Lost >= n
        /\ twice = {} => n - onLoan + Issued + Lost = n
    BY <1>1, <2>1
  <2> QED
    BY <1>2, <1>4, <1>6, <2>2 DEF ShelfAgrees, Issued, Lost
<1>8. CountingAlone'
  BY <1>2, NobodyCounts DEF CountingAlone
<1>9. InHand'
  BY <1>2 DEF LibraryInv, InHand
<1> QED
  BY <1>5, <1>7, <1>8, <1>9 DEF LibraryInv

LEMMA LockForIssueKeeps ==
  ASSUME LibraryInv, NEW w \in Librarians, NEW l \in Loans, LockForIssue(w, l)
  PROVE  LibraryInv'
<1> DEFINE held == [Free EXCEPT !.at = "issue", !.loan = l, !.available = book.available]
<1>1. book.available \in Nat
  BY DEF LibraryInv, LibraryTypeOK, Book
<1>2. held \in Desk /\ held.at = "issue" /\ held.loan = l /\ held.available = book.available
  BY <1>1, FreeTyped DEF Desk, Free
<1>3. /\ Holding(w, held) /\ UNCHANGED <<book, loan, twice>> /\ bookLock' = w
      /\ bookLock = NoLibrarian /\ loan[l].status = "absent" /\ book.available >= 1
  BY DEF LockForIssue, BookGranted, HasCopy
<1> HIDE DEF held
<1>4. \A v \in Librarians : desk[v].at \notin {"issue", "receive"}
  BY <1>3, NobodyCounts
<1> QED
  BY <1>2, <1>3, <1>4, HoldingKeeps

LEMMA ReadLoanKeeps ==
  ASSUME LibraryInv, NEW w \in Librarians, NEW l \in Loans, NEW outcome \in Outcomes,
         NEW fine \in Fines, ReadLoan(w, l, outcome, fine)
  PROVE  LibraryInv'
<1> DEFINE held == [Free EXCEPT !.at = "return", !.loan = l, !.outcome = outcome, !.fine = fine]
<1>1. held \in Desk /\ held.at = "return" /\ held.loan = l
  BY FreeTyped DEF Desk, Free
<1>2. /\ Holding(w, held) /\ UNCHANGED <<book, bookLock, loan, twice>>
      /\ loan[l].status = "issued"
  BY DEF ReadLoan
<1> HIDE DEF held
<1>3. bookLock' \in Librarians \cup {NoLibrarian}
  BY <1>2 DEF LibraryInv, LibraryTypeOK
<1>4. \A v \in Librarians \ {w} : desk[v].at \in {"issue", "receive"} => bookLock' = v
  BY <1>2 DEF LibraryInv, CountingAlone
<1> QED
  BY <1>1, <1>2, <1>3, <1>4, HoldingKeeps

LEMMA LockForReturnKeeps ==
  ASSUME LibraryInv, NEW w \in Librarians, LockForReturn(w)
  PROVE  LibraryInv'
<1> DEFINE held == [desk[w] EXCEPT !.at = "receive", !.available = book.available]
<1>1. book.available \in Nat /\ desk[w] \in Desk
  BY DEF LibraryInv, LibraryTypeOK, Book
<1>2. held \in Desk /\ held.at = "receive" /\ held.loan = desk[w].loan
      /\ held.available = book.available
  BY <1>1 DEF Desk
<1>3. /\ Holding(w, held) /\ UNCHANGED <<book, loan, twice>> /\ bookLock' = w
      /\ bookLock = NoLibrarian /\ desk[w].at = "return"
  BY DEF LockForReturn, BookGranted
<1> HIDE DEF held
<1>4. held.loan \in Loans /\ loan[held.loan].status # "absent"
  BY <1>2, <1>3 DEF LibraryInv, InHand
<1>5. \A v \in Librarians : desk[v].at \notin {"issue", "receive"}
  BY <1>3, NobodyCounts
<1> QED
  BY <1>2, <1>3, <1>4, <1>5, HoldingKeeps

LEMMA ReadFineKeeps ==
  ASSUME LibraryInv, NEW w \in Librarians, NEW l \in Loans, ReadFine(w, l)
  PROVE  LibraryInv'
<1> DEFINE held == [Free EXCEPT !.at = "settle", !.loan = l, !.fine = loan[l].fine,
                                !.paid = loan[l].paid, !.waived = loan[l].waived]
<1>1. loan[l].fine \in Fines /\ loan[l].paid \in Fines /\ loan[l].waived \in BOOLEAN
  BY DEF LibraryInv, LibraryTypeOK, Loan
<1>2. held \in Desk /\ held.at = "settle" /\ held.loan = l
  BY <1>1, FreeTyped DEF Desk, Free
<1>3. /\ Holding(w, held) /\ UNCHANGED <<book, bookLock, loan, twice>>
      /\ loan[l].status # "absent"
  BY DEF ReadFine
<1> HIDE DEF held
<1>4. bookLock' \in Librarians \cup {NoLibrarian}
  BY <1>3 DEF LibraryInv, LibraryTypeOK
<1>5. \A v \in Librarians \ {w} : desk[v].at \in {"issue", "receive"} => bookLock' = v
  BY <1>3 DEF LibraryInv, CountingAlone
<1> QED
  BY <1>2, <1>3, <1>4, <1>5, HoldingKeeps

(* The three steps that write: w is done, and the lock is free unless it   *)
(* was another's all along.                                                *)
LEMMA DoneKeeps ==
  ASSUME LibraryInv, NEW w \in Librarians, Holding(w, Free),
         \A l \in Loans : loan[l].status # "absent" => loan'[l].status # "absent",
         \A v \in Librarians \ {w} :
           desk[v].at \in {"issue", "receive"} =>
             /\ bookLock' = bookLock /\ book' = book
             /\ \A l \in Loans : loan'[l].status = loan[l].status
  PROVE  desk' \in [Librarians -> Desk] /\ CountingAlone' /\ InHand'
<1>1. /\ desk' \in [Librarians -> Desk] /\ desk'[w] = Free
      /\ \A v \in Librarians \ {w} : desk'[v] = desk[v]
  BY FreeTyped, DeskMoves DEF LibraryInv
<1>2. CountingAlone'
  BY <1>1, FreeTyped DEF LibraryInv, CountingAlone
<1>3. InHand'
  <2> SUFFICES ASSUME NEW v \in Librarians
               PROVE  /\ desk'[v].at # "free" => desk'[v].loan \in Loans
                      /\ desk'[v].at = "issue" =>
                           loan'[desk'[v].loan].status = "absent" /\ desk'[v].available >= 1
                      /\ desk'[v].at \in {"return", "receive", "settle"} =>
                           loan'[desk'[v].loan].status # "absent"
    BY DEF InHand
  <2>1. CASE v = w
    BY <1>1, <2>1, FreeTyped
  <2>2. CASE v # w
    BY <1>1, <2>2 DEF LibraryInv, InHand
  <2> QED
    BY <2>1, <2>2
<1> QED
  BY <1>1, <1>2, <1>3

LEMMA IssueKeeps ==
  ASSUME LibraryInv, NEW w \in Librarians, IssueLoan(w)
  PROVE  LibraryInv'
<1> DEFINE l == desk[w].loan
<1>1. /\ l \in Loans /\ loan[l].status = "absent" /\ desk[w].available >= 1
      /\ bookLock = w /\ desk[w].available = book.available
  BY DEF IssueLoan, LibraryInv, InHand, CountingAlone
<1>2. /\ book \in Book /\ book.available \in Nat /\ book.quantity \in Nat
      /\ Issued \in Nat /\ Lost \in Nat
      /\ loan \in [Loans -> Loan]
  BY ShelfSays DEF LibraryInv, LibraryTypeOK
<1>3. /\ loan' = [loan EXCEPT ![l].status = "issued"]
      /\ book' = [book EXCEPT !.available = desk[w].available - 1]
      /\ bookLock' = NoLibrarian /\ Holding(w, Free) /\ UNCHANGED twice
  BY DEF IssueLoan
<1>4. /\ loan' \in [Loans -> Loan] /\ loan'[l].status = "issued"
      /\ \A o \in Loans \ {l} : loan'[o] = loan[o]
  BY <1>1, <1>2, <1>3 DEF Loan
<1>5. /\ book' \in Book /\ book'.available = book.available - 1
      /\ book'.quantity = book.quantity
  <2>1. book.available - 1 \in Nat
    BY <1>1, <1>2
  <2> QED
    BY <1>1, <1>2, <1>3, <2>1 DEF Book
<1>6. Issued' = Issued + 1 /\ Lost' = Lost
  <2>1. Cardinality(LoansThatAre("issued"))' = Cardinality(LoansThatAre("issued")) + 1 - 0
    BY <1>1, <1>4, LoanMoves DEF LibraryInv
  <2>2. Cardinality(LoansThatAre("lost"))' = Cardinality(LoansThatAre("lost")) + 0 - 0
    BY <1>1, <1>4, LoanMoves DEF LibraryInv
  <2> QED
    BY <1>2, <2>1, <2>2 DEF Issued, Lost
<1>7. \A v \in Librarians \ {w} : desk[v].at \notin {"issue", "receive"}
  BY <1>1, NobodyElseCounts
<1>8. desk' \in [Librarians -> Desk] /\ CountingAlone' /\ InHand'
  BY <1>1, <1>3, <1>4, <1>7, DoneKeeps
<1>9. LibraryTypeOK'
  BY <1>3, <1>4, <1>5, <1>8 DEF LibraryInv, LibraryTypeOK
<1>10. ShelfAgrees'
  <2>1. /\ book.available + Issued + Lost >= book.quantity
        /\ twice = {} => book.available + Issued + Lost = book.quantity
    BY ShelfSays DEF LibraryInv
  <2>2. /\ book'.available + Issued' + Lost' >= book'.quantity
        /\ twice' = {} => book'.available + Issued' + Lost' = book'.quantity
    BY <1>2, <1>3, <1>5, <1>6, <2>1
  <2> QED
    BY <2>2 DEF ShelfAgrees, Issued, Lost
<1> QED
  BY <1>8, <1>9, <1>10 DEF LibraryInv

(* A return counts a copy more, or a loss, for a loan less; a second one   *)
(* of the same loan has no loan to count less.                             *)
LEMMA ReceiveKeeps ==
  ASSUME LibraryInv, NEW w \in Librarians, Receive(w)
  PROVE  LibraryInv'
<1> DEFINE l == desk[w].loan
           outcome == desk[w].outcome
           available == desk[w].available + Shelved(outcome)
<1>1. /\ l \in Loans /\ loan[l].status # "absent"
      /\ bookLock = w /\ desk[w].available = book.available
  BY DEF Receive, LibraryInv, InHand, CountingAlone
<1>2. /\ book \in Book /\ book.available \in Nat /\ book.quantity \in Nat
      /\ Issued \in Nat /\ Lost \in Nat
      /\ loan \in [Loans -> Loan] /\ desk[w] \in Desk /\ outcome \in Outcomes
      /\ loan[l].status \in {"issued", "returned", "lost"}
  BY <1>1, ShelfSays DEF LibraryInv, LibraryTypeOK, Desk, Loan, Outcomes
<1>3. bookLock' = NoLibrarian /\ Holding(w, Free)
  BY DEF Receive
<1>4. \A v \in Librarians \ {w} : desk[v].at \notin {"issue", "receive"}
  BY <1>1, NobodyElseCounts
<1>5. CASE available > book.quantity
  <2>1. UNCHANGED <<book, loan, twice>>
    BY <1>5 DEF Receive
  <2> QED
    BY <1>3, <1>4, <2>1, FreeTyped, HoldingKeeps
<1>6. CASE ~(available > book.quantity)
  <2>1. /\ loan' = [loan EXCEPT ![l].status = outcome,
                                ![l].fine = SavedColumn(@, 0, desk[w].fine)]
        /\ twice' = IF loan[l].status = "issued" THEN twice ELSE twice \cup {l}
        /\ book' = [book EXCEPT !.available = available]
    BY <1>6 DEF Receive
  <2>2. SavedColumn(loan[l].fine, 0, desk[w].fine) \in Fines
    BY <1>1, <1>2 DEF SavedColumn, Loan, Desk
  <2>3. /\ loan' \in [Loans -> Loan] /\ loan'[l].status = outcome
        /\ \A o \in Loans \ {l} : loan'[o] = loan[o]
    <3>1. loan \in [Loans -> Loan] /\ l \in Loans /\ outcome \in Outcomes
      BY <1>1, <1>2
    <3> DEFINE fine == SavedColumn(loan[l].fine, 0, desk[w].fine)
    <3>2. fine \in Fines
      BY <2>2
    <3>3. loan' = [loan EXCEPT ![l] = [loan[l] EXCEPT !.status = outcome, !.fine = fine]]
      BY <2>1, <3>1 DEF Loan
    <3> HIDE DEF fine, l, outcome
    <3>4. [loan[l] EXCEPT !.status = outcome, !.fine = fine] \in Loan
          /\ [loan[l] EXCEPT !.status = outcome, !.fine = fine].status = outcome
      BY <3>1, <3>2 DEF Loan
    <3> QED BY <3>1, <3>3, <3>4
  <2>4. outcome = "returned" \/ outcome = "lost"
    BY <1>2 DEF Outcomes
  <2>5. available = book.available + (IF outcome = "returned" THEN 1 ELSE 0)
    BY <1>1 DEF Shelved
  <2>6. book' \in Book /\ book'.available = available /\ book'.quantity = book.quantity
    <3>1. available \in Nat
      BY <1>2, <2>5
    <3> HIDE DEF available
    <3> QED
      BY <1>2, <2>1, <3>1 DEF Book
  <2>7. Issued' = Issued - (IF loan[l].status = "issued" THEN 1 ELSE 0)
    <3>1. Cardinality(LoansThatAre("issued"))' =
            Cardinality(LoansThatAre("issued"))
              + (IF outcome = "issued" THEN 1 ELSE 0)
              - (IF loan[l].status = "issued" THEN 1 ELSE 0)
      BY <1>1, <2>3, LoanMoves DEF LibraryInv
    <3> QED
      BY <1>2, <2>4, <3>1 DEF Issued
  <2>8. Lost' = Lost + (IF outcome = "lost" THEN 1 ELSE 0)
                     - (IF loan[l].status = "lost" THEN 1 ELSE 0)
    <3>1. Cardinality(LoansThatAre("lost"))' =
            Cardinality(LoansThatAre("lost"))
              + (IF outcome = "lost" THEN 1 ELSE 0)
              - (IF loan[l].status = "lost" THEN 1 ELSE 0)
      BY <1>1, <2>3, LoanMoves DEF LibraryInv
    <3> QED
      BY <3>1 DEF Lost
  <2>9. desk' \in [Librarians -> Desk] /\ CountingAlone' /\ InHand'
    BY <1>3, <1>4, <2>3, <2>4, DoneKeeps
  <2>10. LibraryTypeOK'
    BY <1>1, <1>3, <2>1, <2>3, <2>6, <2>9 DEF LibraryInv, LibraryTypeOK
  <2>11. ShelfAgrees'
    <3>1. /\ book.available + Issued + Lost >= book.quantity
          /\ twice = {} => book.available + Issued + Lost = book.quantity
      BY ShelfSays DEF LibraryInv
    <3>2. /\ book'.available + Issued' + Lost' >= book'.quantity
          /\ loan[l].status = "issued" =>
               book'.available + Issued' + Lost' = book.available + Issued + Lost
      <4> HIDE DEF available, outcome
      <4> QED
        BY <1>2, <2>4, <2>5, <2>6, <2>7, <2>8, <3>1
    <3>3. twice' = {} => loan[l].status = "issued" /\ twice = {}
      BY <2>1
    <3> QED
      BY <2>6, <3>1, <3>2, <3>3 DEF ShelfAgrees, Issued, Lost
  <2> QED
    BY <2>9, <2>10, <2>11 DEF LibraryInv
<1> QED
  BY <1>5, <1>6

LEMMA SettleKeeps ==
  ASSUME LibraryInv, NEW w \in Librarians, NEW paid \in Fines, NEW waived \in BOOLEAN,
         Settle(w, paid, waived)
  PROVE  LibraryInv'
<1> DEFINE l == desk[w].loan
           p == SavedColumn(loan[l].paid, desk[w].paid, paid)
           v == SavedColumn(loan[l].waived, desk[w].waived, waived)
<1>1. l \in Loans /\ loan \in [Loans -> Loan]
  BY DEF Settle, LibraryInv, InHand, LibraryTypeOK
<1>2. p \in Fines /\ v \in BOOLEAN
  BY <1>1 DEF SavedColumn, Loan
<1>3. /\ loan' = [loan EXCEPT ![l].paid = p, ![l].waived = v]
      /\ Holding(w, Free) /\ UNCHANGED <<book, bookLock, twice>>
  BY <1>1 DEF Settle
<1> HIDE DEF p, v
<1>4. /\ loan' \in [Loans -> Loan]
      /\ \A o \in Loans : loan'[o].status = loan[o].status
  BY <1>1, <1>2, <1>3 DEF Loan
<1>5. desk' \in [Librarians -> Desk] /\ CountingAlone' /\ InHand'
  BY <1>3, <1>4, DoneKeeps
<1>6. LibraryTypeOK'
  BY <1>3, <1>4, <1>5 DEF LibraryInv, LibraryTypeOK
<1>7. LoansThatAre("issued")' = LoansThatAre("issued") /\ LoansThatAre("lost")' = LoansThatAre("lost")
  BY <1>4 DEF LoansThatAre
<1>8. ShelfAgrees'
  BY <1>3, <1>7 DEF LibraryInv, ShelfAgrees
<1> QED
  BY <1>5, <1>6, <1>8 DEF LibraryInv

LEMMA LibraryNextInv == LibraryInv /\ [LibraryNext]_libraryVars => LibraryInv'
<1> SUFFICES ASSUME LibraryInv, [LibraryNext]_libraryVars PROVE LibraryInv'
  OBVIOUS
<1>1. CASE UNCHANGED libraryVars
  BY <1>1 DEF libraryVars, LibraryInv, LibraryTypeOK, ShelfAgrees, LoansThatAre,
              CountingAlone, InHand
<1>2. ASSUME NEW n \in 0 .. MaxCopies, NEW active \in BOOLEAN, UpdateBook(n, active)
      PROVE  LibraryInv'
  BY <1>2, UpdateKeeps
<1>3. ASSUME NEW w \in Librarians, NEW l \in Loans, LockForIssue(w, l) PROVE LibraryInv'
  BY <1>3, LockForIssueKeeps
<1>4. ASSUME NEW w \in Librarians, NEW l \in Loans, ReadFine(w, l) PROVE LibraryInv'
  BY <1>4, ReadFineKeeps
<1>5. ASSUME NEW w \in Librarians, NEW l \in Loans, NEW outcome \in Outcomes,
             NEW fine \in Fines, ReadLoan(w, l, outcome, fine)
      PROVE  LibraryInv'
  BY <1>5, ReadLoanKeeps
<1>6. ASSUME NEW w \in Librarians, IssueLoan(w) PROVE LibraryInv'
  BY <1>6, IssueKeeps
<1>7. ASSUME NEW w \in Librarians, LockForReturn(w) PROVE LibraryInv'
  BY <1>7, LockForReturnKeeps
<1>8. ASSUME NEW w \in Librarians, Receive(w) PROVE LibraryInv'
  BY <1>8, ReceiveKeeps
<1>9. ASSUME NEW w \in Librarians, NEW paid \in Fines, NEW waived \in BOOLEAN,
             Settle(w, paid, waived)
      PROVE  LibraryInv'
  BY <1>9, SettleKeeps
<1> QED
  BY <1>1, <1>2, <1>3, <1>4, <1>5, <1>6, <1>7, <1>8, <1>9 DEF LibraryNext

(* The title, its loans and what every librarian holds keep their types;   *)
(* available_quantity, an unsigned column, never goes below zero.          *)
THEOREM LibraryTyped == LibrarySpec => []LibraryTypeOK
<1>1. LibraryInv => LibraryTypeOK
  BY DEF LibraryInv
<1> QED
  BY <1>1, LibraryInitInv, LibraryNextInv, PTL DEF LibrarySpec

(* available_quantity, the loans and the losses make up the quantity; only *)
(* a loan returned twice makes them too many, and nothing makes them fewer. *)
THEOREM ShelfAgreesWithLoans == LibrarySpec => []ShelfAgrees
<1>1. LibraryInv => ShelfAgrees
  BY DEF LibraryInv
<1> QED
  BY <1>1, LibraryInitInv, LibraryNextInv, PTL DEF LibrarySpec

-----------------------------------------------------------------------------
(* A refresh that was granted knows a token that was minted, and while that *)
(* is the token stored, the login it goes back to is the one stored.        *)
GrantsKnown ==
  \A t \in Tabs, k \in Slots : call[t][k].at = "granted" =>
    /\ call[t][k].token # 0 /\ call[t][k].token <= minted
    /\ call[t][k].token = row.token => call[t][k].login = row.login

MintedFirst == row.token <= minted /\ ended <= minted

SessionsInv == SessionsTypeOK /\ MintedFirst /\ GrantsKnown /\ EndedStaysEnded

(* No call of the next state is granted that was not granted before. *)
NoneGranted ==
  \A t \in Tabs, k \in Slots : call'[t][k].at = "granted" => call'[t][k] = call[t][k]

LEMMA TokensAreNat == 0 \in Tokens /\ \A n \in Tokens : n \in Nat /\ (n < MaxMinted => n + 1 \in Tokens)
  BY SessionsAssumption DEF Tokens

LEMMA BlanksTyped == NoCall \in Call /\ SignedOut \in Tab /\ NoCookies \in Jar
  BY TokensAreNat DEF NoCall, Call, Steps, SignedOut, Tab, NoCookies, Jar

(* Setting one call leaves every other as it was. *)
LEMMA CallingSets ==
  ASSUME SessionsTypeOK, NEW t \in Tabs, NEW k \in Slots, NEW held \in Call, Calling(t, k, held)
  PROVE  /\ call' \in [Tabs -> [Slots -> Call]]
         /\ \A u \in Tabs, j \in Slots :
              call'[u][j] = IF u = t /\ j = k THEN held ELSE call[u][j]
  BY DEF SessionsTypeOK, Calling

LEMMA CallingGrantsNone ==
  ASSUME SessionsTypeOK, NEW t \in Tabs, NEW k \in Slots, NEW held \in Call, Calling(t, k, held),
         held.at # "granted"
  PROVE  call' \in [Tabs -> [Slots -> Call]] /\ NoneGranted
  BY CallingSets DEF NoneGranted

LEMMA OverClears ==
  ASSUME SessionsTypeOK, NEW t \in Tabs, NEW k \in Slots, Over(t, k)
  PROVE  call' \in [Tabs -> [Slots -> Call]] /\ NoneGranted
  <1> DEFINE left(j) == IF j = k \/ (call[t][k].refresh /\ call[t][j].at = "waiting")
                        THEN NoCall ELSE call[t][j]
  <1>1. call' = [call EXCEPT ![t] = [j \in Slots |-> left(j)]]
    BY DEF Over, SessionsTypeOK
  <1>2. \A j \in Slots : left(j) \in Call /\ (left(j).at = "granted" => left(j) = call[t][j])
    BY BlanksTyped DEF SessionsTypeOK, NoCall
  <1> HIDE DEF left
  <1>3. \A u \in Tabs, j \in Slots : call'[u][j] = IF u = t THEN left(j) ELSE call[u][j]
    BY <1>1 DEF SessionsTypeOK
  <1>4. call' \in [Tabs -> [Slots -> Call]]
    BY <1>1, <1>2 DEF SessionsTypeOK
  <1> QED BY <1>2, <1>3, <1>4 DEF NoneGranted

(* What a grant knows stays true while the row stays, loses its token or *)
(* takes one minted later.                                               *)
LEMMA GrantsStay ==
  ASSUME SessionsTypeOK, GrantsKnown, NoneGranted, minted' \in Nat, minted <= minted',
         row' = row \/ row'.token = 0 \/ (minted < minted' /\ row'.token = minted')
  PROVE  GrantsKnown'
  <1> SUFFICES ASSUME NEW t \in Tabs, NEW k \in Slots, call'[t][k].at = "granted"
               PROVE  /\ call'[t][k].token # 0 /\ call'[t][k].token <= minted'
                      /\ call'[t][k].token = row'.token => call'[t][k].login = row'.login
    BY DEF GrantsKnown
  <1>1. call'[t][k] = call[t][k]
    BY DEF NoneGranted
  <1>2. call[t][k].token \in Nat /\ minted \in Nat
    BY TokensAreNat DEF SessionsTypeOK, Call
  <1>3. /\ call[t][k].token # 0 /\ call[t][k].token <= minted
        /\ call[t][k].token = row.token => call[t][k].login = row.login
    BY <1>1 DEF GrantsKnown
  <1> QED BY <1>1, <1>2, <1>3

(* A step that leaves the account as it is and grants nothing. *)
LEMMA AccountRests ==
  ASSUME SessionsInv, SessionsTypeOK', NoneGranted, UNCHANGED <<row, ended, revived>>,
         minted' \in Nat, minted <= minted'
  PROVE  SessionsInv'
  <1>1. GrantsKnown'
    BY GrantsStay DEF SessionsInv
  <1>2. row.token \in Nat /\ ended \in Nat /\ minted \in Nat
    BY TokensAreNat DEF SessionsInv, SessionsTypeOK, UserRow
  <1>3. MintedFirst' /\ EndedStaysEnded'
    BY <1>2 DEF SessionsInv, MintedFirst, EndedStaysEnded
  <1> QED BY <1>1, <1>3 DEF SessionsInv

(* Every session ends: the row has no token, and every login so far is over. *)
LEMMA EndingKeeps ==
  ASSUME SessionsInv, SessionsTypeOK', NoneGranted, EndEverySession, UNCHANGED minted
  PROVE  SessionsInv'
  <1>1. minted \in Nat /\ row'.token = 0
    BY TokensAreNat DEF SessionsInv, SessionsTypeOK, UserRow, EndEverySession
  <1>2. GrantsKnown'
    BY <1>1, GrantsStay DEF SessionsInv
  <1>3. MintedFirst' /\ EndedStaysEnded'
    BY <1>1 DEF MintedFirst, EndedStaysEnded, EndEverySession
  <1> QED BY <1>2, <1>3 DEF SessionsInv

(* A new session has the newest token, and a login later than any that ended. *)
LEMMA SignInKeeps ==
  ASSUME SessionsInv, SessionsTypeOK', NEW t \in Tabs, NEW k \in Slots, IssueSession(t, k),
         UNCHANGED <<ended, revived>>
  PROVE  SessionsInv'
  <1>1. minted \in Nat /\ ended \in Nat /\ minted' = minted + 1 /\ minted' \in Tokens
    BY TokensAreNat DEF SessionsInv, SessionsTypeOK, IssueSession
  <1>2. row'.token = minted' /\ row'.login = minted'
    BY DEF IssueSession
  <1>3. [NoCall EXCEPT !.at = "answered", !.token = minted'] \in Call
    BY <1>1, BlanksTyped DEF Call, Steps, Answers
  <1>4. NoneGranted
    <2> DEFINE held == [NoCall EXCEPT !.at = "answered", !.token = minted']
    <2>1. held.at # "granted"
      BY DEF NoCall
    <2>2. Calling(t, k, held)
      BY DEF IssueSession
    <2> HIDE DEF held
    <2> QED BY <1>3, <2>1, <2>2, CallingGrantsNone DEF SessionsInv, held
  <1>5. GrantsKnown'
    BY <1>1, <1>2, <1>4, GrantsStay DEF SessionsInv
  <1>6. MintedFirst'
    BY <1>1, <1>2 DEF SessionsInv, MintedFirst
  <1>7. EndedStaysEnded'
    <2>1. UNCHANGED <<ended, revived>>
      OBVIOUS
    <2>2. ended <= minted
      BY DEF SessionsInv, MintedFirst
    <2>3. row'.login > ended'
      BY <1>1, <1>2, <2>1, <2>2
    <2>4. QED BY <2>3 DEF EndedStaysEnded
  <1> QED BY <1>5, <1>6, <1>7 DEF SessionsInv

(* A rotation of the token the row still has goes back to the login it has. *)
LEMMA RotateKeeps ==
  ASSUME SessionsInv, SessionsTypeOK', NEW t \in Tabs, NEW k \in Slots, Rotate(t, k)
  PROVE  SessionsInv'
  <1>1. minted \in Nat /\ ended \in Nat /\ minted' = minted + 1 /\ minted' \in Tokens
    BY TokensAreNat DEF SessionsInv, SessionsTypeOK, Rotate
  <1>2. row'.token = minted' /\ row'.login = call[t][k].login /\ ended' = ended
    BY DEF Rotate
  <1>3. call[t][k] \in Call
    BY DEF SessionsInv, SessionsTypeOK
  <1>4. [call[t][k] EXCEPT !.at = "answered", !.token = minted'] \in Call
    BY <1>1, <1>3 DEF Call, Steps, Answers
  <1>5. NoneGranted
    <2> DEFINE held == [call[t][k] EXCEPT !.at = "answered", !.token = minted']
    <2>1. held.at # "granted"
      BY <1>3 DEF Call
    <2>2. Calling(t, k, held)
      BY DEF Rotate
    <2> HIDE DEF held
    <2> QED BY <1>4, <2>1, <2>2, CallingGrantsNone DEF SessionsInv, held
  <1>6. GrantsKnown'
    BY <1>1, <1>2, <1>5, GrantsStay DEF SessionsInv
  <1>7. MintedFirst'
    BY <1>1, <1>2 DEF SessionsInv, MintedFirst
  <1>8. EndedStaysEnded'
    <2> SUFFICES ASSUME ~revived' PROVE row'.login > ended'
      BY DEF EndedStaysEnded
    <2>1. ~revived /\ row.token = call[t][k].token
      BY DEF Rotate
    <2>2. call[t][k].token # 0 /\ call[t][k].login = row.login
      BY <2>1 DEF Rotate, SessionsInv, GrantsKnown
    <2> QED BY <1>2, <2>1, <2>2 DEF SessionsInv, EndedStaysEnded
  <1> QED BY <1>6, <1>7, <1>8 DEF SessionsInv

(* A refresh is granted when its token is the one the row has. *)
LEMMA ReadKeeps ==
  ASSUME SessionsInv, SessionsTypeOK', NEW t \in Tabs, NEW k \in Slots, ReadUserRow(t, k)
  PROVE  SessionsInv'
  <1> DEFINE held == [call[t][k] EXCEPT
           !.at = IF call[t][k].token = 0 \/ row.token = 0 THEN "failed"
                  ELSE IF call[t][k].token # row.token THEN "mismatch" ELSE "granted",
           !.login = row.login]
  <1>1. call[t][k] \in Call /\ row \in UserRow /\ minted \in Nat
    BY TokensAreNat DEF SessionsInv, SessionsTypeOK
  <1>2. held \in Call
    BY <1>1 DEF Call, UserRow, Steps, AtServer, Answers
  <1>3. held.at = "granted" =>
          held.token # 0 /\ held.token = row.token /\ held.login = row.login
    BY <1>1 DEF Call
  <1>4. Calling(t, k, held) /\ UNCHANGED <<row, minted, ended, revived>>
    BY DEF ReadUserRow, history
  <1> HIDE DEF held
  <1>5. \A u \in Tabs, j \in Slots :
          call'[u][j] = IF u = t /\ j = k THEN held ELSE call[u][j]
    BY <1>2, <1>4, CallingSets DEF SessionsInv
  <1>6. GrantsKnown'
    BY <1>3, <1>4, <1>5 DEF SessionsInv, GrantsKnown, MintedFirst
  <1>7. MintedFirst' /\ EndedStaysEnded'
    BY <1>4 DEF SessionsInv, MintedFirst, EndedStaysEnded
  <1> QED BY <1>6, <1>7 DEF SessionsInv

(* A refresh that is sent is at the server, or refused on the spot. *)
LEMMA SendSays ==
  ASSUME SessionsTypeOK, NEW t \in Tabs, NEW k \in Slots, NEW header, Send(t, k, header)
  PROVE  /\ call' \in [Tabs -> [Slots -> Call]] /\ NoneGranted
         /\ refused' \subseteq {"csrf", "reused"}
  <1>1. call[t][k] \in Call /\ jar[jarOf[t]].refresh \in Tokens /\ refused \subseteq {"csrf", "reused"}
    BY DEF SessionsTypeOK, Jar
  <1>2. CASE CsrfMatches(t, header)
    <2> DEFINE held == [call[t][k] EXCEPT !.at = "refresh", !.token = jar[jarOf[t]].refresh]
    <2>1. Calling(t, k, held) /\ UNCHANGED refused
      BY <1>2 DEF Send
    <2>2. held \in Call /\ held.at # "granted"
      BY <1>1 DEF Call, Steps, AtServer
    <2> HIDE DEF held
    <2> QED BY <1>1, <2>1, <2>2, CallingGrantsNone
  <1>3. CASE ~CsrfMatches(t, header)
    <2> DEFINE held == [call[t][k] EXCEPT !.at = "failed"]
    <2>1. Calling(t, k, held) /\ refused' = refused \cup {"csrf"}
      BY <1>3 DEF Send
    <2>2. held \in Call /\ held.at # "granted"
      BY <1>1 DEF Call, Steps, Answers
    <2> HIDE DEF held
    <2> QED BY <1>1, <2>1, <2>2, CallingGrantsNone
  <1> QED BY <1>2, <1>3

-----------------------------------------------------------------------------
(* Every step keeps the types. *)

LEMMA StepTypes ==
  ASSUME SessionsTypeOK, [SessionsNext]_sessionVars
  PROVE  SessionsTypeOK'
  <1> USE BlanksTyped, TokensAreNat
  <1>2. ASSUME NEW t \in Tabs, ReloadPage(t) PROVE SessionsTypeOK'
    BY <1>2 DEF SessionsTypeOK, ReloadPage
  <1>3. ASSUME NEW b \in Browsers, ResetPassword(b) PROVE SessionsTypeOK'
    BY <1>3 DEF SessionsTypeOK, ResetPassword, EndEverySession, Jar, UserRow
  <1>4. ASSUME NEW t \in Tabs, NEW k \in Slots, CallStep(t, k) PROVE SessionsTypeOK'
    <2> DEFINE c == call[t][k]
    <2>0. c \in Call
      BY DEF SessionsTypeOK
    <2>a. \A a \in Steps :
            /\ [NoCall EXCEPT !.at = a] \in Call
            /\ [NoCall EXCEPT !.at = a, !.refresh = TRUE] \in Call
            /\ [c EXCEPT !.at = a] \in Call
            /\ \A n \in Tokens : /\ [NoCall EXCEPT !.at = a, !.token = n] \in Call
                                 /\ [c EXCEPT !.at = a, !.token = n] \in Call
                                 /\ [c EXCEPT !.at = a, !.login = n] \in Call
      BY <2>0 DEF Call
    <2>b. ASSUME NEW held \in Call, Calling(t, k, held) PROVE call' \in [Tabs -> [Slots -> Call]]
      BY <2>b, CallingSets
    <2> HIDE DEF c
    <2>16. CASE FetchCsrf(t, k)
      BY <2>16, <2>a, <2>b DEF FetchCsrf, SessionsTypeOK, Steps, Fetches, c
    <2>17. CASE MintCsrf(t, k)
      <3>1. minted' \in Tokens
        BY <2>17 DEF MintCsrf, SessionsTypeOK
      <3>2. call' \in [Tabs -> [Slots -> Call]]
        BY <2>17, <3>1, <2>a, <2>b DEF MintCsrf, Steps, Fetches, c
      <3> QED BY <2>17, <3>1, <3>2 DEF MintCsrf, SessionsTypeOK, Jar, history
    <2>18. CASE UseFetched(t, k)
      <3>1. call' \in [Tabs -> [Slots -> Call]] /\ refused' \subseteq {"csrf", "reused"}
        <4>1. CASE call[t][k].refresh
          BY <2>18, <4>1, SendSays DEF UseFetched
        <4>2. CASE ~call[t][k].refresh
          BY <2>18, <4>2, <2>b DEF UseFetched, SessionsTypeOK
        <4> QED BY <4>1, <4>2
      <3>2. c.token \in Tokens
        BY <2>0 DEF Call, c
      <3> QED BY <2>18, <3>1, <3>2 DEF UseFetched, SessionsTypeOK, Tab, c
    <2>19. CASE SetCookies(t, k)
      <3>1. c.token \in Tokens
        BY <2>0 DEF Call, c
      <3>2. call' \in [Tabs -> [Slots -> Call]]
        BY <2>19, <2>a, <2>b DEF SetCookies, Steps, Answers, c
      <3> QED BY <2>19, <3>1, <3>2 DEF SetCookies, SessionsTypeOK, Jar, history, c
    <2>20. CASE ClearCookies(t, k)
      <3>1. call' \in [Tabs -> [Slots -> Call]]
        BY <2>20, <2>a, <2>b DEF ClearCookies, Steps, Answers, c
      <3> QED BY <2>20, <3>1 DEF ClearCookies, SessionsTypeOK, history
    <2>1. CASE Deny(t, k)
      BY <2>1, <2>a, <2>b DEF Deny, SessionsTypeOK, Steps, Fetches, AtServer, Answers
    <2>2. CASE Refresh(t, k)
      BY <2>2, <2>a, <2>b DEF Refresh, SessionsTypeOK, Steps, Fetches, AtServer, Answers
    <2>3. CASE SendRefresh(t, k)
      BY <2>3, SendSays DEF SendRefresh, SessionsTypeOK
    <2>4. CASE AdoptSession(t, k)
      <3>1. c.token \in Tokens
        BY <2>0 DEF Call
      <3>2. call' \in [Tabs -> [Slots -> Call]]
        BY <2>4, OverClears DEF AdoptSession
      <3> QED BY <2>4, <3>1, <3>2 DEF AdoptSession, SessionsTypeOK, Jar, Tab, history, c
    <2>5. CASE LoseSession(t, k)
      <3>1. call' \in [Tabs -> [Slots -> Call]]
        BY <2>5, OverClears DEF LoseSession
      <3> QED BY <2>5, <3>1 DEF LoseSession, SessionsTypeOK, history
    <2>6. CASE LoseAnswer(t, k)
      <3>1. call' \in [Tabs -> [Slots -> Call]]
        BY <2>6, <2>a, <2>b DEF LoseAnswer, Steps, Answers, c
      <3> QED BY <2>6, <3>1 DEF LoseAnswer, SessionsTypeOK
    <2>7. CASE ReadUserRow(t, k)
      <3>1. call' \in [Tabs -> [Slots -> Call]]
        BY <2>7, <2>a, <2>b DEF ReadUserRow, SessionsTypeOK, UserRow, Steps, Answers, Fetches, AtServer, c
      <3> QED BY <2>7, <3>1 DEF ReadUserRow, SessionsTypeOK, history
    <2>8. CASE EndReused(t, k)
      BY <2>8, <2>a, <2>b DEF EndReused, SessionsTypeOK, UserRow, Steps, Answers, Fetches, AtServer, c
    <2>9. CASE Rotate(t, k)
      <3>1. minted' \in Tokens /\ c.login \in Tokens
        BY <2>9, <2>0 DEF Rotate, SessionsTypeOK, Call
      <3>2. call' \in [Tabs -> [Slots -> Call]]
        BY <2>9, <3>1, <2>a, <2>b DEF Rotate, Steps, Answers, Fetches, AtServer, c
      <3> QED BY <2>9, <3>1, <3>2 DEF Rotate, SessionsTypeOK, UserRow, c
    <2>10. ASSUME IssueSession(t, k)
           PROVE  minted' \in Tokens /\ row' \in UserRow /\ call' \in [Tabs -> [Slots -> Call]]
      <3>1. minted' \in Tokens
        BY <2>10 DEF IssueSession, SessionsTypeOK
      <3> QED BY <2>10, <3>1, <2>a, <2>b DEF IssueSession, UserRow, Steps, Fetches, AtServer, Answers
    <2>11. CASE Login(t, k)
      BY <2>11, <2>10 DEF Login, Begins, SessionsTypeOK
    <2>12. CASE Logout(t, k)
      <3>1. call' \in [Tabs -> [Slots -> Call]]
        BY <2>12, <2>a, <2>b DEF Logout, Steps, Fetches, AtServer, Answers
      <3> QED BY <2>12, <3>1 DEF Logout, Begins, EndEverySession, SessionsTypeOK, UserRow
    <2>13. CASE LeaveApp(t, k)
      <3>1. call' \in [Tabs -> [Slots -> Call]]
        BY <2>13, OverClears DEF LeaveApp
      <3> QED BY <2>13, <3>1 DEF LeaveApp, SessionsTypeOK, history
    <2>14. CASE ChangePassword(t, k)
      <3>1. call' \in [Tabs -> [Slots -> Call]]
        BY <2>14, <2>a, <2>b DEF ChangePassword, Steps, Fetches, AtServer, Answers
      <3> QED BY <2>14, <3>1 DEF ChangePassword, Begins, EndEverySession, SessionsTypeOK, UserRow
    <2>15. CASE SessionAfterChange(t, k)
      BY <2>15, <2>10 DEF SessionAfterChange, SessionsTypeOK, history
    <2> QED BY <1>4, <2>1, <2>2, <2>3, <2>4, <2>5, <2>6, <2>7, <2>8, <2>9, <2>11, <2>12, <2>13,
               <2>14, <2>15, <2>16, <2>17, <2>18, <2>19, <2>20 DEF CallStep
  <1>5. CASE UNCHANGED sessionVars
    BY <1>5 DEF sessionVars, SessionsTypeOK
  <1> QED BY <1>2, <1>3, <1>4, <1>5 DEF SessionsNext

-----------------------------------------------------------------------------
(* Every step keeps the invariant. *)

LEMMA InitInv == SessionsInit => SessionsInv
  <1> SUFFICES ASSUME SessionsInit PROVE SessionsInv
    OBVIOUS
  <1>1. SessionsTypeOK
    BY BlanksTyped, TokensAreNat DEF SessionsInit, SessionsTypeOK, UserRow
  <1>2. MintedFirst /\ EndedStaysEnded
    BY DEF SessionsInit, MintedFirst, EndedStaysEnded
  <1>3. GrantsKnown
    BY DEF SessionsInit, GrantsKnown, NoCall
  <1> QED BY <1>1, <1>2, <1>3 DEF SessionsInv

LEMMA NextInv == SessionsInv /\ [SessionsNext]_sessionVars => SessionsInv'
  <1> SUFFICES ASSUME SessionsInv, [SessionsNext]_sessionVars PROVE SessionsInv'
    OBVIOUS
  <1> USE BlanksTyped
  <1>0. SessionsTypeOK'
    BY StepTypes DEF SessionsInv
  <1>n. minted \in Nat
    BY TokensAreNat DEF SessionsInv, SessionsTypeOK
  <1>2. ASSUME NEW t \in Tabs, ReloadPage(t) PROVE SessionsInv'
    <2>1. NoneGranted
      BY <1>2 DEF ReloadPage, NoneGranted, NoCall, SessionsInv, SessionsTypeOK
    <2> QED BY <1>0, <1>2, <1>n, <2>1, AccountRests DEF ReloadPage
  <1>3. ASSUME NEW b \in Browsers, ResetPassword(b) PROVE SessionsInv'
    BY <1>0, <1>3, EndingKeeps DEF ResetPassword, NoneGranted
  <1>4. ASSUME NEW t \in Tabs, NEW k \in Slots, CallStep(t, k) PROVE SessionsInv'
    <2> DEFINE c == call[t][k]
    <2>0. c \in Call
      BY DEF SessionsInv, SessionsTypeOK
    <2>a. \A a \in (Steps)
                  \ {"granted"} :
            /\ [NoCall EXCEPT !.at = a] \in Call /\ [NoCall EXCEPT !.at = a].at # "granted"
            /\ [NoCall EXCEPT !.at = a, !.refresh = TRUE] \in Call
            /\ [NoCall EXCEPT !.at = a, !.refresh = TRUE].at # "granted"
            /\ [c EXCEPT !.at = a] \in Call /\ [c EXCEPT !.at = a].at # "granted"
            /\ \A n \in Tokens : /\ [c EXCEPT !.at = a, !.token = n] \in Call
                                 /\ [c EXCEPT !.at = a, !.token = n].at # "granted"
      BY <2>0 DEF Call, NoCall
    <2>b. ASSUME NEW held \in Call, held.at # "granted", Calling(t, k, held) PROVE NoneGranted
      BY <2>b, CallingGrantsNone DEF SessionsInv
    <2> HIDE DEF c
    <2>15. CASE FetchCsrf(t, k)
      <3>1. NoneGranted
        BY <2>15, <2>a, <2>b DEF FetchCsrf, Steps, Fetches, c
      <3> QED BY <1>0, <1>n, <2>15, <3>1, AccountRests DEF FetchCsrf
    <2>16. CASE MintCsrf(t, k)
      <3>1. minted' \in Tokens
        BY <1>0 DEF SessionsTypeOK
      <3>2. NoneGranted
        BY <2>16, <3>1, <2>a, <2>b DEF MintCsrf, Steps, Fetches, c
      <3> QED BY <1>0, <1>n, <2>16, <3>2, AccountRests DEF MintCsrf, history
    <2>17. CASE UseFetched(t, k)
      <3>1. NoneGranted
        <4>1. CASE call[t][k].refresh
          BY <2>17, <4>1, SendSays DEF UseFetched, SessionsInv
        <4>2. CASE ~call[t][k].refresh
          <5>1. NoCall \in Call /\ NoCall.at # "granted" /\ Calling(t, k, NoCall)
            BY <2>17, <4>2 DEF UseFetched, NoCall
          <5> QED BY <2>b, <5>1
        <4> QED BY <4>1, <4>2
      <3> QED BY <1>0, <1>n, <2>17, <3>1, AccountRests DEF UseFetched
    <2>18. CASE SetCookies(t, k)
      <3>1. NoneGranted
        BY <2>18, <2>a, <2>b DEF SetCookies, Steps, Answers, c
      <3> QED BY <1>0, <1>n, <2>18, <3>1, AccountRests DEF SetCookies, history
    <2>19. CASE ClearCookies(t, k)
      <3>1. NoneGranted
        BY <2>19, <2>a, <2>b DEF ClearCookies, Steps, Answers, c
      <3> QED BY <1>0, <1>n, <2>19, <3>1, AccountRests DEF ClearCookies, history
    <2>1. CASE Deny(t, k)
      <3>1. NoneGranted
        BY <2>1, <2>a, <2>b DEF Deny, Steps, Fetches, AtServer, Answers
      <3> QED BY <1>0, <1>n, <2>1, <3>1, AccountRests DEF Deny
    <2>2. CASE Refresh(t, k)
      <3>1. NoneGranted
        BY <2>2, <2>a, <2>b DEF Refresh, Steps, Fetches, AtServer, Answers
      <3> QED BY <1>0, <1>n, <2>2, <3>1, AccountRests DEF Refresh
    <2>3. CASE SendRefresh(t, k)
      <3>1. NoneGranted
        BY <2>3, SendSays DEF SendRefresh, SessionsInv
      <3> QED BY <1>0, <1>n, <2>3, <3>1, AccountRests DEF SendRefresh
    <2>4. CASE AdoptSession(t, k)
      <3>1. NoneGranted
        BY <2>4, OverClears DEF AdoptSession, SessionsInv
      <3> QED BY <1>0, <1>n, <2>4, <3>1, AccountRests DEF AdoptSession, history
    <2>5. CASE LoseSession(t, k)
      <3>1. NoneGranted
        BY <2>5, OverClears DEF LoseSession, SessionsInv
      <3> QED BY <1>0, <1>n, <2>5, <3>1, AccountRests DEF LoseSession, history
    <2>6. CASE LoseAnswer(t, k)
      <3>1. NoneGranted
        <4>1. CASE call[t][k].refresh
          BY <2>6, <4>1, <2>a, <2>b DEF LoseAnswer, Steps, Answers, c
        <4>2. CASE ~call[t][k].refresh
          <5>1. NoCall \in Call /\ NoCall.at # "granted" /\ Calling(t, k, NoCall)
            BY <2>6, <4>2 DEF LoseAnswer, NoCall
          <5> QED BY <2>b, <5>1
        <4> QED BY <4>1, <4>2
      <3> QED BY <1>0, <1>n, <2>6, <3>1, AccountRests DEF LoseAnswer
    <2>7. CASE ReadUserRow(t, k)
      BY <1>0, <2>7, ReadKeeps
    <2>8. CASE EndReused(t, k)
      <3>1. NoneGranted
        BY <2>8, <2>a, <2>b DEF EndReused, Steps, Answers, Fetches, AtServer, c
      <3>2. row'.token = 0 /\ minted' = minted /\ ended' = ended
        BY <2>8 DEF EndReused, SessionsInv, SessionsTypeOK, UserRow
      <3>3. GrantsKnown'
        BY <1>n, <3>1, <3>2, GrantsStay DEF SessionsInv
      <3>4. MintedFirst' /\ EndedStaysEnded'
        BY <1>n, <3>2 DEF SessionsInv, MintedFirst, EndedStaysEnded
      <3> QED BY <1>0, <3>3, <3>4 DEF SessionsInv
    <2>9. CASE Rotate(t, k)
      BY <1>0, <2>9, RotateKeeps
    <2>10. CASE Login(t, k)
      BY <1>0, <2>10, SignInKeeps DEF Login
    <2>11. CASE Logout(t, k)
      <3>1. NoneGranted
        BY <2>11, <2>a, <2>b DEF Logout, Steps, Fetches, AtServer, Answers
      <3>2. CASE EndEverySession
        BY <1>0, <2>11, <3>1, <3>2, EndingKeeps DEF Logout
      <3>3. CASE UNCHANGED <<row, ended>>
        BY <1>0, <1>n, <2>11, <3>1, <3>3, AccountRests DEF Logout
      <3> QED BY <2>11, <3>2, <3>3 DEF Logout
    <2>12. CASE LeaveApp(t, k)
      <3>1. NoneGranted
        BY <2>12, OverClears DEF LeaveApp, SessionsInv
      <3> QED BY <1>0, <1>n, <2>12, <3>1, AccountRests DEF LeaveApp, history
    <2>13. CASE ChangePassword(t, k)
      <3>1. NoneGranted
        BY <2>13, <2>a, <2>b DEF ChangePassword, Steps, Fetches, AtServer, Answers
      <3> QED BY <1>0, <2>13, <3>1, EndingKeeps DEF ChangePassword
    <2>14. CASE SessionAfterChange(t, k)
      BY <1>0, <2>14, SignInKeeps DEF SessionAfterChange, history
    <2> QED BY <1>4, <2>1, <2>2, <2>3, <2>4, <2>5, <2>6, <2>7, <2>8, <2>9, <2>10, <2>11, <2>12,
               <2>13, <2>14, <2>15, <2>16, <2>17, <2>18, <2>19 DEF CallStep
  <1>5. CASE UNCHANGED sessionVars
    BY <1>0, <1>5, <1>n, AccountRests DEF sessionVars, NoneGranted
  <1> QED BY <1>2, <1>3, <1>4, <1>5 DEF SessionsNext

(* The session of an account keeps its types. *)
THEOREM SessionsTyped == SessionsSpec => []SessionsTypeOK
  <1>1. SessionsInv => SessionsTypeOK
    BY DEF SessionsInv
  <1> QED BY <1>1, InitInv, NextInv, PTL DEF SessionsSpec

(* A session ended by logout, a password change or a reset stays ended,     *)
(* unless a refresh wrote over a row that changed since it was read.        *)
THEOREM NoSessionComesBack == SessionsSpec => []EndedStaysEnded
  <1>1. SessionsInv => EndedStaysEnded
    BY DEF SessionsInv
  <1> QED BY <1>1, InitInv, NextInv, PTL DEF SessionsSpec

-----------------------------------------------------------------------------
(* One tab alone.  At most one of its calls is between the client and the   *)
(* server about the session; and the refresh cookie is the token the row    *)
(* keeps, unless a session is on its way to the tab.                        *)

Leaving == {"changing", "left", "leaving"}

Engaged(c) == c.refresh \/ c.at \in {"answered", "arrived"} \cup Leaving

Alone ==
  /\ lost = 0 /\ ~crossed
  /\ \A t, u \in acted : t = u

CallSettled(t, k) ==
  /\ call[t][k].at # "mismatch"
  /\ call[t][k].at \in {"idle", "denied", "waiting"} => ~call[t][k].refresh
  /\ call[t][k].at \in {"opening", "refresh", "granted", "failed"} => call[t][k].refresh
  /\ call[t][k].at \in {"refresh", "answered"} =>
       row.token = 0 \/ call[t][k].token \in {0, row.token}
  /\ Engaged(call[t][k]) => \A j \in Slots \ {k} : ~Engaged(call[t][j])
  /\ call[t][k].at \in Leaving => \A j \in Slots \ {k} : call[t][j].at # "denied"

JarSettled(t) ==
  \/ row.token = 0
  \/ jar[jarOf[t]].refresh \in {0, row.token}
  \/ \E k \in Slots : call[t][k].at = "answered"

SettledTab ==
  /\ "reused" \notin refused
  /\ acted = {} => row.token = 0
  /\ \A t \in Tabs, k \in Slots : (call[t][k].at # "idle" => t \in acted) /\ CallSettled(t, k)
  /\ \A t \in acted : JarSettled(t)

SettledAlone == IsFiniteSet(acted) /\ (Alone => SettledTab)

LEMMA FewAreOne ==
  ASSUME IsFiniteSet(acted), Cardinality(acted) <= 1
  PROVE  \A t, u \in acted : t = u
  <1> SUFFICES ASSUME NEW t \in acted, NEW u \in acted, t # u PROVE FALSE
    OBVIOUS
  <1>1. Cardinality({t} \cup {u}) = 2 /\ IsFiniteSet({t} \cup {u})
    <2>1. IsFiniteSet({t}) /\ Cardinality({t}) = 1 /\ u \notin {t}
      BY FS_Singleton
    <2> QED BY <2>1, FS_AddElement
  <1>2. {t} \cup {u} \subseteq acted
    OBVIOUS
  <1>3. Cardinality({t} \cup {u}) <= Cardinality(acted) /\ Cardinality(acted) \in Nat
    BY <1>2, FS_Subset, FS_CardinalityType
  <1> QED BY <1>1, <1>3

(* What ends a call clears it, and the calls that waited for its refresh.   *)
LEMMA OverSays ==
  ASSUME SessionsTypeOK, NEW t \in Tabs, NEW k \in Slots, Over(t, k)
  PROVE  /\ \A u \in Tabs \ {t}, j \in Slots : call'[u][j] = call[u][j]
         /\ call'[t][k] = NoCall
         /\ \A j \in Slots : call'[t][j] = call[t][j] \/ call'[t][j] = NoCall
  <1> DEFINE left(j) == IF j = k \/ (call[t][k].refresh /\ call[t][j].at = "waiting")
                        THEN NoCall ELSE call[t][j]
  <1>1. call' = [call EXCEPT ![t] = [j \in Slots |-> left(j)]]
    BY DEF Over, SessionsTypeOK
  <1>2. left(k) = NoCall /\ \A j \in Slots : left(j) = call[t][j] \/ left(j) = NoCall
    OBVIOUS
  <1> HIDE DEF left
  <1>3. \A u \in Tabs, j \in Slots : call'[u][j] = IF u = t THEN left(j) ELSE call[u][j]
    BY <1>1 DEF SessionsTypeOK
  <1> QED BY <1>2, <1>3

(* One call of the only tab moves, and the row stays or ends or takes the   *)
(* token the call brings home.                                              *)
LEMMA CallMoves ==
  ASSUME SessionsTypeOK, Alone', Alone, SettledTab, NEW t \in Tabs, NEW k \in Slots,
         NEW held \in Call, Calling(t, k, held), acted' = acted \cup {t},
         UNCHANGED jarOf, "reused" \notin refused',
         held.at # "mismatch",
         held.at \in {"idle", "denied", "waiting"} => ~held.refresh,
         held.at \in {"opening", "refresh", "granted", "failed"} => held.refresh,
         held.at \in {"refresh", "answered"} => row'.token = 0 \/ held.token \in {0, row'.token},
         Engaged(held) => \A j \in Slots \ {k} : ~Engaged(call[t][j]),
         held.at \in Leaving => \A j \in Slots \ {k} : call[t][j].at # "denied",
         held.at = "denied" => \A j \in Slots \ {k} : call[t][j].at \notin Leaving,
         \/ row'.token = 0
         \/ row'.token = row.token /\ jar'[jarOf[t]].refresh \in {0, row.token}
         \/ /\ row'.token = row.token /\ jar'[jarOf[t]].refresh = jar[jarOf[t]].refresh
            /\ call[t][k].at # "answered"
         \/ held.at = "answered"
  PROVE  SettledTab'
  <1>1. \A u \in Tabs, j \in Slots :
          call'[u][j] = IF u = t /\ j = k THEN held ELSE call[u][j]
    BY CallingSets
  <1>2. \A u \in acted' : u = t
    BY DEF Alone
  <1>3. \A u \in Tabs \ {t}, j \in Slots : call[u][j].at = "idle" /\ call'[u][j] = call[u][j]
    BY <1>1, <1>2 DEF SettledTab
  <1>4. ASSUME NEW j \in Slots PROVE CallSettled(t, j)'
    <2>1. CASE j = k
      BY <1>1, <2>1 DEF CallSettled, Engaged
    <2>2. CASE j # k
      <3>1. CallSettled(t, j) /\ call'[t][j] = call[t][j] /\ call'[t][k] = held
        BY <1>1, <2>2 DEF SettledTab
      <3>2. call[t][j].at \in {"refresh", "answered"} => row'.token = 0 \/ row'.token = row.token
        <4>1. held.at = "answered" => ~Engaged(call[t][j])
          BY <2>2 DEF Engaged
        <4>2. call[t][j].at \in {"refresh", "answered"} => Engaged(call[t][j])
          BY <3>1 DEF Engaged, CallSettled
        <4> QED BY <4>1, <4>2
      <3>3. Engaged(call[t][j]) => \A i \in Slots \ {j} : ~Engaged(call'[t][i])
        <4>1. Engaged(held) => ~Engaged(call[t][j])
          BY <2>2
        <4> QED BY <1>1, <3>1, <4>1 DEF CallSettled
      <3>4. call[t][j].at \in Leaving => \A i \in Slots \ {j} : call'[t][i].at # "denied"
        BY <1>1, <2>2, <3>1 DEF CallSettled
      <3> QED BY <3>1, <3>2, <3>3, <3>4 DEF CallSettled
    <2> QED BY <2>1, <2>2
  <1>5. ASSUME NEW u \in Tabs \ {t}, NEW j \in Slots PROVE CallSettled(u, j)'
    <2>1. \A i \in Slots : call'[u][i] = call[u][i] /\ call[u][i].at = "idle" /\ ~call[u][i].refresh
      BY <1>3 DEF SettledTab, CallSettled
    <2> QED BY <2>1 DEF CallSettled, Engaged, Leaving
  <1>6. JarSettled(t)'
    <2>1. CASE row'.token = 0
      BY <2>1 DEF JarSettled
    <2>2. CASE held.at = "answered"
      BY <1>1, <2>2 DEF JarSettled
    <2>3. CASE row'.token = row.token /\ jar'[jarOf[t]].refresh \in {0, row.token}
      BY <2>3 DEF JarSettled
    <2>4. CASE /\ row'.token = row.token /\ jar'[jarOf[t]].refresh = jar[jarOf[t]].refresh
               /\ call[t][k].at # "answered"
      <3>1. JarSettled(t) \/ row.token = 0
        BY <1>2, <2>4 DEF SettledTab
      <3> QED BY <1>1, <2>4, <3>1 DEF JarSettled
    <2> QED BY <2>1, <2>2, <2>3, <2>4
  <1>7. t \in acted' /\ \A u \in Tabs, j \in Slots : call'[u][j].at # "idle" => u \in acted'
    BY <1>3
  <1> QED BY <1>2, <1>4, <1>5, <1>6, <1>7 DEF SettledTab

(* A call of the only tab ends: the session it brought is adopted, dropped  *)
(* or left.                                                                 *)
LEMMA CallEnds ==
  ASSUME SessionsTypeOK, Alone', Alone, SettledTab, NEW t \in Tabs, NEW k \in Slots, Over(t, k),
         UNCHANGED <<jarOf, jar, row, acted, refused>>,
         Engaged(call[t][k]), call[t][k].at # "answered"
  PROVE  SettledTab'
  <1>1. /\ \A u \in Tabs \ {t}, j \in Slots : call'[u][j] = call[u][j]
        /\ call'[t][k] = NoCall
        /\ \A j \in Slots : call'[t][j] = call[t][j] \/ call'[t][j] = NoCall
    BY OverSays
  <1>2. NoCall.at = "idle" /\ ~NoCall.refresh
    BY DEF NoCall
  <1>3. t \in acted /\ \A u \in acted : u = t
    <2>1. t \in acted
      BY DEF SettledTab, CallSettled, Engaged, Leaving
    <2> QED BY <2>1 DEF Alone
  <1>4. ASSUME NEW j \in Slots PROVE CallSettled(t, j)'
    <2>1. CallSettled(t, j)
      BY DEF SettledTab
    <2> QED BY <1>1, <1>2, <2>1 DEF CallSettled, Engaged, Leaving
  <1>5. \A u \in Tabs \ {t}, j \in Slots : CallSettled(u, j)'
    BY <1>1 DEF SettledTab, CallSettled, Engaged
  <1>6. JarSettled(t)'
    <2>1. \A j \in Slots : call[t][j].at # "answered"
      BY DEF SettledTab, CallSettled, Engaged
    <2>2. JarSettled(t)
      BY <1>3 DEF SettledTab
    <2> QED BY <2>1, <2>2 DEF JarSettled
  <1>7. \A u \in Tabs, j \in Slots : call'[u][j].at # "idle" => u \in acted'
    BY <1>1, <1>2 DEF SettledTab
  <1> QED BY <1>3, <1>4, <1>5, <1>6, <1>7 DEF SettledTab

LEMMA SettledInit == SessionsInit => SettledAlone
  <1> SUFFICES ASSUME SessionsInit PROVE SettledAlone
    OBVIOUS
  <1>1. \A t \in Tabs, k \in Slots : call[t][k].at = "idle" /\ ~call[t][k].refresh
    BY DEF SessionsInit, NoCall
  <1>2. IsFiniteSet(acted) /\ acted = {} /\ refused = {} /\ row.token = 0
    BY FS_EmptySet DEF SessionsInit
  <1> QED BY <1>1, <1>2 DEF SettledAlone, SettledTab, CallSettled, Engaged, Leaving

(* Company, a lost answer, a crossing or a second fetch is not undone. *)
LEMMA AloneBefore ==
  ASSUME SessionsTypeOK, SessionsNext
  PROVE  /\ Alone' => Alone
         /\ fetchedTwice => fetchedTwice'
         /\ acted \subseteq acted'
         /\ IsFiniteSet(acted) => IsFiniteSet(acted')
  <1>1. lost \in Nat
    BY DEF SessionsTypeOK
  <1> DEFINE Grows == /\ acted' = acted \/ \E t \in Tabs : acted' = acted \cup {t}
                      /\ lost' = lost \/ lost' = lost + 1
                      /\ crossed => crossed'
                      /\ fetchedTwice => fetchedTwice'
  <1>2. Grows
    <2>1. ASSUME NEW t \in Tabs, NEW k \in Slots, CallStep(t, k) PROVE Grows
      <3>1. CASE Deny(t, k)
        BY <3>1 DEF Deny
      <3>8. CASE FetchCsrf(t, k)
        BY <3>8 DEF FetchCsrf
      <3>2. CASE Refresh(t, k)
        BY <3>2 DEF Refresh
      <3>9. CASE SendRefresh(t, k) \/ UseFetched(t, k)
        BY <3>9 DEF SendRefresh, UseFetched
      <3>3. CASE AdoptSession(t, k) \/ LoseSession(t, k) \/ LeaveApp(t, k) \/ ReadUserRow(t, k)
        BY <3>3 DEF AdoptSession, LoseSession, LeaveApp, ReadUserRow, history
      <3>4. CASE MintCsrf(t, k) \/ SetCookies(t, k) \/ ClearCookies(t, k)
        BY <3>4 DEF MintCsrf, SetCookies, ClearCookies, history
      <3>5. CASE LoseAnswer(t, k) \/ EndReused(t, k) \/ Rotate(t, k)
        BY <3>5 DEF LoseAnswer, EndReused, Rotate
      <3>6. CASE Login(t, k)
        BY <3>6 DEF Login, Begins
      <3>10. CASE Logout(t, k)
        BY <3>10 DEF Logout, Begins
      <3>11. CASE ChangePassword(t, k)
        BY <3>11 DEF ChangePassword, Begins
      <3>7. CASE SessionAfterChange(t, k)
        BY <3>7 DEF SessionAfterChange, history
      <3> QED BY <2>1, <3>1, <3>2, <3>3, <3>4, <3>5, <3>6, <3>7, <3>8, <3>9,
                  <3>10, <3>11 DEF CallStep
    <2>2. ASSUME NEW t \in Tabs, ReloadPage(t) PROVE Grows
      BY <2>2 DEF ReloadPage
    <2>3. ASSUME NEW b \in Browsers, ResetPassword(b) PROVE Grows
      BY <2>3 DEF ResetPassword
    <2> QED BY <2>1, <2>2, <2>3 DEF SessionsNext
  <1>5. acted \subseteq acted'
    BY <1>2
  <1>6. Alone' => Alone
    BY <1>1, <1>2, <1>5 DEF Alone
  <1>7. \A t : IsFiniteSet(acted) => IsFiniteSet(acted \cup {t})
    BY FS_AddElement
  <1> QED BY <1>2, <1>5, <1>6, <1>7

LEMMA CallSettles ==
  ASSUME SessionsTypeOK, Alone', Alone, SettledTab, NEW t \in Tabs, NEW k \in Slots, CallStep(t, k)
  PROVE  SettledTab'
  <1> DEFINE c == call[t][k]
  <1>0. c \in Call /\ row \in UserRow /\ row.token \in Tokens
    BY DEF SessionsTypeOK, UserRow
  <1>a. /\ CallSettled(t, k) /\ "reused" \notin refused
        /\ c.at # "idle" => t \in acted /\ acted = acted \cup {t}
        /\ t \in acted => JarSettled(t)
    BY DEF SettledTab
  <1>b. \A a \in Steps : /\ [NoCall EXCEPT !.at = a] \in Call /\ [NoCall EXCEPT !.at = a].at = a
                         /\ ~[NoCall EXCEPT !.at = a].refresh
                         /\ [c EXCEPT !.at = a] \in Call /\ [c EXCEPT !.at = a].at = a
                         /\ [c EXCEPT !.at = a].refresh = c.refresh
                         /\ [c EXCEPT !.at = a].token = c.token
    BY <1>0, BlanksTyped DEF Call, NoCall
  <1>c. Engaged(c) => \A j \in Slots \ {k} : ~Engaged(call[t][j])
    BY <1>a DEF CallSettled
  <1>d. c.at = "denied" => \A j \in Slots \ {k} : call[t][j].at \notin Leaving
    BY DEF SettledTab, CallSettled
  <1>e. Begins(t, k) => \A j \in Slots : call[t][j].at = "idle" /\ ~Engaged(call[t][j])
    BY DEF Begins, Alone, SettledTab, CallSettled, Engaged, Leaving
  <1>f. ASSUME NEW header, Send(t, k, header), c.refresh, c.at # "answered",
               acted' = acted \cup {t}, t \in acted, UNCHANGED <<jarOf, jar, row>>
        PROVE  SettledTab'
    <2>1. Engaged(c)
      BY <1>f DEF Engaged
    <2>2. CASE CsrfMatches(t, header)
      <3> DEFINE n == jar[jarOf[t]].refresh
                 held == [c EXCEPT !.at = "refresh", !.token = n]
      <3>1. n \in Tokens
        BY DEF SessionsTypeOK, Jar
      <3>2. held \in Call /\ held.at = "refresh" /\ held.token = n /\ held.refresh
        <4> HIDE DEF n
        <4> QED BY <1>0, <1>f, <3>1 DEF Steps, AtServer, Call
      <3>3. Calling(t, k, held) /\ UNCHANGED refused
        BY <1>f, <2>2 DEF Send
      <3>4. row.token = 0 \/ n \in {0, row.token}
        BY <1>a, <1>c, <1>f, <2>1 DEF JarSettled, Engaged
      <3> HIDE DEF held, n, c
      <3> QED BY <1>a, <1>c, <1>f, <2>1, <3>2, <3>3, <3>4, CallMoves DEF c, Leaving
    <2>3. CASE ~CsrfMatches(t, header)
      <3> DEFINE held == [c EXCEPT !.at = "failed"]
      <3>1. held \in Call /\ held.at = "failed" /\ held.refresh
        BY <1>b, <1>f DEF Steps, Answers
      <3>2. Calling(t, k, held) /\ "reused" \notin refused'
        BY <1>a, <1>f, <2>3 DEF Send
      <3> HIDE DEF held, c
      <3> QED BY <1>c, <1>f, <2>1, <3>1, <3>2, CallMoves DEF c, Leaving
    <2> QED BY <2>2, <2>3
  <1> HIDE DEF c
  <1>1. CASE Deny(t, k)
    <2>1. /\ Calling(t, k, [NoCall EXCEPT !.at = "denied"]) /\ acted' = acted \cup {t}
          /\ \A j \in Slots : call[t][j].at \notin Leaving
          /\ UNCHANGED <<jarOf, jar, row, refused>> /\ call[t][k].at = "idle"
      BY <1>1 DEF Deny, Leaving
    <2> DEFINE held == [NoCall EXCEPT !.at = "denied"]
    <2>2. held \in Call /\ held.at = "denied" /\ ~held.refresh
      BY <1>b DEF Steps
    <2>3. ~Engaged(held)
      BY <2>2 DEF Engaged, Leaving
    <2> HIDE DEF held
    <2> QED BY <1>a, <2>1, <2>2, <2>3, CallMoves DEF held, Leaving
  <1>2. CASE Refresh(t, k)
    <2>1. /\ acted' = acted \cup {t} /\ UNCHANGED <<jarOf, jar, row, refused>>
          /\ c.at = "denied"
          /\ \A j \in Slots : call[t][j].at \in {"answered", "arrived"} => call[t][j].refresh
      BY <1>2, <1>a DEF Refresh, c, Alone
    <2>2. CASE NoneRefreshing(t)
      <3> DEFINE held == [NoCall EXCEPT !.at = "opening", !.refresh = TRUE]
      <3>1. held \in Call /\ held.at = "opening" /\ held.refresh
        BY BlanksTyped DEF NoCall, Call, Steps
      <3>2. Calling(t, k, held)
        BY <1>2, <2>2 DEF Refresh
      <3>3. \A j \in Slots \ {k} : ~Engaged(call[t][j])
        BY <1>d, <2>1, <2>2 DEF NoneRefreshing, Engaged
      <3> HIDE DEF held
      <3> QED BY <1>a, <1>d, <2>1, <3>1, <3>2, <3>3, CallMoves DEF c, Leaving
    <2>3. CASE ~NoneRefreshing(t)
      <3> DEFINE held == [NoCall EXCEPT !.at = "waiting"]
      <3>1. held \in Call /\ held.at = "waiting" /\ ~held.refresh
        BY <1>b DEF Steps
      <3>2. ~Engaged(held)
        BY <3>1 DEF Engaged, Leaving
      <3>3. Calling(t, k, held)
        BY <1>2, <2>3 DEF Refresh
      <3> HIDE DEF held
      <3> QED BY <1>a, <2>1, <3>1, <3>2, <3>3, CallMoves DEF c, Leaving
    <2> QED BY <2>2, <2>3
  <1>3. CASE SendRefresh(t, k)
    <2>1. c.at = "opening" /\ c.refresh /\ t \in acted /\ acted' = acted \cup {t}
      BY <1>3, <1>a DEF SendRefresh, c, CallSettled
    <2> QED BY <1>3, <1>f, <2>1 DEF SendRefresh
  <1>4. CASE AdoptSession(t, k)
    <2>1. c.at = "arrived" /\ Engaged(c)
      BY <1>4 DEF AdoptSession, c, Engaged
    <2> QED BY <1>4, <2>1, CallEnds DEF AdoptSession, c, history
  <1>5. CASE LoseSession(t, k)
    <2>1. c.at = "failed" /\ Engaged(c)
      BY <1>5, <1>a DEF LoseSession, CallSettled, c, Engaged
    <2> QED BY <1>5, <2>1, CallEnds DEF LoseSession, c, history
  <1>6. CASE LoseAnswer(t, k)
    BY <1>6 DEF LoseAnswer, Alone
  <1>7. CASE ReadUserRow(t, k)
    <2>1. /\ c.at = "refresh" /\ c.refresh /\ Engaged(c) /\ acted' = acted \cup {t}
          /\ UNCHANGED <<jarOf, jar, row, refused>>
          /\ row.token = 0 \/ c.token \in {0, row.token}
      BY <1>7, <1>a DEF ReadUserRow, c, CallSettled, Engaged, history
    <2> DEFINE at == IF c.token = 0 \/ row.token = 0 THEN "failed" ELSE "granted"
               held == [c EXCEPT !.at = at, !.login = row.login]
    <2>2. Calling(t, k, held)
      BY <1>7, <2>1 DEF ReadUserRow, c
    <2>3. held \in Call /\ held.at \in {"failed", "granted"} /\ held.refresh
      <3>1. row.login \in Tokens /\ at \in {"failed", "granted"}
        BY <1>0 DEF UserRow
      <3> HIDE DEF at
      <3> QED BY <1>0, <2>1, <3>1 DEF Steps, AtServer, Answers, Call
    <2> HIDE DEF held
    <2> QED BY <1>a, <1>c, <2>1, <2>2, <2>3, CallMoves DEF c, Leaving
  <1>8. CASE EndReused(t, k)
    BY <1>8, <1>a DEF EndReused, CallSettled
  <1>9. CASE Rotate(t, k)
    <2>1. /\ c.at = "granted" /\ Engaged(c) /\ acted' = acted \cup {t} /\ minted' \in Tokens
          /\ UNCHANGED <<jarOf, jar, refused>> /\ row'.token = minted'
      BY <1>9, <1>a, TokensAreNat DEF Rotate, c, CallSettled, Engaged, SessionsTypeOK
    <2> DEFINE held == [c EXCEPT !.at = "answered", !.token = minted']
    <2>2. Calling(t, k, held)
      BY <1>9 DEF Rotate, c
    <2>3. held \in Call /\ held.at = "answered" /\ held.token = minted'
      BY <1>0, <2>1 DEF Steps, Answers, Call
    <2> HIDE DEF held
    <2> QED BY <1>a, <1>c, <2>1, <2>2, <2>3, CallMoves DEF c, Leaving
  <1>g. ASSUME IssueSession(t, k), acted' = acted \cup {t}, UNCHANGED <<jarOf, jar, refused>>,
               \A j \in Slots \ {k} : ~Engaged(call[t][j])
        PROVE  SettledTab'
    <2>1. minted' \in Tokens /\ row'.token = minted'
      BY <1>g, TokensAreNat DEF IssueSession, SessionsTypeOK
    <2> DEFINE held == [NoCall EXCEPT !.at = "answered", !.token = minted']
    <2>2. Calling(t, k, held)
      BY <1>g DEF IssueSession
    <2>3. held \in Call /\ held.at = "answered" /\ held.token = minted'
      BY <2>1, BlanksTyped DEF Steps, Answers, Call
    <2> HIDE DEF held
    <2> QED BY <1>a, <1>g, <2>1, <2>2, <2>3, CallMoves DEF Leaving
  <1>10. CASE Login(t, k)
    BY <1>10, <1>e, <1>g DEF Login, Begins
  <1>11. CASE Logout(t, k)
    <2>1. /\ \A j \in Slots : call[t][j].at = "idle" /\ ~Engaged(call[t][j])
          /\ acted' = acted \cup {t} /\ UNCHANGED <<jarOf, jar>> /\ "reused" \notin refused'
      BY <1>11, <1>a, <1>e DEF Logout, Begins
    <2>2. PICK a \in {"left", "leaving"} :
            /\ Calling(t, k, [NoCall EXCEPT !.at = a])
            /\ row'.token = 0 \/ UNCHANGED row
      BY <1>0, <1>11 DEF Logout, EndEverySession, UserRow
    <2> DEFINE held == [NoCall EXCEPT !.at = a]
    <2>3. held \in Call /\ held.at \in {"left", "leaving"} /\ ~held.refresh
      BY <1>b DEF Steps, AtServer, Answers
    <2>4. Calling(t, k, held)
      BY <2>2
    <2> HIDE DEF held
    <2> QED BY <2>1, <2>2, <2>3, <2>4, CallMoves
  <1>12. CASE LeaveApp(t, k)
    <2>1. c.at = "leaving" /\ Engaged(c)
      BY <1>12 DEF LeaveApp, c, Engaged, Leaving
    <2> QED BY <1>12, <2>1, CallEnds DEF LeaveApp, c, history
  <1>13. CASE ChangePassword(t, k)
    <2>1. /\ \A j \in Slots : call[t][j].at = "idle" /\ ~Engaged(call[t][j])
          /\ acted' = acted \cup {t} /\ UNCHANGED <<jarOf, jar, refused>>
      BY <1>13, <1>e DEF ChangePassword, Begins
    <2>2. row'.token = 0
      BY <1>0, <1>13 DEF ChangePassword, EndEverySession, UserRow
    <2> DEFINE held == [NoCall EXCEPT !.at = "changing"]
    <2>3. held \in Call /\ held.at = "changing" /\ ~held.refresh
      BY <1>b DEF Steps, AtServer
    <2>4. Calling(t, k, held)
      BY <1>13 DEF ChangePassword
    <2> HIDE DEF held
    <2> QED BY <1>a, <2>1, <2>2, <2>3, <2>4, CallMoves
  <1>14. CASE SessionAfterChange(t, k)
    <2>1. c.at = "changing" /\ Engaged(c) /\ acted' = acted \cup {t}
      BY <1>14, <1>a DEF SessionAfterChange, c, Engaged, Leaving, history
    <2> QED BY <1>14, <1>c, <1>g, <2>1 DEF SessionAfterChange, history
  <1>15. CASE FetchCsrf(t, k)
    <2> DEFINE held == [c EXCEPT !.at = "fetching"]
    <2>1. held \in Call /\ held.at = "fetching" /\ held.refresh = c.refresh
      BY <1>b DEF Steps, Fetches
    <2>2. /\ Calling(t, k, held) /\ acted' = acted \cup {t} /\ c.at \in {"opening", "idle"}
          /\ UNCHANGED <<jarOf, jar, row, refused>>
      BY <1>15 DEF FetchCsrf, c
    <2> HIDE DEF held
    <2>3. Engaged(held) => Engaged(c)
      BY <2>1 DEF Engaged, Leaving
    <2> QED BY <1>a, <1>c, <2>1, <2>2, <2>3, CallMoves DEF c, Leaving
  <1>16. CASE MintCsrf(t, k)
    <2> DEFINE held == [c EXCEPT !.at = "fetched", !.token = minted']
    <2>1. held \in Call /\ held.at = "fetched" /\ held.refresh = c.refresh
      <3>1. minted' \in Tokens
        BY <1>16, TokensAreNat DEF MintCsrf, SessionsTypeOK
      <3> QED BY <1>0, <3>1 DEF Steps, Fetches, Call
    <2>2. /\ Calling(t, k, held) /\ acted' = acted \cup {t} /\ c.at = "fetching"
          /\ UNCHANGED <<jarOf, row, refused>>
      BY <1>16, <1>a DEF MintCsrf, c, history
    <2>3. jar'[jarOf[t]].refresh = jar[jarOf[t]].refresh
      BY <1>16 DEF MintCsrf, SessionsTypeOK, Jar
    <2> HIDE DEF held
    <2>4. Engaged(held) => Engaged(c)
      BY <2>1 DEF Engaged, Leaving
    <2> QED BY <1>a, <1>c, <2>1, <2>2, <2>3, <2>4, CallMoves DEF c, Leaving
  <1>17. CASE UseFetched(t, k)
    <2>1. c.at = "fetched" /\ t \in acted /\ acted' = acted \cup {t} /\ UNCHANGED <<jarOf, jar, row>>
      BY <1>17, <1>a DEF UseFetched, c
    <2>2. CASE c.refresh
      BY <1>17, <1>f, <2>1, <2>2 DEF UseFetched, c
    <2>3. CASE ~c.refresh
      <3>1. Calling(t, k, NoCall) /\ UNCHANGED refused
        BY <1>17, <2>3 DEF UseFetched, c
      <3>2. NoCall \in Call /\ NoCall.at = "idle" /\ ~NoCall.refresh /\ ~Engaged(NoCall)
        BY BlanksTyped DEF NoCall, Engaged, Leaving
      <3> QED BY <1>a, <2>1, <3>1, <3>2, CallMoves DEF c, Leaving
    <2> QED BY <2>2, <2>3
  <1>18. CASE SetCookies(t, k)
    <2> DEFINE held == [c EXCEPT !.at = "arrived"]
    <2>1. held \in Call /\ held.at = "arrived"
      BY <1>b DEF Steps, Answers
    <2>2. /\ Calling(t, k, held) /\ acted' = acted \cup {t} /\ c.at = "answered" /\ Engaged(c)
          /\ UNCHANGED <<jarOf, row, refused>>
      BY <1>18, <1>a DEF SetCookies, c, history, Engaged
    <2>3. jar'[jarOf[t]].refresh = c.token
      BY <1>18 DEF SetCookies, SessionsTypeOK, c
    <2>4. row.token = 0 \/ c.token \in {0, row.token}
      BY <1>a, <2>2 DEF CallSettled, c
    <2> HIDE DEF held
    <2> QED BY <1>a, <1>c, <2>1, <2>2, <2>3, <2>4, CallMoves DEF c, Leaving
  <1>19. CASE ClearCookies(t, k)
    <2> DEFINE held == [c EXCEPT !.at = "leaving"]
    <2>1. held \in Call /\ held.at = "leaving"
      BY <1>b DEF Steps, Answers
    <2>2. /\ Calling(t, k, held) /\ acted' = acted \cup {t} /\ c.at = "left" /\ Engaged(c)
          /\ UNCHANGED <<jarOf, row, refused>>
      BY <1>19, <1>a DEF ClearCookies, c, history, Engaged, Leaving
    <2>3. jar'[jarOf[t]].refresh = 0
      BY <1>19 DEF ClearCookies, SessionsTypeOK, NoCookies
    <2>4. \A j \in Slots \ {k} : call[t][j].at # "denied"
      BY <1>a, <2>2 DEF CallSettled, c, Leaving
    <2> HIDE DEF held
    <2> QED BY <1>a, <1>c, <2>1, <2>2, <2>3, <2>4, CallMoves DEF c
  <1> QED BY <1>1, <1>2, <1>3, <1>4, <1>5, <1>6, <1>7, <1>8, <1>9, <1>10, <1>11, <1>12, <1>13, <1>14,
             <1>15, <1>16, <1>17, <1>18, <1>19 DEF CallStep

LEMMA SettledNext == SessionsInv /\ SettledAlone /\ [SessionsNext]_sessionVars => SettledAlone'
  <1> SUFFICES ASSUME SessionsInv, SettledAlone, [SessionsNext]_sessionVars PROVE SettledAlone'
    OBVIOUS
  <1>0. SessionsTypeOK
    BY DEF SessionsInv
  <1>1. CASE UNCHANGED sessionVars
    BY <1>1 DEF sessionVars, SettledAlone, Alone, SettledTab, CallSettled, JarSettled, Engaged
  <1>2. CASE SessionsNext
    <2>1. IsFiniteSet(acted') /\ (Alone' => Alone)
      BY <1>0, <1>2, AloneBefore DEF SettledAlone
    <2> SUFFICES ASSUME Alone' PROVE SettledTab'
      BY <2>1 DEF SettledAlone
    <2>2. Alone /\ SettledTab
      BY <2>1 DEF SettledAlone
    <2>3. ASSUME NEW t \in Tabs, NEW k \in Slots, CallStep(t, k) PROVE SettledTab'
      BY <1>0, <2>2, <2>3, CallSettles
    <2>5. ASSUME NEW t \in Tabs, ReloadPage(t) PROVE SettledTab'
      <3>1. /\ UNCHANGED <<jarOf, jar, row, acted, refused>>
            /\ \A k \in Slots : call[t][k].at # "answered"
        BY <1>0, <2>2, <2>5 DEF ReloadPage, Alone, SessionsTypeOK
      <3>2. /\ \A k \in Slots : call'[t][k].at = "idle" /\ ~call'[t][k].refresh
            /\ \A u \in Tabs \ {t} : call'[u] = call[u]
        BY <1>0, <2>5 DEF ReloadPage, SessionsTypeOK, NoCall
      <3>3. \A u \in Tabs, k \in Slots : CallSettled(u, k)' /\ (call'[u][k].at # "idle" => u \in acted')
        BY <2>2, <3>1, <3>2 DEF SettledTab, CallSettled, Engaged, Leaving
      <3>4. \A u \in acted' : JarSettled(u)'
        <4> SUFFICES ASSUME NEW u \in acted PROVE JarSettled(u)'
          BY <3>1
        <4>1. u \in Tabs /\ JarSettled(u)
          BY <1>0, <2>2 DEF SettledTab, SessionsTypeOK
        <4> QED BY <3>1, <3>2, <4>1 DEF JarSettled
      <3> QED BY <2>2, <3>1, <3>3, <3>4 DEF SettledTab
    <2>6. ASSUME NEW b \in Browsers, ResetPassword(b) PROVE SettledTab'
      <3>1. UNCHANGED <<jarOf, call, acted, refused>> /\ row'.token = 0
        BY <1>0, <2>6 DEF ResetPassword, EndEverySession, SessionsTypeOK, UserRow
      <3>2. \A u \in Tabs, k \in Slots : CallSettled(u, k)'
        BY <2>2, <3>1 DEF SettledTab, CallSettled, Engaged
      <3> QED BY <2>2, <3>1, <3>2 DEF SettledTab, JarSettled
    <2> QED BY <1>2, <2>3, <2>5, <2>6 DEF SessionsNext
  <1> QED BY <1>1, <1>2

(* The CSRF token of one tab alone that never fetches twice at once: what   *)
(* it knows is the cookie's, unless an answer has changed the one and not   *)
(* yet the other, and then no other call is under way to use it.            *)
CsrfSettled(t) ==
  /\ \/ tab[t].csrf \in {0, jar[jarOf[t]].csrf}
     \/ \E k \in Slots : call[t][k].at \in {"arrived", "leaving"}
  /\ \A k \in Slots :
       /\ call[t][k].at \in Fetches =>
            tab[t].csrf = 0 /\ \A j \in Slots \ {k} : call[t][j].at \notin Fetches
       /\ call[t][k].at = "fetched" => call[t][k].token # 0
       /\ call[t][k].at \in {"fetched", "arrived"} => call[t][k].token = jar[jarOf[t]].csrf
       /\ call[t][k].at \in AtServer \cup Answers => tab[t].csrf # 0

CsrfTab ==
  /\ "csrf" \notin refused
  /\ \A t \in Tabs : (tab[t].csrf # 0 => t \in acted) /\ CsrfSettled(t)

CsrfAlone == Alone /\ ~fetchedTwice => CsrfTab

LEMMA CsrfInit == SessionsInit => CsrfAlone
  <1> SUFFICES ASSUME SessionsInit PROVE CsrfTab
    BY DEF CsrfAlone
  <1>1. \A t \in Tabs, k \in Slots : call[t][k].at = "idle"
    BY DEF SessionsInit, NoCall
  <1>2. refused = {} /\ \A t \in Tabs : tab[t].csrf = 0
    BY DEF SessionsInit, SignedOut
  <1> QED BY <1>1, <1>2 DEF CsrfTab, CsrfSettled, Fetches, AtServer, Answers

(* The tabs that did nothing know no token and have nothing under way. *)
LEMMA OnlyOneMoves ==
  ASSUME Alone', SettledTab, CsrfTab, NEW t \in Tabs, t \in acted', acted \subseteq acted',
         UNCHANGED jarOf, "csrf" \notin refused', CsrfSettled(t)',
         \A u \in Tabs \ {t} : tab'[u] = tab[u] /\ \A j \in Slots : call'[u][j] = call[u][j]
  PROVE  CsrfTab'
  <1>1. \A u \in Tabs \ {t} : u \notin acted /\ u \notin acted'
    BY DEF Alone
  <1>2. \A u \in Tabs \ {t} : tab'[u].csrf = 0 /\ \A j \in Slots : call'[u][j].at = "idle"
    BY <1>1 DEF CsrfTab, SettledTab
  <1>3. \A u \in Tabs \ {t} : CsrfSettled(u)'
    BY <1>2 DEF CsrfSettled, Fetches, AtServer, Answers
  <1> QED BY <1>2, <1>3 DEF CsrfTab

(* A call moves, and neither the tab nor the cookie. *)
LEMMA CsrfRests ==
  ASSUME SessionsTypeOK, NEW t \in Tabs, CsrfSettled(t), NEW k \in Slots, NEW held \in Call,
         Calling(t, k, held), UNCHANGED <<jarOf, tab>>, jar'[jarOf[t]].csrf = jar[jarOf[t]].csrf,
         call[t][k].at \notin {"arrived", "leaving"},
         held.at \notin {"fetching", "fetched", "arrived"},
         held.at \in AtServer \cup Answers => tab[t].csrf # 0
  PROVE  CsrfSettled(t)'
  <1>1. \A j \in Slots : call'[t][j] = IF j = k THEN held ELSE call[t][j]
    BY CallingSets
  <1>2. held.at \notin Fetches
    BY DEF Fetches
  <1> QED BY <1>1, <1>2 DEF CsrfSettled

(* A call ends, and the tab knows no token or the cookie's. *)
LEMMA CsrfEnds ==
  ASSUME SessionsTypeOK, NEW t \in Tabs, CsrfSettled(t), NEW k \in Slots, Over(t, k),
         \A j \in Slots : CallSettled(t, j), Engaged(call[t][k]), UNCHANGED <<jarOf, jar>>,
         \/ tab'[t].csrf = 0
         \/ tab'[t].csrf = jar[jarOf[t]].csrf /\ call[t][k].at \in Answers
  PROVE  CsrfSettled(t)'
  <1>1. /\ call'[t][k] = NoCall
        /\ \A j \in Slots : call'[t][j] = call[t][j] \/ call'[t][j] = NoCall
    BY OverSays
  <1>2. NoCall.at = "idle"
    BY DEF NoCall
  <1>3. \A j \in Slots \ {k} : call[t][j].at \notin AtServer \cup Answers
    BY DEF CallSettled, Engaged, Leaving, AtServer, Answers
  <1>4. \A j \in Slots : call'[t][j].at \notin AtServer \cup Answers
    BY <1>1, <1>2, <1>3 DEF AtServer, Answers
  <1>5. \A j \in Slots : call'[t][j].at \in Fetches => call'[t][j] = call[t][j] /\ tab'[t].csrf = 0
    <2>1. call[t][k].at \in Answers => \A j \in Slots : call[t][j].at \notin Fetches
      BY DEF CsrfSettled
    <2> QED BY <1>1, <1>2, <2>1 DEF Fetches
  <1>6. \A j \in Slots : call'[t][j].at # "idle" => call'[t][j] = call[t][j]
    BY <1>1, <1>2
  <1>7. \A i, j \in Slots : call'[t][i].at \in Fetches /\ i # j => call'[t][j].at \notin Fetches
    BY <1>5, <1>6, <1>2 DEF CsrfSettled, Fetches
  <1> QED BY <1>4, <1>5, <1>7 DEF CsrfSettled, Fetches, Answers

LEMMA CallKeepsCsrf ==
  ASSUME SessionsTypeOK, Alone', Alone, SettledTab, CsrfTab, ~fetchedTwice',
         acted \subseteq acted', NEW t \in Tabs, NEW k \in Slots, CallStep(t, k)
  PROVE  CsrfTab'
  <1> DEFINE c == call[t][k]
             Kept == /\ t \in acted' /\ "csrf" \notin refused' /\ UNCHANGED jarOf
                     /\ \A u \in Tabs \ {t} : /\ tab'[u] = tab[u]
                                              /\ \A j \in Slots : call'[u][j] = call[u][j]
                     /\ CsrfSettled(t)'
  <1>0. c \in Call /\ CsrfSettled(t) /\ "csrf" \notin refused
    BY DEF SessionsTypeOK, CsrfTab
  <1>a. /\ \A j \in Slots : CallSettled(t, j)
        /\ c.at # "idle" => t \in acted
        /\ acted' = acted => (c.at # "idle" => t \in acted')
    BY DEF SettledTab
  <1>b. \A a \in Steps : /\ [NoCall EXCEPT !.at = a] \in Call /\ [NoCall EXCEPT !.at = a].at = a
                         /\ [c EXCEPT !.at = a] \in Call /\ [c EXCEPT !.at = a].at = a
                         /\ [c EXCEPT !.at = a].token = c.token
    BY <1>0, BlanksTyped DEF Call, NoCall
  <1>c. ASSUME NEW held \in Call, Calling(t, k, held)
        PROVE  /\ \A j \in Slots : call'[t][j] = IF j = k THEN held ELSE call[t][j]
               /\ \A u \in Tabs \ {t}, j \in Slots : call'[u][j] = call[u][j]
    BY <1>c, CallingSets
  <1>d. Begins(t, k) => \A j \in Slots : call[t][j].at = "idle"
    BY DEF Begins, Alone
  <1>e. Kept => CsrfTab'
    BY OnlyOneMoves
  <1>r. ASSUME NEW held \in Call, Calling(t, k, held), UNCHANGED <<jarOf, tab, jar, refused>>,
               t \in acted', c.at \notin {"arrived", "leaving"},
               held.at \notin {"fetching", "fetched", "arrived"},
               held.at \in AtServer \cup Answers => tab[t].csrf # 0
        PROVE  CsrfTab'
    <2>1. CsrfSettled(t)'
      BY <1>0, <1>r, CsrfRests
    <2> QED BY <1>0, <1>c, <1>e, <1>r, <2>1
  <1>f. ASSUME NEW header, Send(t, k, header), header # 0, header = jar[jarOf[t]].csrf
        PROVE  /\ UNCHANGED refused
               /\ \E held \in Call : held.at = "refresh" /\ Calling(t, k, held)
    <2> DEFINE held == [c EXCEPT !.at = "refresh", !.token = jar[jarOf[t]].refresh]
    <2>1. held \in Call /\ held.at = "refresh"
      <3>1. jar[jarOf[t]].refresh \in Tokens
        BY DEF SessionsTypeOK, Jar
      <3> QED BY <1>0, <3>1 DEF Call, Steps, AtServer
    <2>2. Calling(t, k, held) /\ UNCHANGED refused
      BY <1>f DEF Send, CsrfMatches
    <2> HIDE DEF held
    <2> QED BY <2>1, <2>2
  <1> HIDE DEF c, Kept
  <1>1. CASE Deny(t, k)
    <2>1. [NoCall EXCEPT !.at = "denied"] \in Call /\ [NoCall EXCEPT !.at = "denied"].at = "denied"
      BY <1>b DEF Steps
    <2> QED BY <1>1, <1>r, <2>1 DEF Deny, c, AtServer, Answers
  <1>2. CASE Refresh(t, k)
    <2> DEFINE held == IF NoneRefreshing(t) THEN [NoCall EXCEPT !.at = "opening", !.refresh = TRUE]
                       ELSE [NoCall EXCEPT !.at = "waiting"]
    <2>1. held \in Call /\ held.at \in {"opening", "waiting"}
      BY BlanksTyped DEF NoCall, Call, Steps
    <2>2. /\ Calling(t, k, held) /\ UNCHANGED <<jarOf, tab, jar, refused>> /\ c.at = "denied"
          /\ t \in acted'
      BY <1>2, <1>a DEF Refresh, c
    <2> HIDE DEF held
    <2> QED BY <1>r, <2>1, <2>2 DEF AtServer, Answers
  <1>3. CASE SendRefresh(t, k)
    <2>1. c.at = "opening" /\ c.refresh /\ tab[t].csrf # 0 /\ Send(t, k, tab[t].csrf)
      BY <1>3, <1>a DEF SendRefresh, c, CallSettled
    <2>2. \A j \in Slots : call[t][j].at \notin {"arrived", "leaving"}
      BY <1>a, <2>1 DEF CallSettled, Engaged, Leaving, c
    <2>3. tab[t].csrf = jar[jarOf[t]].csrf
      BY <1>0, <2>1, <2>2 DEF CsrfSettled
    <2>4. PICK held \in Call : held.at = "refresh" /\ Calling(t, k, held) /\ UNCHANGED refused
      BY <1>f, <2>1, <2>3
    <2> QED BY <1>3, <1>a, <1>r, <2>1, <2>4 DEF SendRefresh
  <1>4. CASE AdoptSession(t, k)
    <2>1. /\ c.at = "arrived" /\ Engaged(c) /\ Over(t, k) /\ UNCHANGED <<jarOf, jar, acted, refused>>
          /\ tab' = [tab EXCEPT ![t] = [signedIn |-> TRUE, csrf |-> c.token]]
      BY <1>4 DEF AdoptSession, c, history, Engaged
    <2>2. tab'[t].csrf = jar[jarOf[t]].csrf /\ \A u \in Tabs \ {t} : tab'[u] = tab[u]
      BY <1>0, <2>1 DEF SessionsTypeOK, CsrfSettled, c
    <2>3. CsrfSettled(t)'
      BY <1>0, <1>a, <2>1, <2>2, CsrfEnds DEF Answers, c
    <2> QED BY <1>0, <1>a, <1>e, <2>1, <2>2, <2>3, OverSays DEF Kept
  <1>g. ASSUME Over(t, k), UNCHANGED <<jarOf, jar, acted, refused>>, Engaged(c), c.at # "idle",
               tab' = [tab EXCEPT ![t] = SignedOut]
        PROVE  CsrfTab'
    <2>1. tab'[t].csrf = 0 /\ \A u \in Tabs \ {t} : tab'[u] = tab[u]
      BY <1>g DEF SessionsTypeOK, SignedOut
    <2>2. CsrfSettled(t)'
      BY <1>0, <1>a, <1>g, <2>1, CsrfEnds DEF c
    <2> QED BY <1>0, <1>a, <1>e, <1>g, <2>1, <2>2, OverSays DEF Kept
  <1>5. CASE LoseSession(t, k)
    <2>1. c.at = "failed" /\ Engaged(c)
      BY <1>5, <1>a DEF LoseSession, CallSettled, c, Engaged
    <2> QED BY <1>5, <1>g, <2>1 DEF LoseSession, history
  <1>6. CASE LoseAnswer(t, k)
    BY <1>6 DEF LoseAnswer, Alone
  <1>7. CASE ReadUserRow(t, k)
    <2> DEFINE at == IF c.token = 0 \/ row.token = 0 THEN "failed"
                     ELSE IF c.token # row.token THEN "mismatch" ELSE "granted"
               held == [c EXCEPT !.at = at, !.login = row.login]
    <2>1. held \in Call /\ held.at \in {"failed", "mismatch", "granted"}
      <3>1. row.login \in Tokens /\ at \in {"failed", "mismatch", "granted"}
        BY DEF SessionsTypeOK, UserRow
      <3> HIDE DEF at
      <3> QED BY <1>0, <3>1 DEF Call, Steps, AtServer, Answers
    <2>2. /\ Calling(t, k, held) /\ UNCHANGED <<jarOf, tab, jar, refused>> /\ c.at = "refresh"
          /\ t \in acted'
      BY <1>7, <1>a DEF ReadUserRow, c, history
    <2>3. tab[t].csrf # 0
      BY <1>0, <2>2 DEF CsrfSettled, AtServer, c
    <2> HIDE DEF held
    <2> QED BY <1>r, <2>1, <2>2, <2>3
  <1>8. CASE EndReused(t, k)
    BY <1>8, <1>a DEF EndReused, CallSettled, c
  <1>h. ASSUME NEW held \in Call, Calling(t, k, held), held.at = "answered", t \in acted',
               UNCHANGED <<jarOf, tab, jar, refused>>, tab[t].csrf # 0,
               c.at \notin {"arrived", "leaving"}
        PROVE  CsrfTab'
    BY <1>h, <1>r
  <1>9. CASE Rotate(t, k)
    <2> DEFINE held == [c EXCEPT !.at = "answered", !.token = minted']
    <2>1. held \in Call /\ held.at = "answered"
      <3>1. minted' \in Tokens
        BY <1>9, TokensAreNat DEF Rotate, SessionsTypeOK
      <3> QED BY <1>0, <3>1 DEF Call, Steps, Answers
    <2>2. /\ Calling(t, k, held) /\ UNCHANGED <<jarOf, tab, jar, refused>> /\ c.at = "granted"
          /\ t \in acted'
      BY <1>9, <1>a DEF Rotate, c
    <2>3. tab[t].csrf # 0
      BY <1>0, <2>2 DEF CsrfSettled, AtServer, c
    <2> HIDE DEF held
    <2> QED BY <1>h, <2>1, <2>2, <2>3
  <1>i. ASSUME IssueSession(t, k), UNCHANGED <<jarOf, tab, jar, refused>>, t \in acted',
               tab[t].csrf # 0, c.at \notin {"arrived", "leaving"}
        PROVE  CsrfTab'
    <2> DEFINE held == [NoCall EXCEPT !.at = "answered", !.token = minted']
    <2>1. held \in Call /\ held.at = "answered"
      <3>1. minted' \in Tokens
        BY <1>i, TokensAreNat DEF IssueSession, SessionsTypeOK
      <3> QED BY <3>1, BlanksTyped DEF Call, Steps, Answers
    <2>2. Calling(t, k, held)
      BY <1>i DEF IssueSession
    <2> HIDE DEF held
    <2> QED BY <1>h, <1>i, <2>1, <2>2
  <1>10. CASE Login(t, k)
    BY <1>10, <1>i DEF Login, Begins, c
  <1>11. CASE Logout(t, k)
    <2>1. /\ \A j \in Slots : call[t][j].at = "idle"
          /\ t \in acted' /\ UNCHANGED <<jarOf, jar, tab>> /\ tab[t].csrf # 0
      BY <1>11, <1>d DEF Logout, Begins
    <2>2. CsrfMatches(t, tab[t].csrf)
      BY <1>0, <2>1 DEF CsrfSettled, CsrfMatches
    <2>3. Calling(t, k, [NoCall EXCEPT !.at = "left"]) /\ UNCHANGED refused
      BY <1>11, <2>2 DEF Logout
    <2>4. [NoCall EXCEPT !.at = "left"] \in Call /\ [NoCall EXCEPT !.at = "left"].at = "left"
      BY <1>b DEF Steps, AtServer
    <2> QED BY <1>r, <2>1, <2>3, <2>4 DEF c
  <1>12. CASE LeaveApp(t, k)
    <2>1. c.at = "leaving" /\ Engaged(c)
      BY <1>12 DEF LeaveApp, c, Engaged, Leaving
    <2> QED BY <1>12, <1>g, <2>1 DEF LeaveApp, history
  <1>13. CASE ChangePassword(t, k)
    <2>1. /\ c.at = "idle" /\ t \in acted' /\ UNCHANGED <<jarOf, jar, tab, refused>> /\ tab[t].csrf # 0
          /\ Calling(t, k, [NoCall EXCEPT !.at = "changing"])
      BY <1>13 DEF ChangePassword, Begins, c
    <2>2. [NoCall EXCEPT !.at = "changing"] \in Call
          /\ [NoCall EXCEPT !.at = "changing"].at = "changing"
      BY <1>b DEF Steps, AtServer
    <2> QED BY <1>r, <2>1, <2>2
  <1>14. CASE SessionAfterChange(t, k)
    <2>1. c.at = "changing" /\ t \in acted' /\ tab[t].csrf # 0
      BY <1>0, <1>14, <1>a DEF SessionAfterChange, c, history, CsrfSettled, AtServer
    <2> QED BY <1>14, <1>i, <2>1 DEF SessionAfterChange, history
  <1>15. CASE FetchCsrf(t, k)
    <2> DEFINE held == [c EXCEPT !.at = "fetching"]
    <2>1. held \in Call /\ held.at = "fetching"
      BY <1>b DEF Steps, Fetches
    <2>2. /\ Calling(t, k, held) /\ UNCHANGED <<jarOf, tab, jar, refused>> /\ t \in acted'
          /\ tab[t].csrf = 0 /\ \A j \in Slots : call[t][j].at \notin Fetches
          /\ c.at \in {"opening", "idle"}
      BY <1>15 DEF FetchCsrf, c
    <2> HIDE DEF held
    <2>3. CsrfSettled(t)'
      <3>1. \A j \in Slots : call'[t][j] = IF j = k THEN held ELSE call[t][j]
        BY <1>c, <2>1, <2>2
      <3> QED BY <1>0, <2>1, <2>2, <3>1 DEF CsrfSettled, AtServer, Answers, Fetches
    <2> QED BY <1>0, <1>c, <1>e, <2>1, <2>2, <2>3 DEF Kept
  <1>16. CASE MintCsrf(t, k)
    <2> DEFINE held == [c EXCEPT !.at = "fetched", !.token = minted']
    <2>1. /\ minted' \in Tokens /\ minted' # 0
          /\ held \in Call /\ held.at = "fetched" /\ held.token = minted'
      <3>1. minted' \in Tokens /\ minted' # 0
        BY <1>16, TokensAreNat DEF MintCsrf, SessionsTypeOK
      <3> QED BY <1>0, <3>1 DEF Call, Steps, Fetches
    <2>2. /\ Calling(t, k, held) /\ UNCHANGED <<jarOf, tab, refused>> /\ t \in acted'
          /\ c.at = "fetching" /\ jar'[jarOf[t]].csrf = minted'
      BY <1>16, <1>a DEF MintCsrf, c, history, SessionsTypeOK, Jar
    <2>3. /\ tab[t].csrf = 0 /\ \A j \in Slots \ {k} : call[t][j].at \notin Fetches
          /\ \A j \in Slots : call[t][j].at \notin AtServer \cup Answers
      BY <1>0, <2>2 DEF CsrfSettled, Fetches, c
    <2> HIDE DEF held
    <2>4. CsrfSettled(t)'
      <3>1. \A j \in Slots : call'[t][j] = IF j = k THEN held ELSE call[t][j]
        BY <1>c, <2>1, <2>2
      <3> QED BY <2>1, <2>2, <2>3, <3>1 DEF CsrfSettled, AtServer, Answers, Fetches
    <2> QED BY <1>0, <1>c, <1>e, <2>1, <2>2, <2>4 DEF Kept
  <1>17. CASE UseFetched(t, k)
    <2>1. /\ c.at = "fetched" /\ t \in acted' /\ UNCHANGED <<jarOf, jar>>
          /\ tab'[t].csrf = c.token /\ \A u \in Tabs \ {t} : tab'[u] = tab[u]
      BY <1>17, <1>a DEF UseFetched, c, SessionsTypeOK, Tab
    <2>2. /\ c.token # 0 /\ c.token = jar[jarOf[t]].csrf
          /\ \A j \in Slots \ {k} : call[t][j].at \notin Fetches
          /\ \A j \in Slots : call[t][j].at \notin AtServer \cup Answers
      BY <1>0, <2>1 DEF CsrfSettled, Fetches, c
    <2>3. /\ UNCHANGED refused
          /\ \E held \in Call : held.at \in {"idle", "refresh"} /\ Calling(t, k, held)
      <3>1. CASE c.refresh
        BY <1>17, <1>f, <2>2, <3>1 DEF UseFetched, c
      <3>2. CASE ~c.refresh
        <4>1. NoCall \in Call /\ NoCall.at = "idle"
          BY BlanksTyped DEF NoCall
        <4> QED BY <1>17, <3>2, <4>1 DEF UseFetched, c
      <3> QED BY <3>1, <3>2
    <2>4. PICK held \in Call : held.at \in {"idle", "refresh"} /\ Calling(t, k, held)
      BY <2>3
    <2>5. \A j \in Slots : call'[t][j] = IF j = k THEN held ELSE call[t][j]
      BY <1>c, <2>4
    <2>6. CsrfSettled(t)'
      BY <2>1, <2>2, <2>4, <2>5 DEF CsrfSettled, AtServer, Answers, Fetches
    <2> QED BY <1>0, <1>c, <1>e, <2>1, <2>3, <2>4, <2>6 DEF Kept
  <1>18. CASE SetCookies(t, k)
    <2> DEFINE held == [c EXCEPT !.at = "arrived"]
    <2>1. held \in Call /\ held.at = "arrived" /\ held.token = c.token
      BY <1>b DEF Steps, Answers
    <2>2. /\ Calling(t, k, held) /\ UNCHANGED <<jarOf, tab, refused>> /\ t \in acted'
          /\ c.at = "answered" /\ jar'[jarOf[t]].csrf = c.token
      BY <1>18, <1>a DEF SetCookies, c, history, SessionsTypeOK
    <2>3. /\ tab[t].csrf # 0 /\ \A j \in Slots : call[t][j].at \notin Fetches
          /\ \A j \in Slots \ {k} : call[t][j].at # "arrived"
      <3>1. tab[t].csrf # 0
        BY <1>0, <2>2 DEF CsrfSettled, Answers, c
      <3>2. \A j \in Slots \ {k} : call[t][j].at # "arrived"
        BY <1>a, <2>2 DEF CallSettled, Engaged, c
      <3> QED BY <1>0, <3>1, <3>2 DEF CsrfSettled
    <2> HIDE DEF held
    <2>4. CsrfSettled(t)'
      <3>1. \A j \in Slots : call'[t][j] = IF j = k THEN held ELSE call[t][j]
        BY <1>c, <2>1, <2>2
      <3> QED BY <2>1, <2>2, <2>3, <3>1 DEF CsrfSettled, Fetches
    <2> QED BY <1>0, <1>c, <1>e, <2>1, <2>2, <2>4 DEF Kept
  <1>19. CASE ClearCookies(t, k)
    <2> DEFINE held == [c EXCEPT !.at = "leaving"]
    <2>1. held \in Call /\ held.at = "leaving"
      BY <1>b DEF Steps, Answers
    <2>2. /\ Calling(t, k, held) /\ UNCHANGED <<jarOf, tab, refused>> /\ t \in acted'
          /\ c.at = "left"
      BY <1>19, <1>a DEF ClearCookies, c, history
    <2>3. /\ tab[t].csrf # 0 /\ \A j \in Slots : call[t][j].at \notin Fetches
          /\ \A j \in Slots \ {k} : call[t][j].at # "arrived"
      <3>1. tab[t].csrf # 0
        BY <1>0, <2>2 DEF CsrfSettled, AtServer, c
      <3>2. \A j \in Slots \ {k} : call[t][j].at # "arrived"
        BY <1>a, <2>2 DEF CallSettled, Engaged, Leaving, c
      <3> QED BY <1>0, <3>1, <3>2 DEF CsrfSettled
    <2> HIDE DEF held
    <2>4. CsrfSettled(t)'
      <3>1. \A j \in Slots : call'[t][j] = IF j = k THEN held ELSE call[t][j]
        BY <1>c, <2>1, <2>2
      <3> QED BY <2>1, <2>2, <2>3, <3>1 DEF CsrfSettled, Fetches
    <2> QED BY <1>0, <1>c, <1>e, <2>1, <2>2, <2>4 DEF Kept
  <1> QED BY <1>1, <1>2, <1>3, <1>4, <1>5, <1>6, <1>7, <1>8, <1>9, <1>10, <1>11, <1>12, <1>13, <1>14,
             <1>15, <1>16, <1>17, <1>18, <1>19 DEF CallStep

LEMMA CsrfNext ==
  SessionsInv /\ SettledAlone /\ CsrfAlone /\ [SessionsNext]_sessionVars => CsrfAlone'
  <1> SUFFICES ASSUME SessionsInv, SettledAlone, CsrfAlone, [SessionsNext]_sessionVars
               PROVE  CsrfAlone'
    OBVIOUS
  <1>0. SessionsTypeOK
    BY DEF SessionsInv
  <1>1. CASE UNCHANGED sessionVars
    BY <1>1 DEF sessionVars, CsrfAlone, Alone, CsrfTab, CsrfSettled
  <1>2. CASE SessionsNext
    <2>1. (Alone' => Alone) /\ (fetchedTwice => fetchedTwice') /\ acted \subseteq acted'
      BY <1>0, <1>2, AloneBefore
    <2> SUFFICES ASSUME Alone', ~fetchedTwice' PROVE CsrfTab'
      BY DEF CsrfAlone
    <2>2. Alone /\ SettledTab /\ CsrfTab
      BY <2>1 DEF SettledAlone, CsrfAlone
    <2>3. ASSUME NEW t \in Tabs, NEW k \in Slots, CallStep(t, k) PROVE CsrfTab'
      BY <1>0, <2>1, <2>2, <2>3, CallKeepsCsrf
    <2>4. ASSUME NEW t \in Tabs, ReloadPage(t) PROVE CsrfTab'
      <3>1. UNCHANGED <<jarOf, jar, acted, refused>>
        BY <2>4 DEF ReloadPage
      <3>2. /\ tab'[t].csrf = 0 /\ \A k \in Slots : call'[t][k].at = "idle"
            /\ \A u \in Tabs \ {t} : call'[u] = call[u] /\ tab'[u] = tab[u]
        BY <1>0, <2>4 DEF ReloadPage, SessionsTypeOK, NoCall, SignedOut
      <3>3. CsrfSettled(t)'
        BY <3>2 DEF CsrfSettled, Fetches, AtServer, Answers
      <3>4. \A u \in Tabs \ {t} : CsrfSettled(u)'
        BY <2>2, <3>1, <3>2 DEF CsrfTab, CsrfSettled
      <3> QED BY <2>2, <3>1, <3>2, <3>3, <3>4 DEF CsrfTab
    <2>5. ASSUME NEW b \in Browsers, ResetPassword(b) PROVE CsrfTab'
      <3>1. /\ UNCHANGED <<jarOf, tab, call, acted, refused>>
            /\ \A u \in Tabs : jar'[jarOf[u]].csrf = jar[jarOf[u]].csrf
        BY <1>0, <2>5 DEF ResetPassword, SessionsTypeOK, Jar
      <3>2. \A u \in Tabs : CsrfSettled(u)'
        BY <2>2, <3>1 DEF CsrfTab, CsrfSettled
      <3> QED BY <2>2, <3>1, <3>2 DEF CsrfTab
    <2> QED BY <1>2, <2>3, <2>4, <2>5 DEF SessionsNext
  <1> QED BY <1>1, <1>2

(* While one tab is all there is of the account, none of its refreshes is   *)
(* taken for a reuse, for any number of calls that are denied at once; and  *)
(* none is refused for its CSRF token unless the tab had fetched two.       *)
THEOREM AloneNeverSignedOut == SessionsSpec => []AloneNeverRefused
  <1>1. SettledAlone /\ CsrfAlone => AloneNeverRefused
    <2> SUFFICES ASSUME SettledAlone, CsrfAlone, Cardinality(acted) <= 1, lost = 0, ~crossed
                 PROVE  "reused" \notin refused /\ ("csrf" \in refused => fetchedTwice)
      BY DEF AloneNeverRefused
    <2>1. Alone
      BY FewAreOne DEF SettledAlone, Alone
    <2> QED BY <2>1 DEF SettledAlone, SettledTab, CsrfAlone, CsrfTab
  <1> QED BY <1>1, InitInv, NextInv, SettledInit, SettledNext, CsrfInit, CsrfNext, PTL
          DEF SessionsSpec

-----------------------------------------------------------------------------
(* A behaviour of the host is one of each of its parts: the part that is   *)
(* awake takes its steps, and the others stutter.                          *)
LEMMA SchoolIsItsParts ==
  SchoolSpec => Spec /\ SessionsSpec /\ LibrarySpec
<1>1. SchoolInit => Init /\ SessionsInit /\ LibraryInit
  BY DEF SchoolInit
<1>2. ASSUME [SubscriptionPart \/ SessionsPart \/ LibraryPart]_schoolVars
      PROVE  [Next]_vars /\ [SessionsNext]_sessionVars /\ [LibraryNext]_libraryVars
  BY <1>2, Zenon DEF SubscriptionPart, SessionsPart, LibraryPart, schoolVars
<1>3. QED BY <1>1, <1>2, PTL DEF SchoolSpec, Spec, SessionsSpec, LibrarySpec

(* So what the parts guarantee holds in their host: types, sessions that   *)
(* stay ended, a lone tab that is never refused, and a shelf that agrees.  *)
THEOREM SchoolHolds ==
  SchoolSpec => [](SchoolTypes /\ EndedStaysEnded /\ AloneNeverRefused /\ ShelfAgrees)
<1>1. SessionsTypeOK /\ LibraryTypeOK => SchoolTypes
  BY DEF SchoolTypes
<1>2. QED
  BY <1>1, SchoolIsItsParts, SessionsTyped, LibraryTyped, NoSessionComesBack, AloneNeverSignedOut,
     ShelfAgreesWithLoans, PTL
=============================================================================
