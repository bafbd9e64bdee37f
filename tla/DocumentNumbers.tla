-------------------------- MODULE DocumentNumbers --------------------------
(***************************************************************************)
(* utils/documentNumber.js: numbers of invoices, payments, refunds,        *)
(* quotations and fee receipts, derived from the table they go into.       *)
(*                                                                         *)
(* A series is a column, a period and, for receipts, a school.  Reading    *)
(* the latest number takes locks, but whether they make another reader     *)
(* wait is the engine's affair: here they may or may not.  What the code   *)
(* rests on is the unique index.                                           *)
(***************************************************************************)
EXTENDS Integers, FiniteSets

CONSTANTS
  Series,
  Callers,             \* units of work wrapped by withRetry()
  MaxCounter,          \* 10 ^ COUNTER_WIDTH - 1
  Attempts             \* DEFAULT_ATTEMPTS

ASSUME NumbersAssumption == MaxCounter \in Nat /\ Attempts \in Nat \ {0}

VARIABLES
  issued,      \* [Series -> SUBSET Nat]: numbers of committed rows
  documents,   \* [Series -> Nat]: committed rows
  work         \* what every caller is doing

numberVars == <<issued, documents, work>>

(* began is history: the rows of the series when this unit of work began.  *)
Work == [stage: {"idle", "begun", "numbered", "inserted"}, series: Series,
         number: 0 .. MaxCounter, attempt: 1 .. Attempts, began: Nat]

NoWork(s) == [stage |-> "idle", series |-> s, number |-> 0, attempt |-> 1, began |-> 0]

NumbersTypeOK ==
  /\ issued \in [Series -> SUBSET (1 .. MaxCounter)]
  /\ documents \in [Series -> Nat]
  /\ work \in [Callers -> Work]

NumbersInit ==
  /\ issued = [s \in Series |-> {}]
  /\ documents = [s \in Series |-> 0]
  /\ work \in [Callers -> {NoWork(s) : s \in Series}]

Underwork(i, w) == work' = [work EXCEPT ![i] = w]
Quit(i) == Underwork(i, NoWork(work[i].series))

-----------------------------------------------------------------------------
BeginWork(i, s) ==
  /\ work[i].stage = "idle"
  /\ Underwork(i, [NoWork(s) EXCEPT !.stage = "begun", !.began = documents[s]])
  /\ UNCHANGED <<issued, documents>>

(* n is the counter of the row ORDER BY ... DESC LIMIT 1 finds, if any. *)
Latest(s, n) ==
  IF issued[s] = {} THEN n = 0
  ELSE n \in issued[s] /\ \A m \in issued[s] : m <= n

(* nextNumber(): one past the latest; a counter too wide is refused, and   *)
(* that is not retried.                                                    *)
NextNumber(i) ==
  /\ work[i].stage = "begun"
  /\ \E n \in 0 .. MaxCounter :
       /\ Latest(work[i].series, n)
       /\ IF n = MaxCounter THEN Quit(i)
          ELSE Underwork(i, [work[i] EXCEPT !.stage = "numbered", !.number = n + 1])
  /\ UNCHANGED <<issued, documents>>

(* Mutant: the column has no unique index. *)
TakenUnindexed(i) == FALSE

Taken(i) == work[i].number \in issued[work[i].series]

(* An insert waits for a row of the same number that is not committed. *)
InsertDocument(i) ==
  /\ work[i].stage = "numbered"
  /\ ~Taken(i)
  /\ \A j \in Callers :
       work[j].stage = "inserted" /\ work[j].series = work[i].series =>
         work[j].number # work[i].number
  /\ Underwork(i, [work[i] EXCEPT !.stage = "inserted"])
  /\ UNCHANGED <<issued, documents>>

(* Mutant: only the insert is tried again, with the number it had. *)
RetryInside(i) ==
  /\ work[i].stage = "numbered"
  /\ Taken(i)
  /\ IF work[i].attempt = Attempts THEN Quit(i)
     ELSE Underwork(i, [work[i] EXCEPT !.attempt = @ + 1])
  /\ UNCHANGED <<issued, documents>>

(* withRetry(): a number that was taken meanwhile rolls the transaction    *)
(* back and starts it again, so many times and no more.                    *)
RetryNumber(i) ==
  /\ work[i].stage = "numbered"
  /\ Taken(i)
  /\ IF work[i].attempt = Attempts THEN Quit(i)
     ELSE Underwork(i, [work[i] EXCEPT !.stage = "begun", !.number = 0, !.attempt = @ + 1])
  /\ UNCHANGED <<issued, documents>>

CommitDocument(i) ==
  LET s == work[i].series
  IN  /\ work[i].stage = "inserted"
      /\ issued' = [issued EXCEPT ![s] = @ \cup {work[i].number}]
      /\ documents' = [documents EXCEPT ![s] = @ + 1]
      /\ Quit(i)

(* The unit of work fails for a reason of its own, or its process dies. *)
RollBack(i) ==
  /\ work[i].stage # "idle"
  /\ Quit(i)
  /\ UNCHANGED <<issued, documents>>

NumberStep(i) ==
  \/ \E s \in Series : BeginWork(i, s)
  \/ NextNumber(i) \/ InsertDocument(i) \/ RetryNumber(i) \/ CommitDocument(i) \/ RollBack(i)

NumbersNext == \E i \in Callers : NumberStep(i)

NumbersSpec == NumbersInit /\ [][NumbersNext]_numberVars

-----------------------------------------------------------------------------
(* Properties. *)

(* The numbers of a series are 1, 2, 3 ... without a gap and without a     *)
(* repetition, whatever is retried, rolled back or lost: a number that was *)
(* taken and not committed is taken again.                                 *)
SeriesGapless == \A s \in Series : issued[s] = 1 .. documents[s]

(* An attempt is lost only to somebody who was issued a number: whoever    *)
(* has tried k times has been overtaken by k - 1 documents of its series,  *)
(* so that giving up after Attempts means Attempts others went through.    *)
OvertakenEachTime ==
  \A i \in Callers :
    work[i].stage # "idle" =>
      work[i].attempt - 1 <= documents[work[i].series] - work[i].began
=============================================================================
