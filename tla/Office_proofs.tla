--------------------------- MODULE Office_proofs ----------------------------
(***************************************************************************)
(* What DocumentNumbers guarantees for any number of callers, series and   *)
(* attempts, and whatever the width of the counter: a series has no gap    *)
(* and no repetition, and an attempt is lost only to a document.  What     *)
(* Quotations guarantees for any number of handlers and totals: one        *)
(* quotation becomes one invoice, for what it says.  What Fees guarantees  *)
(* for any number of fees, clerks and runs of the fines task: the ledger   *)
(* follows its receipts, and nothing is charged twice unseen.  And that a  *)
(* behaviour of MCOffice, their host, is one of each of its parts.         *)
(***************************************************************************)
EXTENDS MCOffice, SubscriptionLifecycle_proofs, CacheSweep_proofs

-----------------------------------------------------------------------------
(* A number that was computed is at most one past the series, and was not  *)
(* reached without being overtaken; one that is inserted and not committed *)
(* is the next, and nobody else's.                                         *)
NumberInReach ==
  \A i \in Callers :
    work[i].stage \in {"numbered", "inserted"} =>
      /\ work[i].number \in 1 .. documents[work[i].series] + 1
      /\ work[i].attempt - 1 <= work[i].number - 1 - work[i].began

InsertedIsNext ==
  \A i \in Callers :
    work[i].stage = "inserted" =>
      /\ work[i].number = documents[work[i].series] + 1
      /\ \A j \in Callers \ {i} :
           work[j].stage = "inserted" => work[j].series # work[i].series

NumbersInv ==
  NumbersTypeOK /\ SeriesGapless /\ OvertakenEachTime /\ NumberInReach /\ InsertedIsNext

(* The same of one caller. *)
InReach(w) ==
  /\ w.stage # "idle" => w.attempt - 1 <= documents[w.series] - w.began
  /\ w.stage \in {"numbered", "inserted"} =>
       /\ w.number \in 1 .. documents[w.series] + 1
       /\ w.attempt - 1 <= w.number - 1 - w.began

LEMMA NoWorkTyped ==
  ASSUME NEW s \in Series
  PROVE  NoWork(s) \in Work /\ NoWork(s).stage = "idle" /\ InReach(NoWork(s))
BY NumbersAssumption DEF NoWork, Work, InReach

(* A step in which caller i takes up w and nothing is committed.           *)
LEMMA UnderworkKeeps ==
  ASSUME NumbersInv, NEW i \in Callers, NEW w \in Work, Underwork(i, w),
         UNCHANGED <<issued, documents>>, InReach(w),
         w.stage = "inserted" =>
           /\ w.number = documents[w.series] + 1
           /\ \A j \in Callers \ {i} :
                work[j].stage = "inserted" => work[j].series # w.series
  PROVE  NumbersInv'
<1>1. work' = [work EXCEPT ![i] = w] /\ work \in [Callers -> Work]
  BY DEF Underwork, NumbersInv, NumbersTypeOK
<1>2. /\ work' \in [Callers -> Work]
      /\ work'[i] = w
      /\ \A j \in Callers \ {i} : work'[j] = work[j]
  BY <1>1
<1>3. NumbersTypeOK'
  BY <1>2 DEF NumbersInv, NumbersTypeOK
<1>4. SeriesGapless'
  BY DEF NumbersInv, SeriesGapless
<1>5. OvertakenEachTime'
  BY <1>2 DEF NumbersInv, OvertakenEachTime, InReach
<1>6. NumberInReach'
  BY <1>2 DEF NumbersInv, NumberInReach, InReach
<1>7. InsertedIsNext'
  BY <1>2 DEF NumbersInv, InsertedIsNext
<1> QED
  BY <1>3, <1>4, <1>5, <1>6, <1>7 DEF NumbersInv

LEMMA QuitKeeps ==
  ASSUME NumbersInv, NEW i \in Callers, Quit(i), UNCHANGED <<issued, documents>>
  PROVE  NumbersInv'
<1>1. work[i].series \in Series
  BY DEF NumbersInv, NumbersTypeOK, Work
<1>2. Underwork(i, NoWork(work[i].series))
  BY DEF Quit
<1>3. /\ NoWork(work[i].series) \in Work
      /\ NoWork(work[i].series).stage = "idle"
      /\ InReach(NoWork(work[i].series))
  BY <1>1, NoWorkTyped
<1> QED
  BY <1>2, <1>3, UnderworkKeeps

LEMMA NumbersInitInv == NumbersInit => NumbersInv
<1> SUFFICES ASSUME NumbersInit PROVE NumbersInv
  OBVIOUS
<1>1. \A i \in Callers : work[i] \in Work /\ work[i].stage = "idle"
  BY NoWorkTyped DEF NumbersInit
<1>2. work \in [Callers -> Work]
  BY <1>1 DEF NumbersInit
<1>3. NumbersTypeOK
  BY <1>2 DEF NumbersInit, NumbersTypeOK
<1>4. SeriesGapless
  BY DEF NumbersInit, SeriesGapless
<1>5. OvertakenEachTime /\ NumberInReach /\ InsertedIsNext
  BY <1>1 DEF OvertakenEachTime, NumberInReach, InsertedIsNext
<1> QED
  BY <1>3, <1>4, <1>5 DEF NumbersInv

(* The latest number of a series is the number of its documents.           *)
LEMMA LatestCounts ==
  ASSUME NumbersInv, NEW s \in Series, NEW n \in 0 .. MaxCounter, Latest(s, n)
  PROVE  n = documents[s]
<1>1. issued[s] = 1 .. documents[s] /\ documents[s] \in Nat /\ n \in Nat
  BY NumbersAssumption DEF NumbersInv, SeriesGapless, NumbersTypeOK
<1>2. CASE issued[s] = {}
  <2>1. n = 0
    BY <1>2 DEF Latest
  <2>2. documents[s] < 1
    BY <1>1, <1>2
  <2> QED
    BY <1>1, <2>1, <2>2
<1>3. CASE issued[s] # {}
  <2>1. n \in issued[s] /\ \A m \in issued[s] : m <= n
    BY <1>3 DEF Latest
  <2>2. documents[s] \in issued[s]
    BY <1>1, <1>3
  <2> QED
    BY <1>1, <2>1, <2>2
<1> QED
  BY <1>2, <1>3

LEMMA BeginKeeps ==
  ASSUME NumbersInv, NEW i \in Callers, NEW s \in Series, BeginWork(i, s)
  PROVE  NumbersInv'
<1> DEFINE w == [NoWork(s) EXCEPT !.stage = "begun", !.began = documents[s]]
<1>1. documents[s] \in Nat
  BY DEF NumbersInv, NumbersTypeOK
<1>2. w \in Work /\ w.stage = "begun" /\ w.series = s /\ w.attempt = 1 /\ w.began = documents[s]
  <2>1. /\ NoWork(s) \in Work /\ NoWork(s).series = s
        /\ NoWork(s).attempt = 1 /\ NoWork(s).stage = "idle"
    BY NoWorkTyped DEF NoWork
  <2> QED
    BY <1>1, <2>1 DEF Work
<1>3. InReach(w)
  BY <1>1, <1>2 DEF InReach
<1>4. Underwork(i, w) /\ UNCHANGED <<issued, documents>>
  BY DEF BeginWork
<1> HIDE DEF w
<1> QED
  BY <1>2, <1>3, <1>4, UnderworkKeeps

LEMMA NextNumberKeeps ==
  ASSUME NumbersInv, NEW i \in Callers, NextNumber(i)
  PROVE  NumbersInv'
<1>1. PICK n \in 0 .. MaxCounter :
        /\ Latest(work[i].series, n)
        /\ IF n = MaxCounter THEN Quit(i)
           ELSE Underwork(i, [work[i] EXCEPT !.stage = "numbered", !.number = n + 1])
  BY DEF NextNumber
<1>2. work[i] \in Work /\ work[i].series \in Series /\ work[i].stage = "begun"
  BY DEF NextNumber, NumbersInv, NumbersTypeOK, Work
<1>3. n = documents[work[i].series]
  BY <1>1, <1>2, LatestCounts
<1>4. CASE n = MaxCounter
  BY <1>1, <1>4, QuitKeeps DEF NextNumber
<1>5. CASE n # MaxCounter
  <2> DEFINE w == [work[i] EXCEPT !.stage = "numbered", !.number = n + 1]
  <2>1. n + 1 \in 0 .. MaxCounter /\ n \in Nat
    BY <1>5, NumbersAssumption
  <2>2. /\ w \in Work /\ w.stage = "numbered" /\ w.series = work[i].series
        /\ w.number = n + 1 /\ w.attempt = work[i].attempt /\ w.began = work[i].began
    BY <1>2, <2>1 DEF Work
  <2>3. work[i].attempt - 1 <= documents[work[i].series] - work[i].began
    BY <1>2 DEF NumbersInv, OvertakenEachTime
  <2>4. InReach(w)
    <3> HIDE DEF w
    <3>1. work[i].attempt \in Nat /\ work[i].began \in Nat
      BY <1>2 DEF Work
    <3> QED
      BY <1>3, <2>1, <2>2, <2>3, <3>1 DEF InReach
  <2>5. Underwork(i, w) /\ UNCHANGED <<issued, documents>>
    BY <1>1, <1>5 DEF NextNumber
  <2> HIDE DEF w
  <2> QED
    BY <2>2, <2>4, <2>5, UnderworkKeeps
<1> QED
  BY <1>4, <1>5

LEMMA InsertKeeps ==
  ASSUME NumbersInv, NEW i \in Callers, InsertDocument(i)
  PROVE  NumbersInv'
<1> DEFINE w == [work[i] EXCEPT !.stage = "inserted"]
           s == work[i].series
<1>1. work[i] \in Work /\ s \in Series /\ work[i].stage = "numbered"
  BY DEF InsertDocument, NumbersInv, NumbersTypeOK, Work
<1>2. /\ w \in Work /\ w.stage = "inserted" /\ w.series = s
      /\ w.number = work[i].number /\ w.attempt = work[i].attempt /\ w.began = work[i].began
  BY <1>1 DEF Work
<1>3. InReach(work[i])
  BY <1>1 DEF NumbersInv, OvertakenEachTime, NumberInReach, InReach
<1>4. InReach(w)
  <2> HIDE DEF w
  <2> QED
    BY <1>1, <1>2, <1>3 DEF InReach
<1>5. issued[s] = 1 .. documents[s] /\ documents[s] \in Nat
  BY <1>1 DEF NumbersInv, SeriesGapless, NumbersTypeOK
<1>6. work[i].number = documents[s] + 1
  <2>1. work[i].number \notin 1 .. documents[s]
    BY <1>5 DEF InsertDocument, Taken
  <2>2. work[i].number \in 1 .. documents[s] + 1
    BY <1>1, <1>3 DEF InReach
  <2> QED
    BY <1>5, <2>1, <2>2
<1>7. \A j \in Callers : work[j].stage = "inserted" => work[j].series # s
  BY <1>6 DEF InsertDocument, NumbersInv, InsertedIsNext
<1>8. Underwork(i, w) /\ UNCHANGED <<issued, documents>>
  BY DEF InsertDocument
<1> HIDE DEF w
<1> QED
  BY <1>2, <1>4, <1>6, <1>7, <1>8, UnderworkKeeps

LEMMA RetryKeeps ==
  ASSUME NumbersInv, NEW i \in Callers, RetryNumber(i)
  PROVE  NumbersInv'
<1> DEFINE s == work[i].series
<1>1. work[i] \in Work /\ s \in Series /\ work[i].stage = "numbered"
  BY DEF RetryNumber, NumbersInv, NumbersTypeOK, Work
<1>2. CASE work[i].attempt = Attempts
  BY <1>2, QuitKeeps DEF RetryNumber
<1>3. CASE work[i].attempt # Attempts
  <2> DEFINE w == [work[i] EXCEPT !.stage = "begun", !.number = 0, !.attempt = @ + 1]
  <2>1. /\ work[i].attempt \in Nat /\ work[i].began \in Nat
        /\ work[i].attempt + 1 \in 1 .. Attempts
    BY <1>1, <1>3, NumbersAssumption DEF Work
  <2>2. /\ w \in Work /\ w.stage = "begun" /\ w.series = s
        /\ w.attempt = work[i].attempt + 1 /\ w.began = work[i].began
    <3>1. 0 \in 0 .. MaxCounter
      BY NumbersAssumption
    <3>2. w \in Work
      BY <1>1, <2>1, <3>1 DEF Work
    <3>3. w.stage = "begun" /\ w.series = s
      BY <1>1 DEF Work
    <3>4. w.attempt = work[i].attempt + 1 /\ w.began = work[i].began
      BY <1>1 DEF Work
    <3> QED
      BY <3>2, <3>3, <3>4
  <2>3. work[i].number \in 1 .. documents[s] /\ documents[s] \in Nat
    BY <1>1 DEF RetryNumber, Taken, NumbersInv, SeriesGapless, NumbersTypeOK
  <2>4. work[i].attempt - 1 <= work[i].number - 1 - work[i].began
    BY <1>1 DEF NumbersInv, NumberInReach
  <2>5. work[i].attempt <= documents[s] - work[i].began
    BY <2>1, <2>3, <2>4
  <2>6. Underwork(i, w) /\ UNCHANGED <<issued, documents>>
    BY <1>3 DEF RetryNumber
  <2> HIDE DEF w
  <2>7. InReach(w)
    BY <2>1, <2>2, <2>5 DEF InReach
  <2> QED
    BY <2>2, <2>6, <2>7, UnderworkKeeps
<1> QED
  BY <1>2, <1>3

(* The one step that adds a number. *)
LEMMA CommitKeeps ==
  ASSUME NumbersInv, NEW i \in Callers, CommitDocument(i)
  PROVE  NumbersInv'
<1> DEFINE s == work[i].series
<1>1. /\ work[i] \in Work /\ s \in Series /\ work[i].stage = "inserted"
      /\ issued \in [Series -> SUBSET (1 .. MaxCounter)]
      /\ documents \in [Series -> Nat]
      /\ work \in [Callers -> Work]
  BY DEF CommitDocument, NumbersInv, NumbersTypeOK, Work
<1>2. work[i].number = documents[s] + 1 /\ work[i].number \in 0 .. MaxCounter
  BY <1>1 DEF NumbersInv, InsertedIsNext, Work
<1>3. work' = [work EXCEPT ![i] = NoWork(s)] /\ NoWork(s) \in Work /\ NoWork(s).stage = "idle"
  BY <1>1, NoWorkTyped DEF CommitDocument, Quit, Underwork
<1>4. /\ work' \in [Callers -> Work]
      /\ work'[i].stage = "idle"
      /\ \A j \in Callers \ {i} : work'[j] = work[j]
  BY <1>1, <1>3
<1>5. /\ issued' = [issued EXCEPT ![s] = @ \cup {work[i].number}]
      /\ documents' = [documents EXCEPT ![s] = @ + 1]
  BY DEF CommitDocument
<1>6. /\ documents'[s] = documents[s] + 1
      /\ \A z \in Series \ {s} : documents'[z] = documents[z] /\ issued'[z] = issued[z]
      /\ issued'[s] = issued[s] \cup {documents[s] + 1}
  BY <1>1, <1>2, <1>5
<1>7. NumbersTypeOK'
  <2>1. documents[s] + 1 \in 1 .. MaxCounter
    BY <1>1, <1>2, NumbersAssumption
  <2>2. issued' \in [Series -> SUBSET (1 .. MaxCounter)]
    BY <1>1, <1>2, <1>5, <2>1
  <2>3. documents' \in [Series -> Nat]
    BY <1>1, <1>5
  <2> QED
    BY <1>4, <2>2, <2>3 DEF NumbersTypeOK
<1>8. SeriesGapless'
  <2> SUFFICES ASSUME NEW z \in Series PROVE issued'[z] = 1 .. documents'[z]
    BY DEF SeriesGapless
  <2>1. issued[z] = 1 .. documents[z] /\ documents[z] \in Nat
    BY <1>1 DEF NumbersInv, SeriesGapless
  <2>2. CASE z = s
    <3>1. ASSUME NEW d \in Nat PROVE 1 .. d + 1 = (1 .. d) \cup {d + 1}
      OBVIOUS
    <3>2. 1 .. documents[s] + 1 = (1 .. documents[s]) \cup {documents[s] + 1}
      BY <2>1, <2>2, <3>1
    <3> QED
      BY <1>6, <2>1, <2>2, <3>2
  <2>3. CASE z # s
    BY <1>6, <2>1, <2>3
  <2> QED
    BY <2>2, <2>3
<1>9. \A z \in Series : documents[z] \in Nat /\ documents'[z] \in Nat /\ documents'[z] >= documents[z]
  BY <1>1, <1>6
<1>10. \A j \in Callers : work[j].series \in Series /\ work[j].number \in Nat
                          /\ work[j].attempt \in Nat /\ work[j].began \in Nat
  BY <1>1, NumbersAssumption DEF Work
<1>11. OvertakenEachTime'
  <2> SUFFICES ASSUME NEW j \in Callers, work'[j].stage # "idle"
               PROVE  work'[j].attempt - 1 <= documents'[work'[j].series] - work'[j].began
    BY DEF OvertakenEachTime
  <2>1. work'[j] = work[j]
    BY <1>4
  <2>2. work[j].attempt - 1 <= documents[work[j].series] - work[j].began
    BY <2>1 DEF NumbersInv, OvertakenEachTime
  <2> QED
    BY <1>9, <1>10, <2>1, <2>2
<1>12. NumberInReach'
  <2> SUFFICES ASSUME NEW j \in Callers, work'[j].stage \in {"numbered", "inserted"}
               PROVE  /\ work'[j].number \in 1 .. documents'[work'[j].series] + 1
                      /\ work'[j].attempt - 1 <= work'[j].number - 1 - work'[j].began
    BY DEF NumberInReach
  <2>1. work'[j] = work[j]
    BY <1>4
  <2>2. /\ work[j].number \in 1 .. documents[work[j].series] + 1
        /\ work[j].attempt - 1 <= work[j].number - 1 - work[j].began
    BY <2>1 DEF NumbersInv, NumberInReach
  <2> QED
    BY <1>9, <1>10, <2>1, <2>2
<1>13. InsertedIsNext'
  <2>1. \A j \in Callers \ {i} : work[j].stage = "inserted" => work[j].series # s
    BY <1>1 DEF NumbersInv, InsertedIsNext
  <2> QED
    BY <1>4, <1>6, <1>10, <2>1 DEF NumbersInv, InsertedIsNext
<1> QED
  BY <1>7, <1>8, <1>11, <1>12, <1>13 DEF NumbersInv

LEMMA NumbersNextInv == NumbersInv /\ [NumbersNext]_numberVars => NumbersInv'
<1> SUFFICES ASSUME NumbersInv, [NumbersNext]_numberVars PROVE NumbersInv'
  OBVIOUS
<1>1. CASE UNCHANGED numberVars
  BY <1>1 DEF numberVars, NumbersInv, NumbersTypeOK, SeriesGapless, OvertakenEachTime,
              NumberInReach, InsertedIsNext
<1>2. ASSUME NEW i \in Callers, NumberStep(i) PROVE NumbersInv'
  <2>1. ASSUME NEW s \in Series, BeginWork(i, s) PROVE NumbersInv'
    BY <2>1, BeginKeeps
  <2>2. CASE NextNumber(i)
    BY <2>2, NextNumberKeeps
  <2>3. CASE InsertDocument(i)
    BY <2>3, InsertKeeps
  <2>4. CASE RetryNumber(i)
    BY <2>4, RetryKeeps
  <2>5. CASE CommitDocument(i)
    BY <2>5, CommitKeeps
  <2>6. CASE RollBack(i)
    BY <2>6, QuitKeeps DEF RollBack
  <2> QED
    BY <1>2, <2>1, <2>2, <2>3, <2>4, <2>5, <2>6 DEF NumberStep
<1> QED
  BY <1>1, <1>2 DEF NumbersNext

(* Series, counters and what every caller is doing keep their types. *)
THEOREM NumbersTyped == NumbersSpec => []NumbersTypeOK
<1>1. NumbersInv => NumbersTypeOK
  BY DEF NumbersInv
<1> QED
  BY <1>1, NumbersInitInv, NumbersNextInv, PTL DEF NumbersSpec

(* Numbers of a series (nextNumber, withRetry) are 1, 2, 3 ... with no gap *)
(* and no repetition, though readers of the latest number exclude nobody:  *)
(* the unique index and the retry are enough.                              *)
THEOREM SeriesHaveNoGap == NumbersSpec => []SeriesGapless
<1>1. NumbersInv => SeriesGapless
  BY DEF NumbersInv
<1> QED
  BY <1>1, NumbersInitInv, NumbersNextInv, PTL DEF NumbersSpec

(* withRetry() gives up only on a caller that as many documents overtook   *)
(* as it made attempts.                                                    *)
THEOREM RetriesAreOvertaken == NumbersSpec => []OvertakenEachTime
<1>1. NumbersInv => OvertakenEachTime
  BY DEF NumbersInv
<1> QED
  BY <1>1, NumbersInitInv, NumbersNextInv, PTL DEF NumbersSpec

-----------------------------------------------------------------------------
(* Whoever is about to issue the invoice holds the lock, and the row is as *)
(* he read it; a quotation that was converted is never a draft again.      *)
IssuingAlone ==
  \A e \in Editors :
    editor[e].at = "issue" => quoteLock = e /\ editor[e].total = quotation.total

ConvertedIsDecided == quotation.converted => quotation.status # "draft"

QuotationInv ==
  QuotationTypeOK /\ OneInvoicePerQuotation /\ IssuingAlone /\ ConvertedIsDecided

LEMMA FreeEditorTyped == FreeEditor \in Editor /\ FreeEditor.at = "free"
  BY DEF FreeEditor, Editor

(* A handler turns to something else.                                      *)
LEMMA EditorMoves ==
  ASSUME QuotationTypeOK, NEW e \in Editors, NEW held \in Editor,
         editor' = [editor EXCEPT ![e] = held]
  PROVE  /\ editor' \in [Editors -> Editor]
         /\ editor'[e] = held
         /\ \A o \in Editors \ {e} : editor'[o] = editor[o]
BY DEF QuotationTypeOK

LEMMA QuotationInitInv == QuotationInit => QuotationInv
<1> SUFFICES ASSUME QuotationInit PROVE QuotationInv
  OBVIOUS
<1>1. /\ quotation.status = "draft" /\ quotation.converted = FALSE
      /\ quotation \in Quotation
  BY DEF QuotationInit, Quotation, QuoteStatuses, OPEN_STATUSES
<1>2. QuotationTypeOK
  BY <1>1, FreeEditorTyped DEF QuotationInit, QuotationTypeOK
<1>3. IssuingAlone
  BY FreeEditorTyped DEF QuotationInit, IssuingAlone
<1>4. OneInvoicePerQuotation /\ ConvertedIsDecided
  BY <1>1 DEF QuotationInit, OneInvoicePerQuotation, ConvertedIsDecided
<1> QED
  BY <1>2, <1>3, <1>4 DEF QuotationInv

LEMMA ReadKeeps ==
  ASSUME QuotationInv, NEW e \in Editors, NEW edge \in DOMAIN Edges, ReadQuotation(e, edge)
  PROVE  QuotationInv'
<1> DEFINE held == [at |-> edge, total |-> quotation.total]
<1>1. edge \in {"send", "reject", "edit", "accept"}
  BY DEF Edges
<1>2. held \in Editor
  BY DEF QuotationInv, QuotationTypeOK, Quotation, Editor
<1>3. held.at # "issue"
  BY <1>1
<1>4. editor' = [editor EXCEPT ![e] = held]
  BY DEF ReadQuotation
<1> HIDE DEF held
<1>5. /\ editor' \in [Editors -> Editor]
      /\ editor'[e] = held
      /\ \A o \in Editors \ {e} : editor'[o] = editor[o]
  BY <1>2, <1>4, EditorMoves DEF QuotationInv
<1>6. QuotationTypeOK'
  BY <1>5 DEF ReadQuotation, QuotationInv, QuotationTypeOK
<1>7. IssuingAlone'
  BY <1>3, <1>5 DEF ReadQuotation, QuotationInv, IssuingAlone
<1>8. OneInvoicePerQuotation' /\ ConvertedIsDecided'
  BY DEF ReadQuotation, QuotationInv, OneInvoicePerQuotation, ConvertedIsDecided
<1> QED
  BY <1>6, <1>7, <1>8 DEF QuotationInv

(* While nobody holds the lock nobody is about to issue.                   *)
LEMMA NobodyIssues ==
  ASSUME QuotationInv, quoteLock = NoEditor
  PROVE  \A e \in Editors : editor[e].at # "issue"
BY QuotationAssumption DEF QuotationInv, IssuingAlone

(* A handler is done; the lock is free, before or by its step.             *)
LEMMA FreeAgainKeeps ==
  ASSUME QuotationInv, NEW e \in Editors, FreeAgain(e), quoteLock \in {NoEditor, e}
  PROVE  editor' \in [Editors -> Editor] /\ IssuingAlone'
<1>1. /\ editor' \in [Editors -> Editor]
      /\ editor'[e] = FreeEditor
      /\ \A o \in Editors \ {e} : editor'[o] = editor[o]
  BY FreeEditorTyped, EditorMoves DEF FreeAgain, QuotationInv
<1>2. \A o \in Editors \ {e} : editor[o].at # "issue"
  BY QuotationAssumption DEF QuotationInv, IssuingAlone
<1>3. \A o \in Editors : editor'[o].at # "issue"
  BY <1>1, <1>2, FreeEditorTyped
<1> QED
  BY <1>1, <1>3 DEF IssuingAlone

LEMMA MoveKeeps ==
  ASSUME QuotationInv, NEW e \in Editors, MoveStatus(e)
  PROVE  QuotationInv'
<1>1. editor' \in [Editors -> Editor] /\ IssuingAlone'
  BY FreeAgainKeeps DEF MoveStatus
<1>2. editor[e].at \in {"send", "reject"}
  BY DEF MoveStatus, Moves
<1>3. Moves[editor[e].at] \in {"sent", "rejected"}
  BY <1>2 DEF Moves
<1>4. /\ quotation' \in Quotation
      /\ quotation'.status \in {"sent", "rejected"}
      /\ quotation'.total = quotation.total /\ quotation'.converted = quotation.converted
  BY <1>3 DEF MoveStatus, QuotationInv, QuotationTypeOK, Quotation, QuoteStatuses, OPEN_STATUSES
<1>5. QuotationTypeOK'
  BY <1>1, <1>4 DEF MoveStatus, QuotationInv, QuotationTypeOK
<1>6. OneInvoicePerQuotation' /\ ConvertedIsDecided'
  BY <1>4 DEF MoveStatus, QuotationInv, OneInvoicePerQuotation, ConvertedIsDecided
<1> QED
  BY <1>1, <1>5, <1>6 DEF QuotationInv

LEMMA EditKeeps ==
  ASSUME QuotationInv, NEW e \in Editors, NEW total \in Totals, NEW late \in BOOLEAN,
         EditQuotation(e, total, late)
  PROVE  QuotationInv'
<1>1. editor' \in [Editors -> Editor] /\ IssuingAlone'
  BY FreeAgainKeeps DEF EditQuotation
<1>2. /\ quotation' \in Quotation
      /\ quotation'.status = quotation.status
      /\ quotation'.converted = quotation.converted
  BY DEF EditQuotation, QuotationInv, QuotationTypeOK, Quotation
<1>3. lapsed' \in BOOLEAN /\ rewritten' \in BOOLEAN
  BY DEF EditQuotation
<1>4. QuotationTypeOK'
  BY <1>1, <1>2, <1>3 DEF EditQuotation, QuotationInv, QuotationTypeOK
<1>5. ConvertedIsDecided'
  BY <1>2 DEF QuotationInv, ConvertedIsDecided
<1>6. quotation.converted => rewritten'
  BY DEF EditQuotation, QuotationInv, ConvertedIsDecided
<1>7. OneInvoicePerQuotation'
  BY <1>2, <1>6 DEF EditQuotation, QuotationInv, OneInvoicePerQuotation
<1> QED
  BY <1>1, <1>4, <1>5, <1>7 DEF QuotationInv

LEMMA LockKeeps ==
  ASSUME QuotationInv, NEW e \in Editors, LockQuotation(e)
  PROVE  QuotationInv'
<1>1. UNCHANGED <<quotation, quoteInvoices, invoiced, lapsed, rewritten>>
  BY DEF LockQuotation
<1>2. OneInvoicePerQuotation' /\ ConvertedIsDecided'
  BY <1>1 DEF QuotationInv, OneInvoicePerQuotation, ConvertedIsDecided
<1>3. CASE quotation.status \in OPEN_STATUSES
  <2> DEFINE held == [at |-> "issue", total |-> quotation.total]
  <2>1. held \in Editor /\ held.total = quotation.total
    BY DEF QuotationInv, QuotationTypeOK, Quotation, Editor
  <2>2. editor' = [editor EXCEPT ![e] = held] /\ quoteLock' = e
    BY <1>3 DEF LockQuotation
  <2> HIDE DEF held
  <2>3. /\ editor' \in [Editors -> Editor]
        /\ editor'[e] = held
        /\ \A o \in Editors \ {e} : editor'[o] = editor[o]
    BY <2>1, <2>2, EditorMoves DEF QuotationInv
  <2>4. QuotationTypeOK'
    BY <1>1, <2>2, <2>3 DEF QuotationInv, QuotationTypeOK
  <2>5. \A o \in Editors : editor[o].at # "issue"
    BY NobodyIssues DEF LockQuotation
  <2>6. IssuingAlone'
    BY <1>1, <2>1, <2>2, <2>3, <2>5 DEF IssuingAlone
  <2> QED
    BY <1>2, <2>4, <2>6 DEF QuotationInv
<1>4. CASE quotation.status \notin OPEN_STATUSES
  <2>1. FreeAgain(e) /\ UNCHANGED quoteLock /\ quoteLock = NoEditor
    BY <1>4 DEF LockQuotation
  <2>2. editor' \in [Editors -> Editor] /\ IssuingAlone'
    BY <2>1, FreeAgainKeeps
  <2>3. QuotationTypeOK'
    BY <1>1, <2>1, <2>2 DEF QuotationInv, QuotationTypeOK
  <2> QED
    BY <1>2, <2>2, <2>3 DEF QuotationInv
<1> QED
  BY <1>3, <1>4

(* The step that issues: the row is as it was read, and not converted.     *)
LEMMA AcceptKeeps ==
  ASSUME QuotationInv, NEW e \in Editors, NEW convert \in BOOLEAN, Accept(e, convert)
  PROVE  QuotationInv'
<1>1. quoteLock = e /\ editor[e].total = quotation.total
  BY DEF Accept, QuotationInv, IssuingAlone
<1>2. editor' \in [Editors -> Editor] /\ IssuingAlone'
  BY <1>1, FreeAgainKeeps DEF Accept
<1>3. /\ quotation \in Quotation /\ quotation.converted \in BOOLEAN
      /\ quotation.total \in Totals
  BY DEF QuotationInv, QuotationTypeOK, Quotation
<1>4. Converts(convert) \in BOOLEAN
  BY DEF Converts
<1>5. /\ quotation'.status = "accepted" /\ quotation'.total = quotation.total
      /\ quotation'.converted = (quotation.converted \/ Converts(convert))
  BY <1>3 DEF Accept, Quotation
<1>6. quotation' \in Quotation
  BY <1>3, <1>4 DEF Accept, Quotation, QuoteStatuses, OPEN_STATUSES
<1>7. ConvertedIsDecided'
  BY <1>5 DEF ConvertedIsDecided
<1>8. CASE Converts(convert)
  <2>1. quotation.converted = FALSE /\ quotation'.converted = TRUE
    BY <1>3, <1>5, <1>8 DEF Converts
  <2>2. quoteInvoices' = quoteInvoices + 1 /\ invoiced' = quotation.total
    BY <1>1, <1>8 DEF Accept
  <2>3. quoteInvoices = 0
    BY <2>1 DEF QuotationInv, OneInvoicePerQuotation
  <2>4. OneInvoicePerQuotation'
    BY <1>5, <2>1, <2>2, <2>3 DEF OneInvoicePerQuotation
  <2>5. QuotationTypeOK'
    BY <1>2, <1>3, <1>6, <2>2, <2>3 DEF Accept, QuotationInv, QuotationTypeOK
  <2> QED
    BY <1>2, <1>7, <2>4, <2>5 DEF QuotationInv
<1>9. CASE ~Converts(convert)
  <2>1. UNCHANGED <<quoteInvoices, invoiced, rewritten>> /\ quotation'.converted = quotation.converted
    BY <1>3, <1>5, <1>9 DEF Accept
  <2>2. OneInvoicePerQuotation'
    BY <1>5, <2>1 DEF QuotationInv, OneInvoicePerQuotation
  <2>3. QuotationTypeOK'
    BY <1>2, <1>6, <2>1 DEF Accept, QuotationInv, QuotationTypeOK
  <2> QED
    BY <1>2, <1>7, <2>2, <2>3 DEF QuotationInv
<1> QED
  BY <1>8, <1>9

LEMMA AbandonKeeps ==
  ASSUME QuotationInv, NEW e \in Editors, AbandonAccept(e)
  PROVE  QuotationInv'
<1>1. quoteLock = e
  BY DEF AbandonAccept, QuotationInv, IssuingAlone
<1>2. editor' \in [Editors -> Editor] /\ IssuingAlone'
  BY <1>1, FreeAgainKeeps DEF AbandonAccept
<1>3. QuotationTypeOK'
  BY <1>2 DEF AbandonAccept, QuotationInv, QuotationTypeOK
<1>4. OneInvoicePerQuotation' /\ ConvertedIsDecided'
  BY DEF AbandonAccept, QuotationInv, OneInvoicePerQuotation, ConvertedIsDecided
<1> QED
  BY <1>2, <1>3, <1>4 DEF QuotationInv

LEMMA LapsesKeeps ==
  ASSUME QuotationInv, QuotationLapses
  PROVE  QuotationInv'
BY DEF QuotationLapses, QuotationInv, QuotationTypeOK, IssuingAlone,
       OneInvoicePerQuotation, ConvertedIsDecided

LEMMA ExpireKeeps ==
  ASSUME QuotationInv, ExpireLapsed
  PROVE  QuotationInv'
<1>1. /\ quotation' \in Quotation /\ quotation'.status = "expired"
      /\ quotation'.total = quotation.total /\ quotation'.converted = quotation.converted
  BY DEF ExpireLapsed, QuotationInv, QuotationTypeOK, Quotation, QuoteStatuses, OPEN_STATUSES
<1>2. QuotationTypeOK'
  BY <1>1 DEF ExpireLapsed, QuotationInv, QuotationTypeOK
<1>3. IssuingAlone'
  BY <1>1 DEF ExpireLapsed, QuotationInv, IssuingAlone
<1>4. OneInvoicePerQuotation' /\ ConvertedIsDecided'
  BY <1>1 DEF ExpireLapsed, QuotationInv, OneInvoicePerQuotation, ConvertedIsDecided
<1> QED
  BY <1>2, <1>3, <1>4 DEF QuotationInv

LEMMA QuotationNextInv == QuotationInv /\ [QuotationNext]_quotationVars => QuotationInv'
<1> SUFFICES ASSUME QuotationInv, [QuotationNext]_quotationVars PROVE QuotationInv'
  OBVIOUS
<1>1. CASE UNCHANGED quotationVars
  BY <1>1 DEF quotationVars, QuotationInv, QuotationTypeOK, IssuingAlone,
              OneInvoicePerQuotation, ConvertedIsDecided
<1>2. ASSUME NEW e \in Editors, NEW edge \in DOMAIN Edges, ReadQuotation(e, edge)
      PROVE  QuotationInv'
  BY <1>2, ReadKeeps
<1>3. ASSUME NEW e \in Editors, MoveStatus(e) PROVE QuotationInv'
  BY <1>3, MoveKeeps
<1>4. ASSUME NEW e \in Editors, LockQuotation(e) PROVE QuotationInv'
  BY <1>4, LockKeeps
<1>5. ASSUME NEW e \in Editors, AbandonAccept(e) PROVE QuotationInv'
  BY <1>5, AbandonKeeps
<1>6. ASSUME NEW e \in Editors, NEW total \in Totals, NEW late \in BOOLEAN,
             EditQuotation(e, total, late)
      PROVE  QuotationInv'
  BY <1>6, EditKeeps
<1>7. ASSUME NEW e \in Editors, NEW convert \in BOOLEAN, Accept(e, convert)
      PROVE  QuotationInv'
  BY <1>7, AcceptKeeps
<1>8. CASE QuotationLapses
  BY <1>8, LapsesKeeps
<1>9. CASE ExpireLapsed
  BY <1>9, ExpireKeeps
<1> QED
  BY <1>1, <1>2, <1>3, <1>4, <1>5, <1>6, <1>7, <1>8, <1>9 DEF QuotationNext

(* The quotation and what every handler holds keep their types. *)
THEOREM QuotationTyped == QuotationSpec => []QuotationTypeOK
<1>1. QuotationInv => QuotationTypeOK
  BY DEF QuotationInv
<1> QED
  BY <1>1, QuotationInitInv, QuotationNextInv, PTL DEF QuotationSpec

(* However late writes and acceptances interleave, accept() issues one     *)
(* invoice for a quotation, and for what the quotation says.               *)
THEOREM OneInvoice == QuotationSpec => []OneInvoicePerQuotation
<1>1. QuotationInv => OneInvoicePerQuotation
  BY DEF QuotationInv
<1> QED
  BY <1>1, QuotationInitInv, QuotationNextInv, PTL DEF QuotationSpec

-----------------------------------------------------------------------------
(* The fees: every row, stored, about to be inserted or copied by a run of *)
(* the fines task, is worth what its discount and its fine make it, and is *)
(* not open for nothing.                                                   *)

OpenStatuses == {"unpaid", "partially_paid"}

RowSound(row) ==
  /\ row.net = NetOf(row.discount, row.fine)
  /\ row.status \in OpenStatuses => row.net > 0

(* What is pending, and the status, are those of what was paid.            *)
RowAgrees(row) ==
  /\ row.pending = ClampNonNegative(row.net - row.paid)
  /\ row.status = StatusOf(row.paid, row.net)

FeesSound ==
  \A f \in Fees :
    IF fee[f].status = "absent" THEN received[f] = 0
    ELSE /\ fee[f].paid = received[f]
         /\ RowSound(fee[f])
         /\ f \notin raced => RowAgrees(fee[f])

(* An assignment under way has a place of its own for what it inserts.     *)
AssignmentsSound ==
  \A c \in Clerks : clerk[c].at = "assign" =>
    /\ clerk[c].fee \in Fees /\ fee[clerk[c].fee].status = "absent"
    /\ clerk[c].row.status # "absent" /\ clerk[c].row.paid = 0
    /\ RowSound(clerk[c].row) /\ RowAgrees(clerk[c].row)
    /\ \A d \in Clerks \ {c} : clerk[d].at = "assign" => clerk[d].fee # clerk[c].fee

(* A payment under way holds its fee, and the row is as it read it.        *)
PaymentsSound ==
  \A c \in Clerks : clerk[c].at = "pay" =>
    /\ clerk[c].fee \in Fees /\ feeLock[clerk[c].fee] = c
    /\ clerk[c].row = fee[clerk[c].fee] /\ clerk[c].row.status # "absent"
    /\ clerk[c].amount > 0

(* A copy the fines task has still to write from: its fee is as it was,    *)
(* but for what was paid since, and for the fines of another run.          *)
CopySound(copy, f) ==
  /\ fee[f].status # "absent"
  /\ copy.status \in OpenStatuses /\ RowSound(copy)
  /\ copy.discount = fee[f].discount
  /\ copy.paid <= fee[f].paid
  /\ copy.paid = fee[f].paid =>
       copy.status = fee[f].status /\ (f \notin raced => RowAgrees(copy))

CopiesSound ==
  \A d \in Finers : \A f \in round[d].todo : CopySound(round[d].copy[f], f)

(* Who inserts beside a charge of the same kind is remembered.             *)
ChargesSeen ==
  \A c \in Clerks, g \in Fees :
    clerk[c].at = "assign" /\ fee[g].status # "absent" /\ SameCharge(fee[g], clerk[c].row) =>
      clerk[c].fee \in doubled

FeesInv ==
  /\ FeesTypeOK /\ FeesSound /\ AssignmentsSound /\ PaymentsSound /\ CopiesSound
  /\ ChargedOnce /\ ChargesSeen

(* A discount and a fine make an amount.                                   *)
LEMMA NetTyped ==
  ASSUME NEW discount \in Nat, NEW fine \in Nat
  PROVE  NetOf(discount, fine) \in Nat
BY FeesAssumption DEF NetOf, ClampNonNegative

(* What an assignment inserts is sound, and nothing was paid for it.       *)
LEMMA AssignedRowSound ==
  ASSUME NEW s \in Structures, NEW m \in Months \cup {NoMonth},
         NEW discount \in Nat, NEW fine \in Nat
  PROVE  LET row == AssignedRow(s, m, discount, fine)
         IN  /\ row \in FeeRow /\ row.status # "absent" /\ row.paid = 0
             /\ RowSound(row) /\ RowAgrees(row)
<1> DEFINE net == NetOf(discount, fine)
           row == AssignedRow(s, m, discount, fine)
<1>1. net \in Nat
  BY NetTyped
<1>2. /\ row = [status |-> IF net = 0 THEN "paid" ELSE "unpaid", structure |-> s, month |-> m,
                discount |-> discount, fine |-> fine, net |-> net, paid |-> 0, pending |-> net]
  BY DEF AssignedRow
<1>3. RowSound(row)
  BY <1>1, <1>2 DEF RowSound, OpenStatuses
<1> HIDE DEF net
<1>4. row \in FeeRow /\ row.status # "absent" /\ row.paid = 0
  BY <1>1, <1>2 DEF FeeRow, FeeStatuses
<1>5. RowAgrees(row)
  BY <1>1, <1>2 DEF RowAgrees, ClampNonNegative, StatusOf
<1>6. QED BY <1>3, <1>4, <1>5

(* What a row is charged for.                                              *)
SameTerms(new, row) ==
  new.month = row.month /\ new.structure = row.structure /\ new.discount = row.discount

(* A payment leaves a row that agrees with what was paid.                  *)
LEMMA AppliedSound ==
  ASSUME NEW row \in FeeRow, NEW paid \in Nat, RowSound(row)
  PROVE  LET new == ApplyPayment(row, paid)
         IN  /\ new \in FeeRow /\ new.status # "absent" /\ new.paid = paid
             /\ SameTerms(new, row) /\ RowSound(new) /\ RowAgrees(new)
<1> DEFINE new == ApplyPayment(row, paid)
<1>1. /\ new.status = StatusOf(paid, row.net) /\ new.structure = row.structure
      /\ new.month = row.month /\ new.discount = row.discount /\ new.fine = row.fine
      /\ new.net = row.net /\ new.paid = paid
      /\ new.pending = ClampNonNegative(row.net - paid)
  BY DEF ApplyPayment, FeeRow
<1>2. row.net \in Nat /\ row.net = NetOf(row.discount, row.fine)
  BY DEF RowSound, FeeRow
<1>3. ClampNonNegative(row.net - paid) \in Nat /\ StatusOf(paid, row.net) \in FeeStatuses
  BY <1>2 DEF ClampNonNegative, StatusOf, FeeStatuses
<1>4. new \in FeeRow /\ new.status # "absent"
  BY <1>3 DEF ApplyPayment, FeeRow, FeeStatuses
<1>5. RowSound(new)
  <2>1. new.status \in OpenStatuses => row.net > 0
    BY <1>1, <1>2 DEF StatusOf, OpenStatuses
  <2>2. QED BY <1>1, <1>2, <2>1, Zenon DEF RowSound
<1>6. RowAgrees(new)
  BY <1>1, Zenon DEF RowAgrees
<1>7. SameTerms(new, row)
  BY <1>1 DEF SameTerms
<1>8. QED BY <1>1, <1>4, <1>5, <1>6, <1>7

(* A fine higher than the one the copy saw is worth more than nothing, and *)
(* is written whole; if nothing was paid since the copy, the row agrees.   *)
LEMMA FinedSound ==
  ASSUME NEW row \in FeeRow, NEW copy \in FeeRow, NEW owed \in Int,
         owed > copy.fine, copy.status \in OpenStatuses, RowSound(copy),
         copy.discount = row.discount
  PROVE  LET new == Fined(row, copy, owed)
         IN  /\ new \in FeeRow /\ new.status = row.status /\ new.paid = row.paid
             /\ SameTerms(new, row) /\ RowSound(new)
             /\ copy.paid = row.paid /\ copy.status = row.status /\ RowAgrees(copy) =>
                  RowAgrees(new)
<1> DEFINE new == Fined(row, copy, owed)
           net == NetOf(copy.discount, owed)
           left == ClampNonNegative(net - copy.paid)
<1>1. /\ owed \in Nat /\ copy.fine \in Nat /\ copy.discount \in Nat /\ copy.net \in Nat
      /\ copy.paid \in Nat /\ copy.pending \in Nat
      /\ row.paid \in Nat /\ row.net \in Nat /\ row.pending \in Nat
  BY DEF FeeRow
<1>2. net \in Nat /\ net > copy.net /\ copy.net > 0
  <2>1. copy.net > 0 /\ copy.net = NetOf(copy.discount, copy.fine)
    BY DEF RowSound
  <2>2. copy.net = Amount - copy.discount + copy.fine /\ Amount - copy.discount + copy.fine > 0
    BY <1>1, <2>1, FeesAssumption DEF NetOf, ClampNonNegative
  <2>3. net = Amount - copy.discount + owed
    BY <1>1, <2>2, FeesAssumption DEF NetOf, ClampNonNegative
  <2>4. QED BY <1>1, <2>1, <2>2, <2>3, FeesAssumption
<1>3. /\ new.status = row.status /\ new.structure = row.structure
      /\ new.month = row.month /\ new.discount = row.discount /\ new.fine = owed
      /\ new.net = Written(row.net, copy.net, net) /\ new.paid = row.paid
      /\ new.pending = Written(row.pending, copy.pending, left)
  BY DEF Fined, FeeRow
<1> HIDE DEF net
<1>4. Written(row.net, copy.net, net) = net
  BY <1>1, <1>2 DEF Written
<1>5. left \in Nat
  BY <1>1, <1>2 DEF ClampNonNegative
<1> HIDE DEF left
<1>6. new \in FeeRow
  <2>1. Written(row.pending, copy.pending, left) \in Nat
    BY <1>1, <1>5 DEF Written
  <2>2. new = [row EXCEPT !.fine = owed, !.net = net,
                          !.pending = Written(row.pending, copy.pending, left)]
    BY <1>4, Zenon DEF Fined, net, left
  <2>3. QED BY <1>1, <1>2, <2>1, <2>2 DEF FeeRow
<1>7. RowSound(new)
  <2>1. new.net = NetOf(new.discount, new.fine)
    BY <1>3, <1>4 DEF net
  <2>2. new.net > 0
    BY <1>1, <1>2, <1>3, <1>4
  <2>3. QED BY <2>1, <2>2 DEF RowSound
<1>8. ASSUME copy.paid = row.paid, copy.status = row.status, RowAgrees(copy)
      PROVE  RowAgrees(new)
  <2>1. copy.paid < copy.net /\ copy.status = (IF copy.paid > 0 THEN "partially_paid" ELSE "unpaid")
    BY <1>1, <1>8 DEF RowAgrees, StatusOf, OpenStatuses
  <2>2. copy.pending = copy.net - copy.paid
    BY <1>1, <1>8, <2>1 DEF RowAgrees, ClampNonNegative
  <2>3. left = net - copy.paid /\ left # copy.pending
    BY <1>1, <1>2, <2>1, <2>2 DEF left, ClampNonNegative
  <2>4. new.pending = net - copy.paid /\ new.net = net /\ new.paid = copy.paid
    BY <1>3, <1>4, <1>8, <2>3 DEF Written
  <2>5. new.pending = ClampNonNegative(new.net - new.paid)
    BY <1>1, <1>2, <2>1, <2>4 DEF ClampNonNegative
  <2>6. new.status = StatusOf(new.paid, new.net)
    <3>1. new.status = (IF copy.paid > 0 THEN "partially_paid" ELSE "unpaid")
      BY <1>3, <1>8, <2>1
    <3>2. StatusOf(copy.paid, net) = (IF copy.paid > 0 THEN "partially_paid" ELSE "unpaid")
      BY <1>1, <1>2, <2>1 DEF StatusOf
    <3>3. QED BY <2>4, <3>1, <3>2
  <2>7. QED BY <2>5, <2>6 DEF RowAgrees
<1>9. SameTerms(new, row)
  BY <1>3 DEF SameTerms
<1>10. QED BY <1>3, <1>6, <1>7, <1>8, <1>9

(* Nobody has anything in hand to begin with.                              *)
LEMMA NothingHeld ==
  /\ NoFeeRow \in FeeRow /\ NoFeeRow.status = "absent"
  /\ FreeClerk \in Clerk /\ FreeClerk.at = "free"
  /\ NoRound \in Round /\ NoRound.todo = {}
<1>1. NoFeeRow \in FeeRow /\ NoFeeRow.status = "absent"
  BY DEF NoFeeRow, FeeRow, FeeStatuses
<1>2. FreeClerk \in Clerk /\ FreeClerk.at = "free"
  BY <1>1 DEF FreeClerk, Clerk
<1>3. NoRound \in Round /\ NoRound.todo = {}
  BY <1>1, FeesAssumption DEF NoRound, Round
<1>4. QED BY <1>1, <1>2, <1>3

LEMMA FeesInitInv == FeesInit => FeesInv
<1> SUFFICES ASSUME FeesInit PROVE FeesInv
  OBVIOUS
<1>1. FeesTypeOK
  BY NothingHeld, FeesAssumption DEF FeesInit, FeesTypeOK
<1>2. /\ \A f \in Fees : fee[f].status = "absent" /\ received[f] = 0
      /\ \A c \in Clerks : clerk[c].at = "free"
      /\ \A d \in Finers : round[d].todo = {}
  BY NothingHeld DEF FeesInit
<1>3. FeesSound /\ AssignmentsSound /\ PaymentsSound /\ CopiesSound
  BY <1>2 DEF FeesSound, AssignmentsSound, PaymentsSound, CopiesSound
<1>4. ChargedOnce /\ ChargesSeen
  BY <1>2 DEF ChargedOnce, ChargesSeen
<1>5. QED BY <1>1, <1>3, <1>4 DEF FeesInv

(* What one clerk turns to is no other clerk's affair.                     *)
LEMMA ClerkTurns ==
  ASSUME FeesTypeOK, NEW c \in Clerks, NEW held \in Clerk,
         clerk' = [clerk EXCEPT ![c] = held]
  PROVE  /\ clerk' \in [Clerks -> Clerk]
         /\ clerk'[c] = held /\ \A d \in Clerks \ {c} : clerk'[d] = clerk[d]
BY DEF FeesTypeOK

(* A step that inserts nothing, leaves every fee what it was charged for   *)
(* and takes up no assignment doubles no charge.                           *)
LEMMA NothingCharged ==
  ASSUME AssignmentsSound, ChargedOnce, ChargesSeen, doubled' = doubled,
         \A f \in Fees : (fee'[f].status = "absent") = (fee[f].status = "absent"),
         \A f \in Fees : SameTerms(fee'[f], fee[f]),
         \A c \in Clerks : clerk'[c].at = "assign" => clerk'[c] = clerk[c]
  PROVE  AssignmentsSound' /\ ChargedOnce' /\ ChargesSeen'
<1>1. AssignmentsSound'
  BY DEF AssignmentsSound
<1>2. ChargedOnce'
  BY DEF ChargedOnce, SameCharge, SameTerms
<1>3. ChargesSeen'
  BY DEF ChargesSeen, SameCharge, SameTerms
<1>4. QED BY <1>1, <1>2, <1>3

(* An assignment looks for a charge of the kind it makes.                  *)
LEMMA CheckAssignmentKeeps ==
  ASSUME FeesInv, NEW c \in Clerks, NEW f \in Fees, NEW s \in Structures,
         NEW m \in Months \cup {NoMonth}, NEW discount \in Discounts, NEW fine \in FirstFines,
         CheckAssignment(c, f, AssignedRow(s, m, discount, fine))
  PROVE  FeesInv'
<1> DEFINE row == AssignedRow(s, m, discount, fine)
           held == [at |-> "assign", fee |-> f, row |-> row, amount |-> 0]
<1>1. row \in FeeRow /\ row.status # "absent" /\ row.paid = 0 /\ RowSound(row) /\ RowAgrees(row)
  BY AssignedRowSound, FeesAssumption
<1>2. /\ fee[f].status = "absent" /\ ~AlreadyAssigned(row)
      /\ \A d \in Clerks : clerk[d].at = "assign" => clerk[d].fee # f
      /\ clerk' = [clerk EXCEPT ![c] = held]
      /\ UNCHANGED <<fee, received, feeLock, round, today, raced, doubled>>
  BY DEF CheckAssignment
<1> HIDE DEF row
<1>3. held \in Clerk
  BY <1>1 DEF Clerk
<1>4. /\ clerk' \in [Clerks -> Clerk]
      /\ clerk'[c] = held /\ \A d \in Clerks \ {c} : clerk'[d] = clerk[d]
  BY <1>2, <1>3, ClerkTurns DEF FeesInv
<1>5. FeesTypeOK'
  BY <1>2, <1>4 DEF FeesInv, FeesTypeOK
<1>6. FeesSound' /\ CopiesSound' /\ ChargedOnce'
  BY <1>2 DEF FeesInv, FeesSound, CopiesSound, CopySound, ChargedOnce
<1>7. AssignmentsSound'
  BY <1>1, <1>2, <1>4 DEF FeesInv, AssignmentsSound
<1>8. PaymentsSound'
  BY <1>2, <1>4 DEF FeesInv, PaymentsSound
<1>9. ChargesSeen'
  BY <1>2, <1>4 DEF FeesInv, ChargesSeen, AlreadyAssigned
<1>10. QED BY <1>5, <1>6, <1>7, <1>8, <1>9 DEF FeesInv

(* The fee is inserted; who is about to insert the same one is remembered. *)
LEMMA InsertFeeKeeps ==
  ASSUME FeesInv, NEW c \in Clerks, InsertFee(c)
  PROVE  FeesInv'
<1> DEFINE f == clerk[c].fee
           row == clerk[c].row
           unseen == {d \in Clerks \ {c} :
                        clerk[d].at = "assign" /\ SameCharge(clerk[d].row, clerk[c].row)}
<1>1. /\ clerk[c].at = "assign" /\ fee' = [fee EXCEPT ![f] = row]
      /\ doubled' = doubled \cup {clerk[d].fee : d \in unseen}
      /\ clerk' = [clerk EXCEPT ![c] = FreeClerk]
      /\ UNCHANGED <<received, feeLock, round, today, raced>>
  BY DEF InsertFee, ClerkDone
<1>2. /\ f \in Fees /\ fee[f].status = "absent" /\ received[f] = 0
      /\ row \in FeeRow /\ row.status # "absent" /\ row.paid = 0 /\ RowSound(row) /\ RowAgrees(row)
      /\ \A d \in Clerks \ {c} : clerk[d].at = "assign" => clerk[d].fee # f
  <2>1. /\ f \in Fees /\ fee[f].status = "absent"
        /\ row.status # "absent" /\ row.paid = 0 /\ RowSound(row) /\ RowAgrees(row)
        /\ \A d \in Clerks \ {c} : clerk[d].at = "assign" => clerk[d].fee # f
    BY <1>1 DEF FeesInv, AssignmentsSound
  <2>2. received[f] = 0
    BY <2>1 DEF FeesInv, FeesSound
  <2>3. row \in FeeRow
    BY DEF FeesInv, FeesTypeOK, Clerk
  <2>4. QED BY <2>1, <2>2, <2>3
<1>3. /\ clerk' \in [Clerks -> Clerk]
      /\ clerk'[c].at = "free" /\ \A d \in Clerks \ {c} : clerk'[d] = clerk[d]
  BY <1>1, NothingHeld, ClerkTurns DEF FeesInv
<1>4. /\ fee' \in [Fees -> FeeRow] /\ fee'[f] = row
      /\ \A g \in Fees \ {f} : fee'[g] = fee[g]
  BY <1>1, <1>2 DEF FeesInv, FeesTypeOK
<1>5. \A d \in unseen : clerk[d].fee \in Fees
  BY DEF FeesInv, AssignmentsSound
<1>6. FeesTypeOK'
  BY <1>1, <1>3, <1>4, <1>5 DEF FeesInv, FeesTypeOK
<1>7. FeesSound'
  <2> SUFFICES ASSUME NEW g \in Fees
               PROVE  IF fee'[g].status = "absent" THEN received'[g] = 0
                      ELSE /\ fee'[g].paid = received'[g]
                           /\ RowSound(fee'[g])
                           /\ g \notin raced' => RowAgrees(fee'[g])
    BY DEF FeesSound
  <2>1. CASE g = f
    BY <1>1, <1>2, <1>4, <2>1
  <2>2. CASE g # f
    BY <1>1, <1>4, <2>2 DEF FeesInv, FeesSound
  <2>3. QED BY <2>1, <2>2
<1>8. AssignmentsSound'
  BY <1>2, <1>3, <1>4 DEF FeesInv, AssignmentsSound
<1>9. PaymentsSound'
  BY <1>1, <1>2, <1>3, <1>4 DEF FeesInv, PaymentsSound
<1>10. CopiesSound'
  BY <1>1, <1>2, <1>4 DEF FeesInv, CopiesSound, CopySound
<1>11. ChargesSeen'
  <2> SUFFICES ASSUME NEW d \in Clerks, NEW g \in Fees, clerk'[d].at = "assign",
                      fee'[g].status # "absent", SameCharge(fee'[g], clerk'[d].row)
               PROVE  clerk'[d].fee \in doubled'
    BY DEF ChargesSeen
  <2>1. d # c /\ clerk'[d] = clerk[d]
    BY <1>3
  <2>2. CASE g = f
    <3>1. d \in unseen
      BY <1>4, <2>1, <2>2 DEF SameCharge
    <3>2. QED BY <1>1, <2>1, <3>1
  <2>3. CASE g # f
    BY <1>1, <1>4, <2>1, <2>3 DEF FeesInv, ChargesSeen
  <2>4. QED BY <2>2, <2>3
<1>12. ChargedOnce'
  <2> SUFFICES ASSUME NEW g \in Fees, NEW h \in Fees, g # h, fee'[g].status # "absent",
                      fee'[h].status # "absent", SameCharge(fee'[g], fee'[h])
               PROVE  g \in doubled' \/ h \in doubled'
    BY DEF ChargedOnce
  <2>1. CASE g = f
    <3>1. SameCharge(fee[h], row)
      BY <1>4, <2>1 DEF SameCharge
    <3>2. f \in doubled
      BY <1>1, <1>4, <2>1, <3>1 DEF FeesInv, ChargesSeen
    <3>3. QED BY <1>1, <2>1, <3>2
  <2>2. CASE h = f
    <3>1. SameCharge(fee[g], row)
      BY <1>4, <2>2 DEF SameCharge
    <3>2. f \in doubled
      BY <1>1, <1>4, <2>2, <3>1 DEF FeesInv, ChargesSeen
    <3>3. QED BY <1>1, <2>2, <3>2
  <2>3. CASE g # f /\ h # f
    BY <1>1, <1>4, <2>3 DEF FeesInv, ChargedOnce
  <2>4. QED BY <2>1, <2>2, <2>3
<1>13. QED BY <1>6, <1>7, <1>8, <1>9, <1>10, <1>11, <1>12 DEF FeesInv

(* A payment takes its fee, and reads it.                                  *)
LEMMA LockFeeKeeps ==
  ASSUME FeesInv, NEW c \in Clerks, NEW f \in Fees, NEW amount \in 1 .. MaxReceived,
         LockFee(c, f, amount)
  PROVE  FeesInv'
<1> DEFINE held == [at |-> "pay", fee |-> f, row |-> fee[f], amount |-> amount]
<1>1. /\ clerk[c].at = "free" /\ fee[f].status # "absent" /\ feeLock[f] = NoClerk
      /\ feeLock' = [feeLock EXCEPT ![f] = c]
      /\ clerk' = [clerk EXCEPT ![c] = held]
      /\ UNCHANGED <<fee, received, round, today, raced, doubled>>
  BY DEF LockFee
<1>2. amount \in Nat /\ amount > 0
  BY FeesAssumption
<1>3. held \in Clerk
  BY <1>2 DEF FeesInv, FeesTypeOK, Clerk
<1>4. /\ clerk' \in [Clerks -> Clerk]
      /\ clerk'[c] = held /\ \A d \in Clerks \ {c} : clerk'[d] = clerk[d]
  BY <1>1, <1>3, ClerkTurns DEF FeesInv
<1>5. /\ feeLock' \in [Fees -> Clerks \cup {NoClerk}] /\ feeLock'[f] = c
      /\ \A g \in Fees \ {f} : feeLock'[g] = feeLock[g]
  BY <1>1 DEF FeesInv, FeesTypeOK
<1>6. FeesTypeOK'
  BY <1>1, <1>4, <1>5 DEF FeesInv, FeesTypeOK
<1>7. FeesSound' /\ CopiesSound'
  BY <1>1 DEF FeesInv, FeesSound, CopiesSound, CopySound
<1>8. AssignmentsSound' /\ ChargedOnce' /\ ChargesSeen'
  BY <1>1, <1>4, NothingCharged DEF FeesInv, SameTerms
<1>9. PaymentsSound'
  <2> SUFFICES ASSUME NEW d \in Clerks, clerk'[d].at = "pay"
               PROVE  /\ clerk'[d].fee \in Fees /\ feeLock'[clerk'[d].fee] = d
                      /\ clerk'[d].row = fee'[clerk'[d].fee] /\ clerk'[d].row.status # "absent"
                      /\ clerk'[d].amount > 0
    BY DEF PaymentsSound
  <2>1. CASE d = c
    BY <1>1, <1>2, <1>4, <1>5, <2>1
  <2>2. CASE d # c
    <3>1. /\ clerk'[d] = clerk[d] /\ clerk[d].fee \in Fees /\ feeLock[clerk[d].fee] = d
          /\ clerk[d].row = fee[clerk[d].fee] /\ clerk[d].row.status # "absent"
          /\ clerk[d].amount > 0
      BY <1>4, <2>2 DEF FeesInv, PaymentsSound
    <3>2. clerk[d].fee # f
      BY <1>1, <3>1, FeesAssumption
    <3>3. QED BY <1>1, <1>5, <3>1, <3>2
  <2>3. QED BY <2>1, <2>2
<1>10. QED BY <1>6, <1>7, <1>8, <1>9 DEF FeesInv

(* The payment and its fee are written together, and the fee is let go.    *)
LEMMA PayFeeKeeps ==
  ASSUME FeesInv, NEW c \in Clerks, PayFee(c)
  PROVE  FeesInv'
<1> DEFINE f == clerk[c].fee
           paid == received[f] + clerk[c].amount
           new == ApplyPayment(clerk[c].row, paid)
<1>1. /\ clerk[c].at = "pay"
      /\ received' = [received EXCEPT ![f] = paid]
      /\ fee' = [fee EXCEPT ![f] = new]
      /\ raced' = raced \ {f}
      /\ feeLock' = [feeLock EXCEPT ![f] = NoClerk]
      /\ clerk' = [clerk EXCEPT ![c] = FreeClerk]
      /\ UNCHANGED <<round, today, doubled>>
  BY DEF PayFee, ClerkDone
<1>2. /\ f \in Fees /\ feeLock[f] = c /\ clerk[c].row = fee[f] /\ fee[f].status # "absent"
      /\ clerk[c].amount > 0 /\ clerk[c].amount \in Nat
      /\ received[f] \in Nat /\ fee[f] \in FeeRow
  <2>1. /\ f \in Fees /\ feeLock[f] = c /\ clerk[c].row = fee[f] /\ fee[f].status # "absent"
        /\ clerk[c].amount > 0
    BY <1>1 DEF FeesInv, PaymentsSound
  <2>2. clerk[c].amount \in Nat
    BY DEF FeesInv, FeesTypeOK, Clerk
  <2>3. received[f] \in Nat /\ fee[f] \in FeeRow
    BY <2>1 DEF FeesInv, FeesTypeOK
  <2>4. QED BY <2>1, <2>2, <2>3
<1>3. /\ fee[f].paid = received[f] /\ RowSound(fee[f])
  BY <1>2 DEF FeesInv, FeesSound
<1>4. paid \in Nat /\ paid > fee[f].paid
  BY <1>2, <1>3
<1> HIDE DEF paid
<1>5. /\ new \in FeeRow /\ new.status # "absent" /\ new.paid = paid
      /\ SameTerms(new, fee[f]) /\ RowSound(new) /\ RowAgrees(new)
  BY <1>2, <1>3, <1>4, AppliedSound
<1> HIDE DEF new
<1>6. /\ fee' \in [Fees -> FeeRow] /\ fee'[f] = new /\ \A g \in Fees \ {f} : fee'[g] = fee[g]
      /\ received' \in [Fees -> Nat] /\ received'[f] = paid
      /\ \A g \in Fees \ {f} : received'[g] = received[g]
  BY <1>1, <1>2, <1>4, <1>5 DEF FeesInv, FeesTypeOK
<1>7. /\ clerk' \in [Clerks -> Clerk]
      /\ clerk'[c].at = "free" /\ \A d \in Clerks \ {c} : clerk'[d] = clerk[d]
  BY <1>1, NothingHeld, ClerkTurns DEF FeesInv
<1>8. /\ feeLock' \in [Fees -> Clerks \cup {NoClerk}]
      /\ \A g \in Fees \ {f} : feeLock'[g] = feeLock[g]
  BY <1>1 DEF FeesInv, FeesTypeOK
<1>9. FeesTypeOK'
  BY <1>1, <1>6, <1>7, <1>8 DEF FeesInv, FeesTypeOK
<1>10. FeesSound'
  <2> SUFFICES ASSUME NEW g \in Fees
               PROVE  IF fee'[g].status = "absent" THEN received'[g] = 0
                      ELSE /\ fee'[g].paid = received'[g]
                           /\ RowSound(fee'[g])
                           /\ g \notin raced' => RowAgrees(fee'[g])
    BY DEF FeesSound
  <2>1. CASE g = f
    BY <1>5, <1>6, <2>1
  <2>2. CASE g # f
    BY <1>1, <1>6, <2>2 DEF FeesInv, FeesSound
  <2>3. QED BY <2>1, <2>2
<1>11. AssignmentsSound' /\ ChargedOnce' /\ ChargesSeen'
  <2>1. \A g \in Fees : (fee'[g].status = "absent") = (fee[g].status = "absent")
    BY <1>2, <1>5, <1>6
  <2>2. \A g \in Fees : SameTerms(fee'[g], fee[g])
    BY <1>5, <1>6 DEF SameTerms
  <2>3. \A d \in Clerks : clerk'[d].at = "assign" => clerk'[d] = clerk[d]
    BY <1>7
  <2>4. QED BY <1>1, <2>1, <2>2, <2>3, NothingCharged DEF FeesInv
<1>12. PaymentsSound'
  <2> SUFFICES ASSUME NEW d \in Clerks, clerk'[d].at = "pay"
               PROVE  /\ clerk'[d].fee \in Fees /\ feeLock'[clerk'[d].fee] = d
                      /\ clerk'[d].row = fee'[clerk'[d].fee] /\ clerk'[d].row.status # "absent"
                      /\ clerk'[d].amount > 0
    BY DEF PaymentsSound
  <2>1. d # c /\ clerk'[d] = clerk[d]
    BY <1>7
  <2>2. /\ clerk[d].fee \in Fees /\ feeLock[clerk[d].fee] = d
        /\ clerk[d].row = fee[clerk[d].fee] /\ clerk[d].row.status # "absent"
        /\ clerk[d].amount > 0
    BY <2>1 DEF FeesInv, PaymentsSound
  <2>3. clerk[d].fee # f
    BY <1>2, <2>1, <2>2
  <2>4. QED BY <1>6, <1>8, <2>1, <2>2, <2>3
<1>13. CopiesSound'
  <2> SUFFICES ASSUME NEW d \in Finers, NEW g \in round[d].todo
               PROVE  CopySound(round[d].copy[g], g)'
    BY <1>1 DEF CopiesSound
  <2>1. CopySound(round[d].copy[g], g) /\ g \in Fees /\ round[d].copy[g] \in FeeRow
    BY DEF FeesInv, FeesTypeOK, CopiesSound, Round
  <2>2. CASE g = f
    <3>1. round[d].copy[g].paid \in Nat /\ fee[f].paid \in Nat
      BY <1>2, <2>1 DEF FeeRow
    <3>2. round[d].copy[g].paid <= fee[f].paid /\ fee'[g].paid = paid
      BY <1>5, <1>6, <2>1, <2>2 DEF CopySound
    <3>3. round[d].copy[g].paid <= fee'[g].paid /\ round[d].copy[g].paid # fee'[g].paid
      BY <1>4, <3>1, <3>2
    <3>4. round[d].copy[g].discount = fee'[g].discount
      BY <1>5, <1>6, <2>1, <2>2 DEF CopySound, SameTerms
    <3>5. QED BY <1>1, <1>5, <1>6, <2>1, <2>2, <3>3, <3>4 DEF CopySound
  <2>3. CASE g # f
    BY <1>1, <1>6, <2>1, <2>3 DEF CopySound
  <2>4. QED BY <2>2, <2>3
<1>14. QED BY <1>9, <1>10, <1>11, <1>12, <1>13 DEF FeesInv

(* A run of the fines task reads the rows that are open.                   *)
LEMMA ReadCandidatesKeeps ==
  ASSUME FeesInv, NEW d \in Finers, ReadCandidates(d)
  PROVE  FeesInv'
<1> DEFINE held == [day |-> today, todo |-> Candidates, copy |-> fee]
<1>1. round' = [round EXCEPT ![d] = held]
      /\ UNCHANGED <<fee, received, feeLock, clerk, today, raced, doubled>>
  BY DEF ReadCandidates
<1>2. held \in Round
  BY DEF FeesInv, FeesTypeOK, Round, Candidates
<1>3. FeesTypeOK'
  BY <1>1, <1>2 DEF FeesInv, FeesTypeOK
<1>4. FeesSound' /\ PaymentsSound'
  BY <1>1 DEF FeesInv, FeesSound, PaymentsSound
<1>5. AssignmentsSound' /\ ChargedOnce' /\ ChargesSeen'
  BY <1>1, NothingCharged DEF FeesInv, SameTerms
<1>6. \A f \in Candidates : CopySound(fee[f], f)
  <2> SUFFICES ASSUME NEW f \in Candidates PROVE CopySound(fee[f], f)
    OBVIOUS
  <2>1. f \in Fees /\ fee[f].status \in OpenStatuses /\ fee[f].status # "absent"
    BY DEF Candidates, OpenStatuses
  <2>2. fee[f].paid \in Nat
    BY <2>1 DEF FeesInv, FeesTypeOK, FeeRow
  <2>3. RowSound(fee[f]) /\ (f \notin raced => RowAgrees(fee[f]))
    BY <2>1 DEF FeesInv, FeesSound
  <2>4. QED BY <2>1, <2>2, <2>3 DEF CopySound
<1>7. CopiesSound'
  <2> SUFFICES ASSUME NEW e \in Finers, NEW f \in round'[e].todo
               PROVE  CopySound(round[e].copy[f], f)'
    BY DEF CopiesSound
  <2>1. CASE e = d
    <3>1. round'[e] = held
      BY <1>1, <2>1 DEF FeesInv, FeesTypeOK
    <3>2. f \in Candidates /\ round'[e].copy[f] = fee[f]
      BY <3>1
    <3>3. QED BY <1>1, <1>6, <3>2 DEF CopySound
  <2>2. CASE e # d
    <3>1. round'[e] = round[e]
      BY <1>1, <2>2 DEF FeesInv, FeesTypeOK
    <3>2. QED BY <1>1, <3>1 DEF FeesInv, CopiesSound, CopySound
  <2>3. QED BY <2>1, <2>2
<1>8. QED BY <1>3, <1>4, <1>5, <1>7 DEF FeesInv

(* A run that is left with less to write from what it read.                *)
LEMMA CopiesLeft ==
  ASSUME FeesInv, NEW d \in Finers, NEW held \in Round,
         held.todo \subseteq round[d].todo, held.todo # {} => held.copy = round[d].copy,
         round' = [round EXCEPT ![d] = held]
  PROVE  /\ round' \in [Finers -> Round]
         /\ \A e \in Finers : \A g \in round'[e].todo :
              /\ g \in round[e].todo /\ round'[e].copy[g] = round[e].copy[g]
              /\ g \in Fees /\ CopySound(round[e].copy[g], g)
<1>1. round' \in [Finers -> Round]
  BY DEF FeesInv, FeesTypeOK
<1> SUFFICES ASSUME NEW e \in Finers, NEW g \in round'[e].todo
             PROVE  /\ g \in round[e].todo /\ round'[e].copy[g] = round[e].copy[g]
                    /\ g \in Fees /\ CopySound(round[e].copy[g], g)
  BY <1>1
<1>2. g \in round[e].todo /\ round'[e].copy[g] = round[e].copy[g]
  <2>1. CASE e = d
    <3>1. round'[e] = held
      BY <2>1 DEF FeesInv, FeesTypeOK
    <3>2. g \in held.todo
      BY <3>1
    <3>3. held.copy = round[d].copy
      BY <3>2
    <3>4. QED BY <2>1, <3>1, <3>2, <3>3
  <2>2. CASE e # d
    BY <2>2 DEF FeesInv, FeesTypeOK
  <2>3. QED BY <2>1, <2>2
<1>3. g \in Fees /\ CopySound(round[e].copy[g], g)
  BY <1>2 DEF FeesInv, FeesTypeOK, CopiesSound, Round
<1>4. QED BY <1>2, <1>3

(* A fee is fined from a copy: it owes what the fine makes it, and agrees  *)
(* with what was paid unless the copy had not seen a payment.              *)
LEMMA FineKeeps ==
  ASSUME FeesInv, NEW d \in Finers, NEW f \in Fees, Fine(d, f)
  PROVE  FeesInv'
<1> DEFINE copy == round[d].copy[f]
           owed == FineOwed(copy, round[d].day)
           fines == DaysLate(round[d].day) > 0 /\ owed > copy.fine
           new == Fined(fee[f], copy, owed)
           held == IF round[d].todo = {f} THEN NoRound
                   ELSE [round[d] EXCEPT !.todo = @ \ {f}]
<1>1. /\ f \in round[d].todo
      /\ fines => feeLock[f] = NoClerk
      /\ fee' = IF fines THEN [fee EXCEPT ![f] = new] ELSE fee
      /\ raced' = IF fines /\ fee[f].paid # copy.paid THEN raced \cup {f} ELSE raced
      /\ round' = [round EXCEPT ![d] = held]
      /\ UNCHANGED <<received, feeLock, clerk, today, doubled>>
  <2>1. fee' = IF fines THEN [fee EXCEPT ![f] = Fined(@, copy, owed)] ELSE fee
    BY DEF Fine
  <2>2. fee' = IF fines THEN [fee EXCEPT ![f] = new] ELSE fee
    BY <2>1 DEF FeesInv, FeesTypeOK
  <2>3. round' = [round EXCEPT ![d] = held]
    BY DEF Fine
  <2>4. QED BY <2>2, <2>3 DEF Fine
<1>2. round[d] \in Round /\ copy \in FeeRow /\ fee[f] \in FeeRow
  BY DEF FeesInv, FeesTypeOK, Round
<1>3. /\ held \in Round /\ held.todo \subseteq round[d].todo
      /\ held.todo # {} => held.copy = round[d].copy
  BY <1>2, NothingHeld DEF Round
<1>4. CopySound(copy, f)
  BY <1>1 DEF FeesInv, CopiesSound
<1> HIDE DEF held
<1>5. /\ round' \in [Finers -> Round]
      /\ \A e \in Finers : \A g \in round'[e].todo :
           /\ g \in round[e].todo /\ round'[e].copy[g] = round[e].copy[g]
           /\ g \in Fees /\ CopySound(round[e].copy[g], g)
  BY <1>1, <1>3, CopiesLeft
<1>6. owed \in Int
  BY <1>2, FeesAssumption DEF FineOwed, DaysLate, Round
<1> HIDE DEF owed
<1>7. fines => /\ new \in FeeRow /\ new.status = fee[f].status /\ new.paid = fee[f].paid
               /\ SameTerms(new, fee[f]) /\ RowSound(new)
               /\ copy.paid = fee[f].paid /\ copy.status = fee[f].status /\ RowAgrees(copy) =>
                    RowAgrees(new)
  <2> SUFFICES ASSUME fines
               PROVE  /\ new \in FeeRow /\ new.status = fee[f].status /\ new.paid = fee[f].paid
                      /\ SameTerms(new, fee[f]) /\ RowSound(new)
                      /\ copy.paid = fee[f].paid /\ copy.status = fee[f].status /\ RowAgrees(copy) =>
                           RowAgrees(new)
    OBVIOUS
  <2>1. owed > copy.fine
    OBVIOUS
  <2>2. copy.status \in OpenStatuses /\ RowSound(copy) /\ copy.discount = fee[f].discount
    BY <1>4 DEF CopySound
  <2> HIDE DEF copy
  <2>3. QED BY <1>2, <1>6, <2>1, <2>2, FinedSound
<1> HIDE DEF new, copy, fines
<1>8. /\ fee' \in [Fees -> FeeRow] /\ (fines => fee'[f] = new) /\ (~fines => fee'[f] = fee[f])
      /\ \A g \in Fees \ {f} : fee'[g] = fee[g]
  BY <1>1, <1>2, <1>7 DEF FeesInv, FeesTypeOK
<1>9. \A g \in Fees : /\ fee'[g].status = fee[g].status /\ fee'[g].paid = fee[g].paid
                      /\ SameTerms(fee'[g], fee[g])
  BY <1>7, <1>8 DEF SameTerms
<1>10. FeesTypeOK'
  BY <1>1, <1>5, <1>8 DEF FeesInv, FeesTypeOK
<1>11. FeesSound'
  <2> SUFFICES ASSUME NEW g \in Fees
               PROVE  IF fee'[g].status = "absent" THEN received'[g] = 0
                      ELSE /\ fee'[g].paid = received'[g]
                           /\ RowSound(fee'[g])
                           /\ g \notin raced' => RowAgrees(fee'[g])
    BY DEF FeesSound
  <2>1. CASE g = f /\ fines
    <3>1. fee'[g] = new /\ fee[g].paid = received[g] /\ fee[g].status # "absent"
      BY <1>4, <1>8, <2>1 DEF FeesInv, FeesSound, CopySound
    <3>2. ASSUME g \notin raced' PROVE RowAgrees(new)
      <4>1. f \notin raced /\ fee[f].paid = copy.paid
        BY <1>1, <2>1, <3>2
      <4>2. copy.status = fee[f].status /\ RowAgrees(copy)
        BY <1>4, <4>1 DEF CopySound
      <4>3. QED BY <1>7, <2>1, <4>1, <4>2
    <3>3. QED BY <1>1, <1>7, <2>1, <3>1, <3>2
  <2>2. CASE ~ (g = f /\ fines)
    <3>1. fee'[g] = fee[g] /\ (g \notin raced' => g \notin raced)
      BY <1>1, <1>8, <2>2
    <3>2. QED BY <1>1, <3>1 DEF FeesInv, FeesSound
  <2>3. QED BY <2>1, <2>2
<1>12. AssignmentsSound' /\ ChargedOnce' /\ ChargesSeen'
  BY <1>1, <1>9, NothingCharged DEF FeesInv
<1>13. PaymentsSound'
  <2>1. ASSUME NEW c \in Clerks, clerk[c].at = "pay" PROVE fee'[clerk[c].fee] = fee[clerk[c].fee]
    <3>1. clerk[c].fee \in Fees /\ feeLock[clerk[c].fee] = c
      BY <2>1 DEF FeesInv, PaymentsSound
    <3>2. ~ (clerk[c].fee = f /\ fines)
      BY <1>1, <3>1, FeesAssumption
    <3>3. QED BY <1>8, <3>1, <3>2
  <2>2. QED BY <1>1, <2>1 DEF FeesInv, PaymentsSound
<1>14. CopiesSound'
  <2>1. \A g : g \notin raced' => g \notin raced
    BY <1>1
  <2>2. QED BY <1>5, <1>9, <2>1 DEF CopiesSound, CopySound, SameTerms
<1>15. QED BY <1>10, <1>11, <1>12, <1>13, <1>14 DEF FeesInv

(* A run of the fines task stops where it is.                              *)
LEMMA StopFiningKeeps ==
  ASSUME FeesInv, NEW d \in Finers, StopFining(d)
  PROVE  FeesInv'
<1>1. /\ round' = [round EXCEPT ![d] = NoRound]
      /\ UNCHANGED <<fee, received, feeLock, clerk, today, raced, doubled>>
  BY DEF StopFining
<1>2. /\ round' \in [Finers -> Round]
      /\ \A e \in Finers : \A g \in round'[e].todo :
           /\ g \in round[e].todo /\ round'[e].copy[g] = round[e].copy[g]
           /\ g \in Fees /\ CopySound(round[e].copy[g], g)
  BY <1>1, NothingHeld, CopiesLeft
<1>3. FeesTypeOK'
  BY <1>1, <1>2 DEF FeesInv, FeesTypeOK
<1>4. FeesSound' /\ PaymentsSound'
  BY <1>1 DEF FeesInv, FeesSound, PaymentsSound
<1>5. AssignmentsSound' /\ ChargedOnce' /\ ChargesSeen'
  BY <1>1, NothingCharged DEF FeesInv, SameTerms
<1>6. CopiesSound'
  BY <1>1, <1>2 DEF CopiesSound, CopySound
<1>7. QED BY <1>3, <1>4, <1>5, <1>6 DEF FeesInv

LEMMA DayPassesKeeps == FeesInv /\ DayPasses => FeesInv'
<1> SUFFICES ASSUME FeesInv, DayPasses PROVE FeesInv'
  OBVIOUS
<1>1. /\ today' \in 0 .. LastDay
      /\ UNCHANGED <<fee, received, feeLock, clerk, round, raced, doubled>>
  BY FeesAssumption DEF DayPasses, FeesInv, FeesTypeOK
<1>2. FeesTypeOK'
  BY <1>1 DEF FeesInv, FeesTypeOK
<1>3. FeesSound' /\ AssignmentsSound' /\ PaymentsSound' /\ CopiesSound'
  BY <1>1 DEF FeesInv, FeesSound, AssignmentsSound, PaymentsSound, CopiesSound, CopySound
<1>4. ChargedOnce' /\ ChargesSeen'
  BY <1>1 DEF FeesInv, ChargedOnce, ChargesSeen
<1>5. QED BY <1>2, <1>3, <1>4 DEF FeesInv

LEMMA FeesNextInv == FeesInv /\ [FeesNext]_feesVars => FeesInv'
<1> SUFFICES ASSUME FeesInv, [FeesNext]_feesVars PROVE FeesInv'
  OBVIOUS
<1>1. CASE UNCHANGED feesVars
  BY <1>1 DEF feesVars, FeesInv, FeesTypeOK, FeesSound, AssignmentsSound, PaymentsSound,
              CopiesSound, CopySound, ChargedOnce, ChargesSeen
<1>2. ASSUME NEW c \in Clerks, NEW f \in Fees, NEW s \in Structures,
             NEW m \in Months \cup {NoMonth}, NEW discount \in Discounts, NEW fine \in FirstFines,
             CheckAssignment(c, f, AssignedRow(s, m, discount, fine))
      PROVE  FeesInv'
  BY <1>2, CheckAssignmentKeeps
<1>3. ASSUME NEW c \in Clerks, InsertFee(c) PROVE FeesInv'
  BY <1>3, InsertFeeKeeps
<1>4. ASSUME NEW c \in Clerks, NEW f \in Fees, NEW amount \in 1 .. MaxReceived,
             LockFee(c, f, amount)
      PROVE  FeesInv'
  BY <1>4, LockFeeKeeps
<1>5. ASSUME NEW c \in Clerks, PayFee(c) PROVE FeesInv'
  BY <1>5, PayFeeKeeps
<1>6. ASSUME NEW d \in Finers, ReadCandidates(d) \/ StopFining(d) PROVE FeesInv'
  BY <1>6, ReadCandidatesKeeps, StopFiningKeeps
<1>7. ASSUME NEW d \in Finers, NEW f \in Fees, Fine(d, f) PROVE FeesInv'
  BY <1>7, FineKeeps
<1>8. CASE DayPasses
  BY <1>8, DayPassesKeeps
<1>9. QED BY <1>1, <1>2, <1>3, <1>4, <1>5, <1>6, <1>7, <1>8 DEF FeesNext

LEMMA FeesAlways == FeesSpec => []FeesInv
  BY FeesInitInv, FeesNextInv, PTL DEF FeesSpec

(* The rows of the ledger, and what clerks and fines runs hold, keep their *)
(* types.                                                                  *)
THEOREM FeesTyped == FeesSpec => []FeesTypeOK
<1>1. FeesInv => FeesTypeOK
  BY DEF FeesInv
<1>2. QED BY <1>1, FeesAlways, PTL

(* A fee says what its receipts add up to, whatever fines run beside its   *)
(* payments, and is wrong about what is pending only after a fine written  *)
(* over a payment it had not seen.                                         *)
THEOREM LedgerFollowsReceipts == FeesSpec => []LedgerAgrees
<1>1. FeesInv => LedgerAgrees
  BY DEF FeesInv, FeesSound, LedgerAgrees, RowSound, RowAgrees
<1>2. QED BY <1>1, FeesAlways, PTL

(* A student is charged twice for the same thing only by two assignments   *)
(* of which one checked before the other had inserted.                     *)
THEOREM StudentChargedOnce == FeesSpec => []ChargedOnce
<1>1. FeesInv => ChargedOnce
  BY DEF FeesInv
<1>2. QED BY <1>1, FeesAlways, PTL

-----------------------------------------------------------------------------
(* A behaviour of the host is one of each of its parts.                    *)
LEMMA OfficeIsItsParts ==
  OfficeSpec =>
    Spec /\ CacheSpec /\ NumbersSpec /\ QuotationSpec /\ FeesSpec /\ SweepSpec
<1>1. OfficeInit =>
        Init /\ CacheInit /\ NumbersInit /\ QuotationInit /\ FeesInit /\ SweepInit
  BY DEF OfficeInit
<1>2. ASSUME [OfficeNext]_officeVars
      PROVE  /\ [Next]_vars /\ [CacheNext]_cacheVars /\ [NumbersNext]_numberVars
             /\ [QuotationNext]_quotationVars /\ [FeesNext]_feesVars /\ [SweepNext]_sweepVars
  BY <1>2, Zenon DEF OfficeNext, SubscriptionPart, CachePart, NumbersPart, QuotationPart,
     FeesPart, NotificationsPart, officeVars, paperVars
<1>3. QED
  BY <1>1, <1>2, PTL
  DEF OfficeSpec, Spec, CacheSpec, NumbersSpec, QuotationSpec, FeesSpec, SweepSpec

SomePart ==
  part \in {"subscription", "cache", "numbers", "quotation", "fees", "notifications"}

(* So what the parts guarantee holds in their host: types, stale entries   *)
(* with their causes, numbers, quotations, fees and notifications ...      *)
THEOREM OfficeHolds ==
  OfficeSpec => [](/\ OfficeTypes /\ StaleForCause /\ SeriesGapless /\ OvertakenEachTime
                   /\ OneInvoicePerQuotation /\ LedgerAgrees /\ ChargedOnce
                   /\ RepeatsBounded /\ MailAccounted)
<1>1. OfficeInit => SomePart
  BY DEF OfficeInit, SomePart
<1>2. SomePart /\ [OfficeNext]_officeVars => SomePart'
  BY DEF SomePart, OfficeNext, SubscriptionPart, CachePart, NumbersPart, QuotationPart,
     FeesPart, NotificationsPart, officeVars, paperVars
<1>3. /\ SomePart /\ TypeOK /\ CacheTypeOK /\ NumbersTypeOK /\ QuotationTypeOK
      /\ FeesTypeOK /\ SweepTypeOK
      => OfficeTypes
  BY DEF SomePart, OfficeTypes
<1>4. QED
  BY <1>1, <1>2, <1>3, OfficeIsItsParts, TypeCorrect, CachesTyped, NumbersTyped, QuotationTyped,
     FeesTyped, NotificationsTyped, StaleHasCause, SeriesHaveNoGap, RetriesAreOvertaken, OneInvoice,
     LedgerFollowsReceipts, StudentChargedOnce, NobodyToldForEver, EveryTellingMailed, PTL
  DEF OfficeSpec

(* ... and, when operations do not overlap, the subscription's promises:   *)
(* the machine it implements, with its grace periods and its jobs.         *)
THEOREM OfficeKeepsToMachine ==
  ~Overlap => (OfficeSpec => /\ AnswersWithinBound /\ []GraceHasDeadline /\ JobsNeverRevive
                             /\ GraceDeadlineStands /\ KeepsToMachine)
BY OfficeIsItsParts, AnswersAreBounded, GraceCorrect, JobsOnlyTakeAway, GraceDeadlineFixed,
   ImplementsMachine, PTL
=============================================================================
