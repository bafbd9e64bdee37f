------------------------------- MODULE Exams -------------------------------
(***************************************************************************)
(* One exam, from marks to published results.                              *)
(*                                                                         *)
(* A submission decides again under a lock of the exam row, because every  *)
(* submission rewrites the results of the whole exam.  Everything else     *)
(* reads, decides and writes later, holding nothing: `late` and `astray`   *)
(* remember the writes that landed on something they had not seen, and     *)
(* `arrived` who came into the class behind the results.                   *)
(***************************************************************************)
EXTENDS Integers, FiniteSets, FiniteSetsExt

CONSTANTS
  Papers,              \* exam_subjects the exam may get, one mark each
  Pupils,
  Teachers, NoTeacher, \* handlers of requests
  MaxMark, NoMark

ASSUME ExamAssumption ==
  /\ NoTeacher \notin Teachers
  /\ IsFiniteSet(Papers) /\ IsFiniteSet(Pupils)
  /\ MaxMark \in Nat /\ NoMark \notin 0 .. MaxMark

VARIABLES
  exam,        \* [status, papers, submitted]
  examLock,
  cohort,      \* active students of the class
  mark,        \* [Papers -> [Pupils -> MarkOrNone]]
  result,      \* [Pupils -> Result]: no mark in it, no row
  teacher,     \* what every handler holds
  card,        \* history: the results as they were published
  late,        \* history: <<paper, pupil>> written after the paper was submitted
  arrived,     \* history: in the class, and in no recalculation since they came
  astray       \* history: some other write landed on what it had not seen

examVars == <<exam, examLock, cohort, mark, result, teacher, card, late, arrived, astray>>
histories == <<card, late, arrived>>

MarkOrNone == 0 .. MaxMark \cup {NoMark}
Sheet == [Papers -> MarkOrNone]
NoSheet == [p \in Papers |-> NoMark]
NoSheets == [s \in Pupils |-> NoSheet]
EXAM_MUTABLE == {"draft", "marks_entry"}

Exam == [status: EXAM_MUTABLE \cup {"completed", "published"},
         papers: SUBSET Papers, submitted: SUBSET Papers]

(* sheet is subject_breakdown; position 0 is null. *)
Result == [sheet: Sheet, position: Nat, published: BOOLEAN]
NoResult == [sheet |-> NoSheet, position |-> 0, published |-> FALSE]

ExamStages == {"free", "first", "mark", "stamp", "submit", "record",
           "check", "generate", "publish", "add"}

(* sheets is what the transaction's snapshot has of the class: the marks   *)
(* of whoever is in it.                                                    *)
Teacher ==
  [at: ExamStages, papers: SUBSET Papers, entry: {<<>>} \cup (Pupils \X (0 .. MaxMark)),
   sheets: [Pupils -> Sheet]]
FreeTeacher == [at |-> "free", papers |-> {}, entry |-> <<>>, sheets |-> NoSheets]

ExamTypeOK ==
  /\ exam \in Exam
  /\ examLock \in Teachers \cup {NoTeacher}
  /\ cohort \subseteq Pupils
  /\ mark \in [Papers -> [Pupils -> MarkOrNone]]
  /\ result \in [Pupils -> Result]
  /\ teacher \in [Teachers -> Teacher]
  /\ card \in [Pupils -> Result]
  /\ late \subseteq Papers \X Pupils
  /\ arrived \subseteq cohort
  /\ astray \in BOOLEAN

ExamInit ==
  /\ \E p \in Papers : exam = [status |-> "draft", papers |-> {p}, submitted |-> {}]
  /\ examLock = NoTeacher
  /\ cohort \in SUBSET Pupils
  /\ mark = [p \in Papers |-> [s \in Pupils |-> NoMark]]
  /\ result = [s \in Pupils |-> NoResult]
  /\ teacher = [t \in Teachers |-> FreeTeacher]
  /\ card = result
  /\ late = {} /\ arrived = {} /\ astray = FALSE

Busy(t, at, papers) ==
  teacher' = [teacher EXCEPT ![t] = [FreeTeacher EXCEPT !.at = at, !.papers = papers]]
Released(t) == teacher' = [teacher EXCEPT ![t] = FreeTeacher]
IsFree(t) == teacher[t].at = "free"
PaperOf(t) == CHOOSE p \in Papers : teacher[t].papers = {p}

Counted(sheet) == {p \in Papers : sheet[p] # NoMark}
Sat(r) == r.sheet # NoSheet

-----------------------------------------------------------------------------
(* A pupil is admitted to the class, or moved into it, and may have marks  *)
(* from when he was in it before ...                                       *)
Enrol(s) ==
  /\ s \notin cohort
  /\ cohort' = cohort \cup {s}
  /\ arrived' = arrived \cup {s}
  /\ UNCHANGED <<exam, examLock, mark, result, teacher, card, late, astray>>

(* ... or is moved, promoted, transferred or leaves. *)
LeaveClass(s) ==
  /\ s \in cohort
  /\ cohort' = cohort \ {s}
  /\ arrived' = arrived \ {s}
  /\ UNCHANGED <<exam, examLock, mark, result, teacher, card, late, astray>>

(* addExamSubject(): the exam's status is read, and the paper inserted. *)
CheckMutable(t, p) ==
  /\ IsFree(t) /\ p \notin exam.papers
  /\ exam.status \in EXAM_MUTABLE
  /\ Busy(t, "add", {p})
  /\ UNCHANGED <<exam, examLock, cohort, mark, result, histories, astray>>

Generating == \E t \in Teachers : teacher[t].at \in {"check", "generate"}

AddPaper(t) ==
  /\ teacher[t].at = "add"
  /\ exam' = [exam EXCEPT !.papers = @ \cup teacher[t].papers]
  /\ astray' = (astray \/ Generating \/ exam.status \notin EXAM_MUTABLE)
  /\ Released(t)
  /\ UNCHANGED <<examLock, cohort, mark, result, histories>>

-----------------------------------------------------------------------------
(* enterMarks(): the paper has to be open and the pupil in the class ... *)
ReadPaper(t, p, s, m) ==
  /\ IsFree(t)
  /\ p \in exam.papers \ exam.submitted
  /\ s \in cohort
  /\ teacher' = [teacher EXCEPT ![t] =
       [FreeTeacher EXCEPT !.at = IF exam.status = "draft" THEN "first" ELSE "mark",
                           !.papers = {p}, !.entry = <<s, m>>]]
  /\ UNCHANGED <<exam, examLock, cohort, mark, result, histories, astray>>

Recording(p) == \E t \in Teachers : teacher[t].at = "record" /\ p \in teacher[t].papers

(* ... and the mark is written, whatever became of them ... *)
WriteMark(t) ==
  LET p == PaperOf(t)
      s == teacher[t].entry[1]
  IN  /\ teacher[t].at \in {"first", "mark"}
      /\ mark' = [mark EXCEPT ![p][s] = teacher[t].entry[2]]
      /\ late' = IF p \in exam.submitted \/ Recording(p) THEN late \cup {<<p, s>>} ELSE late
      /\ IF teacher[t].at = "first" THEN Busy(t, "stamp", {p}) ELSE Released(t)
      /\ UNCHANGED <<exam, examLock, cohort, result, card, arrived, astray>>

(* ... and an exam read as a draft becomes one whose marks are entered.    *)
StampMarksEntry(t) ==
  /\ teacher[t].at = "stamp"
  /\ examLock = NoTeacher
  /\ exam' = [exam EXCEPT !.status = "marks_entry"]
  /\ astray' = (astray \/ exam.status \notin EXAM_MUTABLE)
  /\ Released(t)
  /\ UNCHANGED <<examLock, cohort, mark, result, histories>>

-----------------------------------------------------------------------------
(* recalculate(): the marks of the class on the papers that count are read *)
(* in the transaction's snapshot ...                                       *)
Sheets(counted) ==
  [s \in Pupils |-> [p \in Papers |->
    IF s \in cohort /\ p \in counted THEN mark[p][s] ELSE NoMark]]

(* ... whoever has one gets a row over them, and other rows stay as they   *)
(* are.                                                                    *)
Sitters(sheets) == {s \in Pupils : sheets[s] # NoSheet}

Recalculated(sheets) ==
  [s \in Pupils |-> IF s \in Sitters(sheets) THEN [result[s] EXCEPT !.sheet = sheets[s]]
                    ELSE result[s]]

Calculates(t, at, papers) ==
  teacher' = [teacher EXCEPT ![t] =
    [FreeTeacher EXCEPT !.at = at, !.papers = papers, !.sheets = Sheets(papers)]]

(* submitMarks(): nobody may be forgotten. *)
ReadSubmission(t, p) ==
  /\ IsFree(t)
  /\ p \in exam.papers \ exam.submitted
  /\ cohort # {} /\ \A s \in cohort : mark[p][s] # NoMark
  /\ Busy(t, "submit", {p})
  /\ UNCHANGED <<exam, examLock, cohort, mark, result, histories, astray>>

(* Mutant: the exam is read without LOCK.UPDATE. *)
ExamGrantedFreely == TRUE

ExamGranted == examLock = NoTeacher

(* The exam is locked and the paper looked at again; the snapshot, of what *)
(* else is submitted too, is taken under the lock.                         *)
LockExam(t) ==
  LET p == PaperOf(t)
  IN  /\ teacher[t].at = "submit"
      /\ ExamGranted
      /\ IF p \in exam.submitted THEN Released(t) /\ UNCHANGED examLock
         ELSE examLock' = t /\ Calculates(t, "record", exam.submitted \cup {p})
      /\ UNCHANGED <<exam, cohort, mark, result, histories, astray>>

RecordSubmission(t) ==
  /\ teacher[t].at = "record"
  /\ exam' = [exam EXCEPT !.submitted = @ \cup teacher[t].papers]
  /\ result' = Recalculated(teacher[t].sheets)
  /\ arrived' = arrived \ Sitters(teacher[t].sheets)
  /\ examLock' = NoTeacher
  /\ Released(t)
  /\ UNCHANGED <<cohort, mark, card, late, astray>>

-----------------------------------------------------------------------------
(* generateResults(): checked outside the transaction, under no lock. *)
CheckGenerate(t) ==
  /\ IsFree(t)
  /\ exam.papers # {} /\ exam.papers \subseteq exam.submitted
  /\ exam.status # "published"
  /\ Busy(t, "check", exam.papers)
  /\ UNCHANGED <<exam, examLock, cohort, mark, result, histories, astray>>

Points(sheet) == SumFunctionOnSet(sheet, Counted(sheet))

(* percentage is of the papers a row counts. *)
Better(q, r) ==
  Points(q.sheet) * Cardinality(Counted(r.sheet)) >
    Points(r.sheet) * Cardinality(Counted(q.sheet))

(* Mutant: whoever has a row is ranked. *)
RankableWithPartial(r, papers) == Sat(r)

(* Ranked are the rows that count as many papers as the exam has. *)
Rankable(r, papers) ==
  Sat(r) /\ Cardinality(Counted(r.sheet)) = Cardinality(papers)

(* rankResults(): 1, 1, 3 ...; the others get no position. *)
Ranked(rows, papers) ==
  LET sat == {s \in Pupils : Rankable(rows[s], papers)}
  IN  [s \in Pupils |->
        [rows[s] EXCEPT !.position =
          IF s \in sat THEN 1 + Cardinality({q \in sat : Better(rows[q], rows[s])}) ELSE 0]]

ReadForGeneration(t) ==
  /\ teacher[t].at = "check"
  /\ Calculates(t, "generate", teacher[t].papers)
  /\ astray' = (astray \/ exam.papers # teacher[t].papers)
  /\ UNCHANGED <<exam, examLock, cohort, mark, result, histories>>

(* Somebody generates from another class or other marks than t read: rows  *)
(* that one of them writes are not in the snapshot the other ranks.        *)
Disagreeing(t) ==
  \E u \in Teachers : teacher[u].at = "generate" /\ teacher[u].sheets # teacher[t].sheets

(* A row that is ranked is in the snapshot, or written by this transaction *)
(* over what is committed, so it is the current one unless astray.         *)
CommitGeneration(t) ==
  /\ teacher[t].at = "generate"
  /\ examLock = NoTeacher
  /\ result' = Ranked(Recalculated(teacher[t].sheets), teacher[t].papers)
  /\ exam' = [exam EXCEPT !.status = "completed"]
  /\ arrived' = arrived \ Sitters(teacher[t].sheets)
  /\ astray' = (astray \/ exam.status = "published" \/ Disagreeing(t))
  /\ Released(t)
  /\ UNCHANGED <<examLock, cohort, mark, card, late>>

(* publishResults() *)
CheckPublish(t) ==
  /\ IsFree(t)
  /\ exam.status = "completed"
  /\ Busy(t, "publish", {})
  /\ UNCHANGED <<exam, examLock, cohort, mark, result, histories, astray>>

ReleasedRows(rows) == [s \in Pupils |-> [rows[s] EXCEPT !.published = @ \/ rows[s].position > 0]]

CommitPublish(t) ==
  /\ teacher[t].at = "publish"
  /\ examLock = NoTeacher
  /\ \E s \in Pupils : result[s].position > 0
  /\ result' = ReleasedRows(result)
  /\ card' = ReleasedRows(result)
  /\ exam' = [exam EXCEPT !.status = "published"]
  /\ Released(t)
  /\ UNCHANGED <<examLock, cohort, mark, late, arrived, astray>>

(* A transaction rolls back: no band for a percentage, nobody ranked, or   *)
(* the process died.                                                       *)
AbandonExam(t) ==
  /\ ~IsFree(t)
  /\ examLock' = IF examLock = t THEN NoTeacher ELSE examLock
  /\ Released(t)
  /\ UNCHANGED <<exam, cohort, mark, result, histories, astray>>

ExamNext ==
  \/ \E s \in Pupils : Enrol(s) \/ LeaveClass(s)
  \/ \E t \in Teachers :
       \/ \E p \in Papers : CheckMutable(t, p) \/ ReadSubmission(t, p)
       \/ \E p \in Papers, s \in Pupils, m \in 0 .. MaxMark : ReadPaper(t, p, s, m)
       \/ AddPaper(t) \/ WriteMark(t) \/ StampMarksEntry(t)
       \/ LockExam(t) \/ RecordSubmission(t)
       \/ CheckGenerate(t) \/ ReadForGeneration(t) \/ CommitGeneration(t)
       \/ CheckPublish(t) \/ CommitPublish(t)
       \/ AbandonExam(t)

ExamSpec == ExamInit /\ [][ExamNext]_examVars

-----------------------------------------------------------------------------
(* Properties. *)

(* No result is short by a paper: two papers submitted at the same moment  *)
(* are both in the results of everyone in the class who has a mark on them *)
(* and did not come back since they were calculated; pupils come and go,   *)
(* with their marks, between any two steps.                                *)
NoPaperLost ==
  \A s \in cohort \ arrived, p \in exam.submitted :
    mark[p][s] # NoMark /\ <<p, s>> \notin late /\ ~astray => result[s].sheet[p] = mark[p][s]

(* The merit list is of those who sat every paper, in the order of their   *)
(* percentages, and what was published stays as it was, through pupils who *)
(* come and leave half-way.                                                *)
MeritListStands ==
  exam.status \notin EXAM_MUTABLE /\ ~astray =>
    \A s \in Pupils :
      LET whole == {q \in Pupils : Counted(result[q].sheet) = exam.papers}
      IN  /\ result[s].position =
               (IF s \in whole
                THEN 1 + Cardinality({q \in whole :
                       Points(result[q].sheet) > Points(result[s].sheet)})
                ELSE 0)
          /\ exam.status = "published" =>
               /\ result[s].published = (s \in whole)
               /\ result[s] = card[s]
=============================================================================
