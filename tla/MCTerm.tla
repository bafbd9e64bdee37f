------------------------------- MODULE MCTerm -------------------------------
(***************************************************************************)
(* MCUsage, and one exam of the term, which shares no state with it: a     *)
(* behaviour is one of one of them, and the other rests.  The names of     *)
(* handlers and of students are used in both, so that one symmetry serves. *)
(***************************************************************************)
EXTENDS MCUsage, Exams

VARIABLE part

(* Bounds: one handler at a time has marks or a paper to write, one mark is *)
(* late, and one pupil is the one whose mark is late or who has come in     *)
(* since the results were calculated.                                       *)
Writers == {t \in Teachers : teacher[t].at \in {"first", "mark", "stamp", "add"}}
Concerned == arrived \cup {entry[2] : entry \in late}
ExamBounds ==
  Cardinality(Writers) <= 1 /\ Cardinality(late) <= 1 /\ Cardinality(Concerned) <= 1

UsagePart == part = "usage" /\ Next /\ UNCHANGED <<part, examVars>>
ExamPart == part = "exam" /\ ExamNext /\ ExamBounds' /\ UNCHANGED <<part, vars>>

(* An exam may be over for good. *)
ExamRests ==
  /\ part = "exam" /\ \A t \in Teachers : IsFree(t)
  /\ UNCHANGED <<part, vars, examVars>>

TermInit ==
  /\ part \in {"usage", "exam"}
  /\ Init /\ ExamInit
  /\ part # "exam" => cohort = {}

TermSpec == TermInit /\ [][UsagePart \/ ExamPart \/ ExamRests]_<<part, vars, examVars>>

(* Nothing is said of an exam after a write on what it had not seen.       *)
NotAstray == ~astray

TermSymmetry == UsageSymmetry \cup Permutations(Papers)

(* Columns, counters and what every handler holds keep their types. *)
TermTypes == TypeOK /\ ExamTypeOK
=============================================================================
