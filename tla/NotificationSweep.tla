------------------------- MODULE NotificationSweep -------------------------
(***************************************************************************)
(* The notification-dispatch task: passes over rows people have to be told *)
(* about.  A row of a marked kind (homework, exams, attendance, reminders) *)
(* has a column that says they were; of a referenced kind (results, fees   *)
(* paid) the notifications that point at it say so, and the queries for    *)
(* these ask for somebody to tell.  The one for payments does not; its     *)
(* pass is left out.                                                       *)
(*                                                                         *)
(* Telling is an in-app row for everyone in one statement, then an e-mail  *)
(* row and a delivery for one person after the other, then the marker.     *)
(* None of it is a transaction.  Two sweeps run at once when the scheduler *)
(* has given up waiting for one (see CronRunner).                          *)
(***************************************************************************)
EXTENDS Integers, Sequences, FiniteSets

CONSTANTS
  Rows,              \* ids, oldest first
  Marked,            \* rows of a marked kind
  Users,
  Sweeps,            \* sweeps that may be under way at once
  NoRow, NoUser,
  Limit,             \* SWEEP_LIMIT
  MaxDeaths, MaxThrows      \* bounds

ASSUME SweepAssumption ==
  /\ Rows \subseteq Nat /\ Marked \subseteq Rows /\ NoRow \notin Rows
  /\ NoUser \notin Users
  /\ IsFiniteSet(Rows) /\ IsFiniteSet(Sweeps)
  /\ Limit \in Nat \ {0} /\ MaxDeaths \in Nat /\ MaxThrows \in Nat

Referenced == Rows \ Marked

VARIABLES
  published,   \* rows there is something to tell about
  audience,    \* [Rows -> SUBSET Users]: active logins the row concerns
  marker,      \* marked rows whose column is set
  inApp,       \* [Rows -> [Users -> Nat]]: in-app rows written
  mail,        \* [Rows -> [Users -> Mail]]: e-mail rows, by status
  sweeping,
  deaths, throws

sweepVars == <<published, audience, marker, inApp, mail, sweeping, deaths, throws>>

Mail == [pending: Nat, failed: Nat, sent: Nat]

(* todo is what the pass selected; tell are those still to be told.        *)
Sweep ==
  [pass: {"none", "marked", "referenced"}, todo: Seq(Rows), row: Rows \cup {NoRow},
   at: {"next", "persist", "mail"}, tell: SUBSET Users, sending: Users \cup {NoUser}]

Resting ==
  [pass |-> "none", todo |-> <<>>, row |-> NoRow, at |-> "next", tell |-> {},
   sending |-> NoUser]

SweepTypeOK ==
  /\ published \subseteq Rows
  /\ audience \in [Rows -> SUBSET Users]
  /\ marker \subseteq Marked
  /\ inApp \in [Rows -> [Users -> Nat]]
  /\ mail \in [Rows -> [Users -> Mail]]
  /\ sweeping \in [Sweeps -> Sweep]
  /\ deaths \in Nat /\ throws \in Nat

SweepInit ==
  /\ published = {} /\ marker = {}
  /\ audience \in [Rows -> SUBSET Users]
  /\ inApp = [r \in Rows |-> [u \in Users |-> 0]]
  /\ mail = [r \in Rows |-> [u \in Users |-> [pending |-> 0, failed |-> 0, sent |-> 0]]]
  /\ sweeping = [d \in Sweeps |-> Resting]
  /\ deaths = 0 /\ throws = 0

Doing(d, held) == sweeping' = [sweeping EXCEPT ![d] = held]
Onward(d) ==
  Doing(d, [sweeping[d] EXCEPT !.row = NoRow, !.at = "next", !.tell = {}, !.sending = NoUser])

Notified(r) == \E u \in Users : inApp[r][u] > 0

-----------------------------------------------------------------------------
(* The world: rows are published, and logins are linked to them. *)
Publish(r) ==
  /\ r \notin published
  /\ published' = published \cup {r}
  /\ UNCHANGED <<audience, marker, inApp, mail, sweeping, deaths, throws>>

Link(r, u) ==
  /\ u \notin audience[r]
  /\ audience' = [audience EXCEPT ![r] = @ \cup {u}]
  /\ UNCHANGED <<published, marker, inApp, mail, sweeping, deaths, throws>>

-----------------------------------------------------------------------------
(* A pass. *)

(* ORDER BY and LIMIT: the first has none before it, and so on. *)
Earlier(r, rows) == {q \in rows : q < r}
OldestOf(rows) ==
  [n \in 1 .. (IF Limit < Cardinality(rows) THEN Limit ELSE Cardinality(rows)) |->
    CHOOSE r \in rows : Cardinality(Earlier(r, rows)) = n - 1]

(* Mutant: the limit is spent on rows already told about. *)
SelectedThenFiltered(pass) ==
  IF pass = "marked" THEN OldestOf((Marked \cap published) \ marker)
  ELSE SelectSeq(OldestOf({r \in Referenced \cap published : audience[r] # {}}),
                 LAMBDA r : ~Notified(r))

(* Mutant: what refers to a row is not looked for. *)
SelectedAgain(pass) ==
  OldestOf(IF pass = "marked" THEN (Marked \cap published) \ marker
           ELSE {r \in Referenced \cap published : audience[r] # {}})

(* The WHERE leaves out what was told, and what nobody could be told, so   *)
(* that the LIMIT is spent on the rest.                                    *)
Selected(pass) ==
  OldestOf(IF pass = "marked" THEN (Marked \cap published) \ marker
           ELSE {r \in Referenced \cap published : ~Notified(r) /\ audience[r] # {}})

BeginSweep(d) ==
  /\ sweeping[d].pass = "none"
  /\ Doing(d, [Resting EXCEPT !.pass = "marked", !.todo = Selected("marked")])
  /\ UNCHANGED <<published, audience, marker, inApp, mail, deaths, throws>>

NextPass(d) ==
  /\ sweeping[d].at = "next" /\ sweeping[d].todo = <<>>
  /\ \/ /\ sweeping[d].pass = "marked"
        /\ Doing(d, [Resting EXCEPT !.pass = "referenced", !.todo = Selected("referenced")])
     \/ /\ sweeping[d].pass = "referenced"
        /\ Doing(d, Resting)
  /\ UNCHANGED <<published, audience, marker, inApp, mail, deaths, throws>>

(* The audience is worked out; a referenced row without one is passed by.  *)
TakeRow(d) ==
  LET s == sweeping[d]
      r == Head(s.todo)
      rest == [s EXCEPT !.todo = Tail(@)]
  IN  /\ s.at = "next" /\ s.todo # <<>>
      /\ Doing(d, IF r \in Referenced /\ audience[r] = {} THEN rest
                  ELSE [rest EXCEPT !.row = r, !.at = "persist", !.tell = audience[r]])
      /\ UNCHANGED <<published, audience, marker, inApp, mail, deaths, throws>>

(* notify(): every in-app row in one bulkCreate ... *)
Persist(d) ==
  LET s == sweeping[d]
  IN  /\ s.at = "persist"
      /\ inApp' = [inApp EXCEPT ![s.row] = [u \in Users |->
                    IF u \in s.tell THEN @[u] + 1 ELSE @[u]]]
      /\ Doing(d, [s EXCEPT !.at = "mail"])
      /\ UNCHANGED <<published, audience, marker, mail, deaths, throws>>

(* ... then, for one after the other, an e-mail row born pending ... *)
CreateMail(d, u) ==
  LET s == sweeping[d]
  IN  /\ s.at = "mail" /\ s.sending = NoUser /\ u \in s.tell
      /\ mail' = [mail EXCEPT ![s.row][u].pending = @ + 1]
      /\ Doing(d, [s EXCEPT !.tell = @ \ {u}, !.sending = u])
      /\ UNCHANGED <<published, audience, marker, inApp, deaths, throws>>

Delivered(m, ok) ==
  IF ok THEN [m EXCEPT !.sent = @ + 1] ELSE [m EXCEPT !.failed = @ + 1]

(* Mutant: a failed delivery is not written to its row. *)
DeliverUnrecorded(d, ok) ==
  LET s == sweeping[d]
      m == mail[s.row][s.sending]
  IN  /\ s.sending # NoUser
      /\ mail' = IF ok THEN [mail EXCEPT ![s.row][s.sending] =
                               Delivered([m EXCEPT !.pending = @ - 1], ok)]
                 ELSE mail
      /\ Doing(d, [s EXCEPT !.sending = NoUser])
      /\ UNCHANGED <<published, audience, marker, inApp, deaths, throws>>

(* ... which deliver() turns into sent or failed. *)
DeliverMail(d, ok) ==
  LET s == sweeping[d]
      m == mail[s.row][s.sending]
  IN  /\ s.sending # NoUser
      /\ mail' = [mail EXCEPT ![s.row][s.sending] =
                   Delivered([m EXCEPT !.pending = @ - 1], ok)]
      /\ Doing(d, [s EXCEPT !.sending = NoUser])
      /\ UNCHANGED <<published, audience, marker, inApp, deaths, throws>>

(* Everyone has been told: a marked row is stamped, even if that was nobody. *)
Stamp(d) ==
  LET s == sweeping[d]
  IN  /\ s.at = "mail" /\ s.tell = {} /\ s.sending = NoUser
      /\ marker' = IF s.row \in Marked THEN marker \cup {s.row} ELSE marker
      /\ Onward(d)
      /\ UNCHANGED <<published, audience, inApp, mail, deaths, throws>>

(* A statement fails: the row is logged and the pass goes on. *)
RowFails(d) ==
  /\ throws < MaxThrows
  /\ sweeping[d].row # NoRow
  /\ throws' = throws + 1
  /\ Onward(d)
  /\ UNCHANGED <<published, audience, marker, inApp, mail, deaths>>

(* Processes die, and the sweeps in them. *)
Crash(ds) ==
  /\ deaths < MaxDeaths
  /\ deaths' = deaths + 1
  /\ sweeping' = [d \in Sweeps |-> IF d \in ds THEN Resting ELSE sweeping[d]]
  /\ UNCHANGED <<published, audience, marker, inApp, mail, throws>>

(* An administrator has a failed e-mail sent again. *)
RetryMail(r, u, ok) ==
  LET m == mail[r][u]
  IN  /\ m.failed > 0
      /\ mail' = [mail EXCEPT ![r][u] = Delivered([m EXCEPT !.failed = @ - 1], ok)]
      /\ UNCHANGED <<published, audience, marker, inApp, sweeping, deaths, throws>>

SweepWork(d) ==
  \/ BeginSweep(d) \/ NextPass(d) \/ TakeRow(d) \/ Persist(d) \/ Stamp(d)
  \/ \E u \in Users : CreateMail(d, u)
  \/ \E ok \in BOOLEAN : DeliverMail(d, ok)

SweepNext ==
  \/ \E r \in Rows : Publish(r)
  \/ \E r \in Rows, u \in Users : Link(r, u) \/ \E ok \in BOOLEAN : RetryMail(r, u, ok)
  \/ \E d \in Sweeps : SweepWork(d) \/ RowFails(d)
  \/ \E ds \in (SUBSET Sweeps) \ {{}} : Crash(ds)

SweepSpec == SweepInit /\ [][SweepNext]_sweepVars

(* The schedule fires and a sweep goes on. *)
SweepFairness == \A d \in Sweeps : WF_sweepVars(SweepWork(d))

-----------------------------------------------------------------------------
(* Properties. *)

(* Nobody is told the same thing for ever.  What refers to a row keeps it  *)
(* from being told twice whatever crashes, once per sweep that had already *)
(* selected it; what has a marker is told again for each sweep that ended  *)
(* between the telling and the marker.                                     *)
ToldAgain == Cardinality(Sweeps) * deaths + throws

RepeatsBounded ==
  \A r \in Rows, u \in Users :
    inApp[r][u] <= Cardinality(Sweeps) + (IF r \in Marked THEN ToldAgain ELSE 0)

(* Unless a sweep died or a statement failed, everyone with an in-app row  *)
(* has an e-mail row as well or is about to get one, and no e-mail row is  *)
(* left pending that nobody is sending.                                    *)
MailAccounted ==
  deaths + throws = 0 =>
    \A r \in Rows, u \in Users :
      LET m == mail[r][u]
          toMail == {d \in Sweeps : sweeping[d].row = r /\ sweeping[d].at = "mail" /\ u \in sweeping[d].tell}
          inHand == {d \in Sweeps : sweeping[d].row = r /\ sweeping[d].sending = u}
      IN  /\ m.pending = Cardinality(inHand)
          /\ inApp[r][u] = m.pending + m.failed + m.sent + Cardinality(toMail)

(* Every published row somebody could be told about is told or stamped in  *)
(* the end: no number of rows ahead of it keeps it out of the limit.       *)
Told(r) == IF r \in Marked THEN r \in marker ELSE Notified(r)
NoRowLeftBehind ==
  \A r \in Rows : []<>(r \in published /\ (r \in Marked \/ audience[r] # {}) => Told(r))
=============================================================================
