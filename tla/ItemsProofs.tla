---------------------------- MODULE ItemsProofs -----------------------------
(***************************************************************************)
(* Proofs about Items, for any commands, names, items and documents: what  *)
(* the errors, the reports and the exports of the commands say is true,    *)
(* what was given as a secret stays one, and each save is one operation on *)
(* a map of items.                                                         *)
(***************************************************************************)
EXTENDS ItemListProofs

-----------------------------------------------------------------------------
(* The inductive invariant                                                  *)

Early == {"new", "check", "file", "open", "unlock"}
Working == {"confirm", "save", "after", "print", "createplain", "writeplain", "create", "place",
            "fill"}

Results == {"none", "ok", "NotFound", "AlreadyExists", "Locked", "Format", "AuthCancelled",
            "Integrity", "Invalid", "Io", "Helper", "killed"}

(* A command.                                                               *)
Record ==
  [pc : Early \cup Working \cup {"ended"}, task : Tasks \cup {NoTask}, seen : Body, gen : Nat,
   doc : Seq(Item), report : Reports, printed : SUBSET Values, wrote : BOOLEAN,
   result : Results]

(* What Check has found to be in order.                                     *)
Admitted(t) ==
  /\ t.op = "add" => t.name \in Names
  /\ t.op = "mv" => t.new \in Names
  /\ t.op = "export" /\ t.plain => t.iKnow

(* Which commands come to a step, and what they have done by then.          *)
Steps(r) ==
  LET op == r.task.op
  IN  /\ r.pc # "new" => r.task \in Tasks
      /\ r.pc # "ended" => r.result = "none"
      /\ r.pc \in Early => r.gen = 0
      /\ r.pc \in Working \/ r.wrote => r.gen > 0
      /\ r.wrote => r.pc \in {"after", "ended"} /\ r.gen > 1
      /\ r.pc = "after" => r.wrote
      /\ r.pc \in Early \ {"new", "check"} \/ r.pc \in Working \/ r.wrote => Admitted(r.task)
      /\ r.pc = "confirm" => op = "rm"
      /\ r.pc \in {"save", "after"} => ~Reads(op)
      /\ r.pc \in {"createplain", "writeplain", "create", "place", "fill"} =>
           op = "export" /\ ~r.task.stdout
      /\ r.pc \in {"createplain", "writeplain"} => r.task.plain
      /\ r.pc \in {"create", "place", "fill"} => ~r.task.plain
      /\ r.pc = "print" => Reads(op) \/ (op = "export" /\ r.task.stdout)

(* What it has printed.                                                     *)
Prints(r) ==
  /\ (\E v \in r.printed : v.secret) => Requested(r.task)
  /\ r.printed # {} => r.task.op = "export" \/ (r.pc = "ended" /\ r.result = "ok")

(* What its error says.                                                     *)
Harmless == {"NotFound", "AlreadyExists", "Locked", "Format", "AuthCancelled", "Integrity",
             "Invalid"}

Errs(r) ==
  r.result \in Harmless /\ r.wrote => r.task.op = "add" /\ r.task.clip /\ r.task.form = "bytes"

(* The generation it has unlocked.                                          *)
Read(r) == IF r.wrote THEN r.gen - 1 ELSE r.gen

(* What it knows of the history l and has made of it.                       *)
Knows(c, r, l) ==
  /\ r.doc \in Docs \cup Range(l) \cup {<<>>}
  /\ r.gen <= Len(l)
  /\ r.gen > 0 => Read(r) \in DOMAIN l /\ r.seen = l[Read(r)]
  /\ r.pc \in Working \/ r.wrote =>
       /\ Problem(r, r.seen) = "ok"
       /\ r.task.op = "import" => r.report = Merge(r.seen, r.doc, r.task.mode).report
  /\ r.wrote => l[r.gen] = Edited(c, r)

(* It has made the export file f, or is about to, under the lock.           *)
Owner(r) ==
  /\ r.task.op = "export" /\ ~r.task.stdout
  /\ r.pc \in {"writeplain", "place", "fill", "save", "after"} \/ r.result = "ok"

OwnsPlain(r, f) ==
  \/ f.form = "encrypted"
  \/ r.pc = "writeplain" /\ f.form = "partial"
  \/ r.pc # "writeplain" /\ f.form = "plain" /\ f.items = r.seen

OwnsEncrypted(r, f) ==
  r.pc # "place" => f.form = "encrypted" /\ (r.pc # "fill" => f.items = r.seen)

Owns(r, f) ==
  Owner(r) => /\ r.gen > 0
              /\ r.task.plain => OwnsPlain(r, f)
              /\ ~r.task.plain => OwnsEncrypted(r, f)

(* There is one that makes a plaintext file and one that makes an encrypted *)
(* one.                                                                     *)
Rivals(r, s) == Owner(r) /\ Owner(s) /\ (r.task.plain <=> s.task.plain)

(* Going on as q, p takes no file that was not its own.                     *)
Keeps(q, p) == Owner(q) => Owner(p) /\ q.task = p.task

Sound(c, r, l, f) == Steps(r) /\ Prints(r) /\ Errs(r) /\ Knows(c, r, l) /\ Owns(r, f)

(* A secret of an item that was added is kept as one.                       *)
Clean(x) ==
  Added(x) => \A f \in DOMAIN x.fields :
    LET v == x.fields[f]
    IN  v.by = x.id => (v.typed => v.secret) /\ (f = Primary(x.kind) => v.typed)

HistoryInv ==
  /\ log \in Seq(Body) /\ gen \in Nat \ {0} /\ gen = Len(log) /\ items = log[gen]
  /\ \A g \in DOMAIN log : \A x \in Range(log[g]) :
       Clean(x) /\ (x.id \in Cmds => cmd[x.id].wrote)

FileInv ==
  /\ file = [form |-> file.form, items |-> file.items]
  /\ file.form \in {"absent", "partial", "plain", "encrypted"}
  /\ file.items \in Docs \cup Range(log) \cup {<<>>}

IInv ==
  /\ HistoryInv /\ FileInv
  /\ cmd \in [Cmds -> Record]
  /\ \A c \in Cmds : Sound(c, cmd[c], log, file)
  /\ \A c, d \in Cmds : Rivals(cmd[c], cmd[d]) => c = d

-----------------------------------------------------------------------------
(* Documents and the first item                                             *)

LEMMA GivenItems ==
  ASSUME NEW it, IsItem(it), it.id \in Origins
  PROVE  it \in Item
<1>1. /\ it = [id |-> it.id, name |-> it.name, kind |-> it.kind, fields |-> it.fields]
      /\ it.name \in AnyName /\ it.kind \in Kinds /\ it.id \in Givers
  BY DEF IsItem, Givers
<1>2. it.fields \in FieldMaps
  <2> DEFINE D == DOMAIN it.fields
  <2>1. it.fields = [f \in D |-> it.fields[f]] /\ D \in SUBSET FieldNames
    BY DEF IsItem
  <2>2. \A f \in D : it.fields[f] \in [by : Origins, form : Forms, typed : BOOLEAN,
                                       binary : BOOLEAN, secret : BOOLEAN]
    BY DEF IsItem
  <2>3. \A f \in D : it.fields[f] \in Values
    <3> HIDE DEF D
    <3> QED
      BY <2>2 DEF Values, Givers
  <2>4. it.fields \in [D -> Values]
    BY <2>1, <2>3
  <2> QED
    BY <2>1, <2>4 DEF FieldMaps
<1> QED
  BY <1>1, <1>2 DEF Item

LEMMA DocItems ==
  ASSUME NEW d \in Docs
  PROVE  /\ d \in Seq(Item)
         /\ \A x \in Range(d) : x \in Item /\ x.id \in DocIds /\ Clean(x) /\ x.id \notin Cmds
<1>1. d \in Seq(Range(d)) /\ \A i \in DOMAIN d : IsItem(d[i])
  BY ItemsConstants
<1>2. \A i \in DOMAIN d : d[i].id \in DocIds /\ d[i].id \in Origins
  BY DEF DocIds, Origins
<1>3. \A x \in Range(d) : x \in Item /\ x.id \in DocIds
  BY <1>1, <1>2, GivenItems DEF Range
<1>4. \A x \in Range(d) : Clean(x) /\ x.id \notin Cmds
  BY <1>3, ItemsConstants DEF Clean, Added, Origins
<1>5. d \in Seq(Item)
  <2>1. Range(d) \subseteq Item
    BY <1>3
  <2> QED
    BY <1>1, <2>1, SeqMonotonic
<1> QED
  BY <1>3, <1>4, <1>5

LEMMA FirstBody == FirstItem \in Item /\ <<FirstItem>> \in Body /\ <<>> \in Body
<1>1. FirstItem \in Item /\ FirstItem.name \in Names
  BY GivenItems, ItemsConstants DEF Origins
<1> QED
  BY <1>1 DEF Body

(* What can be imported is a list of items.                                 *)
LEMMA ContentsAreLists ==
  ASSUME NEW l \in Seq(Body), NEW d \in Docs \cup Range(l) \cup {<<>>}
  PROVE  d \in Seq(Item)
<1>1. \A b \in Range(l) : b \in Body
  BY DEF Range
<1>2. CASE d \in Docs
  BY <1>2, DocItems
<1>3. CASE d \in Range(l)
  BY <1>1, <1>3, BodyItems
<1>4. CASE d = <<>>
  BY <1>4
<1> QED
  BY <1>2, <1>3, <1>4

-----------------------------------------------------------------------------
(* Records of commands                                                      *)

LEMMA EndedRecord ==
  ASSUME NEW p \in Record, NEW e \in Results, NEW q, q = Ended(p, e)
  PROVE  /\ q \in Record /\ q.pc = "ended" /\ q.result = e /\ q.task = p.task
         /\ q.seen = p.seen /\ q.gen = p.gen /\ q.doc = p.doc /\ q.report = p.report
         /\ q.printed = p.printed /\ q.wrote = p.wrote
<1> QED
  BY DEF Record, Ended

LEMMA GotoRecord ==
  ASSUME NEW p \in Record, NEW step \in Early \cup Working, NEW q, q = Goto(p, step)
  PROVE  /\ q \in Record /\ q.pc = step /\ q.result = p.result /\ q.task = p.task
         /\ q.seen = p.seen /\ q.gen = p.gen /\ q.doc = p.doc /\ q.report = p.report
         /\ q.printed = p.printed /\ q.wrote = p.wrote
<1> QED
  BY DEF Record, Goto

LEMMA SameProblem ==
  ASSUME NEW p, NEW q, q.task = p.task, q.doc = p.doc
  PROVE  \A b : Problem(q, b) = Problem(p, b)
<1> QED
  BY DEF Problem

LEMMA SameEdit ==
  ASSUME NEW c, NEW p, NEW q, q.task = p.task, q.doc = p.doc, q.seen = p.seen
  PROVE  Edited(c, q) = Edited(c, p)
<1> QED
  BY DEF Edited

(* A command that has done no more than p knows what p knows.               *)
LEMMA SameKnows ==
  ASSUME NEW c, NEW l, NEW p \in Record, NEW q \in Record, Knows(c, p, l),
         q.task = p.task, q.doc = p.doc, q.seen = p.seen, q.gen = p.gen,
         q.report = p.report, q.wrote = p.wrote,
         q.pc \in Working \/ q.wrote => p.pc \in Working \/ p.wrote
  PROVE  Knows(c, q, l)
<1>1. Problem(q, q.seen) = Problem(p, p.seen) /\ Edited(c, q) = Edited(c, p)
      /\ Read(q) = Read(p)
  BY SameProblem, SameEdit DEF Read
<1> QED
  BY <1>1 DEF Knows

LEMMA EndedSound ==
  ASSUME NEW c, NEW l, NEW f, NEW p \in Record, Sound(c, p, l, f), p.pc \notin {"new", "ended"},
         NEW e \in Results, NEW q, q = Ended(p, e),
         e \in Harmless /\ p.wrote => p.task.op = "add" /\ p.task.clip /\ p.task.form = "bytes",
         p.task.op = "export" /\ ~p.task.stdout /\ e = "ok" => p.pc \in {"save", "after"}
  PROVE  q \in Record /\ Sound(c, q, l, f) /\ Keeps(q, p) /\ q.wrote = p.wrote
<1>1. /\ q \in Record /\ q.pc = "ended" /\ q.result = e /\ q.task = p.task
      /\ q.seen = p.seen /\ q.gen = p.gen /\ q.doc = p.doc /\ q.report = p.report
      /\ q.printed = p.printed /\ q.wrote = p.wrote
  BY EndedRecord
<1>2. Steps(p) /\ Prints(p) /\ Errs(p) /\ Knows(c, p, l) /\ Owns(p, f)
  BY DEF Sound
<1>3. Steps(q)
  BY <1>1, <1>2 DEF Steps, Early, Working
<1>4. Prints(q)
  BY <1>1, <1>2 DEF Prints
<1>5. Errs(q)
  BY <1>1 DEF Errs
<1>6. Knows(c, q, l)
  BY <1>1, <1>2, SameKnows DEF Working
<1>7. Owner(q) => Owner(p) /\ p.pc \in {"save", "after", "ended"}
  BY <1>1, <1>2 DEF Owner, Steps, Working
<1>8. Owns(q, f)
  BY <1>1, <1>2, <1>7 DEF Owns, OwnsPlain, OwnsEncrypted
<1> QED
  BY <1>1, <1>3, <1>4, <1>5, <1>6, <1>7, <1>8 DEF Sound, Keeps

(* Whoever makes the file stays the only one.                               *)
LEMMA StillOne ==
  ASSUME \A c, d \in Cmds : Rivals(cmd[c], cmd[d]) => c = d,
         \A d \in Cmds : Keeps(cmd'[d], cmd[d])
  PROVE  \A c, d \in Cmds : Rivals(cmd'[c], cmd'[d]) => c = d
<1> QED
  BY DEF Rivals, Keeps

(* A step of one command that changes nothing else.                         *)
LEMMA Becomes ==
  ASSUME IInv, NEW c \in Cmds, NEW q, Become(c, q), UNCHANGED <<items, gen, file, log>>,
         q \in Record, Sound(c, q, log, file), Keeps(q, cmd[c]),
         q.wrote = cmd[c].wrote
  PROVE  IInv'
<1>1. /\ cmd' \in [Cmds -> Record] /\ cmd'[c] = q
      /\ \A d \in Cmds \ {c} : cmd'[d] = cmd[d]
  BY DEF Become, IInv
<1>2. \A d \in Cmds : cmd'[d].wrote = cmd[d].wrote
  BY <1>1
<1>3. \A d \in Cmds : Keeps(cmd'[d], cmd[d])
  BY <1>1 DEF Keeps
<1>4. HistoryInv'
  BY <1>2 DEF IInv, HistoryInv
<1>5. FileInv'
  BY DEF IInv, FileInv
<1>6. \A d \in Cmds : Sound(d, cmd'[d], log, file)
  BY <1>1 DEF IInv
<1>7. \A d \in Cmds : Sound(d, cmd[d], log, file)'
  BY <1>6
<1>8. \A d, e \in Cmds : Rivals(cmd[d], cmd[e]) => d = e
  BY DEF IInv
<1>9. \A d, e \in Cmds : Rivals(cmd'[d], cmd'[e]) => d = e
  BY <1>3, <1>8, StillOne
<1> QED
  BY <1>1, <1>4, <1>5, <1>7, <1>9 DEF IInv

LEMMA IdleRecord == Idle \in Record
<1>1. NoReport \in Reports /\ <<>> \in Body /\ <<>> \in Seq(Item) /\ "new" \in Early
  BY FirstBody DEF NoReport, Reports, Early
<1>2. /\ {} \in SUBSET Values /\ NoTask \in Tasks \cup {NoTask}
      /\ "new" \in Early \cup Working \cup {"ended"}
  BY <1>1, Zenon
<1>3. \A e \in Seq(Item), b \in Body, t \in Tasks \cup {NoTask}, s \in SUBSET Values,
         m \in Reports :
        [pc |-> "new", task |-> t, seen |-> b, gen |-> 0, doc |-> e,
         report |-> m, printed |-> s, wrote |-> FALSE, result |-> "none"] \in Record
  BY <1>2 DEF Record, Results
<1> QED
  BY <1>1, <1>2, <1>3, Zenon DEF Idle

LEMMA InitInv == Init => IInv
<1> SUFFICES ASSUME Init  PROVE IInv
  OBVIOUS
<1>1. Idle \in Record
  BY IdleRecord
<1>2. log = <<items>> /\ items = <<FirstItem>> /\ gen = 1 /\ cmd = [c \in Cmds |-> Idle]
  BY DEF Init
<1>3. HistoryInv
  <2>1. log \in Seq(Body) /\ Len(log) = 1 /\ log[1] = items /\ DOMAIN log = {1}
    BY <1>2, FirstBody
  <2>2. Range(items) = {FirstItem}
    BY <1>2 DEF Range
  <2>3. Clean(FirstItem) /\ FirstItem.id \notin Cmds
    BY ItemsConstants DEF Clean, Origins
  <2> QED
    BY <1>2, <2>1, <2>2, <2>3 DEF HistoryInv
<1>4. FileInv
  <2>1. items \in Range(log)
    BY <1>2 DEF Range
  <2> QED
    BY <2>1 DEF FileInv, Init
<1>5. ~Owner(Idle) /\ \A c : Sound(c, Idle, log, file)
  BY <1>2 DEF Sound, Steps, Prints, Errs, Knows, Owns, Owner, Idle, NoTask, Early, Working,
     Harmless, Reads
<1> QED
  BY <1>1, <1>2, <1>3, <1>4, <1>5 DEF IInv, Rivals

-----------------------------------------------------------------------------
(* Steps before the vault is unlocked                                       *)

LEMMA TaskParts ==
  ASSUME NEW t \in Tasks
  PROVE  /\ t.op = "add" => /\ t.name \in AnyName /\ t.kind \in Kinds \cup {"auto"}
                            /\ t.form \in Forms /\ t.extra \in SUBSET FieldNames
         /\ t.op = "set" => /\ t.name \in AnyName /\ t.field \in FieldNames \cup {"primary"}
                            /\ t.public \in BOOLEAN /\ t.form \in Forms
         /\ t.op = "rm" => t.names \in Seq(AnyName)
         /\ t.op = "mv" => t.name \in AnyName /\ t.new \in AnyName
         /\ t.op = "get" => t.names \in Seq(AnyName) /\ t.field \in FieldNames \cup {"primary"}
         /\ t.op = "show" => t.reveal \in BOOLEAN
         /\ t.op = "import" => t.mode \in Modes
         /\ t.op = "export" => (t.stdout => t.plain)
         /\ t.op \in {"add", "set", "rm", "mv", "get", "show", "ls", "import", "export"}
<1>1. t \in Task
  BY ItemsConstants
<1>2. CASE t.op = "export"
  BY <1>1, <1>2 DEF Task
<1>3. CASE t.op # "export"
  BY <1>1, <1>3 DEF Task, Modes
<1> QED
  BY <1>2, <1>3

LEMMA StartStep ==
  ASSUME IInv, NEW c \in Cmds, Start(c)
  PROVE  IInv'
<1>1. PICK t \in Tasks : Become(c, [Idle EXCEPT !.task = t, !.pc = "check"])
  BY DEF Start
<1> DEFINE q == [Idle EXCEPT !.task = t, !.pc = "check"]
<1>2. /\ q \in Record /\ q.pc = "check" /\ q.task = t /\ q.seen = <<>> /\ q.gen = 0
      /\ q.doc = <<>> /\ q.printed = {} /\ ~q.wrote /\ q.result = "none"
  <2>1. Idle \in Record
    BY IdleRecord
  <2> QED
    BY <2>1 DEF Record, Idle, Early
<1>3. UNCHANGED <<items, gen, file, log>> /\ Become(c, q)
  BY <1>1 DEF Start
<1> HIDE DEF q
<1>4. cmd[c].pc = "new" /\ cmd[c] \in Record /\ Steps(cmd[c])
  BY DEF Start, At, IInv, Sound
<1>5. q.wrote = cmd[c].wrote
  BY <1>2, <1>4 DEF Steps, Record
<1>6. ~Owner(q) /\ Steps(q) /\ Prints(q) /\ Errs(q)
  BY <1>2 DEF Owner, Steps, Prints, Errs, Early, Working
<1>7. Knows(c, q, log)
  BY <1>2 DEF Knows, IInv, HistoryInv, Working
<1> QED
  BY <1>2, <1>3, <1>5, <1>6, <1>7, Becomes DEF Sound, Owns, Keeps

(* A command that goes on before it has unlocked the vault.                 *)
LEMMA EarlySound ==
  ASSUME NEW c, NEW l, NEW f, NEW p \in Record, Sound(c, p, l, f),
         p.pc \in Early \ {"new"}, NEW q \in Record, q.task = p.task, q.gen = p.gen,
         q.printed = p.printed, q.wrote = p.wrote, q.result = p.result,
         q.pc \in Early \ {"new", "check"}, Admitted(p.task),
         q.doc \in Docs \cup Range(l) \cup {<<>>}
  PROVE  Sound(c, q, l, f) /\ ~Owner(q)
<1>1. Steps(p) /\ Prints(p) /\ Knows(c, p, l)
  BY DEF Sound
<1>2. ~q.wrote /\ q.result = "none" /\ q.gen = 0
  BY <1>1 DEF Steps, Early, Record
<1>3. ~Owner(q) /\ Steps(q) /\ Prints(q) /\ Errs(q)
  BY <1>1, <1>2 DEF Owner, Steps, Prints, Errs, Early, Working
<1>4. Knows(c, q, l)
  BY <1>1, <1>2 DEF Knows, Early, Working
<1> QED
  BY <1>3, <1>4 DEF Sound, Owns

LEMMA AdmittedBy ==
  ASSUME NEW t \in Tasks, Refused(t) = "ok"
  PROVE  Admitted(t)
<1>1. /\ t.op = "add" => t.name # BadName
      /\ t.op = "mv" => t.new # BadName
      /\ t.op = "export" /\ t.plain => t.iKnow
  BY DEF Refused
<1> QED
  BY <1>1, TaskParts DEF Admitted, AnyName

LEMMA CheckStep ==
  ASSUME IInv, NEW c \in Cmds, Check(c)
  PROVE  IInv'
<1> DEFINE p == cmd[c]
           e == Refused(p.task)
<1>1. /\ p \in Record /\ p.pc = "check" /\ Sound(c, p, log, file)
      /\ UNCHANGED <<items, gen, file, log>>
  BY DEF Check, At, IInv
<1>2. p.task \in Tasks /\ ~p.wrote
  BY <1>1 DEF Sound, Steps, Record
<1>3. e \in Results
  BY DEF Refused, Results
<1>4. ASSUME NEW r \in Harmless, Become(c, Ended(p, r))
      PROVE  IInv'
  <2>1. r \in Results /\ r # "ok"
    BY DEF Harmless, Results
  <2> HIDE DEF p
  <2>2. /\ Ended(p, r) \in Record /\ Sound(c, Ended(p, r), log, file)
        /\ Keeps(Ended(p, r), p) /\ Ended(p, r).wrote = p.wrote
    BY <1>1, <1>2, <2>1, EndedSound
  <2> QED
    BY <1>1, <1>4, <2>2, Becomes DEF Keeps, p
<1>5. ASSUME NEW step \in {"file", "unlock"}, e = "ok", Become(c, Goto(p, step))
      PROVE  IInv'
  <2>1. Admitted(p.task)
    BY <1>2, <1>5, AdmittedBy
  <2>2. step \in Early \cup Working
    BY DEF Early
  <2> HIDE DEF p, e
  <2> DEFINE q == Goto(p, step)
  <2>3. /\ q \in Record /\ q.pc = step /\ q.result = p.result /\ q.task = p.task
        /\ q.seen = p.seen /\ q.gen = p.gen /\ q.doc = p.doc /\ q.report = p.report
        /\ q.printed = p.printed /\ q.wrote = p.wrote
    BY <1>1, <2>2, GotoRecord
  <2> HIDE DEF q
  <2>4. q.doc \in Docs \cup Range(log) \cup {<<>>}
    BY <1>1, <2>3 DEF Sound, Knows
  <2>5. Sound(c, q, log, file) /\ ~Owner(q)
    BY <1>1, <2>1, <2>3, <2>4, EarlySound DEF Early
  <2> QED
    BY <1>1, <1>5, <2>3, <2>5, Becomes DEF Keeps, p, q
<1>6. e = "ok" \/ e \in Harmless
  BY DEF Refused, Harmless
<1>7. "Invalid" \in Harmless
  BY DEF Harmless
<1>8. \/ \E r \in Harmless : Become(c, Ended(p, r))
      \/ e = "ok" /\ \E step \in {"file", "unlock"} : Become(c, Goto(p, step))
  BY <1>6, <1>7 DEF Check
<1> HIDE DEF e
<1> QED
  BY <1>4, <1>5, <1>8

LEMMA FileForms == IInv => file.form \in {"absent", "partial", "plain", "encrypted"}
<1> QED
  BY DEF IInv, FileInv

LEMMA ReadFileStep ==
  ASSUME IInv, NEW c \in Cmds, ReadFile(c)
  PROVE  IInv'
<1> DEFINE p == cmd[c]
<1>1. /\ p \in Record /\ p.pc = "file" /\ Sound(c, p, log, file)
      /\ UNCHANGED <<items, gen, file, log>>
  BY DEF ReadFile, At, IInv
<1>2. p.task \in Tasks /\ ~p.wrote /\ Admitted(p.task)
  BY <1>1 DEF Sound, Steps, Record, Early
<1>3. \/ \E e \in {"Io", "Format"} : Become(c, Ended(p, e))
      \/ Become(c, [p EXCEPT !.doc = file.items, !.pc = "unlock"])
      \/ Become(c, Goto(p, "open"))
  BY FileForms DEF ReadFile
<1>4. file.items \in Docs \cup Range(log) \cup {<<>>} /\ log \in Seq(Body)
  BY DEF IInv, FileInv, HistoryInv
<1>5. file.items \in Seq(Item)
  BY <1>4, ContentsAreLists
<1>6. ASSUME NEW e \in {"Io", "Format"}, Become(c, Ended(p, e))
      PROVE  IInv'
  <2>1. e \in Results /\ e # "ok"
    BY DEF Results
  <2> HIDE DEF p
  <2>2. /\ Ended(p, e) \in Record /\ Sound(c, Ended(p, e), log, file)
        /\ Keeps(Ended(p, e), p) /\ Ended(p, e).wrote = p.wrote
    BY <1>1, <1>2, <2>1, EndedSound
  <2> QED
    BY <1>1, <1>6, <2>2, Becomes DEF Keeps, p
<1>7. ASSUME NEW q, Become(c, q), q \in {[p EXCEPT !.doc = file.items, !.pc = "unlock"],
                                         Goto(p, "open")}
      PROVE  IInv'
  <2>1. /\ q \in Record /\ q.task = p.task /\ q.gen = p.gen /\ q.printed = p.printed
        /\ q.wrote = p.wrote /\ q.result = p.result /\ q.pc \in Early \ {"new", "check"}
        /\ q.doc \in {p.doc, file.items}
    <3> HIDE DEF p
    <3> QED
      BY <1>1, <1>5, <1>7 DEF Record, Goto, Early
  <2>2. q.doc \in Docs \cup Range(log) \cup {<<>>}
    BY <1>1, <1>4, <2>1 DEF Sound, Knows
  <2>3. Sound(c, q, log, file) /\ ~Owner(q)
    <3> HIDE DEF p
    <3> QED
      BY <1>1, <1>2, <2>1, <2>2, EarlySound DEF Early
  <2> QED
    BY <1>1, <1>7, <2>1, <2>3, Becomes DEF Keeps
<1> QED
  BY <1>3, <1>6, <1>7

LEMMA OpenExportStep ==
  ASSUME IInv, NEW c \in Cmds, OpenExport(c)
  PROVE  IInv'
<1> DEFINE p == cmd[c]
           q == [p EXCEPT !.doc = file.items, !.pc = "unlock"]
<1>1. /\ p \in Record /\ p.pc = "open" /\ Sound(c, p, log, file)
      /\ UNCHANGED <<items, gen, file, log>>
  BY DEF OpenExport, At, IInv
<1>2. p.task \in Tasks /\ ~p.wrote /\ Admitted(p.task)
  BY <1>1 DEF Sound, Steps, Record, Early
<1>3. Become(c, Ended(p, "Integrity")) \/ Become(c, q)
  BY DEF OpenExport
<1>4. file.items \in Docs \cup Range(log) \cup {<<>>} /\ log \in Seq(Body)
  BY DEF IInv, FileInv, HistoryInv
<1>5. file.items \in Seq(Item)
  BY <1>4, ContentsAreLists
<1>6. CASE Become(c, Ended(p, "Integrity"))
  <2> HIDE DEF p
  <2>1. /\ Ended(p, "Integrity") \in Record /\ Sound(c, Ended(p, "Integrity"), log, file)
        /\ Keeps(Ended(p, "Integrity"), p) /\ Ended(p, "Integrity").wrote = p.wrote
    BY <1>1, <1>2, EndedSound DEF Results
  <2> QED
    BY <1>1, <1>6, <2>1, Becomes DEF Keeps, p
<1>7. CASE Become(c, q)
  <2>1. /\ q \in Record /\ q.task = p.task /\ q.gen = p.gen /\ q.printed = p.printed
        /\ q.wrote = p.wrote /\ q.result = p.result /\ q.pc \in Early \ {"new", "check"}
        /\ q.doc = file.items
    <3> HIDE DEF p
    <3> QED
      BY <1>1, <1>5 DEF Record, Early
  <2> HIDE DEF p, q
  <2>2. Sound(c, q, log, file) /\ ~Owner(q)
    BY <1>1, <1>2, <1>4, <2>1, EarlySound DEF Early
  <2> QED
    BY <1>1, <1>7, <2>1, <2>2, Becomes DEF Keeps, p
<1> QED
  BY <1>3, <1>6, <1>7

-----------------------------------------------------------------------------
(* Unlocking                                                                *)

(* The body that is saved is there before the save.                         *)
LEMMA MergeReports ==
  ASSUME NEW b \in Body, NEW r, r.task.op = "import", r.task.mode \in Modes,
         r.doc \in Seq(Item), Problem(r, b) = "ok"
  PROVE  /\ BadName \notin NamesOf(r.doc)
         /\ Merge(b, r.doc, r.task.mode).report \in Reports
         /\ Merge(b, r.doc, r.task.mode).body \in Body
<1>1. BadName \notin NamesOf(r.doc)
  BY DEF Problem
<1>2. Gathered(Merge(b, r.doc, r.task.mode), Base(b, r.task.mode), r.doc, Len(r.doc),
               r.task.mode)
  BY <1>1, MergeGathers
<1> QED
  BY <1>1, <1>2 DEF Gathered

LEMMA LoadStep ==
  ASSUME IInv, NEW c \in Cmds, Load(c)
  PROVE  IInv'
<1> DEFINE p == cmd[c]
           r == [p EXCEPT !.seen = items, !.gen = gen]
           e == Problem(r, items)
           m == Merge(items, r.doc, r.task.mode).report
           q == [r EXCEPT !.pc = AfterUnlock(r.task),
                          !.report = IF r.task.op = "import" THEN m ELSE @]
<1>1. /\ p \in Record /\ p.pc = "unlock" /\ Sound(c, p, log, file)
      /\ UNCHANGED <<items, gen, file, log>>
  BY DEF Load, At, IInv
<1>2. p.task \in Tasks /\ ~p.wrote /\ Admitted(p.task) /\ p.result = "none"
  BY <1>1 DEF Sound, Steps, Record, Early
<1>3. Prints(p) /\ p.doc \in Docs \cup Range(log) \cup {<<>>}
  BY <1>1 DEF Sound, Knows
<1>4. /\ log \in Seq(Body) /\ gen \in Nat /\ gen > 0 /\ gen = Len(log) /\ gen \in DOMAIN log
      /\ items = log[gen] /\ items \in Body
  BY DEF IInv, HistoryInv
<1>5. \/ Become(c, Ended(p, "AuthCancelled"))
      \/ e # "ok" /\ Become(c, Ended(r, e))
      \/ e = "ok" /\ Become(c, q)
  BY DEF Load
<1>6. /\ r \in Record /\ r.pc = "unlock" /\ r.seen = items /\ r.gen = gen
      /\ r.task = p.task /\ r.doc = p.doc /\ r.report = p.report /\ r.printed = p.printed
      /\ ~r.wrote /\ r.result = "none"
  <2> HIDE DEF p
  <2> QED
    BY <1>1, <1>2, <1>4 DEF Record
<1> HIDE DEF p, r
<1>7. CASE Become(c, Ended(p, "AuthCancelled"))
  <2>1. /\ Ended(p, "AuthCancelled") \in Record /\ Sound(c, Ended(p, "AuthCancelled"), log, file)
        /\ Keeps(Ended(p, "AuthCancelled"), p)
        /\ Ended(p, "AuthCancelled").wrote = p.wrote
    BY <1>1, <1>2, EndedSound DEF Results
  <2> QED
    BY <1>1, <1>7, <2>1, Becomes DEF Keeps, p
<1>8. CASE e # "ok" /\ Become(c, Ended(r, e))
  <2> DEFINE s == Ended(r, e)
  <2>1. e \in Results
    BY DEF Problem, Results
  <2> HIDE DEF e
  <2>2. /\ s \in Record /\ s.pc = "ended" /\ s.result = e /\ s.task = p.task
        /\ s.seen = items /\ s.gen = gen /\ s.doc = p.doc /\ s.printed = p.printed /\ ~s.wrote
    BY <1>6, <2>1, EndedRecord
  <2> HIDE DEF s
  <2>3. ~Owner(s) /\ Steps(s) /\ Errs(s) /\ Prints(s)
    BY <1>1, <1>2, <1>3, <1>4, <1>8, <2>2 DEF Owner, Steps, Errs, Prints, Early, Working
  <2>4. Knows(c, s, log)
    BY <1>3, <1>4, <2>2 DEF Knows, Read, Working
  <2>5. s.wrote = p.wrote
    BY <1>1, <1>2, <2>2 DEF Record
  <2> QED
    BY <1>1, <1>8, <2>2, <2>3, <2>4, <2>5, Becomes DEF Sound, Owns, Keeps, p, s
<1>9. CASE e = "ok" /\ Become(c, q)
  <2>1. p.task.op = "import" => m \in Reports
    <3>1. p.doc \in Seq(Item)
      BY <1>3, <1>4, ContentsAreLists
    <3>2. p.task.op = "import" => p.task.mode \in Modes
      BY <1>2, TaskParts
    <3> QED
      BY <1>4, <1>6, <1>9, <3>1, <3>2, MergeReports
  <2>2. /\ AfterUnlock(p.task) \in Working \ {"after", "writeplain", "place", "fill"}
        /\ AfterUnlock(p.task) = "confirm" => p.task.op = "rm"
        /\ AfterUnlock(p.task) = "save" => ~Reads(p.task.op) /\ p.task.op # "export"
        /\ AfterUnlock(p.task) \in {"createplain", "create"} =>
             p.task.op = "export" /\ ~p.task.stdout
        /\ AfterUnlock(p.task) = "createplain" => p.task.plain
        /\ AfterUnlock(p.task) = "create" => ~p.task.plain
        /\ AfterUnlock(p.task) = "print" =>
             Reads(p.task.op) \/ (p.task.op = "export" /\ p.task.stdout)
    BY DEF AfterUnlock, Working, Reads
  <2> HIDE DEF m
  <2>3. /\ q \in Record /\ q.pc = AfterUnlock(p.task) /\ q.result = "none" /\ q.task = p.task
        /\ q.seen = items /\ q.gen = gen /\ q.doc = p.doc /\ q.printed = p.printed /\ ~q.wrote
        /\ p.task.op = "import" => q.report = m
    BY <1>6, <2>1, <2>2 DEF Record
  <2> HIDE DEF e, q
  <2>4. Problem(q, items) = "ok"
    BY <1>6, <1>9, <2>3, SameProblem DEF e
  <2>5. ~Owner(q) /\ Steps(q) /\ Errs(q) /\ Prints(q)
    BY <1>1, <1>2, <1>3, <1>4, <2>2, <2>3 DEF Owner, Steps, Errs, Prints, Early, Working, Harmless
  <2>6. Knows(c, q, log)
    BY <1>3, <1>4, <1>6, <2>3, <2>4 DEF Knows, Read, m
  <2>7. q.wrote = p.wrote
    BY <1>1, <1>2, <2>3 DEF Record
  <2> QED
    BY <1>1, <1>9, <2>3, <2>5, <2>6, <2>7, Becomes DEF Sound, Owns, Keeps, p
<1> QED
  BY <1>5, <1>7, <1>8, <1>9

(* A command at work goes on with what it has.                              *)
LEMMA WorkingSound ==
  ASSUME NEW c, NEW l, NEW f, NEW p \in Record, Sound(c, p, l, f), p.pc \in Working,
         NEW q \in Record, q.task = p.task, q.doc = p.doc, q.seen = p.seen, q.gen = p.gen,
         q.report = p.report, q.wrote = p.wrote, Steps(q), Prints(q), Errs(q), Owns(q, f)
  PROVE  Sound(c, q, l, f)
<1>1. Knows(c, q, l)
  BY SameKnows DEF Sound
<1> QED
  BY <1>1 DEF Sound

LEMMA ConfirmStep ==
  ASSUME IInv, NEW c \in Cmds, Confirm(c)
  PROVE  IInv'
<1> DEFINE p == cmd[c]
           q == Goto(p, "save")
<1>1. /\ p \in Record /\ p.pc = "confirm" /\ Sound(c, p, log, file)
      /\ UNCHANGED <<items, gen, file, log>>
  BY DEF Confirm, At, IInv
<1>2. /\ p.task \in Tasks /\ ~p.wrote /\ Admitted(p.task) /\ p.result = "none"
      /\ p.task.op = "rm" /\ p.gen > 0 /\ Prints(p)
  BY <1>1 DEF Sound, Steps, Record, Working
<1>3. Become(c, q) \/ Become(c, Ended(p, "Invalid"))
  BY DEF Confirm
<1> HIDE DEF p
<1>4. CASE Become(c, Ended(p, "Invalid"))
  <2>1. /\ Ended(p, "Invalid") \in Record /\ Sound(c, Ended(p, "Invalid"), log, file)
        /\ Keeps(Ended(p, "Invalid"), p) /\ Ended(p, "Invalid").wrote = p.wrote
    BY <1>1, <1>2, EndedSound DEF Results
  <2> QED
    BY <1>1, <1>4, <2>1, Becomes DEF Keeps, p
<1>5. CASE Become(c, q)
  <2>1. /\ q \in Record /\ q.pc = "save" /\ q.result = p.result /\ q.task = p.task
        /\ q.seen = p.seen /\ q.gen = p.gen /\ q.doc = p.doc /\ q.report = p.report
        /\ q.printed = p.printed /\ q.wrote = p.wrote
    BY <1>1, GotoRecord DEF Working
  <2> HIDE DEF q
  <2>2. ~Owner(q) /\ Steps(q) /\ Prints(q) /\ Errs(q)
    BY <1>1, <1>2, <2>1 DEF Owner, Steps, Prints, Errs, Early, Working, Reads
  <2>3. Sound(c, q, log, file)
    BY <1>1, <2>1, <2>2, WorkingSound DEF Owns, Working
  <2> QED
    BY <1>1, <1>5, <2>1, <2>2, <2>3, Becomes DEF Keeps, p
<1> QED
  BY <1>3, <1>4, <1>5

-----------------------------------------------------------------------------
(* Answers                                                                  *)

(* A command that ends here, whatever else it may do.                       *)
LEMMA EndStep ==
  ASSUME IInv, NEW c \in Cmds, cmd[c].pc \notin {"new", "ended"}, NEW e \in Results,
         Become(c, Ended(cmd[c], e)), UNCHANGED <<items, gen, file, log>>,
         e \in Harmless /\ cmd[c].wrote =>
           cmd[c].task.op = "add" /\ cmd[c].task.clip /\ cmd[c].task.form = "bytes",
         cmd[c].task.op = "export" /\ ~cmd[c].task.stdout /\ e = "ok" =>
           cmd[c].pc \in {"save", "after"}
  PROVE  IInv'
<1> DEFINE p == cmd[c]
           q == Ended(p, e)
<1>1. p \in Record /\ Sound(c, p, log, file)
  BY DEF IInv
<1>2. q \in Record /\ Sound(c, q, log, file) /\ Keeps(q, p) /\ q.wrote = p.wrote
  <2>1. /\ p.pc \notin {"new", "ended"}
        /\ e \in Harmless /\ p.wrote => p.task.op = "add" /\ p.task.clip /\ p.task.form = "bytes"
        /\ p.task.op = "export" /\ ~p.task.stdout /\ e = "ok" => p.pc \in {"save", "after"}
    OBVIOUS
  <2> HIDE DEF p
  <2> QED
    BY <1>1, <2>1, EndedSound
<1>3. Become(c, q)
  OBVIOUS
<1> HIDE DEF q
<1> QED
  BY <1>2, <1>3, Becomes

(* A command that ends well and has printed the values s in the end.        *)
LEMMA AnswerStep ==
  ASSUME IInv, NEW c \in Cmds, cmd[c].pc \in {"after", "print"},
         cmd[c].pc = "print" => Reads(cmd[c].task.op),
         NEW s \in SUBSET Values, (\E v \in s : v.secret) => Requested(cmd[c].task),
         Become(c, [Ended(cmd[c], "ok") EXCEPT !.printed = s]),
         UNCHANGED <<items, gen, file, log>>
  PROVE  IInv'
<1> DEFINE p == cmd[c]
           e == Ended(p, "ok")
           q == [e EXCEPT !.printed = s]
<1>1. /\ p \in Record /\ Sound(c, p, log, file) /\ p.pc \in {"after", "print"}
      /\ (p.pc = "print" => Reads(p.task.op)) /\ ((\E v \in s : v.secret) => Requested(p.task))
  BY DEF IInv
<1>2. Become(c, q)
  OBVIOUS
<1>3. p.task.op = "export" /\ ~p.task.stdout => p.pc = "after"
  BY <1>1 DEF Reads
<1> HIDE DEF p
<1>4. e \in Record /\ Sound(c, e, log, file) /\ Keeps(e, p) /\ e.wrote = p.wrote
  BY <1>1, <1>3, EndedSound DEF Results, Harmless
<1>5. e.task = p.task /\ e.pc = "ended" /\ e.result = "ok"
  BY <1>1, EndedRecord DEF Results
<1> HIDE DEF e
<1>6. /\ q \in Record /\ q.printed = s /\ q.pc = e.pc /\ q.task = e.task /\ q.seen = e.seen
      /\ q.gen = e.gen /\ q.doc = e.doc /\ q.report = e.report /\ q.wrote = e.wrote
      /\ q.result = e.result
  BY <1>4 DEF Record
<1> HIDE DEF q
<1>7. Prints(q)
  BY <1>1, <1>5, <1>6 DEF Prints
<1>8. Steps(q) /\ Errs(q) /\ Owns(q, file) /\ Keeps(q, e)
  BY <1>4, <1>6 DEF Sound, Steps, Errs, Owns, OwnsPlain, OwnsEncrypted, Owner, Keeps
<1>9. Knows(c, q, log)
  BY <1>4, <1>6, SameKnows DEF Sound
<1> QED
  BY <1>2, <1>4, <1>6, <1>7, <1>8, <1>9, Becomes DEF Sound, Keeps, p

LEMMA SaveLockedStep ==
  ASSUME IInv, NEW c \in Cmds, SaveLocked(c)
  PROVE  IInv'
<1>1. /\ cmd[c] \in Record /\ cmd[c].pc = "save" /\ Steps(cmd[c])
      /\ UNCHANGED <<items, gen, file, log>>
      /\ \E e \in {"ok", "Locked"} : Become(c, Ended(cmd[c], e))
  BY DEF SaveLocked, SaveRefused, At, IInv, Sound
<1>2. ~cmd[c].wrote
  BY <1>1 DEF Steps
<1> QED
  BY <1>1, <1>2, EndStep DEF Results

LEMMA SaveFailsStep ==
  ASSUME IInv, NEW c \in Cmds, SaveFails(c)
  PROVE  IInv'
<1>1. /\ cmd[c] \in Record /\ cmd[c].pc = "save" /\ Steps(cmd[c])
      /\ UNCHANGED <<items, gen, file, log>>
      /\ \E e \in {"ok", "Locked", "Io"} : Become(c, Ended(cmd[c], e))
  BY DEF SaveFails, SaveRefused, At, IInv, Sound
<1>2. ~cmd[c].wrote
  BY <1>1 DEF Steps
<1> QED
  BY <1>1, <1>2, EndStep DEF Results

LEMMA KillStep ==
  ASSUME IInv, NEW c \in Cmds, Kill(c)
  PROVE  IInv'
<1>1. /\ cmd[c].pc \notin {"new", "ended"} /\ Become(c, Ended(cmd[c], "killed"))
      /\ UNCHANGED <<items, gen, file, log>>
  BY DEF Kill
<1> QED
  BY <1>1, EndStep DEF Results, Harmless

LEMMA AfterStep ==
  ASSUME IInv, NEW c \in Cmds, After(c)
  PROVE  IInv'
<1> DEFINE p == cmd[c]
           t == p.task
           copies == t.op = "add" /\ t.clip
           shows == t.op = "add" /\ t.origin = "generated" /\ ~t.clip
           s == p.printed \cup IF shows THEN {Stored(c, t.form, FALSE, TRUE)} ELSE {}
<1>1. /\ p \in Record /\ p.pc = "after" /\ Sound(c, p, log, file)
      /\ UNCHANGED <<items, gen, file, log>>
  BY DEF After, At, IInv
<1>2. t \in Tasks /\ Prints(p)
  BY <1>1 DEF Sound, Steps
<1>3. \/ Become(c, [Ended(p, "ok") EXCEPT !.printed = @ \cup
                      IF shows THEN {Stored(c, t.form, FALSE, TRUE)} ELSE {}])
      \/ copies /\ t.form = "bytes" /\ Become(c, Ended(p, "Invalid"))
      \/ copies /\ t.form # "bytes" /\ Become(c, Ended(p, NoClipboard))
  BY DEF After
<1>4. CASE copies /\ t.form = "bytes" /\ Become(c, Ended(p, "Invalid"))
  BY <1>1, <1>4, EndStep DEF Results
<1>5. CASE copies /\ t.form # "bytes" /\ Become(c, Ended(p, NoClipboard))
  BY <1>1, <1>5, EndStep DEF Results, Harmless, NoClipboard
<1>6. CASE Become(c, [Ended(p, "ok") EXCEPT !.printed = @ \cup
                        IF shows THEN {Stored(c, t.form, FALSE, TRUE)} ELSE {}])
  <2>1. Ended(p, "ok").printed = p.printed
    BY <1>1, EndedRecord DEF Results
  <2>2. Become(c, [Ended(p, "ok") EXCEPT !.printed = s])
    BY <1>6, <2>1
  <2>3. s \in SUBSET Values
    <3>1. shows => Stored(c, t.form, FALSE, TRUE) \in Values
      BY <1>2, TaskParts DEF Stored, Value, Values, Givers
    <3> QED
      BY <1>1, <3>1 DEF Record
  <2>4. (\E v \in s : v.secret) => Requested(t)
    BY <1>2 DEF Prints, Requested
  <2> HIDE DEF s
  <2> QED
    BY <1>1, <2>2, <2>3, <2>4, AnswerStep
<1> QED
  BY <1>3, <1>4, <1>5, <1>6

-----------------------------------------------------------------------------
(* Printing                                                                 *)

LEMMA ItemValues ==
  ASSUME NEW x \in Item, NEW f \in DOMAIN x.fields
  PROVE  x.fields[f] \in Values /\ x.fields[f].secret \in BOOLEAN
<1>1. x.fields \in FieldMaps
  BY DEF Item
<1>2. PICK D \in SUBSET FieldNames : x.fields \in [D -> Values]
  BY <1>1 DEF FieldMaps
<1> QED
  BY <1>2 DEF Values

LEMMA DeliverStep ==
  ASSUME IInv, NEW c \in Cmds, Deliver(c)
  PROVE  IInv'
<1> DEFINE p == cmd[c]
           t == p.task
           b == p.seen
           vs == Resolved(t, b)
           done(s) == [Ended(p, "ok") EXCEPT !.printed = s]
           q == [p EXCEPT !.printed = AllValues(b), !.pc = "save"]
<1>1. /\ p \in Record /\ p.pc = "print" /\ Sound(c, p, log, file)
      /\ UNCHANGED <<items, gen, file, log>>
  BY DEF Deliver, At, IInv
<1>2. /\ t \in Tasks /\ ~p.wrote /\ b \in Body /\ Problem(p, b) = "ok" /\ Admitted(t)
      /\ Reads(t.op) \/ (t.op = "export" /\ t.stdout)
  BY <1>1 DEF Sound, Steps, Knows, Record, Working
<1>3. /\ t.op = "ls" => Become(c, done({}))
      /\ t.op = "show" => Become(c, done(Shown(Get(b, t.name), t.reveal)))
      /\ t.op = "get" /\ t.clip =>
           Become(c, done({})) \/ \E e \in {"Helper", "Invalid"} : Become(c, Ended(p, e))
      /\ t.op = "get" /\ ~t.clip => Become(c, done(vs)) \/ Become(c, Ended(p, "Invalid"))
      /\ t.op = "export" => Become(c, q)
  BY DEF Deliver, NoClipboard, Got
<1>4. ASSUME NEW s \in SUBSET Values, Reads(t.op), Become(c, done(s)),
             (\E v \in s : v.secret) => Requested(t)
      PROVE  IInv'
  BY <1>1, <1>4, AnswerStep
<1>5. ASSUME NEW e \in {"Helper", "Invalid"}, Become(c, Ended(p, e))
      PROVE  IInv'
  BY <1>1, <1>2, <1>5, EndStep DEF Results
<1>6. ASSUME Become(c, done({})), t.op \in {"ls", "get"}
      PROVE  IInv'
  <2>1. {} \in SUBSET Values /\ ~(\E v \in {} : v.secret)
    BY Zenon
  <2> HIDE DEF done
  <2> QED
    BY <1>4, <1>6, <2>1 DEF Reads
<1>7. CASE t.op = "show"
  <2> DEFINE x == Get(b, t.name)
             s == Shown(x, t.reveal)
  <2>1. t.name \in NamesOf(b)
    BY <1>2, <1>7 DEF Problem
  <2>2. x \in Item
    BY <1>2, <2>1, GetFinds
  <2> HIDE DEF x
  <2>3. s \in SUBSET Values /\ ((\E v \in s : v.secret) => t.reveal)
    BY <2>2, ItemValues DEF Shown, Masked
  <2>4. Become(c, done(s)) /\ Reads(t.op) /\ (t.reveal => Requested(t))
    BY <1>3, <1>7 DEF Reads, Requested, x
  <2> HIDE DEF s, done
  <2> QED
    BY <1>4, <2>3, <2>4
<1>8. CASE t.op = "get" /\ ~t.clip
  <2>1. t.field \in FieldNames \cup {"primary"}
    BY <1>2, <1>8, TaskParts
  <2>2. \A n \in Range(t.names) : Has(b, n, t.field)
    BY <1>2, <1>8 DEF Problem
  <2>3. \A n \in Range(t.names) : ValueOf(b, n, t.field) \in Values
    <3> TAKE n \in Range(t.names)
    <3>1. Get(b, n) \in Item /\ FieldOf(Get(b, n), t.field) \in DOMAIN Get(b, n).fields
      BY <1>2, <2>2, GetFinds DEF Has
    <3> QED
      BY <3>1, ItemValues DEF ValueOf
  <2>4. vs \in SUBSET Values
    BY <2>3 DEF Resolved
  <2>5. Requested(t) /\ Reads(t.op)
    BY <1>8 DEF Requested, Reads
  <2> HIDE DEF vs, done
  <2> QED
    BY <1>3, <1>4, <1>5, <1>8, <2>4, <2>5
<1>9. CASE t.op = "export"
  <2>1. AllValues(b) \in SUBSET Values
    <3>1. \A i \in DOMAIN b : b[i] \in Item
      BY <1>2, BodyItems
    <3>2. \A i \in DOMAIN b : Range(b[i].fields) \subseteq Values
      BY <3>1, ItemValues DEF Range
    <3> QED
      BY <3>2 DEF AllValues
  <2>2. Become(c, q) /\ Requested(t) /\ t.stdout
    BY <1>2, <1>3, <1>9, TaskParts DEF Admitted, Requested, Reads
  <2>3. p.task = t /\ p.gen > 0 /\ Steps(p)
    BY <1>1 DEF Sound, Steps, Working
  <2> HIDE DEF p, b, t
  <2>4. /\ q \in Record /\ q.pc = "save" /\ q.result = p.result /\ q.task = p.task
        /\ q.seen = p.seen /\ q.gen = p.gen /\ q.doc = p.doc /\ q.report = p.report
        /\ q.wrote = p.wrote
    BY <1>1, <2>1 DEF Record, Working
  <2> HIDE DEF q
  <2>5. ~Owner(q) /\ Steps(q) /\ Prints(q) /\ Errs(q)
    BY <1>1, <1>2, <1>9, <2>2, <2>3, <2>4 DEF Owner, Steps, Prints, Errs, Early, Working, Reads
  <2>6. Sound(c, q, log, file)
    BY <1>1, <2>4, <2>5, WorkingSound DEF Owns, Working
  <2> QED
    BY <1>1, <2>2, <2>4, <2>5, <2>6, Becomes DEF Keeps, p
<1>10. t.op \in {"ls", "show", "get", "export"}
  BY <1>2 DEF Reads
<1> HIDE DEF done, q
<1> QED
  BY <1>3, <1>5, <1>6, <1>7, <1>8, <1>9, <1>10

-----------------------------------------------------------------------------
(* Writing the export file                                                  *)

(* A step on the file, which leaves the others what is theirs.              *)
LEMMA WritesFile ==
  ASSUME IInv, NEW c \in Cmds, NEW q, Become(c, q), UNCHANGED <<items, gen, log>>, FileInv',
         q \in Record, Sound(c, q, log, file'), q.wrote = cmd[c].wrote,
         \A d \in Cmds \ {c} : Owns(cmd[d], file') /\ ~Rivals(q, cmd[d])
  PROVE  IInv'
<1>1. /\ cmd' \in [Cmds -> Record] /\ cmd'[c] = q
      /\ \A d \in Cmds \ {c} : cmd'[d] = cmd[d]
  BY DEF Become, IInv
<1>2. \A d \in Cmds : cmd'[d].wrote = cmd[d].wrote
  BY <1>1
<1>3. HistoryInv'
  BY <1>2 DEF IInv, HistoryInv
<1>4. \A d \in Cmds \ {c} : Sound(d, cmd[d], log, file')
  BY DEF IInv, Sound
<1>5. \A d \in Cmds : Sound(d, cmd'[d], log, file')
  BY <1>1, <1>4
<1>6. \A d \in Cmds : Sound(d, cmd[d], log, file)'
  BY <1>5
<1>7. ASSUME NEW d \in Cmds, NEW e \in Cmds, Rivals(cmd'[d], cmd'[e])  PROVE d = e
  <2>1. Rivals(cmd'[e], cmd'[d])
    BY <1>7 DEF Rivals
  <2>2. CASE d = c \/ e = c
    BY <1>1, <1>7, <2>1, <2>2
  <2>3. CASE d # c /\ e # c
    BY <1>1, <1>7, <2>3 DEF IInv
  <2> QED
    BY <2>2, <2>3
<1> QED
  BY <1>1, <1>3, <1>6, <1>7 DEF IInv

(* What a command at work has read is of the history.                       *)
LEMMA SeenIsPast ==
  ASSUME NEW c, NEW l, NEW p, Knows(c, p, l), p.gen > 0
  PROVE  p.seen \in Range(l)
<1> QED
  BY DEF Knows, Range

(* An export on its way to a file, which has saved nothing yet.             *)
Underway(c, p) ==
  /\ p \in Record /\ Sound(c, p, log, file) /\ p.task \in Tasks /\ ~p.wrote
  /\ Admitted(p.task) /\ p.result = "none" /\ p.gen > 0
  /\ p.task.op = "export" /\ ~p.task.stdout
  /\ Steps(p) /\ Prints(p) /\ Knows(c, p, log)

LEMMA ExportUnderway ==
  ASSUME IInv, NEW c \in Cmds,
         cmd[c].pc \in {"createplain", "writeplain", "create", "place", "fill"}
  PROVE  Underway(c, cmd[c])
<1>1. cmd[c] \in Record /\ Sound(c, cmd[c], log, file)
  BY DEF IInv
<1> QED
  BY <1>1 DEF Underway, Sound, Steps, Record, Working

(* It goes on to its next step.                                             *)
LEMMA GoesOn ==
  ASSUME NEW c, NEW p, Underway(c, p), p.pc \in Working, NEW f,
         NEW step \in {"writeplain", "place", "fill", "save"},
         step = "writeplain" => p.task.plain,
         step \in {"place", "fill"} => ~p.task.plain,
         NEW q, q = Goto(p, step), Owns(q, f)
  PROVE  /\ q \in Record /\ Sound(c, q, log, f) /\ q.wrote = p.wrote
<1>1. /\ q \in Record /\ q.pc = step /\ q.result = p.result /\ q.task = p.task
      /\ q.seen = p.seen /\ q.gen = p.gen /\ q.doc = p.doc /\ q.report = p.report
      /\ q.printed = p.printed /\ q.wrote = p.wrote
  BY GotoRecord DEF Underway, Working
<1>2. Steps(q) /\ Prints(q) /\ Errs(q)
  BY <1>1 DEF Underway, Steps, Prints, Errs, Early, Working, Reads
<1>3. Knows(c, q, log)
  BY <1>1, SameKnows DEF Underway, Working
<1> QED
  BY <1>1, <1>2, <1>3 DEF Sound

(* While there is no file there is none that has made it.                   *)
LEMMA NoFileNoOwner ==
  ASSUME IInv, file.form = "absent", NEW d \in Cmds, Owner(cmd[d])
  PROVE  ~cmd[d].task.plain /\ cmd[d].pc = "place"
<1>1. Owns(cmd[d], file)
  BY DEF IInv, Sound
<1> QED
  BY <1>1 DEF Owns, OwnsPlain, OwnsEncrypted

LEMMA CreatePlainStep ==
  ASSUME IInv, NEW c \in Cmds, CreatePlain(c)
  PROVE  IInv'
<1> DEFINE p == cmd[c]
           q == Goto(p, "writeplain")
<1>1. p.pc = "createplain" /\ Underway(c, p) /\ UNCHANGED <<items, gen, log>>
  BY ExportUnderway DEF CreatePlain, At
<1>2. p.task.plain
  BY <1>1 DEF Underway, Steps
<1>3. CASE file.form = "absent"
  <2>1. file' = [form |-> "partial", items |-> <<>>] /\ Become(c, q)
    BY <1>3 DEF CreatePlain
  <2>2. FileInv'
    BY <1>1, <2>1 DEF FileInv
  <2>3. q.task = p.task /\ q.gen = p.gen /\ q.pc = "writeplain"
    BY <1>1, GotoRecord DEF Underway, Working
  <2>4. Owns(q, file')
    BY <1>1, <1>2, <2>1, <2>3 DEF Owns, OwnsPlain, Underway
  <2>5. q \in Record /\ Sound(c, q, log, file') /\ q.wrote = p.wrote
    <3> HIDE DEF p
    <3> QED
      BY <1>1, <1>2, <2>4, GoesOn DEF Working
  <2>6. ASSUME NEW d \in Cmds \ {c}
        PROVE  Owns(cmd[d], file') /\ ~Rivals(q, cmd[d])
    <3>1. Owner(cmd[d]) => ~cmd[d].task.plain /\ cmd[d].pc = "place" /\ Owns(cmd[d], file)
      BY <1>3, NoFileNoOwner DEF IInv, Sound
    <3> QED
      BY <1>2, <2>3, <3>1 DEF Owns, OwnsEncrypted, Rivals
  <2> HIDE DEF q
  <2> QED
    BY <1>1, <2>1, <2>2, <2>5, <2>6, WritesFile
<1>4. CASE file.form # "absent"
  <2>1. Become(c, Ended(p, "AlreadyExists")) /\ UNCHANGED file
    BY <1>4 DEF CreatePlain
  <2> QED
    BY <1>1, <2>1, EndStep DEF Results, Underway
<1> QED
  BY <1>3, <1>4

(* Writing its document takes nothing from the others.                      *)
LEMMA DocumentIsOwn ==
  ASSUME IInv, NEW c \in Cmds, cmd[c].pc = "writeplain"
  PROVE  /\ cmd[c].task.plain
         /\ Document(cmd[c]).form = "encrypted"
              \/ (Document(cmd[c]).form = "plain" /\ Document(cmd[c]).items = cmd[c].seen)
         /\ Document(cmd[c]) = [form |-> Document(cmd[c]).form, items |-> Document(cmd[c]).items]
         /\ Document(cmd[c]).form \in {"absent", "partial", "plain", "encrypted"}
         /\ Document(cmd[c]).items \in Docs \cup Range(log) \cup {<<>>}
         /\ \A d \in Cmds \ {c} :
              Owns(cmd[d], Document(cmd[c])) /\ ~Rivals(cmd[c], cmd[d])
<1> DEFINE p == cmd[c]
           f == Document(p)
<1>1. Underway(c, p)
  BY ExportUnderway
<1>2. p.task.plain /\ Owner(p) /\ Owns(p, file)
  BY <1>1 DEF Underway, Steps, Owner, Sound
<1>3. \A d \in Cmds \ {c} : ~Rivals(p, cmd[d])
  BY DEF IInv
<1>4. p.seen \in Range(log)
  <2> HIDE DEF p
  <2> QED
    BY <1>1, SeenIsPast DEF Underway
<1>5. FileInv
  BY DEF IInv
<1>6. CASE file.form = "encrypted"
  <2>1. f = file
    BY <1>6 DEF Document
  <2>2. \A d \in Cmds : Owns(cmd[d], file)
    BY DEF IInv, Sound
  <2> QED
    BY <1>2, <1>3, <1>5, <1>6, <2>1, <2>2 DEF FileInv
<1>7. CASE file.form = "partial"
  <2>1. f = [form |-> "plain", items |-> p.seen]
    BY <1>7 DEF Document
  <2>2. ASSUME NEW d \in Cmds \ {c}  PROVE Owns(cmd[d], f)
    <3>1. Owns(cmd[d], file)
      BY DEF IInv, Sound
    <3>2. Owner(cmd[d]) => ~cmd[d].task.plain
      BY <1>2, <1>3 DEF Rivals
    <3> QED
      BY <1>7, <3>1, <3>2 DEF Owns, OwnsEncrypted
  <2> QED
    BY <1>2, <1>3, <1>4, <2>1, <2>2
<1> QED
  BY <1>2, <1>6, <1>7, Zenon DEF Owns, OwnsPlain

LEMMA WritePlainStep ==
  ASSUME IInv, NEW c \in Cmds, WritePlain(c)
  PROVE  IInv'
<1> DEFINE p == cmd[c]
           q == Goto(p, "save")
<1>1. /\ p.pc = "writeplain" /\ Underway(c, p) /\ UNCHANGED <<items, gen, log>>
      /\ file' = Document(p) /\ Become(c, q)
  BY ExportUnderway DEF WritePlain, At
<1>2. /\ p.task.plain
      /\ file'.form = "encrypted" \/ (file'.form = "plain" /\ file'.items = p.seen)
      /\ file' = [form |-> file'.form, items |-> file'.items]
      /\ file'.form \in {"absent", "partial", "plain", "encrypted"}
      /\ file'.items \in Docs \cup Range(log) \cup {<<>>}
      /\ \A d \in Cmds \ {c} : Owns(cmd[d], file') /\ ~Rivals(p, cmd[d])
  BY <1>1, DocumentIsOwn
<1>3. FileInv'
  BY <1>1, <1>2 DEF FileInv
<1>4. q.task = p.task /\ q.gen = p.gen /\ q.pc = "save" /\ q.seen = p.seen
  BY <1>1, GotoRecord DEF Underway, Working
<1>5. Owns(q, file')
  BY <1>1, <1>2, <1>4 DEF Owns, OwnsPlain, Underway
<1>6. q \in Record /\ Sound(c, q, log, file') /\ q.wrote = p.wrote
  <2> HIDE DEF p
  <2> QED
    BY <1>1, <1>5, GoesOn DEF Working
<1>7. \A d \in Cmds \ {c} : ~Rivals(q, cmd[d])
  BY <1>1, <1>2, <1>4 DEF Rivals, Owner, Underway
<1> HIDE DEF q
<1> QED
  BY <1>1, <1>2, <1>3, <1>6, <1>7, WritesFile

LEMMA CreateExportStep ==
  ASSUME IInv, NEW c \in Cmds, CreateExport(c)
  PROVE  IInv'
<1> DEFINE p == cmd[c]
           q == Goto(p, "place")
<1>1. p.pc = "create" /\ Underway(c, p) /\ UNCHANGED <<items, gen, file, log>>
  BY ExportUnderway DEF CreateExport, At
<1>2. ~p.task.plain
  BY <1>1 DEF Underway, Steps
<1>3. CASE file.form = "absent"
  <2>1. Become(c, q) /\ \A d \in Cmds : cmd[d].pc # "place"
    BY <1>3 DEF CreateExport, At
  <2>2. \A d \in Cmds : ~Owner(cmd[d])
    BY <1>3, <2>1, NoFileNoOwner
  <2>3. q.task = p.task /\ q.gen = p.gen /\ q.pc = "place"
    BY <1>1, GotoRecord DEF Underway, Working
  <2>4. Owns(q, file')
    BY <1>1, <1>2, <2>3 DEF Owns, OwnsEncrypted, Underway
  <2>5. q \in Record /\ Sound(c, q, log, file') /\ q.wrote = p.wrote
    <3> HIDE DEF p
    <3> QED
      BY <1>1, <1>2, <2>4, GoesOn DEF Working
  <2>6. \A d \in Cmds \ {c} : Owns(cmd[d], file') /\ ~Rivals(q, cmd[d])
    BY <2>2 DEF Owns, Rivals
  <2>7. FileInv'
    BY <1>1 DEF FileInv, IInv
  <2> HIDE DEF q
  <2> QED
    BY <1>1, <2>1, <2>5, <2>6, <2>7, WritesFile
<1>4. CASE file.form # "absent"
  <2>1. Become(c, Ended(p, "AlreadyExists"))
    BY <1>4 DEF CreateExport
  <2> QED
    BY <1>1, <2>1, EndStep DEF Results, Underway
<1> QED
  BY <1>3, <1>4

LEMMA PlaceExportStep ==
  ASSUME IInv, NEW c \in Cmds, PlaceExport(c)
  PROVE  IInv'
<1> DEFINE p == cmd[c]
           q == Goto(p, "fill")
<1>1. /\ p.pc = "place" /\ Underway(c, p) /\ UNCHANGED <<items, gen, log>> /\ Become(c, q)
      /\ file' = [form |-> "encrypted", items |-> <<>>]
  BY ExportUnderway DEF PlaceExport, At
<1>2. ~p.task.plain /\ Owner(p)
  BY <1>1 DEF Underway, Steps, Owner
<1>3. \A d \in Cmds \ {c} : ~Rivals(p, cmd[d])
  BY DEF IInv
<1>4. FileInv'
  BY <1>1 DEF FileInv
<1>5. q.task = p.task /\ q.gen = p.gen /\ q.pc = "fill"
  BY <1>1, GotoRecord DEF Underway, Working
<1>6. Owns(q, file')
  BY <1>1, <1>2, <1>5 DEF Owns, OwnsEncrypted, Underway
<1>7. q \in Record /\ Sound(c, q, log, file') /\ q.wrote = p.wrote
  <2> HIDE DEF p
  <2> QED
    BY <1>1, <1>2, <1>6, GoesOn DEF Working
<1>8. ASSUME NEW d \in Cmds \ {c}
      PROVE  Owns(cmd[d], file') /\ ~Rivals(q, cmd[d])
  <2>1. Owns(cmd[d], file)
    BY DEF IInv, Sound
  <2>2. Owner(cmd[d]) => cmd[d].task.plain
    BY <1>2, <1>3 DEF Rivals
  <2> QED
    BY <1>1, <1>2, <1>5, <2>1, <2>2 DEF Owns, OwnsPlain, Rivals
<1> HIDE DEF q
<1> QED
  BY <1>1, <1>4, <1>7, <1>8, WritesFile

LEMMA FillExportStep ==
  ASSUME IInv, NEW c \in Cmds, FillExport(c)
  PROVE  IInv'
<1> DEFINE p == cmd[c]
           q == Goto(p, "save")
<1>1. /\ p.pc = "fill" /\ Underway(c, p) /\ UNCHANGED <<items, gen, log>> /\ Become(c, q)
      /\ file' = [file EXCEPT !.items = p.seen]
  BY ExportUnderway DEF FillExport, At
<1>2. ~p.task.plain /\ Owner(p) /\ Owns(p, file)
  BY <1>1 DEF Underway, Steps, Owner, Sound
<1>3. FileInv /\ file.form = "encrypted"
  BY <1>1, <1>2 DEF IInv, Owns, OwnsEncrypted
<1>4. p.seen \in Range(log)
  <2> HIDE DEF p
  <2> QED
    BY <1>1, SeenIsPast DEF Underway
<1>5. file' = [form |-> "encrypted", items |-> p.seen]
  BY <1>1, <1>3 DEF FileInv
<1>6. FileInv'
  <2>1. log' = log
    BY <1>1
  <2>2. Range(log') = Range(log)
    BY <2>1
  <2> HIDE DEF p
  <2> QED
    BY <1>4, <1>5, <2>2 DEF FileInv
<1>7. q.task = p.task /\ q.gen = p.gen /\ q.pc = "save" /\ q.seen = p.seen
  BY <1>1, GotoRecord DEF Underway, Working
<1>8. Owns(q, file')
  BY <1>1, <1>2, <1>5, <1>7 DEF Owns, OwnsEncrypted, Underway
<1>9. q \in Record /\ Sound(c, q, log, file') /\ q.wrote = p.wrote
  <2> HIDE DEF p
  <2> QED
    BY <1>1, <1>8, GoesOn DEF Working
<1>10. \A d \in Cmds \ {c} : ~Rivals(p, cmd[d])
  BY DEF IInv
<1>11. ASSUME NEW d \in Cmds \ {c}
       PROVE  Owns(cmd[d], file') /\ ~Rivals(q, cmd[d])
  <2>1. Owns(cmd[d], file)
    BY DEF IInv, Sound
  <2>2. Owner(cmd[d]) => cmd[d].task.plain
    BY <1>2, <1>10 DEF Rivals
  <2> QED
    BY <1>2, <1>5, <1>7, <2>1, <2>2 DEF Owns, OwnsPlain, Rivals
<1> HIDE DEF q
<1> QED
  BY <1>1, <1>6, <1>9, <1>11, WritesFile

LEMMA WriteFailsStep ==
  ASSUME IInv, NEW c \in Cmds, WriteFails(c)
  PROVE  IInv'
<1> DEFINE p == cmd[c]
<1>1. /\ p.pc \in {"writeplain", "place", "fill"} /\ Underway(c, p)
      /\ UNCHANGED <<items, gen, log>>
  BY ExportUnderway DEF WriteFails
<1>2. \/ UNCHANGED file
      \/ p.pc = "writeplain" /\ file' = Document(p)
  BY DEF WriteFails, At
<1>3. PICK e \in {"Io", "Locked", "Integrity"} : Become(c, Ended(p, e))
  BY DEF WriteFails
<1>4. CASE UNCHANGED file
  BY <1>1, <1>3, <1>4, EndStep DEF Results, Underway
<1>5. CASE p.pc = "writeplain" /\ file' = Document(p)
  <2> DEFINE q == Ended(p, e)
  <2>1. /\ file' = [form |-> file'.form, items |-> file'.items]
        /\ file'.form \in {"absent", "partial", "plain", "encrypted"}
        /\ file'.items \in Docs \cup Range(log) \cup {<<>>}
        /\ \A d \in Cmds \ {c} : Owns(cmd[d], file')
    BY <1>5, DocumentIsOwn
  <2>2. FileInv'
    BY <1>1, <2>1 DEF FileInv
  <2>3. q \in Record /\ Sound(c, q, log, file) /\ q.wrote = p.wrote
    <3> HIDE DEF p
    <3> QED
      BY <1>1, <1>3, EndedSound DEF Underway, Results
  <2>4. q.pc = "ended" /\ q.result # "ok"
    BY <1>1, <1>3, EndedRecord DEF Underway, Results
  <2>5. ~Owner(q)
    BY <2>4 DEF Owner
  <2> HIDE DEF q
  <2>6. Sound(c, q, log, file') /\ \A d \in Cmds : ~Rivals(q, cmd[d])
    BY <2>3, <2>5 DEF Sound, Owns, Rivals
  <2> QED
    BY <1>1, <1>3, <2>1, <2>2, <2>3, <2>6, WritesFile DEF q
<1> QED
  BY <1>2, <1>4, <1>5

-----------------------------------------------------------------------------
(* What is saved                                                            *)

LEMMA PrimaryIsField == \A k \in Kinds : Primary(k) \in FieldNames
<1> QED
  BY ItemsConstants DEF Kinds, Primary

(* add: the item that build_item makes.                                     *)
LEMMA BuiltItem ==
  ASSUME NEW c \in Cmds, NEW t \in Tasks, t.op = "add"
  PROVE  /\ Built(c, t) \in Item /\ Built(c, t).id = c /\ Built(c, t).name = t.name
         /\ Clean(Built(c, t))
<1> DEFINE D == {Primary(Kind(t))} \cup t.extra \cup Derived(t)
           v(f) == IF f = Primary(Kind(t)) THEN Stored(c, t.form, Kind(t) = "file", TRUE)
                   ELSE PublicText(c)
<1>1. Kind(t) \in Kinds
  BY TaskParts DEF Kind, Kinds
<1>2. D \in SUBSET FieldNames
  BY <1>1, TaskParts, PrimaryIsField, ItemsConstants DEF Derived
<1>3. \A f \in D : v(f) \in Values /\ (v(f).typed => v(f).secret)
                   /\ (f = Primary(Kind(t)) => v(f).typed)
  <2>1. Stored(c, t.form, Kind(t) = "file", TRUE) \in Values
    BY TaskParts DEF Stored, Value, Values, Givers
  <2>2. PublicText(c) \in Values
    BY DEF PublicText, Value, Values, Givers, Forms
  <2> QED
    BY <2>1, <2>2 DEF Stored, PublicText, Value
<1>4. /\ Built(c, t) = [id |-> c, name |-> t.name, kind |-> Kind(t),
                        fields |-> [f \in D |-> v(f)]]
  BY DEF Built
<1> HIDE DEF D, v
<1>5. [f \in D |-> v(f)] \in FieldMaps
  BY <1>2, <1>3 DEF FieldMaps
<1>6. Built(c, t) \in Item
  BY <1>1, <1>4, <1>5, TaskParts DEF Item, Givers
<1>7. Clean(Built(c, t))
  BY <1>3, <1>4 DEF Clean
<1> QED
  BY <1>4, <1>6, <1>7

(* set: the same item with one field changed by command c, or without it.   *)
SetItem(c, t, x) ==
  IF t.delete THEN Without(x, FieldOf(x, t.field))
  ELSE With(x, FieldOf(x, t.field), Stored(c, t.form, FALSE, ~t.public))

LEMMA SetKeepsItem ==
  ASSUME NEW c \in Cmds, NEW t \in Tasks, t.op = "set", NEW x \in Item, Clean(x), x.id # c
  PROVE  LET y == SetItem(c, t, x)
         IN  y \in Item /\ y.id = x.id /\ y.name = x.name /\ y.kind = x.kind /\ Clean(y)
<1> DEFINE y == SetItem(c, t, x)
           g == FieldOf(x, t.field)
           v == Stored(c, t.form, FALSE, ~t.public)
<1>1. /\ x = [id |-> x.id, name |-> x.name, kind |-> x.kind, fields |-> x.fields]
      /\ x.fields \in FieldMaps /\ x.kind \in Kinds
  BY DEF Item
<1>2. PICK D \in SUBSET FieldNames : x.fields \in [D -> Values]
  BY <1>1 DEF FieldMaps
<1>3. g \in FieldNames
  BY <1>1, PrimaryIsField, TaskParts DEF FieldOf
<1>4. v \in Values /\ v.by = c
  BY TaskParts DEF Stored, Value, Values, Givers
<1>5. CASE t.delete
  <2> DEFINE fs == [h \in D \ {g} |-> x.fields[h]]
  <2>1. y = [x EXCEPT !.fields = fs]
    BY <1>2, <1>5 DEF SetItem, Without
  <2>2. fs \in [D \ {g} -> Values] /\ DOMAIN fs = D \ {g} /\ \A h \in D \ {g} : fs[h] = x.fields[h]
    BY <1>2
  <2>3. fs \in FieldMaps
    <3>1. D \ {g} \in SUBSET FieldNames
      BY <1>2
    <3> QED
      BY <2>2, <3>1 DEF FieldMaps
  <2> HIDE DEF fs, y
  <2>4. /\ y \in Item /\ y.id = x.id /\ y.name = x.name /\ y.kind = x.kind /\ y.fields = fs
    BY <1>1, <2>1, <2>3 DEF Item
  <2>5. Clean(y)
    BY <1>2, <2>2, <2>4 DEF Clean, Added
  <2> QED
    BY <2>4, <2>5 DEF y
<1>6. CASE ~t.delete
  <2> DEFINE fs == [h \in D \cup {g} |-> IF h = g THEN v ELSE x.fields[h]]
  <2>1. y = [x EXCEPT !.fields = fs]
    BY <1>2, <1>6 DEF SetItem, With
  <2> HIDE DEF v
  <2>2. /\ fs \in [D \cup {g} -> Values] /\ DOMAIN fs = D \cup {g}
        /\ \A h \in D \cup {g} : fs[h] = IF h = g THEN v ELSE x.fields[h]
    BY <1>2, <1>4
  <2>3. fs \in FieldMaps
    <3>1. D \cup {g} \in SUBSET FieldNames
      BY <1>2, <1>3
    <3> QED
      BY <2>2, <3>1 DEF FieldMaps
  <2> HIDE DEF fs, y, g
  <2>4. /\ y \in Item /\ y.id = x.id /\ y.name = x.name /\ y.kind = x.kind /\ y.fields = fs
    BY <1>1, <2>1, <2>3 DEF Item
  <2>5. Clean(y)
    <3> SUFFICES ASSUME Added(y), NEW h \in DOMAIN fs, fs[h].by = y.id
                 PROVE  /\ fs[h].typed => fs[h].secret
                        /\ h = Primary(y.kind) => fs[h].typed
      BY <2>4 DEF Clean
    <3>1. h # g
      BY <1>4, <2>2, <2>4
    <3>2. h \in D /\ fs[h] = x.fields[h] /\ Added(x)
      BY <2>2, <2>4, <3>1 DEF Added
    <3> QED
      BY <1>2, <2>4, <3>2 DEF Clean
  <2> QED
    BY <2>4, <2>5 DEF y
<1> QED
  BY <1>5, <1>6

(* The body that a command saves, as a map or a list of what came before.   *)
LEMMA EditedItems ==
  ASSUME NEW c \in Cmds, NEW p, NEW b \in Body, b = p.seen, p.task \in Tasks, ~Reads(p.task.op),
         Admitted(p.task), Problem(p, b) = "ok", p.doc \in Seq(Item),
         \A x \in Range(b) : Clean(x) /\ x.id # c,
         \A x \in Range(p.doc) : Clean(x)
  PROVE  /\ Edited(c, p) \in Body
         /\ \A x \in Range(Edited(c, p)) :
              Clean(x) /\ (x.id = c \/ \E y \in Range(b) \cup Range(p.doc) : x.id = y.id)
<1> DEFINE t == p.task
           d == Edited(c, p)
<1>1. CASE t.op = "add"
  <2>1. /\ Built(c, t) \in Item /\ Built(c, t).id = c /\ Built(c, t).name = t.name
        /\ Clean(Built(c, t)) /\ t.name \in Names
    BY <1>1, BuiltItem DEF Admitted
  <2>2. d = Insert(b, Built(c, t))
    BY <1>1 DEF Edited
  <2> HIDE DEF d, t
  <2>3. d \in Body /\ Range(d) = {x \in Range(b) : x.name # t.name} \cup {Built(c, t)}
    BY <2>1, <2>2, InsertPutsOne
  <2> QED
    BY <2>1, <2>3 DEF d
<1>2. CASE t.op = "set"
  <2> DEFINE x == Get(b, t.name)
             y == SetItem(c, t, x)
  <2>1. t.name \in NamesOf(b)
    BY <1>2 DEF Problem
  <2>2. x \in Item /\ x \in Range(b) /\ x.name = t.name /\ t.name \in Names
    BY <2>1, GetFinds
  <2>3. d = Insert(b, y)
    BY <1>2 DEF Edited, SetItem
  <2> HIDE DEF d, t, x
  <2>4. y \in Item /\ y.id = x.id /\ y.name = x.name /\ Clean(y)
    BY <1>2, <2>2, SetKeepsItem DEF t
  <2> HIDE DEF y
  <2>5. d \in Body /\ Range(d) = {z \in Range(b) : z.name # y.name} \cup {y}
    BY <2>2, <2>3, <2>4, InsertPutsOne
  <2> QED
    BY <2>2, <2>4, <2>5 DEF d
<1>3. CASE t.op = "rm"
  <2>1. d = RemoveAll(b, t.names)
    BY <1>3 DEF Edited
  <2> QED
    BY <2>1, RemoveAllAsMap
<1>4. CASE t.op = "mv"
  <2>1. d = Renamed(b, t.name, t.new) /\ t.name \in NamesOf(b) /\ t.new \in Names
    BY <1>4 DEF Edited, Problem, Admitted
  <2>2. CASE t.name = t.new
    BY <2>1, <2>2 DEF Renamed
  <2>3. CASE t.name # t.new
    <3> DEFINE x == Get(b, t.name)
               y == [x EXCEPT !.name = t.new]
    <3>1. x \in Item /\ x \in Range(b)
      BY <2>1, GetFinds
    <3>2. d \in Body /\ Range(d) = {z \in Range(b) : z.name \notin {t.name, t.new}} \cup {y}
      BY <2>1, <2>3, RenamedAsMap
    <3> HIDE DEF x
    <3>3. y.id = x.id /\ y.kind = x.kind /\ y.fields = x.fields
      BY <3>1 DEF Item
    <3> HIDE DEF d, t, y
    <3>4. Clean(y)
      BY <3>1, <3>3 DEF Clean, Added
    <3> QED
      BY <3>1, <3>2, <3>3, <3>4 DEF d
  <2> QED
    BY <2>2, <2>3
<1>5. CASE t.op = "import"
  <2>1. t.mode \in Modes /\ BadName \notin NamesOf(p.doc)
    BY <1>5, TaskParts, MergeReports
  <2>2. /\ d = Merge(b, p.doc, t.mode).body
        /\ Gathered(Merge(b, p.doc, t.mode), Base(b, t.mode), p.doc, Len(p.doc), t.mode)
    BY <1>5, <2>1, MergeGathers DEF Edited
  <2>3. d \in Body /\ Range(d) \subseteq Range(Base(b, t.mode)) \cup Range(p.doc)
    <3> HIDE DEF d, t
    <3> QED
      BY <2>2 DEF Gathered
  <2>4. Range(Base(b, t.mode)) \subseteq Range(b)
    BY DEF Base, Range
  <2> QED
    BY <2>3, <2>4
<1>6. CASE t.op = "export"
  BY <1>6 DEF Edited
<1> QED
  BY <1>1, <1>2, <1>3, <1>4, <1>5, <1>6, TaskParts DEF Reads

-----------------------------------------------------------------------------
(* Saving                                                                   *)

(* A longer history has what the shorter one had.                           *)
LEMMA LongerHistory ==
  ASSUME NEW l \in Seq(Body), NEW b \in Body
  PROVE  LET m == Append(l, b)
         IN  /\ m \in Seq(Body) /\ Len(m) = Len(l) + 1 /\ Len(l) \in Nat
             /\ m[Len(l) + 1] = b /\ Len(l) + 1 \in DOMAIN m
             /\ DOMAIN m = DOMAIN l \cup {Len(l) + 1}
             /\ \A g \in DOMAIN l : m[g] = l[g]
             /\ Range(m) = Range(l) \cup {b}
<1> DEFINE m == Append(l, b)
           n == Len(l) + 1
<1>1. /\ m \in Seq(Body) /\ Len(m) = n /\ Len(l) \in Nat /\ m[n] = b
      /\ DOMAIN m = 1..n /\ DOMAIN l = 1..Len(l) /\ \A g \in DOMAIN l : m[g] = l[g]
  OBVIOUS
<1>2. DOMAIN m = DOMAIN l \cup {n} /\ n \in DOMAIN m
  <2> HIDE DEF m
  <2> QED
    BY <1>1
<1> HIDE DEF m, n
<1>3. Range(m) = Range(l) \cup {b}
  <2>1. /\ DOMAIN m = DOMAIN l \cup {n} /\ m[n] = b
        /\ \A g \in DOMAIN l : m[g] = l[g]
    BY <1>1, <1>2
  <2>2. Range(m) = {m[g] : g \in DOMAIN m} /\ Range(l) = {l[g] : g \in DOMAIN l}
    BY DEF Range
  <2> QED
    BY <2>1, <2>2
<1> QED
  BY <1>1, <1>2, <1>3 DEF m, n

LEMMA StillKnows ==
  ASSUME NEW l \in Seq(Body), NEW b \in Body, NEW c, NEW r \in Record, Knows(c, r, l), Steps(r)
  PROVE  Knows(c, r, Append(l, b))
<1> DEFINE m == Append(l, b)
<1>1. /\ Len(m) = Len(l) + 1 /\ Len(l) \in Nat /\ DOMAIN m = DOMAIN l \cup {Len(l) + 1}
      /\ \A g \in DOMAIN l : m[g] = l[g]
      /\ Range(m) = Range(l) \cup {b} /\ DOMAIN l = 1..Len(l)
  BY LongerHistory
<1>2. r.gen \in Nat
  BY DEF Record
<1> HIDE DEF m
<1>3. r.wrote => r.gen \in DOMAIN l
  BY <1>1, <1>2 DEF Knows, Steps
<1> QED
  BY <1>1, <1>2, <1>3 DEF Knows, m

(* What is known of a command that can save.                                *)
LEMMA SavesCurrent ==
  ASSUME IInv, NEW c \in Cmds, At(c, "save"), Current(cmd[c])
  PROVE  LET p == cmd[c]
         IN  /\ p \in Record /\ ~p.wrote /\ p.gen = gen /\ p.seen = items /\ p.task \in Tasks
             /\ p.result = "none" /\ ~Reads(p.task.op) /\ Admitted(p.task)
             /\ Problem(p, items) = "ok" /\ items \in Body
             /\ p.doc \in Docs \cup Range(log) \cup {<<>>} /\ p.doc \in Seq(Item)
             /\ \A x \in Range(items) : Clean(x) /\ x.id # c
             /\ \A x \in Range(p.doc) : Clean(x) /\ (x.id \in Cmds => cmd[x.id].wrote)
<1> DEFINE p == cmd[c]
<1>1. p \in Record /\ p.pc = "save" /\ Sound(c, p, log, file) /\ p.gen = gen
  BY DEF IInv, At, Current
<1>2. /\ ~p.wrote /\ p.task \in Tasks /\ p.result = "none" /\ ~Reads(p.task.op)
      /\ Admitted(p.task) /\ p.gen > 0
  BY <1>1 DEF Sound, Steps, Working
<1>3. /\ log \in Seq(Body) /\ gen \in DOMAIN log /\ items = log[gen] /\ items \in Body
      /\ \A g \in DOMAIN log : \A x \in Range(log[g]) :
           Clean(x) /\ (x.id \in Cmds => cmd[x.id].wrote)
  BY DEF IInv, HistoryInv
<1>4. p.seen = items /\ Problem(p, items) = "ok" /\ p.doc \in Docs \cup Range(log) \cup {<<>>}
  BY <1>1, <1>2, <1>3 DEF Sound, Knows, Read, Working
<1>5. p.doc \in Seq(Item)
  BY <1>3, <1>4, ContentsAreLists
<1>6. \A x \in Range(items) : Clean(x) /\ x.id # c
  BY <1>2, <1>3
<1>7. \A x \in Range(p.doc) : Clean(x) /\ (x.id \in Cmds => cmd[x.id].wrote)
  <2>1. CASE p.doc \in Docs
    BY <2>1, DocItems
  <2>2. CASE p.doc \in Range(log)
    BY <1>3, <2>2 DEF Range
  <2>3. CASE p.doc = <<>>
    BY <2>3 DEF Range
  <2> QED
    BY <1>4, <2>1, <2>2, <2>3
<1> QED
  BY <1>1, <1>2, <1>3, <1>4, <1>5, <1>6, <1>7

LEMMA SaveStep ==
  ASSUME IInv, NEW c \in Cmds, Save(c)
  PROVE  IInv'
<1> DEFINE p == cmd[c]
           b == Edited(c, p)
           q == [p EXCEPT !.wrote = TRUE, !.gen = gen + 1, !.pc = "after"]
<1>1. /\ At(c, "save") /\ Current(p) /\ items' = b /\ gen' = gen + 1 /\ log' = Append(log, b)
      /\ Become(c, q) /\ UNCHANGED file
  BY DEF Save
<1>2. /\ p \in Record /\ ~p.wrote /\ p.gen = gen /\ p.seen = items /\ p.task \in Tasks
      /\ p.result = "none" /\ ~Reads(p.task.op) /\ Admitted(p.task)
      /\ Problem(p, items) = "ok" /\ items \in Body
      /\ p.doc \in Docs \cup Range(log) \cup {<<>>} /\ p.doc \in Seq(Item)
      /\ \A x \in Range(items) : Clean(x) /\ x.id # c
      /\ \A x \in Range(p.doc) : Clean(x) /\ (x.id \in Cmds => cmd[x.id].wrote)
  BY <1>1, SavesCurrent
<1>3. /\ log \in Seq(Body) /\ gen \in Nat \ {0} /\ gen = Len(log) /\ items = log[gen]
      /\ gen \in DOMAIN log
      /\ \A g \in DOMAIN log : \A x \in Range(log[g]) :
           Clean(x) /\ (x.id \in Cmds => cmd[x.id].wrote)
  BY DEF IInv, HistoryInv
<1>4. /\ b \in Body
      /\ \A x \in Range(b) :
           Clean(x) /\ (x.id = c \/ \E y \in Range(items) \cup Range(p.doc) : x.id = y.id)
  <2> HIDE DEF p
  <2> QED
    BY <1>2, EditedItems
<1>5. p.pc = "save" /\ Sound(c, p, log, file)
  BY <1>1 DEF At, IInv
<1>6. /\ cmd' \in [Cmds -> Record] /\ cmd'[c] = q /\ q \in Record
      /\ \A d \in Cmds \ {c} : cmd'[d] = cmd[d]
  <2>1. q \in Record
    <3>1. p \in Record /\ gen + 1 \in Nat
      BY <1>2, <1>3
    <3> HIDE DEF p
    <3> QED
      BY <3>1 DEF Record, Working
  <2> HIDE DEF q
  <2> QED
    BY <1>1, <2>1 DEF Become, IInv
<1>7. /\ q.pc = "after" /\ q.wrote /\ q.gen = gen + 1 /\ q.task = p.task /\ q.seen = p.seen
      /\ q.doc = p.doc /\ q.report = p.report /\ q.printed = p.printed /\ q.result = p.result
  <2> HIDE DEF p
  <2> QED
    BY <1>2 DEF Record
<1> HIDE DEF q, b
<1>8. /\ log' \in Seq(Body) /\ Len(log') = gen + 1 /\ log'[gen + 1] = b
      /\ gen + 1 \in DOMAIN log' /\ DOMAIN log' = DOMAIN log \cup {gen + 1}
      /\ \A g \in DOMAIN log : log'[g] = log[g]
      /\ Range(log') = Range(log) \cup {b}
  BY <1>1, <1>3, <1>4, LongerHistory
<1>9. \A d \in Cmds : cmd[d].wrote => cmd'[d].wrote
  BY <1>6, <1>7
<1>10. HistoryInv'
  <2>1. \A x \in Range(b) : Clean(x) /\ (x.id \in Cmds => cmd'[x.id].wrote)
    <3> TAKE x \in Range(b)
    <3>1. Clean(x)
      BY <1>4
    <3>2. CASE x.id = c
      BY <1>6, <1>7, <3>1, <3>2
    <3>3. ASSUME NEW y \in Range(items) \cup Range(p.doc), x.id = y.id
          PROVE  x.id \in Cmds => cmd'[x.id].wrote
      BY <1>2, <1>3, <1>9, <3>3
    <3> QED
      BY <1>4, <3>1, <3>2, <3>3
  <2>2. \A g \in DOMAIN log' : \A x \in Range(log'[g]) :
          Clean(x) /\ (x.id \in Cmds => cmd'[x.id].wrote)
    BY <1>3, <1>8, <1>9, <2>1
  <2>3. \A g \in DOMAIN log' : \A x \in Range(log'[g]) :
          (Clean(x) /\ (x.id \in Cmds => cmd[x.id].wrote))'
    BY <2>2 DEF Clean, Added
  <2> QED
    BY <1>1, <1>3, <1>8, <2>3 DEF HistoryInv
<1>11. FileInv'
  BY <1>1, <1>8 DEF IInv, FileInv
<1>12. Sound(c, q, log', file)
  <2>1. Steps(p) /\ Prints(p) /\ Knows(c, p, log) /\ Owns(p, file)
    BY <1>5 DEF Sound
  <2>2. Steps(q) /\ Prints(q) /\ Errs(q)
    BY <1>2, <1>3, <1>5, <1>7, <2>1 DEF Steps, Prints, Errs, Early, Working, Harmless
  <2>3. Owns(q, file)
    BY <1>2, <1>3, <1>5, <1>7, <2>1 DEF Owns, Owner, OwnsPlain, OwnsEncrypted
  <2>4. Problem(q, q.seen) = "ok" /\ Edited(c, q) = b
    BY <1>2, <1>7, SameProblem, SameEdit DEF b
  <2>5. Read(q) = gen
    BY <1>3, <1>7 DEF Read
  <2>6. p.task.op = "import" => p.report = Merge(p.seen, p.doc, p.task.mode).report
    BY <1>5, <2>1 DEF Knows, Working
  <2>7. Knows(c, q, log')
    BY <1>2, <1>3, <1>7, <1>8, <2>4, <2>5, <2>6 DEF Knows
  <2> QED
    BY <2>2, <2>3, <2>7 DEF Sound
<1>13. ASSUME NEW d \in Cmds \ {c}
       PROVE  Sound(d, cmd[d], log', file)
  <2>1. cmd[d] \in Record /\ Sound(d, cmd[d], log, file)
    BY DEF IInv
  <2>2. Knows(d, cmd[d], log')
    BY <1>1, <1>3, <1>4, <2>1, StillKnows DEF Sound
  <2> QED
    BY <2>1, <2>2 DEF Sound
<1>14. \A d \in Cmds : Sound(d, cmd'[d], log', file')
  BY <1>1, <1>6, <1>12, <1>13
<1>15. \A d \in Cmds : Sound(d, cmd[d], log, file)'
  BY <1>14
<1>16. Keeps(q, p)
  BY <1>2, <1>5, <1>7 DEF Owner, Keeps
<1>17. \A d \in Cmds : Keeps(cmd'[d], cmd[d])
  BY <1>6, <1>16 DEF Keeps
<1>18. \A d, e \in Cmds : Rivals(cmd[d], cmd[e]) => d = e
  BY DEF IInv
<1>19. \A d, e \in Cmds : Rivals(cmd'[d], cmd'[e]) => d = e
  BY <1>17, <1>18, StillOne
<1> QED
  BY <1>6, <1>10, <1>11, <1>15, <1>19 DEF IInv

-----------------------------------------------------------------------------
(* The invariant                                                            *)

LEMMA NextStep == IInv /\ [Next]_vars => IInv'
<1> SUFFICES ASSUME IInv, [Next]_vars  PROVE IInv'
  OBVIOUS
<1>1. ASSUME NEW c \in Cmds,
             \/ Start(c) \/ Check(c) \/ ReadFile(c) \/ OpenExport(c) \/ Load(c) \/ Confirm(c)
             \/ Save(c) \/ SaveLocked(c) \/ SaveFails(c) \/ After(c) \/ Deliver(c)
             \/ CreatePlain(c) \/ WritePlain(c) \/ CreateExport(c) \/ PlaceExport(c)
             \/ FillExport(c) \/ WriteFails(c) \/ Kill(c)
      PROVE  IInv'
  <2>1. Start(c) => IInv'
    BY StartStep
  <2>2. Check(c) => IInv'
    BY CheckStep
  <2>3. ReadFile(c) => IInv'
    BY ReadFileStep
  <2>4. OpenExport(c) => IInv'
    BY OpenExportStep
  <2>5. Load(c) => IInv'
    BY LoadStep
  <2>6. Confirm(c) => IInv'
    BY ConfirmStep
  <2>7. Save(c) => IInv'
    BY SaveStep
  <2>8. SaveLocked(c) \/ SaveFails(c) => IInv'
    BY SaveLockedStep, SaveFailsStep
  <2>9. After(c) => IInv'
    BY AfterStep
  <2>10. Deliver(c) => IInv'
    BY DeliverStep
  <2>11. CreatePlain(c) \/ WritePlain(c) => IInv'
    BY CreatePlainStep, WritePlainStep
  <2>12. CreateExport(c) \/ PlaceExport(c) \/ FillExport(c) => IInv'
    BY CreateExportStep, PlaceExportStep, FillExportStep
  <2>13. WriteFails(c) \/ Kill(c) => IInv'
    BY WriteFailsStep, KillStep
  <2> QED
    BY <1>1, <2>1, <2>2, <2>3, <2>4, <2>5, <2>6, <2>7, <2>8, <2>9, <2>10, <2>11, <2>12, <2>13
<1>2. CASE UNCHANGED vars
  BY <1>2 DEF vars, IInv, HistoryInv, FileInv, Sound, Steps, Prints, Errs, Knows, Owns, Owner,
     OwnsPlain, OwnsEncrypted, Rivals, Clean, Added
<1> QED
  BY <1>1, <1>2 DEF Next, Done

(* Each command knows what it has read, of which generation, and what it    *)
(* has made of it; what it printed, reported and wrote goes with that.      *)
THEOREM Invariant == Spec => []IInv
<1>1. Init => IInv
  BY InitInv
<1>2. IInv /\ [Next]_vars => IInv'
  BY NextStep
<1> QED
  BY <1>1, <1>2, PTL DEF Spec

-----------------------------------------------------------------------------
(* What follows from it                                                     *)

(* The body is always sorted by valid names, each of which it has once.     *)
THEOREM TypeCorrect == Spec => []TypeOK
<1>1. IInv => TypeOK
  <2> SUFFICES ASSUME IInv  PROVE TypeOK
    OBVIOUS
  <2>1. /\ gen \in Nat \ {0} /\ gen = Len(log) /\ log \in Seq(Body) /\ items = log[gen]
        /\ items \in Body
    BY DEF IInv, HistoryInv
  <2>2. /\ items \in Seq(Item) /\ DOMAIN items = 1..Len(items) /\ Len(items) \in Nat
        /\ \A i \in DOMAIN items : items[i].name \in Names
        /\ \A i, k \in DOMAIN items : i < k => items[i].name < items[k].name
    BY <2>1 DEF Body
  <2>3. \A i \in DOMAIN items : items[i] \in Item
    BY <2>2
  <2>4. ASSUME NEW i \in DOMAIN items
        PROVE  /\ items[i].name \in Names /\ items[i].kind \in Kinds
               /\ i > 1 => items[i - 1].name < items[i].name
    <3>1. items[i].name \in Names /\ items[i].kind \in Kinds
      BY <2>2, <2>3 DEF Item
    <3>2. i > 1 => i - 1 \in DOMAIN items /\ i - 1 < i
      BY <2>2
    <3> QED
      BY <2>2, <3>1, <3>2
  <2>5. file.form \in {"absent", "partial", "plain", "encrypted"}
    BY DEF IInv, FileInv
  <2>6. \A c \in Cmds : cmd[c].gen <= gen /\ cmd[c].task \in Tasks \cup {NoTask}
    BY <2>1 DEF IInv, Sound, Knows, Record
  <2> QED
    BY <2>1, <2>4, <2>5, <2>6 DEF TypeOK
<1> QED
  BY <1>1, Invariant, PTL

(* An error that says nothing was done comes only from a command that has   *)
(* saved nothing, or from `add --clip` of what is not text.                 *)
THEOREM ErrorsHarmless == Spec => []ErrorsChangeNothing
<1>1. IInv => ErrorsChangeNothing
  BY DEF IInv, Sound, Errs, Harmless, ErrorsChangeNothing
<1> QED
  BY <1>1, Invariant, PTL

(* The file an export has written holds what the vault had when the export  *)
(* unlocked it, whoever saves or exports to the same path while it writes;  *)
(* but a plaintext export may have been replaced by an encrypted one.       *)
THEOREM ExportsSnapshots == Spec => []ExportIsSnapshot
<1>1. IInv => ExportIsSnapshot
  <2> SUFFICES ASSUME IInv, NEW c \in Cmds, cmd[c].task.op = "export", ~cmd[c].task.stdout,
                      cmd[c].pc = "save" \/ cmd[c].result = "ok"
               PROVE  \/ file = [form  |-> IF cmd[c].task.plain THEN "plain" ELSE "encrypted",
                                 items |-> log[Read(cmd[c])]]
                      \/ cmd[c].task.plain /\ file.form = "encrypted"
    BY DEF ExportIsSnapshot, Read
  <2> DEFINE r == cmd[c]
  <2>1. Steps(r) /\ Knows(c, r, log) /\ Owns(r, file)
    BY DEF IInv, Sound
  <2>2. Owner(r) /\ r.pc \notin {"place", "writeplain", "fill"}
    BY <2>1 DEF Owner, Steps
  <2>3. file = [form |-> file.form, items |-> file.items]
    BY DEF IInv, FileInv
  <2>4. r.seen = log[Read(r)]
    BY <2>1, <2>2 DEF Owns, Knows
  <2>5. CASE r.task.plain
    BY <2>1, <2>2, <2>3, <2>4, <2>5 DEF Owns, OwnsPlain
  <2>6. CASE ~r.task.plain
    BY <2>1, <2>2, <2>3, <2>4, <2>6 DEF Owns, OwnsEncrypted
  <2> QED
    BY <2>5, <2>6
<1> QED
  BY <1>1, Invariant, PTL

(* The report of an import accounts for every item of the document and, but *)
(* for --replace, its added items are those by which the vault has grown.   *)
THEOREM ReportsTrue == Spec => []ReportIsTrue
<1>1. IInv => ReportIsTrue
  <2> SUFFICES ASSUME IInv, NEW c \in Cmds, cmd[c].task.op = "import", cmd[c].wrote,
                      cmd[c].pc # "new"
               PROVE  LET r == cmd[c]
                      IN  /\ r.report.added + r.report.overwritten + r.report.skipped
                               = Len(r.doc)
                          /\ r.task.mode # "Replace" =>
                               r.report.added = Len(log[r.gen]) - Len(log[r.gen - 1])
    BY DEF ReportIsTrue
  <2> DEFINE r == cmd[c]
             b == r.seen
             m == Merge(b, r.doc, r.task.mode)
  <2>1. r \in Record /\ Steps(r) /\ Knows(c, r, log) /\ log \in Seq(Body)
    BY DEF IInv, Sound, HistoryInv
  <2>2. /\ r.task \in Tasks /\ b \in Body /\ r.doc \in Seq(Item) /\ Problem(r, b) = "ok"
        /\ r.report = m.report /\ r.gen > 0 /\ b = log[r.gen - 1] /\ log[r.gen] = Edited(c, r)
    <3>1. r.gen > 0
      BY <2>1 DEF Steps
    <3> QED
      BY <2>1, <3>1 DEF Knows, Steps, Record, Read
  <2>3. r.task.mode \in Modes
    BY <2>2, TaskParts
  <2>4. BadName \notin NamesOf(r.doc) /\ log[r.gen] = m.body
    BY <2>2, <2>3, MergeReports DEF Edited
  <2> HIDE DEF r
  <2>5. Gathered(m, Base(b, r.task.mode), r.doc, Len(r.doc), r.task.mode)
    BY <2>2, <2>3, <2>4, MergeGathers
  <2> HIDE DEF m
  <2>6. m.body \in Body /\ m.report \in Reports
    BY <2>5 DEF Gathered
  <2>7. m.report.added + m.report.overwritten + m.report.skipped = Len(r.doc)
    BY <2>5 DEF Gathered
  <2>8. r.task.mode # "Replace" => m.report.added + Len(b) = Len(m.body)
    BY <2>5 DEF Gathered, Base
  <2>9. /\ Len(b) \in Nat /\ Len(m.body) \in Nat /\ m.report.added \in Nat
        /\ m.report.overwritten \in Nat /\ m.report.skipped \in Nat
    BY <2>2, <2>6, BodyItems DEF Reports
  <2>10. Len(log[r.gen]) = Len(m.body) /\ Len(log[r.gen - 1]) = Len(b) /\ r.report = m.report
    BY <2>2, <2>4
  <2>11. /\ r.report.added + r.report.overwritten + r.report.skipped = Len(r.doc)
         /\ r.task.mode # "Replace" => r.report.added = Len(log[r.gen]) - Len(log[r.gen - 1])
    <3> HIDE DEF b
    <3>1. r.report.added + r.report.overwritten + r.report.skipped = Len(r.doc)
      BY <2>7, <2>10
    <3>2. m.report.added = Len(m.body) - Len(b) \/ r.task.mode = "Replace"
      BY <2>8, <2>9
    <3>3. r.report.added = m.report.added
      BY <2>10
    <3>4. r.task.mode # "Replace" => r.report.added = Len(log[r.gen]) - Len(log[r.gen - 1])
      BY <2>10, <3>2, <3>3
    <3> QED
      BY <3>1, <3>4
  <2> QED
    BY <2>11 DEF r
<1> QED
  BY <1>1, Invariant, PTL

(* What was added as a secret is kept as one, in all that comes after.      *)
THEOREM SecretsKept == Spec => []SecretsStaySecret
<1>1. IInv => SecretsStaySecret
  <2> SUFFICES ASSUME IInv, NEW i \in DOMAIN items  PROVE Clean(items[i])
    BY DEF SecretsStaySecret, Clean
  <2>1. gen \in DOMAIN log /\ items = log[gen] /\ items[i] \in Range(items)
    BY DEF IInv, HistoryInv, Range
  <2> QED
    BY <2>1 DEF IInv, HistoryInv
<1> QED
  BY <1>1, Invariant, PTL

(* A secret is printed only by a command that was asked for it, and only    *)
(* the plaintext export has printed anything when it fails.                 *)
THEOREM PrintsRequested == Spec => []PrintedOnRequest
<1>1. IInv => PrintedOnRequest
  BY DEF IInv, Sound, Prints, PrintedOnRequest, Failed
<1> QED
  BY <1>1, Invariant, PTL

-----------------------------------------------------------------------------
(* The items as a map                                                       *)

LEMMA NamelessParts ==
  ASSUME NEW x \in Item
  PROVE  /\ Nameless(x).id = x.id /\ Nameless(x).kind = x.kind
         /\ \A n : Nameless([x EXCEPT !.name = n]) = Nameless(x)
<1>1. DOMAIN x = {"id", "name", "kind", "fields"}
  BY DEF Item
<1>2. Nameless(x).id = x.id /\ Nameless(x).kind = x.kind
  BY <1>1 DEF Nameless
<1>3. ASSUME NEW n
      PROVE  Nameless([x EXCEPT !.name = n]) = Nameless(x)
  <2> DEFINE y == [x EXCEPT !.name = n]
  <2>1. DOMAIN y = DOMAIN x /\ \A k \in DOMAIN x \ {"name"} : y[k] = x[k]
    BY DEF Item
  <2> HIDE DEF y
  <2>2. Nameless(y) = Nameless(x)
    BY <2>1 DEF Nameless
  <2> QED
    BY <2>2 DEF y
<1> QED
  BY <1>2, <1>3

LEMMA MapParts ==
  ASSUME NEW b \in Body
  PROVE  /\ DOMAIN AsMap(b) = NamesOf(b)
         /\ \A n \in NamesOf(b) : /\ AsMap(b)[n] = Nameless(Get(b, n))
                                  /\ AsMap(b)[n].id = Get(b, n).id
                                  /\ AsMap(b)[n].kind = Get(b, n).kind
<1>1. DOMAIN AsMap(b) = NamesOf(b) /\ \A n \in NamesOf(b) : AsMap(b)[n] = Nameless(Get(b, n))
  BY DEF AsMap
<1>2. \A n \in NamesOf(b) : Get(b, n) \in Item
  BY GetFinds
<1> QED
  BY <1>1, <1>2, NamelessParts

(* The names of a body are as many as its items.                            *)
LEMMA AsManyNames ==
  ASSUME NEW b \in Body
  PROVE  Cardinality(NamesOf(b)) = Len(b)
<1> DEFINE f == [i \in DOMAIN b |-> b[i].name]
<1>1. /\ Len(b) \in Nat /\ DOMAIN b = 1..Len(b)
      /\ \A i, k \in DOMAIN b : b[i].name = b[k].name => i = k
  BY BodyItems
<1>2. IsFiniteSet(DOMAIN b) /\ Cardinality(DOMAIN b) = Len(b)
  BY <1>1, FS_Interval
<1>3. f \in Bijection(DOMAIN b, NamesOf(b))
  <2>1. f \in [DOMAIN b -> NamesOf(b)] /\ \A i, k \in DOMAIN b : f[i] = f[k] => i = k
    BY <1>1 DEF NamesOf
  <2>2. \A n \in NamesOf(b) : \E i \in DOMAIN b : f[i] = n
    BY DEF NamesOf
  <2> HIDE DEF f
  <2>3. f \in Injection(DOMAIN b, NamesOf(b)) /\ f \in Surjection(DOMAIN b, NamesOf(b))
    BY <2>1, <2>2, Fun_IsInj, Fun_IsSurj
  <2> QED
    BY <2>3 DEF Bijection
<1> HIDE DEF f
<1>4. Cardinality(NamesOf(b)) = Cardinality(DOMAIN b)
  <2>1. ExistsBijection(DOMAIN b, NamesOf(b))
    BY <1>3 DEF ExistsBijection
  <2> QED
    BY <1>2, <2>1, FS_Bijection
<1> QED
  BY <1>2, <1>4

(* An export of a body lists each of its items once.                        *)
LEMMA ExportsList ==
  ASSUME NEW b \in Body
  PROVE  AsDoc(b) \in Map!Listings(AsMap(b))
<1> DEFINE s == AsMap(b)
           d == AsDoc(b)
           R == {[name |-> n, item |-> s[n]] : n \in DOMAIN s}
<1>1. /\ Len(b) \in Nat /\ DOMAIN b = 1..Len(b)
      /\ \A i, k \in DOMAIN b : b[i].name = b[k].name => i = k
  BY BodyItems
<1>2. DOMAIN s = NamesOf(b) /\ \A n \in NamesOf(b) : s[n] = Nameless(Get(b, n))
  BY MapParts
<1>3. Cardinality(DOMAIN s) = Len(b)
  BY <1>2, AsManyNames
<1>4. \A i \in DOMAIN b : b[i].name \in NamesOf(b) /\ Get(b, b[i].name) = b[i]
  BY GetFinds DEF Range
<1>5. /\ DOMAIN d = DOMAIN b
      /\ \A i \in DOMAIN b : d[i] = [name |-> b[i].name, item |-> Nameless(b[i])]
      /\ d = [i \in DOMAIN b |-> d[i]]
  BY DEF AsDoc
<1> HIDE DEF s, d
<1>6. \A i \in DOMAIN b : d[i] \in R
  BY <1>2, <1>4, <1>5
<1> HIDE DEF R
<1>7. d \in [1..Cardinality(DOMAIN s) -> R]
  <2>1. d \in [DOMAIN b -> R]
    BY <1>5, <1>6, Zenon
  <2> QED
    BY <1>1, <1>3, <2>1
<1>8. \A i, j \in DOMAIN d : d[i].name = d[j].name => i = j
  BY <1>1, <1>5
<1>9. d \in Map!Listings(s)
  <2>1. Map!Cardinality(DOMAIN s) = Cardinality(DOMAIN s)
    BY Zenon DEF Map!Cardinality, Cardinality
  <2>2. d \in [1..Map!Cardinality(DOMAIN s) -> R]
    BY <1>7, <2>1
  <2> QED
    BY <1>8, <2>2, Zenon DEF Map!Listings, R
<1> QED
  BY <1>9 DEF s, d

(* What an import makes of the items is what its mode says.                 *)
LEMMA MergeIsMerged ==
  ASSUME items \in Body, NEW doc \in Seq(Item), NEW mode \in Modes, BadName \notin NamesOf(doc)
  PROVE  /\ Map!Named(AsDoc(doc)) = NamesOf(doc)
         /\ AsMap(Merge(items, doc, mode).body) = Map!Merged(AsDoc(doc), mode)
<1> DEFINE b == Base(items, mode)
           d == Merge(items, doc, mode).body
           x == AsDoc(doc)
           N == NamesOf(doc)
           D == (IF mode = "Replace" THEN {} ELSE DOMAIN AsMap(items)) \cup N
<1>1. b \in Body /\ Gathered(Merge(items, doc, mode), b, doc, Len(doc), mode)
  BY MergeGathers
<1>2. DOMAIN doc = 1..Len(doc) /\ Len(doc) \in Nat
  OBVIOUS
<1>3. N = NamedIn(doc, Len(doc))
  BY <1>2 DEF NamesOf, NamedIn
<1>4. /\ d \in Body /\ NamesOf(d) = NamesOf(b) \cup N
      /\ \A n \in NamesOf(b) : mode = "Merge" \/ n \notin N => Get(d, n) = Get(b, n)
      /\ \A n \in N : ~(mode = "Merge" /\ n \in NamesOf(b)) =>
           \E k \in DOMAIN doc : /\ doc[k].name = n /\ Get(d, n) = doc[k]
                                 /\ \A j \in DOMAIN doc : doc[j].name = n =>
                                      IF mode = "Merge" THEN k <= j ELSE j <= k
  <2> HIDE DEF b
  <2> QED
    BY <1>1, <1>2, <1>3 DEF Gathered
<1>5. /\ DOMAIN x = DOMAIN doc
      /\ \A i \in DOMAIN doc : x[i] = [name |-> doc[i].name, item |-> Nameless(doc[i])]
  BY DEF AsDoc
<1> HIDE DEF x, d
<1>6. Map!Named(x) = N
  BY <1>5 DEF Map!Named, NamesOf
<1>7. \A n : Map!Positions(x, n) = {i \in DOMAIN doc : doc[i].name = n}
  BY <1>5 DEF Map!Positions
<1>8. /\ mode # "Replace" => b = items
      /\ NamesOf(b) = IF mode = "Replace" THEN {} ELSE DOMAIN AsMap(items)
  <2>1. mode # "Replace" => b = items
    BY DEF Base
  <2>2. mode = "Replace" => NamesOf(b) = {}
    BY DEF Base, NamesOf
  <2>3. DOMAIN AsMap(items) = NamesOf(items)
    BY MapParts
  <2> HIDE DEF b
  <2> QED
    BY <2>1, <2>2, <2>3
<1>9. DOMAIN AsMap(d) = D /\ \A n \in D : AsMap(d)[n] = Nameless(Get(d, n))
  BY <1>4, <1>8, MapParts
<1>10. AsMap(d) = [n \in D |-> AsMap(d)[n]]
  BY <1>9 DEF AsMap
<1> HIDE DEF b, N
<1>11. ASSUME NEW n \in D, n \notin N \/ (mode = "Merge" /\ n \in DOMAIN AsMap(items))
       PROVE  AsMap(d)[n] = AsMap(items)[n]
  <2>1. n \in NamesOf(b) /\ b = items /\ n \in NamesOf(items)
    BY <1>8, <1>11, MapParts DEF Modes
  <2>2. Get(d, n) = Get(items, n)
    BY <1>4, <1>11, <2>1
  <2> QED
    BY <1>9, <2>1, <2>2, MapParts
<1>12. ASSUME NEW n \in D, n \in N, ~(mode = "Merge" /\ n \in DOMAIN AsMap(items))
       PROVE  AsMap(d)[n] = IF mode = "Merge" THEN Map!FirstNamed(x, n) ELSE Map!LastNamed(x, n)
  <2> DEFINE P == {i \in DOMAIN doc : doc[i].name = n}
  <2>1. PICK k \in P : /\ Get(d, n) = doc[k]
                       /\ \A j \in P : IF mode = "Merge" THEN k <= j ELSE j <= k
    BY <1>4, <1>8, <1>12
  <2>2. k \in DOMAIN doc /\ AsMap(d)[n] = x[k].item
    BY <1>5, <1>9, <2>1
  <2>3. P \subseteq Nat
    BY <1>2
  <2> HIDE DEF P
  <2>4. CASE mode = "Merge"
    <3>1. k \in P /\ \A j \in P : k <= j
      BY <2>1, <2>4
    <3>2. \A i \in P : (\A j \in P : i <= j) => i = k
      BY <2>3, <3>1
    <3>3. k = CHOOSE i \in P : \A j \in P : i <= j
      BY <3>1, <3>2
    <3> QED
      BY <1>7, <2>2, <2>4, <3>3 DEF Map!FirstNamed, P
  <2>5. CASE mode # "Merge"
    <3>1. k \in P /\ \A j \in P : k >= j
      BY <2>1, <2>3, <2>5
    <3>2. \A i \in P : (\A j \in P : i >= j) => i = k
      BY <2>3, <3>1
    <3>3. k = CHOOSE i \in P : \A j \in P : i >= j
      BY <3>1, <3>2
    <3> QED
      BY <1>7, <2>2, <2>5, <3>3 DEF Map!LastNamed, P
  <2> QED
    BY <2>4, <2>5
<1>13. \A n \in D : AsMap(d)[n] =
         IF n \notin N \/ (mode = "Merge" /\ n \in DOMAIN AsMap(items)) THEN AsMap(items)[n]
         ELSE IF mode = "Merge" THEN Map!FirstNamed(x, n) ELSE Map!LastNamed(x, n)
  BY <1>11, <1>12
<1>14. AsMap(d) = Map!Merged(x, mode)
  BY <1>6, <1>10, <1>13 DEF Map!Merged
<1> QED
  BY <1>6, <1>14 DEF x, d, N

-----------------------------------------------------------------------------
(* Each save is one operation on the map                                    *)

LEMMA MapNext == AsMap(items)' = AsMap(items')
<1> QED
  BY DEF AsMap, NamesOf, Get, Nameless

(* One item is put in or changed; or some are dropped.                      *)
LEMMA PutOne ==
  ASSUME items \in Body, NEW x \in Item, x.name \in Names, items' = Insert(items, x)
  PROVE  /\ Map!Others({x.name}) /\ x.name \in (DOMAIN AsMap(items))'
         /\ AsMap(items)'[x.name].id = x.id /\ AsMap(items)'[x.name].kind = x.kind
<1> DEFINE s == AsMap(items)
           d == Insert(items, x)
           t == AsMap(d)
<1>1. AsMap(items)' = t
  BY MapNext
<1>2. d \in Body /\ NamesOf(d) = NamesOf(items) \cup {x.name}
      /\ \A n \in NamesOf(d) : Get(d, n) = IF n = x.name THEN x ELSE Get(items, n)
  BY InsertPutsOne, InsertAsMap
<1>3. /\ DOMAIN s = NamesOf(items) /\ \A n \in NamesOf(items) : s[n] = Nameless(Get(items, n))
  BY MapParts
<1> HIDE DEF s, d
<1>4. /\ DOMAIN t = NamesOf(d)
      /\ \A n \in NamesOf(d) : /\ t[n] = Nameless(Get(d, n))
                               /\ t[n].id = Get(d, n).id /\ t[n].kind = Get(d, n).kind
  BY <1>2, MapParts
<1> HIDE DEF t
<1>5. DOMAIN s \ {x.name} = DOMAIN t \ {x.name}
      /\ \A n \in DOMAIN s \ {x.name} : t[n] = s[n]
  BY <1>2, <1>3, <1>4
<1>6. Map!Others({x.name})
  BY <1>1, <1>5 DEF Map!Others, s
<1>7. x.name \in DOMAIN t /\ t[x.name].id = x.id /\ t[x.name].kind = x.kind
  BY <1>2, <1>4
<1> QED
  BY <1>1, <1>6, <1>7

LEMMA AddIsPut ==
  ASSUME IInv, NEW c \in Cmds, Save(c), cmd[c].task.op = "add"
  PROVE  Map!Put
<1> DEFINE p == cmd[c]
           x == Built(c, p.task)
           s == AsMap(items)
<1>1. /\ p.seen = items /\ p.task \in Tasks /\ Admitted(p.task) /\ items \in Body
      /\ \A y \in Range(items) : y.id # c
  BY SavesCurrent DEF Save
<1>2. x \in Item /\ x.id = c /\ x.name = p.task.name /\ x.name \in Names
  BY <1>1, BuiltItem DEF Admitted
<1>3. items' = Insert(items, x)
  BY <1>1 DEF Save, Edited
<1> HIDE DEF x
<1>4. Map!Others({x.name}) /\ x.name \in (DOMAIN s)' /\ s'[x.name].id = c
  BY <1>1, <1>2, <1>3, PutOne
<1>5. \A m \in DOMAIN s : s[m].id # c
  BY <1>1, MapParts, GetFinds
<1>6. \A m \in DOMAIN s : s[m].id # s'[x.name].id
  BY <1>4, <1>5
<1> QED
  BY <1>2, <1>4, <1>6 DEF Map!Put

LEMMA SetIsSet ==
  ASSUME IInv, NEW c \in Cmds, Save(c), cmd[c].task.op = "set"
  PROVE  Map!Set
<1> DEFINE t == cmd[c].task
           x == Get(items, t.name)
           y == SetItem(c, t, x)
           s == AsMap(items)
<1>1. /\ cmd[c].seen = items /\ t \in Tasks /\ items \in Body /\ Problem(cmd[c], items) = "ok"
      /\ \A z \in Range(items) : Clean(z) /\ z.id # c
  BY SavesCurrent DEF Save
<1>2. t.name \in NamesOf(items)
  BY <1>1 DEF Problem
<1>3. x \in Item /\ x \in Range(items) /\ x.name = t.name /\ t.name \in Names
  BY <1>1, <1>2, GetFinds
<1>4. items' = Insert(items, y)
  BY <1>1 DEF Save, Edited, SetItem
<1>5. y \in Item /\ y.id = x.id /\ y.name = x.name /\ y.kind = x.kind
  <2> HIDE DEF x, t
  <2>1. Clean(x) /\ x.id # c /\ t.op = "set"
    BY <1>1, <1>3 DEF t
  <2> QED
    BY <1>1, <1>3, <2>1, SetKeepsItem
<1>6. t.name \in DOMAIN s /\ s[t.name].id = x.id /\ s[t.name].kind = x.kind
  BY <1>1, <1>2, MapParts
<1> HIDE DEF x, y
<1>7. /\ Map!Others({t.name}) /\ t.name \in (DOMAIN s)'
      /\ s'[t.name].id = x.id /\ s'[t.name].kind = x.kind
  <2>1. y.name = t.name /\ y.name \in Names
    BY <1>3, <1>5
  <2> HIDE DEF t, s
  <2>2. Map!Others({y.name}) /\ y.name \in (DOMAIN s)'
        /\ s'[y.name].id = y.id /\ s'[y.name].kind = y.kind
    BY <1>1, <1>4, <1>5, <2>1, PutOne DEF s
  <2> QED
    BY <1>5, <2>1, <2>2
<1> QED
  BY <1>6, <1>7 DEF Map!Set

LEMMA RmIsDrop ==
  ASSUME IInv, NEW c \in Cmds, Save(c), cmd[c].task.op = "rm"
  PROVE  Map!Drop
<1> DEFINE ns == cmd[c].task.names
           d == RemoveAll(items, ns)
           s == AsMap(items)
           t == AsMap(d)
           S == DOMAIN s \cap Range(ns)
<1>1. cmd[c].seen = items /\ items \in Body
  BY SavesCurrent DEF Save
<1>2. items' = d
  BY <1>1 DEF Save, Edited
<1>3. s' = t
  BY <1>2, MapNext
<1>4. d \in Body /\ NamesOf(d) = NamesOf(items) \ Range(ns)
      /\ \A n \in NamesOf(d) : Get(d, n) = Get(items, n)
  BY <1>1, RemoveAllAsMap
<1>5. DOMAIN s = NamesOf(items) /\ \A n \in NamesOf(items) : s[n] = Nameless(Get(items, n))
  BY <1>1, MapParts
<1> HIDE DEF d, s
<1>6. DOMAIN t = NamesOf(d) /\ \A n \in NamesOf(d) : t[n] = Nameless(Get(d, n))
  BY <1>4, MapParts
<1> HIDE DEF t, ns
<1>7. /\ DOMAIN s \ S = DOMAIN t \ S /\ DOMAIN t \cap S = {}
      /\ \A n \in DOMAIN s \ S : t[n] = s[n]
  BY <1>4, <1>5, <1>6
<1> HIDE DEF S
<1>8. Map!Others(S) /\ (DOMAIN s)' \cap S = {}
  BY <1>3, <1>7 DEF Map!Others, s
<1>9. S \in SUBSET DOMAIN s
  BY DEF S
<1> QED
  BY <1>8, <1>9 DEF Map!Drop, s

LEMMA MvIsRename ==
  ASSUME IInv, NEW c \in Cmds, Save(c), cmd[c].task.op = "mv"
  PROVE  Map!Rename \/ Map!Note
<1> DEFINE old == cmd[c].task.name
           new == cmd[c].task.new
           d == Renamed(items, old, new)
           s == AsMap(items)
           t == AsMap(d)
<1>1. /\ cmd[c].seen = items /\ items \in Body /\ Problem(cmd[c], items) = "ok"
      /\ Admitted(cmd[c].task)
  BY SavesCurrent DEF Save
<1>2. items' = d
  BY <1>1 DEF Save, Edited
<1>3. old \in NamesOf(items) /\ new \in Names
  BY <1>1 DEF Problem, Admitted
<1>4. s' = t
  BY <1>2, MapNext
<1>5. CASE old = new
  <2>1. d = items
    BY <1>5 DEF Renamed
  <2> QED
    BY <1>4, <2>1 DEF Map!Note
<1>6. CASE old # new
  <2> DEFINE x == Get(items, old)
  <2>1. /\ d \in Body /\ NamesOf(d) = (NamesOf(items) \ {old}) \cup {new}
        /\ Get(d, new) = [x EXCEPT !.name = new]
        /\ \A n \in NamesOf(d) \ {new} : Get(d, n) = Get(items, n)
    <3> HIDE DEF old, new
    <3> QED
      BY <1>1, <1>3, <1>6, RenamedAsMap
  <2>2. x \in Item
    BY <1>1, <1>3, GetFinds
  <2>3. DOMAIN s = NamesOf(items) /\ \A n \in NamesOf(items) : s[n] = Nameless(Get(items, n))
    BY <1>1, MapParts
  <2> HIDE DEF d, s, old, new
  <2>4. DOMAIN t = NamesOf(d) /\ \A n \in NamesOf(d) : t[n] = Nameless(Get(d, n))
    BY <2>1, MapParts
  <2> HIDE DEF t
  <2>5. s[old] = Nameless(x)
    BY <1>3, <2>3
  <2> HIDE DEF x
  <2>6. t[new] = s[old]
    BY <2>1, <2>2, <2>4, <2>5, NamelessParts
  <2>7. /\ DOMAIN s \ {old, new} = DOMAIN t \ {old, new}
        /\ \A n \in DOMAIN s \ {old, new} : t[n] = s[n]
        /\ DOMAIN t \cap {old, new} = {new} /\ old \in DOMAIN s
    BY <1>3, <1>6, <2>1, <2>3, <2>4
  <2>8. Map!Others({old, new}) /\ (DOMAIN s)' \cap {old, new} = {new} /\ s'[new] = s[old]
    BY <1>4, <2>6, <2>7 DEF Map!Others, s
  <2> QED
    BY <1>3, <2>7, <2>8 DEF Map!Rename, s
<1> QED
  BY <1>5, <1>6

LEMMA ImportIsImport ==
  ASSUME IInv, NEW c \in Cmds, Save(c), cmd[c].task.op = "import"
  PROVE  Map!Import
<1> DEFINE p == cmd[c]
           doc == p.doc
           mode == p.task.mode
           s == AsMap(items)
           past == {AsMap(log[g]) : g \in DOMAIN log}
           D == {AsDoc(d) : d \in Docs} \cup {<<>>} \cup UNION {Map!Listings(m) : m \in past}
<1>1. /\ p.seen = items /\ items \in Body /\ Problem(p, items) = "ok" /\ p.task \in Tasks
      /\ doc \in Docs \cup Range(log) \cup {<<>>} /\ doc \in Seq(Item)
  BY SavesCurrent DEF Save
<1>2. mode \in Modes /\ BadName \notin NamesOf(doc)
  BY <1>1, TaskParts DEF Problem
<1>3. items' = Merge(items, doc, mode).body
  BY <1>1 DEF Save, Edited
<1>4. s' = AsMap(Merge(items, doc, mode).body)
  BY <1>3, MapNext
<1>5. Map!Named(AsDoc(doc)) = NamesOf(doc) /\ s' = Map!Merged(AsDoc(doc), mode)
  BY <1>1, <1>2, <1>4, MergeIsMerged
<1>6. NamesOf(doc) \subseteq Names
  <2>1. \A i \in DOMAIN doc : doc[i].name \in AnyName
    <3>1. \A i \in DOMAIN doc : doc[i] \in Item
      BY <1>1
    <3> QED
      BY <3>1 DEF Item
  <2> QED
    BY <1>2, <2>1 DEF NamesOf, AnyName
<1>7. AsDoc(doc) \in D
  <2>1. CASE doc \in Docs
    BY <2>1
  <2>2. CASE doc \in Range(log)
    <3>1. PICK g \in DOMAIN log : doc = log[g]
      BY <2>2 DEF Range
    <3>2. doc \in Body
      BY <2>2, <3>1 DEF IInv, HistoryInv
    <3>3. AsDoc(doc) \in Map!Listings(AsMap(doc))
      BY <3>2, ExportsList
    <3>4. AsMap(doc) \in past
      BY <3>1
    <3> HIDE DEF past, doc
    <3> QED
      BY <3>3, <3>4
  <2>3. CASE doc = <<>>
    <3>1. AsDoc(<<>>) = <<>>
      <4>1. DOMAIN <<>> = {} /\ <<>> = [i \in {} |-> <<>>[i]]
        OBVIOUS
      <4> QED
        BY <4>1 DEF AsDoc
    <3> HIDE DEF past, doc
    <3> QED
      BY <2>3, <3>1
  <2> QED
    BY <1>1, <2>1, <2>2, <2>3
<1> HIDE DEF doc, mode, s
<1> QED
  BY <1>2, <1>5, <1>6, <1>7 DEF Map!Import, Modes, s

(* An export that records its time leaves the items as they are.            *)
LEMMA ExportIsNote ==
  ASSUME IInv, NEW c \in Cmds, Save(c), cmd[c].task.op = "export"
  PROVE  Map!Note
<1>1. cmd[c].seen = items
  BY SavesCurrent DEF Save
<1>2. items' = items
  BY <1>1 DEF Save, Edited
<1>3. AsMap(items)' = AsMap(items)
  BY <1>2, MapNext
<1> QED
  BY <1>3 DEF Map!Note

(* The contents the vault has had are, after a save, those and the new one. *)
LEMMA SaveIsMapStep ==
  ASSUME IInv, NEW c \in Cmds, Save(c)
  PROVE  Map!Next
<1> DEFINE past == {AsMap(log[g]) : g \in DOMAIN log}
<1>1. cmd[c].task \in Tasks /\ ~Reads(cmd[c].task.op)
  BY SavesCurrent DEF Save
<1>2. Map!Put \/ Map!Set \/ Map!Drop \/ Map!Rename \/ Map!Note \/ Map!Import
  <2>1. cmd[c].task.op = "add" => Map!Put
    BY AddIsPut
  <2>2. cmd[c].task.op = "set" => Map!Set
    BY SetIsSet
  <2>3. cmd[c].task.op = "rm" => Map!Drop
    BY RmIsDrop
  <2>4. cmd[c].task.op = "mv" => Map!Rename \/ Map!Note
    BY MvIsRename
  <2>5. cmd[c].task.op = "import" => Map!Import
    BY ImportIsImport
  <2>6. cmd[c].task.op = "export" => Map!Note
    BY ExportIsNote
  <2> QED
    BY <1>1, <2>1, <2>2, <2>3, <2>4, <2>5, <2>6, TaskParts DEF Reads
<1>3. past' = past \cup {AsMap(items)'}
  <2> DEFINE b == items'
             m == Append(log, b)
             map(x) == AsMap(x)
  <2>1. /\ log \in Seq(Body) /\ log' = m
    BY DEF IInv, HistoryInv, Save
  <2>2. b \in Body
    <3>1. IInv'
      BY SaveStep
    <3>2. (log \in Seq(Body) /\ gen \in DOMAIN log /\ items = log[gen])'
      BY <3>1 DEF IInv, HistoryInv
    <3> QED
      BY <3>2
  <2>3. /\ DOMAIN m = DOMAIN log \cup {Len(log) + 1} /\ m[Len(log) + 1] = b
        /\ \A g \in DOMAIN log : m[g] = log[g]
    BY <2>1, <2>2, LongerHistory
  <2>4. past' = {AsMap(m[g]) : g \in DOMAIN m}
    BY <2>1 DEF AsMap, NamesOf, Get, Nameless
  <2>5. AsMap(items)' = AsMap(b)
    BY MapNext
  <2> HIDE DEF m, b
  <2>6. {AsMap(m[g]) : g \in DOMAIN m} = past \cup {AsMap(b)}
    BY <2>3
  <2> HIDE DEF past
  <2> QED
    BY <2>4, <2>5, <2>6
<1> QED
  BY <1>2, <1>3 DEF Map!Next

(* All other steps leave the map alone.                                     *)
LEMMA StepIsMapStep == IInv /\ [Next]_vars => [Map!Next]_(Map!vars)
<1> SUFFICES ASSUME IInv, [Next]_vars  PROVE [Map!Next]_(Map!vars)
  OBVIOUS
<1>1. ASSUME NEW c \in Cmds, Save(c)
      PROVE  Map!Next
  BY <1>1, SaveIsMapStep
<1>2. ASSUME UNCHANGED <<items, log>>
      PROVE  UNCHANGED Map!vars
  BY <1>2 DEF Map!vars, AsMap, NamesOf, Get, Nameless
<1>3. (\E c \in Cmds : Save(c)) \/ UNCHANGED <<items, log>>
  BY DEF Next, Done, vars, Start, Check, ReadFile, OpenExport, Load, Confirm, SaveLocked,
     SaveFails, After, Deliver, CreatePlain, WritePlain, CreateExport, PlaceExport, FillExport,
     WriteFails, Kill
<1> QED
  BY <1>1, <1>2, <1>3

LEMMA InitIsMapInit == Init => Map!Init
<1> SUFFICES ASSUME Init  PROVE {AsMap(log[g]) : g \in DOMAIN log} = {AsMap(items)}
  BY DEF Map!Init
<1>1. log = <<items>>
  BY DEF Init
<1>2. DOMAIN log = {1} /\ log[1] = items
  BY <1>1
<1> QED
  BY <1>2

(* Whatever the commands do at the same time, the vault changes by one      *)
(* operation on the map of its items at a time: nobody's change is undone.  *)
THEOREM ItemsImplementTheMap == Spec => ImplementsItemMap
<1>1. Init => Map!Init
  BY InitIsMapInit
<1>2. IInv /\ [Next]_vars => [Map!Next]_(Map!vars)
  BY StepIsMapStep
<1> QED
  BY <1>1, <1>2, Invariant, PTL DEF Spec, ImplementsItemMap, Map!Spec
=============================================================================
