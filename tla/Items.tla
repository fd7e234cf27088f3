------------------------------- MODULE Items --------------------------------
(***************************************************************************)
(* The items of a vault and the commands on them: add, set, rm, mv, get,   *)
(* show, ls, import and export (wcm-cli commands, wcm-core item.rs,        *)
(* vault/body.rs, export.rs).  Several commands run at the same time.  One *)
(* of them checks its arguments, unlocks the vault, works on the body it   *)
(* then has in memory, saves it if nobody else has saved meanwhile, and    *)
(* only then prints or copies.  Export writes a file, in two saves if it   *)
(* is encrypted, which import reads in two calls; the others may come in   *)
(* between.                                                                *)
(*                                                                         *)
(* A save is VaultStore's, an unlock is Unlock's and KeySlots'; here both  *)
(* are one step that may fail.  Notes, tags and times are left out.        *)
(***************************************************************************)
EXTENDS Naturals, Sequences, FiniteSets, SequencesExt, TLC

CONSTANTS
  Cmds,       \* the wcm processes
  Tasks,      \* the command lines, see Task
  Names,      \* the valid item names: a number is a place in their order
  BadName,    \* a name that validate_name refuses
  FieldNames, \* the field names
  Docs,       \* JSON documents that were not exported from this vault
  FirstItem,  \* an item the vault has to begin with
  MaxFaults   \* bound on the failing saves and killed commands


VARIABLES
  items,   \* the items of the body, sorted by name
  gen,     \* the generation of the vault file
  file,    \* the file at the path of export and import: a vault file ("encrypted"),
           \* a JSON document ("plain"), or neither of them ("partial")
  cmd,     \* cmd[c]: the progress of command c
  faults,
  log      \* history: the items of every generation

vars == <<items, gen, file, cmd, faults, log>>

-----------------------------------------------------------------------------
(* Items *)

Kinds == {"password", "login", "token", "ssh-key", "file", "note"}
Forms == {"text", "key", "bytes"}
AnyName == Names \cup {BadName}

(* ItemKind::primary_field *)
Primary(kind) ==
  CASE kind \in {"password", "login"} -> "password"
    [] kind = "token"   -> "token"
    [] kind = "ssh-key" -> "private_key"
    [] kind = "file"    -> "content"
    [] kind = "note"    -> "note"

(* A field value: who gave it, in which form ("key" is an OpenSSH private   *)
(* key, "bytes" no UTF-8), and how it is stored.  `typed` is what was given *)
(* as the secret of the item or field, as opposed to `--field KEY=VALUE`.   *)
Value(by, form, typed, binary, secret) ==
  [by |-> by, form |-> form, typed |-> typed, binary |-> binary, secret |-> secret]

(* SecretInput::into_value *)
Stored(by, form, forced, secret) == Value(by, form, TRUE, forced \/ form = "bytes", secret)

PublicText(by) == Value(by, "text", FALSE, FALSE, FALSE)

(* FieldValue::as_text, get::is_binary *)
HasText(v) == v.form # "bytes"

With(it, f, v) ==
  [it EXCEPT !.fields = [g \in DOMAIN @ \cup {f} |-> IF g = f THEN v ELSE @[g]]]
Without(it, f) == [it EXCEPT !.fields = [g \in DOMAIN @ \ {f} |-> @[g]]]

-----------------------------------------------------------------------------
(* The body *)

NamesOf(b) == {b[i].name : i \in DOMAIN b}
Get(b, n) == b[CHOOSE i \in DOMAIN b : b[i].name = n]

(* The items at the positions S, in their order: Iterator::filter.          *)
Sublist(b, S) ==
  [i \in 1..Cardinality(S) |-> b[CHOOSE j \in S : Cardinality({k \in S : k <= j}) = i]]

(* items.sort_by, which is stable. *)
NotAfter(b, k, j) == b[k].name < b[j].name \/ (b[k].name = b[j].name /\ k <= j)
Rank(b, j) == Cardinality({k \in DOMAIN b : NotAfter(b, k, j)})
WithItems(b) == [i \in DOMAIN b |-> b[CHOOSE j \in DOMAIN b : Rank(b, j) = i]]

Except(b, n) == Sublist(b, {i \in DOMAIN b : b[i].name # n})

(* Mutant of Insert: what has the name already is not taken out. *)
InsertBeside(b, it) == WithItems(Append(b, it))

(* VaultBody::insert, remove, update and rename when they succeed. *)
Insert(b, it) == WithItems(Append(Except(b, it.name), it))
RemoveAll(b, ns) == Sublist(b, {i \in DOMAIN b : b[i].name \notin Range(ns)})

Renamed(b, old, new) ==
  IF old = new THEN b
  ELSE Insert(Except(Except(b, new), old), [Get(b, old) EXCEPT !.name = new])

(* MergeReport *)
NoReport == [added |-> 0, overwritten |-> 0, skipped |-> 0]

(* Mutant of MergeItem: what is replaced is not counted. *)
MergeItemUncounted(acc, it, mode) ==
  CASE it.name \in NamesOf(acc.body) /\ mode = "Merge" ->
         [acc EXCEPT !.report.skipped = @ + 1]
    [] it.name \in NamesOf(acc.body) /\ mode = "Overwrite" ->
         [acc EXCEPT !.body = Insert(@, it)]
    [] OTHER ->
         [body |-> Insert(acc.body, it), report |-> [acc.report EXCEPT !.added = @ + 1]]

(* One item of an import. *)
MergeItem(acc, it, mode) ==
  CASE it.name \in NamesOf(acc.body) /\ mode = "Merge" ->
         [acc EXCEPT !.report.skipped = @ + 1]
    [] it.name \in NamesOf(acc.body) /\ mode = "Overwrite" ->
         [body |-> Insert(acc.body, it), report |-> [acc.report EXCEPT !.overwritten = @ + 1]]
    [] OTHER ->
         [body |-> Insert(acc.body, it), report |-> [acc.report EXCEPT !.added = @ + 1]]

Merge(b, doc, mode) ==
  LET acc[i \in 0..Len(doc)] ==
        IF i = 0 THEN [body |-> IF mode = "Replace" THEN <<>> ELSE b, report |-> NoReport]
        ELSE MergeItem(acc[i - 1], doc[i], mode)
  IN  acc[Len(doc)]

-----------------------------------------------------------------------------
(* Commands *)

NoTask == [op |-> "none"]

(* The command lines as clap leaves them. *)
Task ==
  [op : {"add"}, name : AnyName, kind : Kinds \cup {"auto"}, form : Forms,
   origin : {"generated", "stdin", "prompt", "file"}, extra : SUBSET FieldNames,
   force : BOOLEAN, clip : BOOLEAN]
    \cup [op : {"set"}, name : AnyName, field : FieldNames \cup {"primary"}, delete : BOOLEAN,
          public : BOOLEAN, form : Forms]
    \cup [op : {"rm"}, names : Seq(AnyName), force : BOOLEAN]
    \cup [op : {"mv"}, name : AnyName, new : AnyName, force : BOOLEAN]
    \cup [op : {"get"}, names : Seq(AnyName), field : FieldNames \cup {"primary"},
          clip : BOOLEAN, raw : BOOLEAN, tty : BOOLEAN]
    \cup [op : {"show"}, name : AnyName, reveal : BOOLEAN]
    \cup [op : {"ls"}]
    \cup [op : {"import"}, mode : {"Merge", "Overwrite", "Replace"}, force : BOOLEAN]
    \cup {t \in [op : {"export"}, plain : BOOLEAN, stdout : BOOLEAN, iKnow : BOOLEAN] :
            t.stdout \/ t.iKnow => t.plain}

(* Who made the items that no command here has made. *)
DocIds == UNION {{d[i].id : i \in DOMAIN d} : d \in Docs}
Origins == DocIds \cup {FirstItem.id}

(* An item with its fields, which somebody has given.                       *)
IsItem(it) ==
  /\ it = [id |-> it.id, name |-> it.name, kind |-> it.kind, fields |-> it.fields]
  /\ it.name \in AnyName /\ it.kind \in Kinds
  /\ it.fields = [f \in DOMAIN it.fields |-> it.fields[f]]
  /\ DOMAIN it.fields \subseteq FieldNames
  /\ \A f \in DOMAIN it.fields :
       it.fields[f] \in [by : Origins, form : Forms, typed : BOOLEAN, binary : BOOLEAN,
                         secret : BOOLEAN]

(* The item the vault has was added like those that will be.                *)
ASSUME ItemsConstants ==
  /\ Names \subseteq Nat /\ BadName \in Nat \ Names
  /\ {"password", "token", "private_key", "content", "note", "public_key", "fingerprint",
      "algorithm", "filename"} \subseteq FieldNames
  /\ MaxFaults \in Nat
  /\ Tasks \subseteq Task
  /\ Origins \cap Cmds = {} /\ FirstItem.id \notin DocIds
  /\ IsItem(FirstItem) /\ FirstItem.name \in Names
  /\ \A d \in Docs : d \in Seq(Range(d)) /\ \A i \in DOMAIN d : IsItem(d[i])
  /\ LET v(f) == FirstItem.fields[f]
     IN  \A f \in DOMAIN FirstItem.fields :
           v(f).by = FirstItem.id => /\ v(f).typed => v(f).secret
                                     /\ f = Primary(FirstItem.kind) => v(f).typed

Idle ==
  [pc |-> "new", task |-> NoTask, seen |-> <<>>, gen |-> 0, doc |-> <<>>,
   report |-> NoReport, printed |-> {}, wrote |-> FALSE, result |-> "none"]

Init ==
  /\ items = <<FirstItem>> /\ gen = 1 /\ log = <<items>>
  /\ file \in {[form |-> "absent", items |-> <<>>], [form |-> "partial", items |-> <<>>],
                [form |-> "encrypted", items |-> items]}
                \cup {[form |-> "plain", items |-> d] : d \in Docs}
  /\ cmd = [c \in Cmds |-> Idle]
  /\ faults = 0

Become(c, r) == cmd' = [cmd EXCEPT ![c] = r]
At(c, step) == cmd[c].pc = step
Goto(r, step) == [r EXCEPT !.pc = step]
Ended(r, e) == [r EXCEPT !.pc = "ended", !.result = e]

Start(c) ==
  /\ At(c, "new")
  /\ \E t \in Tasks : Become(c, [Idle EXCEPT !.task = t, !.pc = "check"])
  /\ UNCHANGED <<items, gen, file, faults, log>>

(* add::detect_kind *)
Kind(t) ==
  IF t.kind # "auto" THEN t.kind
  ELSE IF t.form = "key" THEN "ssh-key"
  ELSE IF t.origin = "file" THEN "file" ELSE "password"

(* What refuses a command before it unlocks the vault: names, flags, a key  *)
(* that is none, an export path that is taken, a confirmation.              *)
Refused(t) ==
  CASE t.op = "add"    -> IF t.name = BadName \/ (Kind(t) = "ssh-key" /\ t.form # "key")
                          THEN "Invalid" ELSE "ok"
    [] t.op = "mv"     -> IF t.new = BadName THEN "Invalid" ELSE "ok"
    [] t.op = "get"    -> IF (t.clip \/ t.raw) /\ Len(t.names) # 1 THEN "Invalid" ELSE "ok"
    [] t.op = "export" -> IF t.plain /\ ~t.iKnow THEN "Invalid"
                          ELSE IF ~t.stdout /\ file.form # "absent" THEN "AlreadyExists" ELSE "ok"
    [] OTHER           -> "ok"

Check(c) ==
  /\ At(c, "check")
  /\ LET r == cmd[c]
         e == Refused(r.task)
     IN  IF e # "ok" THEN Become(c, Ended(r, e))
         ELSE \/ Become(c, Goto(r, IF r.task.op = "import" THEN "file" ELSE "unlock"))
              \/ /\ r.task.op = "import" /\ r.task.mode = "Replace" /\ ~r.task.force
                 /\ Become(c, Ended(r, "Invalid"))
  /\ UNCHANGED <<items, gen, file, faults, log>>

(* import::run reads the file; what is no vault file is parsed at once.     *)
ReadFile(c) ==
  /\ At(c, "file")
  /\ LET r == cmd[c]
     IN  Become(c, CASE file.form = "absent"    -> Ended(r, "Io")
                     [] file.form = "partial"   -> Ended(r, "Format")
                     [] file.form = "plain"     -> [r EXCEPT !.doc = file.items, !.pc = "unlock"]
                     [] file.form = "encrypted" -> Goto(r, "open"))
  /\ UNCHANGED <<items, gen, file, faults, log>>

(* read_encrypted reads the file again and opens it.                        *)
OpenExport(c) ==
  /\ At(c, "open")
  /\ LET r == cmd[c]
     IN  \/ Become(c, Ended(r, "Integrity"))
         \/ Become(c, [r EXCEPT !.doc = file.items, !.pc = "unlock"])
  /\ UNCHANGED <<items, gen, file, faults, log>>

(* build_item: `--field`s, then what is derived from the kind, then the     *)
(* secret under the primary field, each over what is there.                 *)
Derived(t) ==
  CASE Kind(t) = "ssh-key" -> {"public_key", "fingerprint", "algorithm"}
    [] Kind(t) = "file" /\ t.origin = "file" -> {"filename"}
    [] OTHER -> {}

(* Mutant of Built: a `--field` may take the place of the secret. *)
BuiltFieldsLast(c, t) ==
  [id |-> c, name |-> t.name, kind |-> Kind(t),
   fields |-> [f \in {Primary(Kind(t))} \cup t.extra \cup Derived(t) |->
                 IF f \in t.extra \cup Derived(t) THEN PublicText(c)
                 ELSE Stored(c, t.form, Kind(t) = "file", TRUE)]]

Built(c, t) ==
  [id |-> c, name |-> t.name, kind |-> Kind(t),
   fields |-> [f \in {Primary(Kind(t))} \cup t.extra \cup Derived(t) |->
                 IF f = Primary(Kind(t)) THEN Stored(c, t.form, Kind(t) = "file", TRUE)
                 ELSE PublicText(c)]]

FieldOf(it, f) == IF f = "primary" THEN Primary(it.kind) ELSE f

Has(b, n, f) == n \in NamesOf(b) /\ FieldOf(Get(b, n), f) \in DOMAIN Get(b, n).fields

ValueOf(b, n, f) == Get(b, n).fields[FieldOf(Get(b, n), f)]

(* Why a command cannot do what it was asked to do with the body b.         *)
Problem(r, b) ==
  LET t == r.task
      has(n) == n \in NamesOf(b)
  IN  CASE t.op = "add" /\ has(t.name) /\ ~t.force                    -> "AlreadyExists"
        [] t.op = "set" /\ ~has(t.name)                               -> "NotFound"
        [] t.op = "set" /\ has(t.name) /\ t.delete /\ ~Has(b, t.name, t.field) -> "NotFound"
        [] t.op = "rm"  /\ \E n \in Range(t.names) : ~has(n)          -> "NotFound"
        [] t.op = "mv"  /\ ~has(t.name)                               -> "NotFound"
        [] t.op = "mv"  /\ has(t.name) /\ t.new # t.name /\ has(t.new) /\ ~t.force
                                                                      -> "AlreadyExists"
        [] t.op = "get" /\ \E n \in Range(t.names) : ~Has(b, n, t.field) -> "NotFound"
        [] t.op = "show" /\ ~has(t.name)                              -> "NotFound"
        [] t.op = "import" /\ BadName \in NamesOf(r.doc)              -> "Format"
        [] OTHER                                                      -> "ok"

(* The body the command saves. *)
Edited(c, r) ==
  LET t == r.task
      b == r.seen
  IN  CASE t.op = "add"    -> Insert(b, Built(c, t))
        [] t.op = "set"    -> Insert(b, IF t.delete
                                        THEN Without(Get(b, t.name), FieldOf(Get(b, t.name), t.field))
                                        ELSE With(Get(b, t.name), FieldOf(Get(b, t.name), t.field),
                                                  Stored(c, t.form, FALSE, ~t.public)))
        [] t.op = "rm"     -> RemoveAll(b, t.names)
        [] t.op = "mv"     -> Renamed(b, t.name, t.new)
        [] t.op = "import" -> Merge(b, r.doc, t.mode).body
        [] OTHER           -> b

Reads(op) == op \in {"get", "show", "ls"}

AfterUnlock(t) ==
  CASE Reads(t.op)                            -> "print"
    [] t.op = "export" /\ t.stdout            -> "print"
    [] t.op = "export" /\ ~t.stdout /\ t.plain  -> "createplain"
    [] t.op = "export" /\ ~t.stdout /\ ~t.plain -> "create"
    [] t.op = "rm" /\ ~t.force                -> "confirm"
    [] OTHER                                  -> "save"

(* Ctx::unlock; what it takes is in Unlock. *)
Load(c) ==
  /\ At(c, "unlock")
  /\ LET r == [cmd[c] EXCEPT !.seen = items, !.gen = gen]
         e == Problem(r, items)
     IN  \/ Become(c, Ended(cmd[c], "AuthCancelled"))
         \/ Become(c, IF e # "ok" THEN Ended(r, e)
                      ELSE [r EXCEPT !.pc = AfterUnlock(r.task),
                                     !.report = IF r.task.op = "import"
                                                THEN Merge(items, r.doc, r.task.mode).report
                                                ELSE @])
  /\ UNCHANGED <<items, gen, file, faults, log>>

(* rm without `-f` asks, or is refused. *)
Confirm(c) ==
  /\ At(c, "confirm")
  /\ \E next \in {Goto(cmd[c], "save"), Ended(cmd[c], "Invalid")} : Become(c, next)
  /\ UNCHANGED <<items, gen, file, faults, log>>

-----------------------------------------------------------------------------
(* Saving *)

(* How a command goes on after its save: an export reports that it could    *)
(* not record its time, and ends well.                                      *)
SaveRefused(r) == Ended(r, IF r.task.op = "export" THEN "ok" ELSE "Locked")

(* Mutant of Current: somebody else's save is not noticed. *)
CurrentAlways(r) == TRUE

(* The generation check of a save. *)
Current(r) == r.gen = gen

Save(c) ==
  /\ At(c, "save")
  /\ Current(cmd[c])
  /\ items' = Edited(c, cmd[c])
  /\ gen' = gen + 1
  /\ log' = Append(log, items')
  /\ Become(c, [cmd[c] EXCEPT !.wrote = TRUE, !.gen = gen', !.pc = "after"])
  /\ UNCHANGED <<file, faults>>

SaveLocked(c) ==
  /\ At(c, "save")
  /\ ~Current(cmd[c])
  /\ Become(c, SaveRefused(cmd[c]))
  /\ UNCHANGED <<items, gen, file, faults, log>>

(* The lock is not to be had, or a write fails.                             *)
SaveFails(c) ==
  /\ At(c, "save") /\ faults < MaxFaults
  /\ faults' = faults + 1
  /\ \E r \in {SaveRefused(cmd[c]), Ended(cmd[c], "Io")} : Become(c, r)
  /\ UNCHANGED <<items, gen, file, log>>

(* Mutant of NoClipboard: an error that says nothing was done. *)
NoClipboardInvalid == "Invalid"

(* clip::set_clipboard_text and spawn_unclip *)
NoClipboard == "Helper"

(* What add says and copies once the item is stored: the value is printed   *)
(* if wcm made it and it does not go to the clipboard, which takes text     *)
(* only and may not be there.                                               *)
After(c) ==
  /\ At(c, "after")
  /\ LET r == cmd[c]
         t == r.task
         copies == t.op = "add" /\ t.clip
         shows == t.op = "add" /\ t.origin = "generated" /\ ~t.clip
     IN  \/ /\ ~(copies /\ t.form = "bytes")
            /\ Become(c, [Ended(r, "ok") EXCEPT !.printed = @ \cup
                            IF shows THEN {Stored(c, t.form, FALSE, TRUE)} ELSE {}])
         \/ copies /\ t.form = "bytes" /\ Become(c, Ended(r, "Invalid"))
         \/ copies /\ t.form # "bytes" /\ Become(c, Ended(r, NoClipboard))
  /\ UNCHANGED <<items, gen, file, faults, log>>

-----------------------------------------------------------------------------
(* Printing *)

(* show::view and display_value *)
Masked(v, reveal) == ~reveal /\ (v.secret \/ v.binary)

Shown(it, reveal) ==
  {it.fields[f] : f \in {g \in DOMAIN it.fields : ~Masked(it.fields[g], reveal)}}

AllValues(b) == UNION {Range(b[i].fields) : i \in DOMAIN b}

Resolved(t, b) == {ValueOf(b, n, t.field) : n \in Range(t.names)}

(* Mutant of Got: the text comes out before the bytes are refused. *)
GotInTurn(r, vs) ==
  [Ended(r, IF r.task.tty /\ \E v \in vs : ~HasText(v) THEN "Invalid" ELSE "ok")
     EXCEPT !.printed = {v \in vs : ~r.task.tty \/ HasText(v)}]

(* get::run without --clip; it shows no bytes on a terminal.                *)
Got(r, vs) ==
  IF r.task.tty /\ \E v \in vs : ~HasText(v) THEN Ended(r, "Invalid")
  ELSE [Ended(r, "ok") EXCEPT !.printed = vs]

(* get resolves everything before it prints anything; it copies text only.  *)
(* A plaintext export to stdout goes on to record its time.                 *)
Deliver(c) ==
  /\ At(c, "print")
  /\ LET r == cmd[c]
         t == r.task
         text == \A v \in Resolved(t, r.seen) : HasText(v)
         done(vs) == [Ended(r, "ok") EXCEPT !.printed = vs]
     IN  CASE t.op = "ls"   -> Become(c, done({}))
           [] t.op = "show" -> Become(c, done(Shown(Get(r.seen, t.name), t.reveal)))
           [] t.op = "get" /\ t.clip ->
                \/ text /\ Become(c, done({}))
                \/ Become(c, Ended(r, IF text THEN NoClipboard ELSE "Invalid"))
           [] t.op = "get" /\ ~t.clip ->
                Become(c, Got(r, Resolved(t, r.seen)))
           [] OTHER ->
                Become(c, [r EXCEPT !.printed = AllValues(r.seen), !.pc = "save"])
  /\ UNCHANGED <<items, gen, file, faults, log>>

-----------------------------------------------------------------------------
(* Writing an export *)

(* outfile::write_new: create_new takes no file that is there already.      *)
CreatePlain(c) ==
  /\ At(c, "createplain")
  /\ IF file.form = "absent"
     THEN file' = [form |-> "partial", items |-> <<>>] /\ Become(c, Goto(cmd[c], "writeplain"))
     ELSE UNCHANGED file /\ Become(c, Ended(cmd[c], "AlreadyExists"))
  /\ UNCHANGED <<items, gen, faults, log>>

(* The file at the path when r has written its document into the file that  *)
(* it created, which an encrypted export may have replaced by then.         *)
Document(r) ==
  IF file.form = "partial" THEN [form |-> "plain", items |-> r.seen] ELSE file

WritePlain(c) ==
  /\ At(c, "writeplain")
  /\ file' = Document(cmd[c])
  /\ Become(c, Goto(cmd[c], "save"))
  /\ UNCHANGED <<items, gen, faults, log>>

(* Vault::create waits for the lock of its path, which plaintext exports do *)
(* not take, and looks whether there is a file.                             *)
CreateExport(c) ==
  /\ At(c, "create")
  /\ \A d \in Cmds : ~At(d, "place")
  /\ Become(c, IF file.form = "absent" THEN Goto(cmd[c], "place")
               ELSE Ended(cmd[c], "AlreadyExists"))
  /\ UNCHANGED <<items, gen, file, faults, log>>

(* write_atomic puts an export without items there, whatever is there now.  *)
PlaceExport(c) ==
  /\ At(c, "place")
  /\ file' = [form |-> "encrypted", items |-> <<>>]
  /\ Become(c, Goto(cmd[c], "fill"))
  /\ UNCHANGED <<items, gen, faults, log>>

(* Mutant of FillExport: it is the vault of this moment that is exported. *)
FillExportLate(c) ==
  /\ At(c, "fill")
  /\ file' = [file EXCEPT !.items = items]
  /\ Become(c, Goto(cmd[c], "save"))
  /\ UNCHANGED <<items, gen, faults, log>>

(* The save of the items into the export. *)
FillExport(c) ==
  /\ At(c, "fill")
  /\ file' = [file EXCEPT !.items = cmd[c].seen]
  /\ Become(c, Goto(cmd[c], "save"))
  /\ UNCHANGED <<items, gen, faults, log>>

(* A write fails, after it was done or before: the file may stay without    *)
(* its items, or without an end.                                            *)
WriteFails(c) ==
  /\ cmd[c].pc \in {"writeplain", "place", "fill"} /\ faults < MaxFaults
  /\ faults' = faults + 1
  /\ file' \in {file} \cup IF At(c, "writeplain") THEN {Document(cmd[c])} ELSE {}
  /\ \E e \in {"Io"} \cup IF At(c, "fill") THEN {"Locked", "Integrity"} ELSE {} :
       Become(c, Ended(cmd[c], e))
  /\ UNCHANGED <<items, gen, log>>

(* A process is killed. *)
Kill(c) ==
  /\ cmd[c].pc \notin {"new", "ended"} /\ faults < MaxFaults
  /\ faults' = faults + 1
  /\ Become(c, Ended(cmd[c], "killed"))
  /\ UNCHANGED <<items, gen, file, log>>

Done == (\A c \in Cmds : At(c, "ended")) /\ UNCHANGED vars

Next ==
  \/ \E c \in Cmds :
       \/ Start(c) \/ Check(c) \/ ReadFile(c) \/ OpenExport(c) \/ Load(c) \/ Confirm(c)
       \/ Save(c) \/ SaveLocked(c) \/ SaveFails(c) \/ After(c) \/ Deliver(c)
       \/ CreatePlain(c) \/ WritePlain(c) \/ CreateExport(c) \/ PlaceExport(c)
       \/ FillExport(c) \/ WriteFails(c) \/ Kill(c)
  \/ Done

Spec == Init /\ [][Next]_vars

-----------------------------------------------------------------------------
(* Properties *)

(* The items of the body have one valid name each and are sorted by it.     *)
TypeOK ==
  /\ \A i \in DOMAIN items :
       /\ items[i].name \in Names /\ items[i].kind \in Kinds
       /\ i > 1 => items[i - 1].name < items[i].name
  /\ gen = Len(log) /\ log[gen] = items
  /\ file.form \in {"absent", "partial", "plain", "encrypted"}
  /\ \A c \in Cmds : cmd[c].gen <= gen /\ cmd[c].task \in Tasks \cup {NoTask}

Failed(c) == cmd[c].pc = "ended" /\ cmd[c].result # "ok"

(* A command that ends with one of these errors has not changed the vault.  *)
(* The exception is `add --clip`, which finds that a value is not text only *)
(* when the item is stored.  (An export may leave its file all the same.)   *)
ErrorsChangeNothing ==
  \A c \in Cmds :
    cmd[c].result \in {"NotFound", "AlreadyExists", "Locked", "Format", "AuthCancelled",
                       "Integrity", "Invalid"}
    => ~cmd[c].wrote \/ (cmd[c].task.op = "add" /\ cmd[c].task.clip /\ cmd[c].task.form = "bytes")

(* An export that ended well, or with nothing but the bookkeeping left to   *)
(* do, has made a file that holds the vault of one moment, also when others *)
(* save between its unlock and its writes or export to the same path.  A    *)
(* plaintext export, which takes no lock, may be overwritten by an          *)
(* encrypted one that looked at the path before it; never the other way.    *)
ExportIsSnapshot ==
  \A c \in Cmds :
    LET r == cmd[c]
    IN  r.task.op = "export" /\ ~r.task.stdout /\ (r.pc = "save" \/ r.result = "ok")
        => \/ file = [form  |-> IF r.task.plain THEN "plain" ELSE "encrypted",
                       items |-> log[IF r.wrote THEN r.gen - 1 ELSE r.gen]]
           \/ r.task.plain /\ file.form = "encrypted"

(* What an import says it did is what it did, whatever names the document   *)
(* repeats: all its items are accounted for and, unless everything was      *)
(* dropped first, the added ones are the growth of the vault.               *)
ReportIsTrue ==
  \A c \in Cmds :
    LET r == cmd[c]
    IN  r.task.op = "import" /\ r.wrote /\ r.pc # "new"
        => /\ r.report.added + r.report.overwritten + r.report.skipped = Len(r.doc)
           /\ r.task.mode # "Replace" =>
                r.report.added = Len(log[r.gen]) - Len(log[r.gen - 1])

(* What was given to `add` as the secret is never kept as a public field,   *)
(* not even when a `--field` of the same name came with it, and no later    *)
(* mv, set, import or export changes that; nor is it lost to that field.    *)
Added(it) == it.id \notin DocIds

SecretsStaySecret ==
  \A i \in DOMAIN items : \A f \in DOMAIN items[i].fields :
    LET v == items[i].fields[f]
    IN  Added(items[i]) /\ v.by = items[i].id =>
          /\ v.typed => v.secret
          /\ f = Primary(items[i].kind) => v.typed

(* A secret value comes to stdout by these commands only: get without       *)
(* --clip, show --reveal, a plaintext export, and `add --generate` without  *)
(* --clip, with --json too.  And "stdout stays empty on error": nothing is  *)
(* printed before everything that can fail is done, but for the plaintext   *)
(* export to stdout, which records its time afterwards.                     *)
Requested(t) ==
  \/ t.op = "get" /\ ~t.clip
  \/ t.op = "show" /\ t.reveal
  \/ t.op = "export" /\ t.plain /\ t.iKnow
  \/ t.op = "add" /\ t.origin = "generated" /\ ~t.clip

PrintedOnRequest ==
  \A c \in Cmds :
    /\ (\E v \in cmd[c].printed : v.secret) => Requested(cmd[c].task)
    /\ Failed(c) /\ cmd[c].task.op # "export" => cmd[c].printed = {}

(* The items as a map, and the contents they have had.                      *)
Nameless(it) == [x \in DOMAIN it \ {"name"} |-> it[x]]
AsMap(b) == [n \in NamesOf(b) |-> Nameless(Get(b, n))]
AsDoc(d) == [i \in DOMAIN d |-> [name |-> d[i].name, item |-> Nameless(d[i])]]

Map == INSTANCE ItemMap WITH
  Docs <- {AsDoc(d) : d \in Docs},
  store <- AsMap(items),
  past <- {AsMap(log[g]) : g \in DOMAIN log}

(* Every save is one operation on the map of items that the vault holds at  *)
(* that moment: nobody else's change is undone, a renamed item is what it   *)
(* was, and an import gives what its mode says, item by item, whatever      *)
(* names its document repeats.                                              *)
ImplementsItemMap == Map!Spec
=============================================================================
