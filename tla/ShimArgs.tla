------------------------------ MODULE ShimArgs ------------------------------
(***************************************************************************)
(* Command lines on their way from WSL to Windows: how wcm reads one (the  *)
(* clap definitions of wcm-cli cli.rs) and what the WSL shim does to it    *)
(* before wcm.exe reads it (the pure functions of wsl_core.rs).            *)
(*                                                                         *)
(* A command line is a sequence of tokens.  A token has one of the forms   *)
(*     text   --opt   --opt=text   -otext   --                             *)
(* and its text, if it is a path, is a Linux or a Windows one.             *)
(***************************************************************************)
EXTENDS Naturals, Sequences, FiniteSets, SequencesExt, TLC

CONSTANTS
  AsIs  \* the texts that are no paths ("-", "") or that wslpath refuses

Token(form, opt, text, win) == [form |-> form, opt |-> opt, text |-> text, win |-> win]

Word(s) == Token("word", "", s, FALSE)
WinWord(s) == Token("word", "", s, TRUE)
Opt(o) == Token("opt", o, "", FALSE)
Inline(o, s) == Token("inline", o, s, FALSE)
Attached(o, s) == Token("attached", o, s, FALSE)
Dashes == Token("dashes", "", "", FALSE)

Absent == Token("none", "", "", FALSE)

(* What a shell can hand over.                                              *)
IsToken(t) ==
  /\ t = Token(t.form, t.opt, t.text, t.win) /\ t.win \in BOOLEAN
  /\ t.form \in {"word", "opt", "inline", "attached", "dashes"}
  /\ t.form = "opt" => t = Opt(t.opt)
  /\ t.form = "dashes" => t = Dashes
  /\ t.form \in {"opt", "inline", "attached"} => t.opt # ""
  /\ t.form = "attached" => t.opt \in {"-o", "-t"}

-----------------------------------------------------------------------------
(* What a command line means to wcm *)

GlobalOpts == {"--vault", "--slot"}
GlobalFlags == {"--json", "--no-input", "-q"}

Canonical(o) ==
  CASE o = "-o" -> "--out" [] o = "-t" -> "--lifetime" [] o = "--quiet" -> "-q"
    [] o = "-f" -> "--force" [] o = "-l" -> "--long" [] OTHER -> o

SshCommand == [add |-> "ssh add", pubkey |-> "ssh pubkey", remove |-> "ssh remove"]

Subcommands ==
  {"get", "add", "set", "show", "rm", "mv", "generate", "ls", "export", "import", "run", "ssh"}

Commands == (Subcommands \ {"ssh"}) \cup {"ssh add", "ssh pubkey", "ssh remove"}

(* The options with a value, the flags and the positionals of a subcommand  *)
(* (without `--generate`, whose value is optional, and what goes with it).  *)
(* Before a subcommand only the global options are known.                   *)
OptsOf(cmd) == GlobalOpts \cup
  CASE cmd = "get"        -> {"--field", "--out-file", "--clip-timeout"}
    [] cmd = "add"        -> {"--file", "--kind", "--field", "--notes", "--tag"}
    [] cmd = "set"        -> {"--file"}
    [] cmd = "generate"   -> {"--words", "--sep", "--clip-timeout"}
    [] cmd = "ls"         -> {"--kind", "--tag"}
    [] cmd = "export"     -> {"--out"}
    [] cmd = "run"        -> {"--env", "--env-file"}
    [] cmd = "ssh add"    -> {"--lifetime", "--ssh-add"}
    [] cmd = "ssh pubkey" -> {"--ssh-add"}
    [] cmd = "ssh remove" -> {"--ssh-add"}
    [] OTHER              -> {}

FlagsOf(cmd) == GlobalFlags \cup
  CASE cmd = "get"        -> {"--raw", "--clip"}
    [] cmd = "add"        -> {"--stdin", "--force", "--clip"}
    [] cmd = "set"        -> {"--stdin", "--public", "--delete"}
    [] cmd = "show"       -> {"--reveal"}
    [] cmd \in {"rm", "mv"} -> {"--force"}
    [] cmd = "generate"   -> {"--no-symbols", "--clip"}
    [] cmd = "ls"         -> {"--long"}
    [] cmd = "export"     -> {"--plaintext", "--i-know"}
    [] cmd = "import"     -> {"--overwrite", "--replace", "--force"}
    [] OTHER              -> {}

Positionals(cmd) ==
  CASE cmd \in {"get", "rm"}        -> Nat \ {0}
    [] cmd \in {"set", "mv"}        -> {2}
    [] cmd \in {"generate", "ls"}   -> {0, 1}
    [] cmd \in {"export", "run"}    -> {0}
    [] OTHER                        -> {1}

Repeatable(cmd) ==
  CASE cmd = "run" -> {"--env"} [] cmd = "add" -> {"--field", "--tag"} [] OTHER -> {}

Value(t) == [text |-> t.text, win |-> t.win]
Usage == [ok |-> FALSE]

(* What the reader wants next: "" for anything, the option whose value is   *)
(* due, "--" when no options are left; "refused" is the end.  `here` holds  *)
(* the options given since the last subcommand was named.                   *)
Bad(r) == [r EXCEPT !.want = "refused"]

Extended(opts, here, o, values) ==
  [x \in DOMAIN opts \cup {o} |->
     IF x # o THEN opts[x] ELSE IF o \in here THEN opts[o] \o values ELSE values]

(* An option is refused twice at one level, before or after a subcommand;   *)
(* of a global one that is given at several, the deepest value counts.      *)
Given(r, o, values) ==
  IF o \in r.here /\ o \notin Repeatable(r.cmd) THEN Bad(r)
  ELSE [r EXCEPT !.opts = Extended(@, r.here, o, values), !.here = @ \cup {o}, !.want = ""]

Deeper(r, cmd) == [r EXCEPT !.cmd = cmd, !.here = {}]

Named(r, t) ==
  CASE r.cmd = ""    -> IF t.text \in Subcommands THEN Deeper(r, t.text) ELSE Bad(r)
    [] r.cmd = "ssh" -> IF t.text \in DOMAIN SshCommand THEN Deeper(r, SshCommand[t.text]) ELSE Bad(r)
    [] OTHER         -> [r EXCEPT !.pos = Append(@, Value(t))]

NothingRead ==
  [want |-> "", cmd |-> "", opts |-> <<>>, here |-> {}, pos |-> <<>>, tail |-> <<>>]

ReadToken(r, t) ==
  LET o == Canonical(t.opt)
  IN  CASE r.want = "refused" -> r
        [] r.want = "--" -> IF r.cmd = "run" THEN [r EXCEPT !.tail = Append(@, t)]
                            ELSE [r EXCEPT !.pos = Append(@, Value(t))]
        [] r.want \notin {"", "--", "refused"} ->
             IF t.form = "word" THEN Given(r, r.want, <<Value(t)>>) ELSE Bad(r)
        [] r.want = "" ->
             CASE t.form = "dashes" -> IF r.cmd \in Commands THEN [r EXCEPT !.want = "--"] ELSE Bad(r)
               [] t.form = "opt" -> IF o \in OptsOf(r.cmd) THEN [r EXCEPT !.want = o]
                                    ELSE IF o \in FlagsOf(r.cmd) THEN Given(r, o, <<>>) ELSE Bad(r)
               [] t.form \in {"inline", "attached"} ->
                    IF o \in OptsOf(r.cmd) THEN Given(r, o, <<Value(t)>>) ELSE Bad(r)
               [] t.form = "word" -> Named(r, t)

Reader == INSTANCE Scanning WITH Step <- ReadToken, Initial <- NothingRead
Reading(args) == Reader!Result(args)

(* The command of `run` comes last, after `--`.                             *)
Complete(r) ==
  /\ r.want \in {"", "--"} /\ r.cmd \in Commands
  /\ Len(r.pos) \in Positionals(r.cmd)
  /\ r.cmd = "run" => r.tail # <<>>

(* Cli::try_parse *)
Parse(args) ==
  LET r == Reading(args)
  IN  IF Complete(r)
      THEN [ok |-> TRUE, cmd |-> r.cmd, opts |-> r.opts, pos |-> r.pos, tail |-> r.tail]
      ELSE Usage

-----------------------------------------------------------------------------
(* What the shim makes of it *)

PathOpts == {"--vault", "--file", "--out-file", "--env-file", "-o", "--out"}

(* translate_args::tr with to_windows_path: a Windows path stays.  An       *)
(* option in the place of a value is a file name like another.              *)
ToWindows(t) == IF t.text \in AsIs THEN t ELSE [t EXCEPT !.win = TRUE]
AsPath(t) == IF t.form = "word" THEN ToWindows(t) ELSE WinWord(t.text)

(* An option takes the token that follows as its value, whatever that is.   *)
Wanted(o) == IF o \in PathOpts THEN "path" ELSE IF o = "--slot" THEN "value" ELSE ""

(* The positional of `import`, after the subcommand the first word that is  *)
(* no value.                                                                *)
IsFile(s, t) == s.want = "" /\ t.form = "word" /\ s.words = <<"import">>

Emitted(s, t) ==
  IF s.want = "path" THEN AsPath(t)
  ELSE IF IsFile(s, t) \/ (s.want = "" /\ t.form = "inline" /\ t.opt \in PathOpts) THEN ToWindows(t)
  ELSE t

TranslateToken(s, t) ==
  [out   |-> Append(s.out, Emitted(s, t)),
   want  |-> CASE s.want = "" /\ t.form = "dashes" -> "--"
               [] s.want = "" /\ t.form = "opt"    -> Wanted(t.opt)
               [] s.want = "--"                   -> "--"
               [] OTHER                           -> "",
   words |-> IF s.want = "" /\ t.form = "word" THEN Append(s.words, t.text) ELSE s.words]

NothingSent == [out |-> <<>>, want |-> "", words |-> <<>>]

Translator == INSTANCE Scanning WITH Step <- TranslateToken, Initial <- NothingSent
TranslateArgs(args) == Translator!Result(args).out

BeforeDashes(args) ==
  LET ends == {i \in DOMAIN args : args[i] = Dashes}
  IN  {args[i] : i \in {j \in DOMAIN args : \A e \in ends : j < e}}

HasVaultArg(args) == \E t \in BeforeDashes(args) : t.form \in {"opt", "inline"} /\ t.opt = "--vault"

(* A $WCM_VAULT that is empty is as good as none; "-" is a file like others.*)
NoVault(vault) == vault.text = ""
VaultPath(vault) == IF vault.text \in AsIs \ {"-"} THEN vault ELSE [vault EXCEPT !.win = TRUE]

VaultArg(args, vault) ==
  IF HasVaultArg(args) \/ NoVault(vault) THEN <<>> ELSE <<Opt("--vault"), VaultPath(vault)>>

(* Mutant of BuildWindowsArgs: --vault goes to the end of the line. *)
BuildWindowsArgsLast(args, vault) == TranslateArgs(args) \o VaultArg(args, vault)

(* `vault` is $WCM_VAULT.                                                   *)
BuildWindowsArgs(args, vault) == VaultArg(args, vault) \o TranslateArgs(args)

-----------------------------------------------------------------------------
(* ssh add and ssh remove *)

NoAction == [op |-> "none"]

Refused(s) == [s EXCEPT !.want = "refused"]
Forwarded(s, o, values) == [s EXCEPT !.globals = @ \o (<<Opt(o)>> \o values), !.want = ""]

Taken(s, o, t) ==
  IF o \in GlobalOpts THEN Forwarded(s, o, <<t>>) ELSE [s EXCEPT !.seen = @ \cup {o}, !.want = ""]

SshOpts == GlobalOpts \cup {"--lifetime", "--ssh-add"}

SshToken(s, t) ==
  LET o == Canonical(t.opt)
  IN  CASE s.want = "refused" -> s
        [] s.want \in SshOpts -> Taken(s, s.want, t)
        [] s.want = "" ->
             CASE t.form = "word" -> [s EXCEPT !.pos = Append(@, t)]
               [] t.form = "inline" ->
                    IF o \in SshOpts THEN Taken(s, o, [t EXCEPT !.form = "word", !.opt = ""])
                    ELSE Refused(s)
               [] t.form \in {"dashes", "attached"} -> Refused(s)
               [] t.form = "opt" ->
                    CASE o \in SshOpts -> [s EXCEPT !.want = o]
                      [] o = "--json"  -> s
                      [] o \in {"-q", "--no-input"} -> Forwarded(s, o, <<>>)
                      [] OTHER -> Refused(s)

NothingTaken == [want |-> "", pos |-> <<>>, globals |-> <<>>, seen |-> {}]

SshReader == INSTANCE Scanning WITH Step <- SshToken, Initial <- NothingTaken

(* parse_ssh_action *)
ParseSshAction(args) ==
  LET s == SshReader!Result(args)
      op == s.pos[2].text
  IN  IF /\ s.want = "" /\ Len(s.pos) = 3 /\ s.pos[1].text = "ssh"
         /\ op = "add" \/ (op = "remove" /\ "--lifetime" \notin s.seen)
      THEN [op |-> op, name |-> s.pos[3], globals |-> s.globals]
      ELSE NoAction

(* SshAction::exe_args *)
ExeArgs(a) ==
  a.globals \o (IF a.op = "add"
                THEN <<Word("get"), a.name, Opt("--field"), Word("private_key"), Opt("--raw")>>
                ELSE <<Word("ssh"), Word("pubkey"), a.name>>)

-----------------------------------------------------------------------------
(* What docs/WSL.md promises for a command line *)

(* The spellings docs/WSL.md lists: `--opt value`, `--opt=value`, and `--`  *)
(* before the command of `run` only.                                        *)
Documented(args) ==
  /\ \A i \in DOMAIN args : args[i].form # "attached"
  /\ Dashes \in Range(args) => Parse(args).ok /\ Parse(args).cmd = "run"

(* Whether one of the options that the detour for ssh-add forwards is given *)
(* twice, at two levels.                                                    *)
Forwards == GlobalOpts \cup {"-q", "--no-input"}

Mentions(args) == {i \in DOMAIN args : /\ args[i].form \in {"opt", "inline"}
                                        /\ Canonical(args[i].opt) \in Forwards}

Repeats(args) ==
  \E i, j \in Mentions(args) : i # j /\ Canonical(args[i].opt) = Canonical(args[j].opt)

Windows(v) == IF v.text \in AsIs THEN v ELSE [v EXCEPT !.win = TRUE]

IsPath(o) == o \in {"--vault", "--file", "--out-file", "--env-file", "--out"}

(* The meaning of a command line that was typed in WSL: the paths are       *)
(* Linux ones, and $WCM_VAULT counts.                                       *)
Meant(args, vault) ==
  LET r == Parse(args)
      given(o) == IF o \in DOMAIN r.opts THEN r.opts[o] ELSE <<Value(VaultPath(vault))>>
  IN  [r EXCEPT !.opts = [o \in DOMAIN @ \cup IF NoVault(vault) THEN {} ELSE {"--vault"} |->
                            IF IsPath(o) THEN [i \in DOMAIN given(o) |-> Windows(given(o)[i])]
                            ELSE given(o)],
                !.pos = IF r.cmd = "import" THEN <<Windows(r.pos[1])>> ELSE @]
=============================================================================
