------------------------------- MODULE MCShim -------------------------------
(***************************************************************************)
(* Command lines, environments and machines for the configurations that    *)
(* model-check Shim.                                                       *)
(***************************************************************************)
EXTENDS Shim

McAsIs == {"-", "", "refused"}

(* a has a field b, and there is an item a/b. *)
McItems ==
  <<"a">> :> [main |-> "password", fields |-> [password |-> "text", b |-> "text", c |-> "bytes"]] @@
  <<"a", "b">> :> [main |-> "token", fields |-> [token |-> "text"]] @@
  <<"n">> :> [main |-> "note", fields |-> [note |-> "nul", url |-> "text"]]

McMappings ==
  "A=a" :> Secret("A", <<"a">>) @@
  "A=a/b" :> Secret("A", <<"a", "b">>) @@
  "B=n/url" :> Secret("B", <<"n", "url">>) @@
  "B=n" :> Secret("B", <<"n">>) @@
  "B=a/c" :> Secret("B", <<"a", "c">>) @@
  "B=x/y" :> Secret("B", <<"x", "y">>)

McEnvFiles ==
  "f" :> <<Plain("A", <<"1">>), Secret("B", <<"a">>), Plain("A", <<"2">>)>> @@
  "g" :> <<Plain("B", <<"1">>)>>

McKeyItems ==
  [kind : {"ssh-key"}, key : {"none", "good", "odd", "blank"}, public : {FALSE}]
    \cup [kind : {"ssh-key"}, key : {"none", "odd"}, public : {TRUE}]
    \cup [kind : {"login"}, key : {"good"}, public : {FALSE}]
    \cup [kind : {"none"}, key : {"none"}, public : {FALSE}]

W(s) == Word(s)
Cmd == <<Dashes, W("cmd"), Opt("--vault"), W("x")>>
Run == <<W("run")>>

RunLines ==
  { <<Opt("--slot"), W("import")>> \o Run \o <<Opt("--env"), W("A=a"), Inline("--env", "A=a/b")>> \o Cmd,
    Run \o <<Opt("--env-file"), W("f"), Opt("--env"), W("B=n/url")>> \o Cmd,
    Run \o <<Inline("--env-file", "g"), Opt("--env"), W("B=n")>> \o Cmd,
    Run \o <<Inline("--env-file", "g")>> \o Cmd,
    Run \o <<Inline("--env-file", "h")>> \o Cmd,
    Run \o <<Opt("--env"), W("B=a/c"), Opt("--env"), W("A=a/b")>> \o Cmd,
    Run \o <<Opt("--env"), W("B=x/y")>> \o Cmd,
    Run \o <<Opt("--env"), W("=a")>> \o Cmd,
    <<Opt("--vault"), Opt("--json")>> \o Run \o <<Opt("--env"), W("A=a")>> \o Cmd,
    <<W("")>> \o Run \o Cmd,
    Run }

OtherLines ==
  { <<W("import"), Opt("--overwrite"), W("f")>>,
    <<Opt("--slot"), W("import"), W("import"), W("import"), Opt("--json")>>,
    <<W("import"), Inline("--vault", "v"), W("-")>>,
    <<W("import"), W("refused"), Opt("--slot"), W("s")>>,
    <<W("get"), W("x"), Opt("--out-file"), W("f"), Opt("--raw")>>,
    <<W("get"), W("import"), W("x"), Inline("--field", "--vault")>>,
    <<W("add"), W("x"), Inline("--file", "-"), Opt("--field"), W("u=1"), Inline("--field", "v=2")>>,
    <<W("set"), W("x"), W("import"), Opt("--file"), W("f"), Opt("--vault"), W("v")>>,
    <<W("mv"), W("import"), Opt("-f"), W("x")>>,
    <<W("export"), Opt("-o"), WinWord("f")>>,
    <<W("export"), Inline("--out", "f"), Opt("--vault"), W("v")>>,
    <<W("export"), Attached("-o", "f")>>,
    <<W("ls"), W("import"), Opt("--tag"), W("import")>>,
    <<W("get"), Opt("--vault"), Opt("--json"), W("x")>>,
    <<W("import"), Opt("--vault"), Inline("--slot", "s"), W("x")>>,
    <<Opt("--vault"), W("u"), W("get"), W("x"), Inline("--vault", "v")>>,
    <<W("get"), Opt("--vault"), W("u"), W("x"), Inline("--vault", "v")>>,
    <<Opt("-q"), Opt("--json"), W("ls"), Opt("-q"), Opt("--json")>>,
    <<W("import"), Dashes, W("f")>> }

Ssh(op) ==
  { <<W("ssh"), W(op), W("k")>>,
    <<Opt("--vault"), W("v"), W("ssh"), Opt("--no-input"), W(op), Opt("--slot"), W("add"), W("k")>>,
    <<W("ssh"), Inline("--vault", "v"), W(op), W("k"), Inline("--ssh-add", "f"), Opt("-q")>>,
    <<Opt("--json"), W("ssh"), W(op), Opt("--json"), W("k")>>,
    <<Opt("--vault"), W("u"), W("ssh"), Inline("--vault", "v"), W(op), W("k")>>,
    <<Opt("-q"), W("ssh"), W(op), W("k"), Opt("--quiet")>>,
    <<W("ssh"), W(op), W("k"), W("k")>>,
    <<W("ssh"), W(op)>> }

SshLines ==
  Ssh("add") \cup Ssh("remove")
    \cup { <<W("ssh"), W("pubkey"), W("k")>>,
           <<W("ssh"), W("add"), W("k"), Opt("-t"), W("60")>>,
           <<W("ssh"), W("add"), Inline("--lifetime", "60"), W("k")>>,
           <<W("ssh"), W("remove"), W("k"), Opt("-t"), W("60")>>,
           <<W("ssh"), W("add"), W("k"), Attached("-t", "60")>>,
           <<W("ssh"), W("add"), Dashes, W("k")>> }

McLines == RunLines \cup OtherLines \cup SshLines

Plainest ==
  [force |-> FALSE, interop |-> TRUE, version |-> "wsl2", noProxy |-> FALSE, launched |-> FALSE,
   exe |-> "", path |-> <<"p1", "p2">>, vault |-> Absent, wslenv |-> {},
   secrets |-> SecretVars]

McEnvs ==
  { Plainest,
    [Plainest EXCEPT !.interop = FALSE, !.version = "linux", !.secrets = {}],
    [Plainest EXCEPT !.interop = FALSE, !.version = "wsl1", !.vault = Word("v"), !.exe = "x",
                     !.secrets = {"WCM_PASSPHRASE"}],
    [Plainest EXCEPT !.vault = WinWord("v"), !.exe = "y", !.wslenv = {"PATH"}],
    [Plainest EXCEPT !.noProxy = TRUE],
    [Plainest EXCEPT !.vault = Word("-")],
    [Plainest EXCEPT !.vault = Word(""), !.secrets = {}],
    [Plainest EXCEPT !.force = TRUE, !.interop = FALSE, !.version = "linux", !.vault = Word("refused"),
                     !.wslenv = {"WCM_LAUNCHED_FROM_WSL"}] }

Homes == <<"h1", "h2">>
McHosts ==
  { [files |-> <<>>, homes |-> Homes, interop |-> "unseen"],
    [files |-> [h2 |-> "pe"], homes |-> Homes, interop |-> "unseen"],
    [files |-> [x |-> "elf", p2 |-> "pe"], homes |-> Homes, interop |-> "enabled"],
    [files |-> [h1 |-> "pe", p2 |-> "pe"], homes |-> Homes, interop |-> "disabled"],
    [files |-> [p1 |-> "other", y |-> "unreadable", x |-> "pe"], homes |-> Homes, interop |-> "enabled"] }
=============================================================================
