-------------------------------- MODULE Shim --------------------------------
(***************************************************************************)
(* The Linux build of wcm inside a WSL (wcm-cli wsl.rs, wsl_core.rs): it   *)
(* looks for wcm.exe and becomes it, with the command line translated; for *)
(* `ssh add` and `ssh remove` it runs wcm.exe to get the key and gives     *)
(* that to the ssh-add of the WSL.  wcm.exe is the process of Launch, on   *)
(* Windows.                                                                *)
(***************************************************************************)
EXTENDS Launch

CONSTANTS
  Hosts  \* what a machine may have: the files named wcm.exe, and interop

ASSUME ShimConstants ==
  \A e \in Envs :
    /\ DOMAIN e = {"force", "interop", "version", "noProxy", "launched", "exe", "path", "vault",
                   "wslenv", "secrets"}
    /\ e.vault = Absent \/ (IsToken(e.vault) /\ e.vault.form = "word")

VARIABLES
  host,  \* the machine
  shim   \* the shim of the call: which wcm.exe and what it is doing

vars == <<call, item, agent, p, kids, host, shim>>

-----------------------------------------------------------------------------
NoShim == [pc |-> "none", exe |-> "", act |-> NoAction, kind |-> "none"]

Init ==
  /\ call \in [args : Lines, env : Envs, held : BOOLEAN]
  /\ item \in KeyItems
  /\ agent = [s \in Sides |-> s = "linux" /\ call.held]
  /\ p = [Process("linux", call.args, call.env) EXCEPT !.pc = "begin"]
  /\ kids = <<>>
  /\ host \in Hosts
  /\ shim = NoShim

(* wsl_core::detect; `version` is what /proc/version says.                  *)
Detect(e) ==
  CASE e.force \/ e.interop                         -> "WSL2"
    [] ~(e.force \/ e.interop) /\ e.version = "wsl2"  -> "WSL2"
    [] ~(e.force \/ e.interop) /\ e.version = "wsl1"  -> "WSL1"
    [] ~(e.force \/ e.interop) /\ e.version = "linux" -> "none"

(* Mutant of Proxied: a process the shim has started is taken for a call. *)
ProxiedAgain(e) == ~e.noProxy /\ Detect(e) # "none"

Proxied(e) == ~e.noProxy /\ ~e.launched /\ Detect(e) # "none"

(* maybe_proxy *)
Enter ==
  /\ p.pc = "begin"
  /\ IF Proxied(p.env)
     THEN /\ Become([p EXCEPT !.pc = "shim"])
          /\ shim' = [NoShim EXCEPT !.pc = "locate", !.kind = Detect(p.env)]
     ELSE Become([p EXCEPT !.pc = "main"]) /\ UNCHANGED shim
  /\ UNCHANGED <<call, item, agent, kids, host>>

ShimEnds(code) ==
  /\ shim' = NoShim
  /\ Become(Ended(Process("linux", call.args, call.env), code))

(* find_exe: $WCM_WINDOWS_EXE, the PATH, and the users' directories.        *)
Candidates(e) == (IF e.exe = "" THEN <<>> ELSE <<e.exe>>) \o e.path \o host.homes
Existing(e) == {i \in DOMAIN Candidates(e) : Candidates(e)[i] \in DOMAIN host.files}

Locate ==
  /\ shim.pc = "locate"
  /\ IF Existing(p.env) = {} THEN ShimEnds(127)
     ELSE \E i \in Existing(p.env) :
            /\ \A j \in Existing(p.env) : i <= j
            /\ shim' = [shim EXCEPT !.pc = "preflight", !.exe = Candidates(p.env)[i]]
            /\ UNCHANGED p
  /\ UNCHANGED <<call, item, agent, kids, host>>

(* exe_kind; a script counts as "elf", a file that cannot be read is left   *)
(* to exec.                                                                 *)
Format == host.files[shim.exe]

Preflight ==
  /\ shim.pc = "preflight"
  /\ IF Format = "other" \/ (Format = "pe" /\ host.interop = "disabled") THEN ShimEnds(126)
     ELSE shim' = [shim EXCEPT !.pc = "hand over"] /\ UNCHANGED p
  /\ UNCHANGED <<call, item, agent, kids, host>>

(* Mutant of ExtendWslenv: a value that the user has set is kept. *)
ExtendWslenvOfUser(names) ==
  IF names # {} THEN names
  ELSE {"WCM_LAUNCHED_FROM_WSL", "WCM_WSL_KIND", "WCM_WSL_EXE", "WCM_PASSPHRASE",
        "WCM_EXPORT_PASSPHRASE"}

(* extend_wslenv, the variables that cross to Windows.                      *)
ExtendWslenv(names) ==
  IF "WCM_LAUNCHED_FROM_WSL" \in names THEN names
  ELSE names \cup {"WCM_LAUNCHED_FROM_WSL", "WCM_WSL_KIND", "WCM_WSL_EXE",
                   "WCM_PASSPHRASE", "WCM_EXPORT_PASSPHRASE"}

(* The environment of what the shim starts: Windows is given the variables  *)
(* in WSLENV, another Linux program all of them.                            *)
ChildEnv(e) ==
  LET names == ExtendWslenv(e.wslenv)
  IN  IF Format = "pe"
      THEN [e EXCEPT !.launched = "WCM_LAUNCHED_FROM_WSL" \in names, !.secrets = @ \cap names,
                     !.vault = Absent, !.wslenv = names]
      ELSE [e EXCEPT !.launched = TRUE, !.wslenv = names]

Child(args) ==
  IF Format = "pe" THEN Process("windows", args, ChildEnv(p.env))
  ELSE [Process("linux", args, ChildEnv(p.env)) EXCEPT !.pc = "begin"]

WindowsArgs == BuildWindowsArgs(p.args, p.env.vault)

(* exec, and Command::output for a key, fail for a file that is none or     *)
(* where interop turns out to be off.                                       *)
CannotRun == ShimEnds(126)
CanRun == Format # "unreadable"

HandOver ==
  /\ shim.pc = "hand over"
  /\ LET act == ParseSshAction(WindowsArgs)
     IN  \/ CannotRun
         \/ CanRun /\ act = NoAction /\ Become(Child(WindowsArgs)) /\ shim' = NoShim
         \/ /\ CanRun /\ act # NoAction
            /\ Become(Child(ExeArgs(act)))
            /\ shim' = [shim EXCEPT !.pc = "fetch", !.act = act]
  /\ UNCHANGED <<call, item, agent, kids, host>>

(* wcm.exe is interrupted while it fetches the key.                         *)
Interrupted ==
  /\ shim.pc = "fetch" /\ p.pc # "ended"
  /\ \E code \in {1, 130} : Become(Ended(p, code))
  /\ UNCHANGED <<call, item, agent, kids, host, shim>>

(* run_ssh_action up to find_ssh_add: the code of wcm.exe, or no key.       *)
FetchCode == IF p.code # 0 THEN p.code ELSE IF p.out = "blank" THEN 11 ELSE 0

Fetched ==
  /\ shim.pc = "fetch" /\ p.pc = "ended"
  /\ IF FetchCode # 0 THEN ShimEnds(FetchCode)
     ELSE shim' = [shim EXCEPT !.pc = "ssh-add"] /\ UNCHANGED p
  /\ UNCHANGED <<call, item, agent, kids, host>>

(* Mutant of PipeFailed: that ssh-add fails is not noticed. *)
PipeFailedQuietly == 0

PipeFailed == 11

(* pipe_into_ssh_add, whose environment is scrubbed as well; the report     *)
(* that follows aborts if it cannot be printed.                             *)
Pipe ==
  /\ shim.pc = "ssh-add"
  /\ \/ ShimEnds(11) /\ UNCHANGED <<agent, kids>>
     \/ /\ Start("ssh-add", call.env, <<>>)
        /\ \/ ShimEnds(PipeFailed) /\ UNCHANGED agent
           \/ /\ Accepted(shim.act.op, p.out, "linux")
              /\ Changed(shim.act.op, "linux")
              /\ \E code \in {0, 134} : ShimEnds(code)
  /\ UNCHANGED <<call, item, host>>

-----------------------------------------------------------------------------
Over == p.pc = "ended" /\ shim.pc = "none"

Next ==
  \/ Enter \/ Locate \/ Preflight \/ HandOver \/ Interrupted \/ Fetched \/ Pipe
  \/ Native /\ UNCHANGED <<host, shim>>
  \/ Over /\ UNCHANGED vars

(* The steps of wcm's own, which nothing holds up: an unlock may ask the    *)
(* user, the command of `run` and ssh-add take the time they take.          *)
Work ==
  \/ Enter \/ Locate \/ Preflight \/ HandOver \/ Fetched
  \/ (Main \/ Collect \/ StartCommand) /\ UNCHANGED <<host, shim>>

Spec == Init /\ [][Next]_vars /\ WF_vars(Work)
-----------------------------------------------------------------------------
(* Properties *)

TypeOK ==
  /\ item \in KeyItems /\ host \in Hosts
  /\ agent \in [Sides -> BOOLEAN]
  /\ p.pc \in {"begin", "shim", "main", "other", "collect", "resolve", "start", "wait", "load",
               "ssh-add", "ended"}
  /\ p.side \in Sides /\ p.code \in {0, 1, 2, 3, 6, 10, 11, 126, 127, 130, 134}
  /\ p.out \in {"", "good", "odd", "blank", "public"}
  /\ shim.pc \in {"none", "locate", "preflight", "hand over", "fetch", "ssh-add"}
  /\ shim.pc \in {"fetch", "ssh-add"} <=> shim.act # NoAction
  /\ p.side = "windows" => p.env.launched

Asked == Parse(call.args)
IsSsh == Asked.ok /\ Asked.cmd \in {"ssh add", "ssh remove"}

(* wcm.exe is asked for what was typed in the WSL, with its paths made      *)
(* Windows ones and with $WCM_VAULT, and it is given the passphrases that   *)
(* are to reach it, unless the user has listed in WSLENV what does.  For    *)
(* ssh-add it is asked for the named key, from the same vault by the same   *)
(* slot; but wcm.exe refuses to be asked when a global option came twice,   *)
(* before and after a subcommand, which the shim makes one level.           *)
ShimKeepsTheCommand ==
  p.side = "windows" /\ Asked.ok /\ Documented(call.args) =>
    LET meant == Meant(call.args, call.env.vault)
        got == Parse(p.args)
    IN  /\ IF shim.pc = "none" THEN got = meant
           ELSE /\ IsSsh
                /\ ~Repeats(call.args) =>
                     /\ got.ok /\ got.pos = meant.pos
                     /\ got.cmd = IF Asked.cmd = "ssh add" THEN "get" ELSE "ssh pubkey"
                     /\ \A o \in GlobalOpts \cup {"--no-input"} :
                          /\ o \in DOMAIN got.opts <=> o \in DOMAIN meant.opts
                          /\ o \in DOMAIN got.opts => got.opts[o] = meant.opts[o]
        /\ "WCM_LAUNCHED_FROM_WSL" \notin call.env.wslenv =>
             p.env.secrets = call.env.secrets
               \cap (call.env.wslenv \cup {"WCM_PASSPHRASE", "WCM_EXPORT_PASSPHRASE"})

(* Whatever is typed in a WSL, no key gets into the ssh-agent of Windows.   *)
KeysStayInWsl == ~agent["windows"]

(* `ssh add` and `ssh remove`, in the documented spellings, end with 0 only *)
(* when the ssh-agent of the WSL holds, or no longer holds, the key; else   *)
(* it is as it was, unless ssh-add did its work and the report failed.      *)
(* That of Windows is not touched.                                          *)
AsAsked == agent["linux"] = (Asked.cmd = "ssh add")
AsBefore == agent["linux"] = call.held

SshExitIsTrue ==
  Documented(call.args) =>
    /\ KeysStayInWsl
    /\ Over /\ IsSsh =>
         /\ p.code = 0 => AsAsked
         /\ p.code # 0 => AsBefore \/ (AsAsked /\ kids # <<>> /\ p.code \in {10, 11, 134})

(* The command of `run` starts once, if every mapping of file and line is   *)
(* good, and sees for each variable the value of its last mapping and none  *)
(* of wcm's passphrases; ssh-add sees nothing of either.  (What wcm would   *)
(* refuse may become another command line on its way to Windows.)           *)
MappingsOf(r) ==
  LET given(o) == IF o \in DOMAIN r.opts THEN r.opts[o] ELSE <<>>
  IN  (IF given("--env-file") = <<>> THEN <<>> ELSE EnvFiles[given("--env-file")[1].text])
        \o [i \in DOMAIN given("--env") |-> Mappings[given("--env")[i].text]]

StartedSeeWhatWasAsked ==
  /\ Len(kids) <= 1
  /\ \A i \in DOMAIN kids :
       IF kids[i].prog = "ssh-add" THEN kids[i].vars = <<>>
       ELSE Asked.ok =>
            LET all == MappingsOf(Asked)
                last(j) == \A k \in DOMAIN all : all[k].var = all[j].var => k <= j
            IN  /\ DOMAIN kids[i].vars = {all[j].var : j \in DOMAIN all}
                /\ \A j \in DOMAIN all :
                     last(j) => /\ kids[i].vars[all[j].var] = SpecValue(all[j])
                                /\ all[j].kind = "secret" => RefFault(all[j].value) = 0

(* Every call comes to its end, unless somebody keeps it waiting: no wcm    *)
(* starts itself for ever.                                                  *)
Waits == p.pc \in {"resolve", "load", "other", "wait", "ssh-add"} \/ shim.pc = "ssh-add"

CallProgress == []<>(Over \/ Waits)
=============================================================================
