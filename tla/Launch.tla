------------------------------- MODULE Launch -------------------------------
(***************************************************************************)
(* The commands of wcm that start other programs: `run` puts secrets into  *)
(* the environment of a command, `ssh add` and `ssh remove` hand a key to  *)
(* ssh-add (wcm-cli commands/run.rs, commands/ssh.rs, ssh.rs).  One wcm    *)
(* process runs, on Windows or on Linux; Shim adds what happens when it is *)
(* started in a WSL.  An unlock is Unlock's; here it is one step that may  *)
(* fail.                                                                   *)
(***************************************************************************)
EXTENDS ShimArgs

CONSTANTS
  Items,     \* function: names of items, each a sequence of its parts
             \* between slashes, to [main, fields], the primary field and the
             \* kind ("text", "nul", "bytes") of every field's value
  Mappings,  \* function: the texts after --env that parse to mappings, see Secret
  EnvFiles,  \* function: the files that --env-file can read to their mappings
  KeyItems,  \* what the item that `ssh` names may be
  Envs,      \* the environments a command line may be typed in
  Lines      \* the command lines

VARIABLES
  call,   \* the command line that was typed, its environment, and whether
          \* the ssh-agent held the key then
  item,   \* the item that `ssh` names
  agent,  \* agent[side]: whether the ssh-agent there holds its key
  p,      \* the running wcm process
  kids    \* history: the programs that `run` and `ssh` have started

-----------------------------------------------------------------------------
Sides == {"windows", "linux"}

(* SECRET_ENV_VARS *)
SecretVars == {"WCM_PASSPHRASE", "WCM_EXPORT_PASSPHRASE", "WCM_NEW_PASSPHRASE"}

(* Mappings of variables: a literal value, a reference to name[/field], or  *)
(* one that does not parse.                                                 *)
Plain(var, value) == [kind |-> "plain", var |-> var, value |-> value]
Secret(var, ref) == [kind |-> "secret", var |-> var, value |-> ref]
BadMapping == [kind |-> "bad"]

IsMapping(m) ==
  m \in {BadMapping, Plain(m.var, m.value), Secret(m.var, m.value)}

ASSUME LaunchConstants ==
  /\ \A o \in DOMAIN Mappings : IsMapping(Mappings[o]) /\ Mappings[o] # BadMapping
  /\ \A f \in DOMAIN EnvFiles : /\ EnvFiles[f] \in Seq(Range(EnvFiles[f]))
                                /\ \A m \in Range(EnvFiles[f]) : IsMapping(m)
  /\ \A i \in KeyItems : /\ i.kind \in {"none", "login", "ssh-key"} /\ i.public \in BOOLEAN
                          /\ i.key \in {"none", "good", "odd", "blank"}
  /\ \A e \in Envs : e.secrets \subseteq SecretVars
  /\ \A l \in Lines : l \in Seq(Range(l)) /\ \A t \in Range(l) : IsToken(t)

Process(side, args, env) ==
  [pc |-> "main", side |-> side, args |-> args, env |-> env, req |-> Usage,
   specs |-> <<>>, vals |-> <<>>, out |-> "", code |-> 0]

Become(r) == p' = r
Ended(r, code) == [r EXCEPT !.pc = "ended", !.code = code]

At(pc, cmds) == p.pc = pc /\ p.req.ok /\ p.req.cmd \in cmds

(* Command::env_remove for each of SECRET_ENV_VARS.                         *)
Scrubbed(env) == env.secrets \ SecretVars

KidVars(env, vals) ==
  [v \in DOMAIN vals \cup Scrubbed(env) |-> IF v \in DOMAIN vals THEN vals[v] ELSE <<"own">>]

Start(prog, env, vals) ==
  kids' = Append(kids, [prog |-> prog, vars |-> KidVars(env, vals)])

-----------------------------------------------------------------------------
(* main *)

Main ==
  /\ p.pc = "main"
  /\ LET r == Parse(p.args)
     IN  Become(IF ~r.ok THEN Ended(p, 2)
                ELSE [p EXCEPT !.req = r,
                               !.pc = CASE r.cmd = "run" -> "collect"
                                        [] r.cmd \in {"ssh add", "ssh remove", "ssh pubkey"} -> "load"
                                        [] OTHER -> "other"])
  /\ UNCHANGED <<call, item, agent, kids>>

UnlockFails(pc) == p.pc = pc /\ Become(Ended(p, 6)) /\ UNCHANGED <<call, item, agent, kids>>

(* Other commands end somehow; `get` prints the private key of any item     *)
(* that has one, whatever its kind.                                         *)
OfKey == p.req.cmd = "get" /\ p.req.pos[1].text = "k"

Other ==
  /\ p.pc = "other"
  /\ Become(IF ~OfKey THEN Ended(p, 0)
            ELSE IF item.key = "none" THEN Ended(p, 3)
            ELSE [Ended(p, 0) EXCEPT !.out = item.key])
  /\ UNCHANGED <<call, item, agent, kids>>

-----------------------------------------------------------------------------
(* run *)

(* Mutant of Kept: the first mapping of a variable wins. *)
KeptFirst(out, s) ==
  IF \E i \in DOMAIN out : out[i].var = s.var THEN out ELSE Append(out, s)

Kept(out, s) ==
  IF \E i \in DOMAIN out : out[i].var = s.var
  THEN [i \in DOMAIN out |-> IF out[i].var = s.var THEN s ELSE out[i]]
  ELSE Append(out, s)

Dedup == INSTANCE Scanning WITH Step <- Kept, Initial <- <<>>

(* dedup_last_wins *)
Deduped(specs) == Dedup!Result(specs)

Texts(opt) ==
  IF opt \in DOMAIN p.req.opts
  THEN [i \in DOMAIN p.req.opts[opt] |-> p.req.opts[opt][i].text] ELSE <<>>

EnvFile == Texts("--env-file")
Readable == EnvFile # <<>> => EnvFile[1] \in DOMAIN EnvFiles

(* parse_mapping *)
Mapping(text) == IF text \in DOMAIN Mappings THEN Mappings[text] ELSE BadMapping

(* The mappings of the file, then those of the command line.                *)
Specs ==
  (IF EnvFile = <<>> THEN <<>> ELSE EnvFiles[EnvFile[1]])
    \o [i \in DOMAIN Texts("--env") |-> Mapping(Texts("--env")[i])]

(* collect_specs *)
Collect ==
  /\ At("collect", {"run"})
  /\ Become(IF ~Readable THEN Ended(p, 10)
            ELSE IF BadMapping \in Range(Specs) THEN Ended(p, 2)
            ELSE [p EXCEPT !.specs = Deduped(Specs), !.pc = "resolve"])
  /\ UNCHANGED <<call, item, agent, kids>>

(* resolve_secret: <<name, field>>, or <<>> if there is no such item.       *)
Place(ref) ==
  IF ref \in DOMAIN Items THEN <<ref, Items[ref].main>>
  ELSE IF Len(ref) > 1 /\ Front(ref) \in DOMAIN Items THEN <<Front(ref), Last(ref)>>
  ELSE <<>>

Found(ref) == Place(ref) # <<>> /\ Place(ref)[2] \in DOMAIN Items[Place(ref)[1]].fields

RefFault(ref) ==
  IF ~Found(ref) THEN 3
  ELSE IF Items[Place(ref)[1]].fields[Place(ref)[2]] # "text" THEN 2
  ELSE 0

Fault(s) == IF s.kind = "secret" THEN RefFault(s.value) ELSE 0
Faulty(specs) == {i \in DOMAIN specs : Fault(specs[i]) # 0}

SpecValue(s) == IF s.kind = "secret" THEN Place(s.value) ELSE s.value

(* resolve_all: one unlock if there is a reference; the first fault counts. *)
Resolve ==
  /\ At("resolve", {"run"})
  /\ IF Faulty(p.specs) = {}
     THEN Become([p EXCEPT !.pc = "start",
                           !.vals = [v \in {s.var : s \in Range(p.specs)} |->
                                       SpecValue(CHOOSE s \in Range(p.specs) : s.var = v)]])
     ELSE \E i \in Faulty(p.specs) :
            /\ \A j \in Faulty(p.specs) : i <= j
            /\ Become(Ended(p, Fault(p.specs[i])))
  /\ UNCHANGED <<call, item, agent, kids>>

UnlockFailsForRun == (\E s \in Range(p.specs) : s.kind = "secret") /\ UnlockFails("resolve")

StartCommand ==
  /\ At("start", {"run"})
  /\ \/ Start("command", p.env, p.vals) /\ Become([p EXCEPT !.pc = "wait"])
     \/ Become(Ended(p, 11)) /\ UNCHANGED kids
  /\ UNCHANGED <<call, item, agent>>

(* The exit status of the command becomes that of wcm, 130 after a signal.  *)
CommandEnds ==
  /\ p.pc = "wait"
  /\ \E code \in {0, 1, 126, 130} : Become(Ended(p, code))
  /\ UNCHANGED <<call, item, agent, kids>>

-----------------------------------------------------------------------------
(* ssh *)

(* KeyMaterial::from_item, require_private_key and require_public_key; a    *)
(* private key that does not parse is as good as another for ssh-add.       *)
KeyFault(op) ==
  CASE item.kind = "none"    -> 3
    [] item.kind = "login"   -> 2
    [] item.kind = "ssh-key" ->
         CASE op = "ssh add" -> IF item.key = "none" THEN 3 ELSE 0
           [] op # "ssh add" ->
                IF item.public \/ item.key = "good" THEN 0
                ELSE IF item.key = "none" THEN 3 ELSE 2

LoadKey ==
  /\ p.pc = "load"
  /\ LET fault == KeyFault(p.req.cmd)
     IN  Become(CASE fault # 0 -> Ended(p, fault)
                  [] fault = 0 /\ p.req.cmd = "ssh pubkey" -> [Ended(p, 0) EXCEPT !.out = "public"]
                  [] fault = 0 /\ p.req.cmd # "ssh pubkey" -> [p EXCEPT !.pc = "ssh-add"])
  /\ UNCHANGED <<call, item, agent, kids>>

(* ssh-add reads a key and does what it is asked, or fails: it takes no     *)
(* private key that is none and removes only what is there.                 *)
Accepted(op, key, side) ==
  IF op = "add" THEN key \in {"good", "odd"} ELSE key = "public" /\ agent[side]

Changed(op, side) == agent' = [agent EXCEPT ![side] = op = "add"]

(* find_ssh_add fails, the program cannot be started, or it fails.  When it *)
(* has done what it was asked, wcm can still fail: its pipe was closed too  *)
(* early, or there is no way to report (a print to stderr then aborts).     *)
LateFaults == {11, 134} \cup IF "--json" \in DOMAIN p.req.opts THEN {10} ELSE {}

SshAdd ==
  /\ p.pc = "ssh-add"
  /\ LET op == IF p.req.cmd = "ssh add" THEN "add" ELSE "remove"
     IN  \/ Become(Ended(p, 11)) /\ UNCHANGED <<agent, kids>>
         \/ /\ Start("ssh-add", p.env, <<>>)
            /\ \/ Become(Ended(p, 11)) /\ UNCHANGED agent
               \/ /\ Accepted(op, IF op = "add" THEN item.key ELSE "public", p.side)
                  /\ Changed(op, p.side)
                  /\ \E code \in {0} \cup LateFaults : Become(Ended(p, code))
  /\ UNCHANGED <<call, item>>

-----------------------------------------------------------------------------
Native ==
  \/ Main \/ Other \/ UnlockFails("other")
  \/ Collect \/ Resolve \/ UnlockFailsForRun \/ StartCommand \/ CommandEnds
  \/ LoadKey \/ UnlockFails("load") \/ SshAdd
=============================================================================
