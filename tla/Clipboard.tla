----------------------------- MODULE Clipboard ------------------------------
(***************************************************************************)
(* Secrets on the clipboard: `get --clip`, `add --clip` and `generate      *)
(* --clip` put a secret there and start a detached `wcm unclip` that is to *)
(* remove it after a time (wcm-cli clip.rs, commands/unclip.rs).  Several  *)
(* such processes wait at once, the user copies other things meanwhile,    *)
(* and every access to the clipboard, which all applications share, may    *)
(* fail.  SHA-256 is taken to tell all texts apart.                        *)
(***************************************************************************)
EXTENDS Naturals, FiniteSets

CONSTANTS
  Cmds,         \* the commands that copy
  Secrets,      \* the texts they copy
  UserText,     \* what the user copies from other applications
  Empty,        \* nothing on the clipboard
  Unset,        \* no timeout given
  Garbled,      \* WCM_CLIP_TIME holds no number
  DefaultTime,  \* DEFAULT_TIMEOUT_SECS
  Times,        \* other timeouts, from --clip-timeout and WCM_CLIP_TIME
  MaxCopies,    \* bound on the copies the user makes
  MaxFaults     \* bound on failing accesses and killed processes

ASSUME ClipboardConstants ==
  /\ Cardinality({UserText, Empty}) = 2 /\ {UserText, Empty} \cap Secrets = {}
  /\ Times \cup {DefaultTime} \subseteq Nat
  /\ Unset # Garbled /\ {Unset, Garbled} \cap Nat = {}
  /\ MaxCopies \in Nat /\ MaxFaults \in Nat

VARIABLES
  clip,    \* the text on the clipboard
  writes,  \* how often something was put there
  cmd,     \* cmd[c]: the command, and the unclip process it has started
  copies, faults

vars == <<clip, writes, cmd, copies, faults>>

-----------------------------------------------------------------------------
None == "none"

(* `env` is WCM_CLIP_TIME, `flag` the option --clip-timeout.                *)
Idle ==
  [pc |-> "new", op |-> None, text |-> Empty, flag |-> Unset, env |-> Unset,
   put |-> 0, left |-> 0, unclip |-> None, saw |-> 0, result |-> None]

Init ==
  /\ clip \in {Empty, UserText} /\ writes = 0
  /\ cmd = [c \in Cmds |-> Idle]
  /\ copies = 0 /\ faults = 0

Become(c, r) == cmd' = [cmd EXCEPT ![c] = r]
Ended(r, e) == [r EXCEPT !.pc = "ended", !.result = e]

Fault == faults < MaxFaults /\ faults' = faults + 1

Write(text) == clip' = text /\ writes' = writes + 1

-----------------------------------------------------------------------------
(* The command *)

(* clap takes WCM_CLIP_TIME as the default of --clip-timeout and refuses    *)
(* what is no number; add has no such option and falls back to the default. *)
Usable(r) == r.op = "add" \/ r.flag # Unset \/ r.env # Garbled

(* Mutant of Timeout: WCM_CLIP_TIME is used as it is. *)
TimeoutAsGiven(r) ==
  IF r.op # "add" /\ r.flag # Unset THEN r.flag
  ELSE IF r.env = Unset THEN DefaultTime ELSE r.env

Timeout(r) ==
  IF r.op # "add" /\ r.flag # Unset THEN r.flag
  ELSE IF r.env \in {Unset, Garbled} THEN DefaultTime ELSE r.env

Begin(c) ==
  /\ cmd[c].pc = "new"
  /\ \E op \in {"get", "add", "generate"}, text \in Secrets,
        flag \in Times \cup {Unset}, env \in Times \cup {Unset, Garbled} :
       /\ op = "add" => flag = Unset
       /\ LET r == [cmd[c] EXCEPT !.op = op, !.text = text, !.flag = flag, !.env = env]
          IN  Become(c, IF Usable(r) THEN [r EXCEPT !.pc = "copy"] ELSE Ended(r, "Usage"))
  /\ UNCHANGED <<clip, writes, copies, faults>>

(* copy_with_timeout: WCM_CLIP_DISABLE is looked at first.                  *)
Disabled(c) ==
  /\ cmd[c].pc = "copy"
  /\ Become(c, Ended(cmd[c], "Helper"))
  /\ UNCHANGED <<clip, writes, copies, faults>>

(* set_clipboard_text; a write that fails may have emptied the clipboard.   *)
Copy(c) ==
  /\ cmd[c].pc = "copy"
  /\ \/ /\ Write(cmd[c].text)
        /\ Become(c, [cmd[c] EXCEPT !.pc = "spawn", !.put = writes'])
        /\ UNCHANGED faults
     \/ /\ Fault
        /\ clip' \in {clip, Empty}
        /\ Become(c, Ended(cmd[c], "Helper"))
        /\ UNCHANGED writes
  /\ UNCHANGED copies

(* Mutant of SpawnFailed: an unclip that could not be started is no error. *)
SpawnFailedQuietly(r) == Ended(r, "ok")

SpawnFailed(r) == Ended(r, "Helper")

(* spawn_unclip starts the process and does not wait for it.                *)
Spawn(c) ==
  /\ cmd[c].pc = "spawn"
  /\ LET r == cmd[c]
     IN  \/ /\ Become(c, [Ended(r, "ok") EXCEPT !.unclip = "asleep", !.left = Timeout(r)])
            /\ UNCHANGED faults
         \/ Fault /\ Become(c, SpawnFailed(r))
  /\ UNCHANGED <<clip, writes, copies>>

-----------------------------------------------------------------------------
(* The unclip process *)

(* Mutant of ShouldClear: whatever is there is cleared. *)
ShouldClearAny(r) == clip # Empty

(* should_clear: the hash of the text of then and of what is there now.     *)
ShouldClear(r) == clip = r.text

(* Mutant of Due: the timeout is not slept. *)
DueAtOnce(r) == TRUE

Due(r) == r.left = 0

(* After the sleep the clipboard is read; what cannot be read is left.      *)
Compare(c) ==
  /\ cmd[c].unclip = "asleep" /\ Due(cmd[c])
  /\ \/ /\ Become(c, IF ShouldClear(cmd[c])
                     THEN [cmd[c] EXCEPT !.unclip = "clearing", !.saw = writes]
                     ELSE [cmd[c] EXCEPT !.unclip = "gone"])
        /\ UNCHANGED faults
     \/ Fault /\ Become(c, [cmd[c] EXCEPT !.unclip = "gone"])
  /\ UNCHANGED <<clip, writes, copies>>

(* clip::clear, another call, ignores errors.                               *)
Clear(c) ==
  /\ cmd[c].unclip = "clearing"
  /\ Become(c, [cmd[c] EXCEPT !.unclip = "gone"])
  /\ \/ clip' = Empty /\ UNCHANGED faults
     \/ Fault /\ UNCHANGED clip
  /\ UNCHANGED <<writes, copies>>

-----------------------------------------------------------------------------
(* The surroundings *)

UserCopies ==
  /\ copies < MaxCopies
  /\ copies' = copies + 1
  /\ Write(UserText)
  /\ UNCHANGED <<cmd, faults>>

(* A command is killed between its steps, or an unclip by the end of the    *)
(* session.                                                                 *)
Kill(c) ==
  /\ Fault
  /\ \/ cmd[c].pc \in {"copy", "spawn"} /\ Become(c, Ended(cmd[c], "killed"))
     \/ /\ cmd[c].unclip \in {"asleep", "clearing"}
        /\ Become(c, [cmd[c] EXCEPT !.unclip = "gone"])
  /\ UNCHANGED <<clip, writes, copies>>

(* One unit of time for every process that sleeps.                          *)
Tick ==
  /\ \E c \in Cmds : cmd[c].left > 0
  /\ cmd' = [c \in Cmds |-> [cmd[c] EXCEPT !.left = IF @ > 0 THEN @ - 1 ELSE 0]]
  /\ UNCHANGED <<clip, writes, copies, faults>>

Done ==
  /\ \A c \in Cmds : cmd[c].pc = "ended" /\ cmd[c].unclip \in {None, "gone"} /\ cmd[c].left = 0
  /\ UNCHANGED vars

Next ==
  \/ \E c \in Cmds : \/ Begin(c) \/ Disabled(c) \/ Copy(c) \/ Spawn(c)
                     \/ Compare(c) \/ Clear(c) \/ Kill(c)
  \/ UserCopies \/ Tick \/ Done

(* Time passes, and a process that runs goes on.                            *)
Spec ==
  /\ Init /\ [][Next]_vars
  /\ WF_vars(Tick)
  /\ \A c \in Cmds : WF_vars(Copy(c)) /\ WF_vars(Spawn(c)) /\ WF_vars(Compare(c)) /\ WF_vars(Clear(c))

-----------------------------------------------------------------------------
(* Properties *)

TypeOK ==
  /\ clip \in Secrets \cup {UserText, Empty}
  /\ writes \in Nat /\ copies \in 0..MaxCopies /\ faults \in 0..MaxFaults
  /\ \A c \in Cmds :
       /\ cmd[c].pc \in {"new", "copy", "spawn", "ended"}
       /\ cmd[c].result \in {None, "ok", "Usage", "Helper", "killed"}
       /\ cmd[c].unclip \in {None, "asleep", "clearing", "gone"}
       /\ cmd[c].unclip # None => cmd[c].result = "ok"
       /\ cmd[c].left \in Nat
       /\ cmd[c].put \in 0..writes /\ cmd[c].saw \in 0..writes

(* c runs its step with the clipboard cleared.                              *)
Clears(c) == cmd[c].unclip = "clearing" /\ cmd'[c].unclip = "gone" /\ clip # Empty /\ clip' = Empty

(* An unclip removes the text it was started for and no other, neither the  *)
(* user's nor another command's, unless that came between its look at the   *)
(* clipboard and its clearing.                                              *)
OnlyItsOwnText ==
  [][\A c \in Cmds : Clears(c) => clip = cmd[c].text \/ writes > cmd[c].saw]_vars

(* A secret stays until its timeout, whatever other unclips run, unless the *)
(* same text was copied by another command before, or it came in that same  *)
(* moment.                                                                  *)
NotBeforeItsTime ==
  [][\A c, d \in Cmds :
       Clears(d) /\ cmd[c].unclip \in {"asleep", "clearing"} /\ cmd[c].put = writes /\ cmd[c].left > 0
       => d # c /\ (cmd[d].text = cmd[c].text \/ cmd[d].saw < writes)]_vars

(* No secret stays on the clipboard for good without the user being told:   *)
(* a command that copied it failed, or something failed that nobody could   *)
(* report.                                                                  *)
Blamed(text) ==
  \E c \in Cmds : cmd[c].text = text /\ cmd[c].result \in {"Helper", "killed"}

Silent == \E c \in Cmds : cmd[c].unclip = "gone" /\ cmd[c].text = clip

NoSecretStays == <>[](clip \in Secrets => Blamed(clip) \/ (faults > 0 /\ Silent))
=============================================================================
