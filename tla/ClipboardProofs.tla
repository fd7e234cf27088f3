--------------------------- MODULE ClipboardProofs ---------------------------
(***************************************************************************)
(* Proofs about Clipboard, for any number of commands, secrets, timeouts   *)
(* and faults: what an unclip process removes, and when.                   *)
(***************************************************************************)
EXTENDS Clipboard, TLAPS

(* A command with its unclip process.                                       *)
Process ==
  [pc : {"new", "copy", "spawn", "ended"},
   op : {None, "get", "add", "generate"},
   text : Secrets \cup {Empty},
   flag : Times \cup {Unset},
   env : Times \cup {Unset, Garbled},
   put : Nat,
   left : Nat,
   unclip : {None, "asleep", "clearing", "gone"},
   saw : Nat,
   result : {None, "ok", "Usage", "Helper", "killed"}]

TypeInv ==
  /\ clip \in Secrets \cup {UserText, Empty}
  /\ writes \in Nat /\ copies \in 0..MaxCopies /\ faults \in 0..MaxFaults
  /\ cmd \in [Cmds -> Process]

(* The stamps of a command are of the past, and it has begun what its state *)
(* says; `add` has no option for the timeout.                               *)
StampInv ==
  \A c \in Cmds :
    /\ cmd[c].put <= writes /\ cmd[c].saw <= writes
    /\ cmd[c].op = "add" => cmd[c].flag = Unset
    /\ cmd[c].pc \in {"new", "copy"} => cmd[c].put = 0
    /\ cmd[c].pc = "spawn" => cmd[c].put > 0
    /\ cmd[c].pc # "ended" => cmd[c].unclip = None
    /\ cmd[c].unclip # None => cmd[c].result = "ok" /\ cmd[c].put > 0

(* The last text put on the clipboard is there or removed.                  *)
LastInv ==
  \A c \in Cmds : cmd[c].put > 0 /\ cmd[c].put = writes => clip \in {cmd[c].text, Empty}

(* A process about to clear has slept, and saw the text it knows.           *)
ClearInv ==
  \A c \in Cmds : cmd[c].unclip = "clearing" =>
    /\ cmd[c].left = 0
    /\ cmd[c].saw = writes => clip \in {cmd[c].text, Empty}

IInv == TypeInv /\ StampInv /\ LastInv /\ ClearInv

-----------------------------------------------------------------------------
(* A new record of one command. *)
LEMMA Becomes ==
  ASSUME TypeInv, NEW c \in Cmds, NEW r, Become(c, r)
  PROVE  /\ cmd'[c] = r
         /\ \A d \in Cmds : d # c => cmd'[d] = cmd[d]
         /\ r \in Process => cmd' \in [Cmds -> Process]
BY DEF TypeInv, Become

LEMMA InitInv == Init => IInv
BY ClipboardConstants
   DEF Init, IInv, TypeInv, StampInv, LastInv, ClearInv, Idle, Process, None

LEMMA BeginStep ==
  ASSUME IInv, NEW c \in Cmds, Begin(c)
  PROVE  IInv'
<1>1. PICK op \in {"get", "add", "generate"}, text \in Secrets,
           flag \in Times \cup {Unset}, env \in Times \cup {Unset, Garbled} :
        /\ op = "add" => flag = Unset
        /\ LET r == [cmd[c] EXCEPT !.op = op, !.text = text, !.flag = flag, !.env = env]
           IN  Become(c, IF Usable(r) THEN [r EXCEPT !.pc = "copy"] ELSE Ended(r, "Usage"))
  BY DEF Begin
<1> DEFINE q(p) == [p EXCEPT !.op = op, !.text = text, !.flag = flag, !.env = env]
           r(p) == IF Usable(q(p)) THEN [q(p) EXCEPT !.pc = "copy"] ELSE Ended(q(p), "Usage")
<1>2. ASSUME NEW p \in Process, p.pc = "new"
      PROVE  /\ r(p) \in Process /\ r(p).op = op /\ r(p).text = text /\ r(p).flag = flag
             /\ r(p).put = p.put /\ r(p).saw = p.saw /\ r(p).unclip = p.unclip
             /\ r(p).pc \in {"copy", "ended"}
  BY DEF Process, Ended
<1>3. /\ Become(c, r(cmd[c])) /\ cmd[c].pc = "new" /\ UNCHANGED <<clip, writes, copies, faults>>
      /\ op = "add" => flag = Unset
  BY Zenon, <1>1 DEF Begin
<1> HIDE DEF r
<1>4. cmd[c] \in Process
  BY DEF IInv, TypeInv
<1> QED
  BY <1>2, <1>3, <1>4, Becomes DEF IInv, TypeInv, StampInv, LastInv, ClearInv, None

(* q differs from p in its step and its result only. *)
Same(p, q) ==
  /\ q.op = p.op /\ q.text = p.text /\ q.flag = p.flag /\ q.put = p.put
  /\ q.left = p.left /\ q.saw = p.saw

LEMMA EndedProcess ==
  ASSUME NEW p \in Process, NEW e \in {"ok", "Usage", "Helper", "killed"}
  PROVE  /\ Ended(p, e) \in Process /\ Same(p, Ended(p, e))
         /\ Ended(p, e).pc = "ended" /\ Ended(p, e).result = e
         /\ Ended(p, e).unclip = p.unclip
BY DEF Process, Ended, Same

LEMMA GoneProcess ==
  ASSUME NEW p \in Process
  PROVE  LET q == [p EXCEPT !.unclip = "gone"]
         IN  /\ q \in Process /\ Same(p, q)
             /\ q.pc = p.pc /\ q.result = p.result /\ q.unclip = "gone"
BY DEF Process, Same

LEMMA DisabledStep ==
  ASSUME IInv, NEW c \in Cmds, Disabled(c)
  PROVE  IInv'
BY EndedProcess, Becomes
   DEF IInv, TypeInv, StampInv, LastInv, ClearInv, None, Disabled, Same

LEMMA CopyStep ==
  ASSUME IInv, NEW c \in Cmds, Copy(c)
  PROVE  IInv'
<1> DEFINE r(p) == [p EXCEPT !.pc = "spawn", !.put = writes']
<1>1. CASE /\ Write(cmd[c].text) /\ Become(c, r(cmd[c])) /\ UNCHANGED <<copies, faults>>
  <2>1. writes' = writes + 1 /\ writes' \in Nat /\ clip' = cmd[c].text
    BY <1>1 DEF Write, IInv, TypeInv
  <2>2. ASSUME NEW p \in Process
        PROVE  /\ r(p) \in Process /\ r(p).op = p.op /\ r(p).text = p.text /\ r(p).flag = p.flag
               /\ r(p).saw = p.saw /\ r(p).left = p.left /\ r(p).unclip = p.unclip
               /\ r(p).pc = "spawn" /\ r(p).put = writes'
    BY <2>1 DEF Process
  <2>3. Become(c, r(cmd[c])) /\ cmd[c].pc = "copy" /\ cmd[c] \in Process
    BY Zenon, <1>1 DEF Copy, IInv, TypeInv
  <2>4. UNCHANGED <<copies, faults>>
    BY <1>1
  <2> HIDE DEF r
  <2>5. /\ cmd' \in [Cmds -> Process] /\ cmd'[c] = r(cmd[c])
        /\ \A d \in Cmds : d # c => cmd'[d] = cmd[d]
    BY <2>2, <2>3, Becomes DEF IInv
  <2>6. cmd[c].text \in Secrets \cup {Empty}
    BY <2>3 DEF Process
  <2>7. TypeInv'
    BY <2>1, <2>4, <2>5, <2>6 DEF IInv, TypeInv
  <2>8. StampInv'
    BY <2>1, <2>2, <2>3, <2>5 DEF IInv, TypeInv, StampInv, Process, None
  <2>9. LastInv'
    BY <2>1, <2>2, <2>3, <2>5 DEF IInv, TypeInv, StampInv, LastInv, Process
  <2>10. ClearInv'
    BY <2>1, <2>2, <2>3, <2>5 DEF IInv, TypeInv, StampInv, ClearInv, Process, None
  <2> QED
    BY <2>7, <2>8, <2>9, <2>10 DEF IInv
<1>2. CASE Fault /\ clip' \in {clip, Empty} /\ Become(c, Ended(cmd[c], "Helper"))
           /\ UNCHANGED <<writes, copies>>
  <2>1. cmd[c] \in Process /\ cmd[c].pc = "copy"
    BY DEF Copy, IInv, TypeInv
  <2>2. faults' \in 0..MaxFaults
    BY <1>2, ClipboardConstants DEF Fault, IInv, TypeInv
  <2> QED
    BY <1>2, <2>1, <2>2, EndedProcess, Becomes
       DEF IInv, TypeInv, StampInv, LastInv, ClearInv, None, Same
<1> QED
  BY <1>1, <1>2 DEF Copy

(* A usable timeout is a number. *)
LEMMA TimeoutIsNumber ==
  ASSUME NEW p \in Process, p.op = "add" => p.flag = Unset
  PROVE  Timeout(p) \in Nat
BY ClipboardConstants DEF Process, Timeout

LEMMA SpawnStep ==
  ASSUME IInv, NEW c \in Cmds, Spawn(c)
  PROVE  IInv'
<1> DEFINE r(p) == [Ended(p, "ok") EXCEPT !.unclip = "asleep", !.left = Timeout(p)]
<1>1. /\ cmd[c] \in Process /\ cmd[c].pc = "spawn" /\ UNCHANGED <<clip, writes, copies>>
      /\ cmd[c].op = "add" => cmd[c].flag = Unset
      /\ cmd[c].put > 0 /\ cmd[c].unclip = None
  BY Zenon DEF Spawn, IInv, TypeInv, StampInv
<1>2. CASE Become(c, r(cmd[c])) /\ UNCHANGED faults
  <2>1. ASSUME NEW p \in Process, p.op = "add" => p.flag = Unset
        PROVE  /\ r(p) \in Process /\ r(p).op = p.op /\ r(p).text = p.text /\ r(p).flag = p.flag
               /\ r(p).saw = p.saw /\ r(p).put = p.put /\ r(p).unclip = "asleep"
               /\ r(p).pc = "ended" /\ r(p).result = "ok"
    <3>1. Timeout(p) \in Nat
      BY <2>1, TimeoutIsNumber
    <3> QED
      BY <3>1 DEF Process, Ended
  <2> HIDE DEF r
  <2> QED
    BY <1>1, <1>2, <2>1, Becomes DEF IInv, TypeInv, StampInv, LastInv, ClearInv, None
<1>3. CASE Fault /\ Become(c, SpawnFailed(cmd[c]))
  <2>1. faults' \in 0..MaxFaults
    BY <1>3, ClipboardConstants DEF Fault, IInv, TypeInv
  <2> QED
    BY <1>1, <1>3, <2>1, EndedProcess, Becomes
       DEF IInv, TypeInv, StampInv, LastInv, ClearInv, None, Same, SpawnFailed
<1> QED
  BY Zenon, <1>2, <1>3 DEF Spawn

LEMMA CompareStep ==
  ASSUME IInv, NEW c \in Cmds, Compare(c)
  PROVE  IInv'
<1> DEFINE r(p) == [p EXCEPT !.unclip = "clearing", !.saw = writes]
           g(p) == [p EXCEPT !.unclip = "gone"]
<1>1. /\ cmd[c] \in Process /\ cmd[c].unclip = "asleep" /\ cmd[c].left = 0
      /\ UNCHANGED <<clip, writes, copies>>
  BY Zenon DEF Compare, Due, IInv, TypeInv
<1>2. ASSUME NEW p \in Process
      PROVE  /\ r(p) \in Process /\ r(p).op = p.op /\ r(p).text = p.text /\ r(p).flag = p.flag
             /\ r(p).saw = writes /\ r(p).put = p.put /\ r(p).unclip = "clearing"
             /\ r(p).pc = p.pc /\ r(p).result = p.result /\ r(p).left = p.left
  BY DEF Process, IInv, TypeInv
<1>3. ASSUME NEW p \in Process
      PROVE  /\ g(p) \in Process /\ Same(p, g(p))
             /\ g(p).pc = p.pc /\ g(p).result = p.result /\ g(p).unclip = "gone"
  BY GoneProcess
<1>4. CASE Become(c, r(cmd[c])) /\ ShouldClear(cmd[c]) /\ UNCHANGED faults
  <2> HIDE DEF r, g
  <2> QED
    BY <1>1, <1>2, <1>4, Becomes
       DEF IInv, TypeInv, StampInv, LastInv, ClearInv, None, ShouldClear
<1>5. CASE Become(c, g(cmd[c])) /\ (UNCHANGED faults \/ Fault)
  <2>1. faults' \in 0..MaxFaults
    BY <1>5, ClipboardConstants DEF Fault, IInv, TypeInv
  <2> HIDE DEF r, g
  <2> QED
    BY <1>1, <1>3, <1>5, <2>1, Becomes
       DEF IInv, TypeInv, StampInv, LastInv, ClearInv, None, Same
<1> QED
  BY Zenon, <1>4, <1>5 DEF Compare

LEMMA ClearStep ==
  ASSUME IInv, NEW c \in Cmds, Clear(c)
  PROVE  IInv'
<1> DEFINE g(p) == [p EXCEPT !.unclip = "gone"]
<1>1. /\ cmd[c] \in Process /\ cmd[c].unclip = "clearing" /\ Become(c, g(cmd[c]))
      /\ UNCHANGED <<writes, copies>>
      /\ \/ clip' = Empty /\ UNCHANGED faults
         \/ Fault /\ UNCHANGED clip
  BY Zenon DEF Clear, IInv, TypeInv
<1>2. ASSUME NEW p \in Process
      PROVE  /\ g(p) \in Process /\ Same(p, g(p))
             /\ g(p).pc = p.pc /\ g(p).result = p.result /\ g(p).unclip = "gone"
  BY GoneProcess
<1>3. faults' \in 0..MaxFaults
  BY <1>1, ClipboardConstants DEF Fault, IInv, TypeInv
<1> HIDE DEF g
<1> QED
  BY <1>1, <1>2, <1>3, Becomes DEF IInv, TypeInv, StampInv, LastInv, ClearInv, None, Same

LEMMA UserCopiesStep ==
  ASSUME IInv, UserCopies
  PROVE  IInv'
<1>1. /\ writes' = writes + 1 /\ writes' \in Nat /\ clip' = UserText
      /\ UNCHANGED <<cmd, faults>> /\ copies' \in 0..MaxCopies
  BY ClipboardConstants DEF UserCopies, Write, IInv, TypeInv
<1>2. \A c \in Cmds : cmd[c].put \in Nat /\ cmd[c].saw \in Nat
  BY DEF IInv, TypeInv, Process
<1> QED
  BY <1>1, <1>2 DEF IInv, TypeInv, StampInv, LastInv, ClearInv

LEMMA KillStep ==
  ASSUME IInv, NEW c \in Cmds, Kill(c)
  PROVE  IInv'
<1> DEFINE g(p) == [p EXCEPT !.unclip = "gone"]
<1>1. /\ cmd[c] \in Process /\ UNCHANGED <<clip, writes, copies>>
      /\ \/ cmd[c].pc \in {"copy", "spawn"} /\ Become(c, Ended(cmd[c], "killed"))
         \/ cmd[c].unclip \in {"asleep", "clearing"} /\ Become(c, g(cmd[c]))
  BY Zenon DEF Kill, IInv, TypeInv
<1>2. ASSUME NEW p \in Process
      PROVE  /\ g(p) \in Process /\ Same(p, g(p))
             /\ g(p).pc = p.pc /\ g(p).result = p.result /\ g(p).unclip = "gone"
  BY GoneProcess
<1>3. faults' \in 0..MaxFaults
  BY ClipboardConstants DEF Kill, Fault, IInv, TypeInv
<1> HIDE DEF g
<1>4. CASE cmd[c].pc \in {"copy", "spawn"} /\ Become(c, Ended(cmd[c], "killed"))
  BY <1>1, <1>3, <1>4, EndedProcess, Becomes
     DEF IInv, TypeInv, StampInv, LastInv, ClearInv, None, Same
<1>5. CASE cmd[c].unclip \in {"asleep", "clearing"} /\ Become(c, g(cmd[c]))
  BY <1>1, <1>2, <1>3, <1>5, Becomes
     DEF IInv, TypeInv, StampInv, LastInv, ClearInv, None, Same
<1> QED
  BY <1>1, <1>4, <1>5

LEMMA TickStep ==
  ASSUME IInv, Tick
  PROVE  IInv'
<1> DEFINE r(p) == [p EXCEPT !.left = IF @ > 0 THEN @ - 1 ELSE 0]
<1>1. cmd' = [c \in Cmds |-> r(cmd[c])] /\ UNCHANGED <<clip, writes, copies, faults>>
  BY Zenon DEF Tick
<1>2. ASSUME NEW p \in Process
      PROVE  /\ r(p) \in Process /\ r(p).op = p.op /\ r(p).text = p.text /\ r(p).flag = p.flag
             /\ r(p).saw = p.saw /\ r(p).put = p.put /\ r(p).unclip = p.unclip
             /\ r(p).pc = p.pc /\ r(p).result = p.result /\ (p.left = 0 => r(p).left = 0)
  BY DEF Process
<1> HIDE DEF r
<1>3. \A c \in Cmds : cmd[c] \in Process /\ cmd'[c] = r(cmd[c])
  BY <1>1 DEF IInv, TypeInv
<1> QED
  BY <1>1, <1>2, <1>3 DEF IInv, TypeInv, StampInv, LastInv, ClearInv

LEMMA NextStep == IInv /\ [Next]_vars => IInv'
<1> SUFFICES ASSUME IInv, [Next]_vars
             PROVE  IInv'
  OBVIOUS
<1>1. CASE UNCHANGED vars
  BY <1>1 DEF vars, IInv, TypeInv, StampInv, LastInv, ClearInv
<1> QED
  BY Zenon, <1>1, BeginStep, DisabledStep, CopyStep, SpawnStep, CompareStep, ClearStep, KillStep,
     UserCopiesStep, TickStep DEF Next, Done

(* The inductive invariant of the clipboard holds in every state. *)
THEOREM Invariant == Spec => []IInv
BY InitInv, NextStep, PTL DEF Spec

(* Every variable of the clipboard has its type (TypeOK), for all constants. *)
THEOREM TypeCorrect == Spec => []TypeOK
<1>1. IInv => TypeOK
  BY DEF IInv, TypeInv, StampInv, TypeOK, Process, None
<1> QED
  BY <1>1, Invariant, PTL

(* An unclip process clears only the text it was started for, or what came  *)
(* between its look at the clipboard and its clearing.                      *)
THEOREM OwnTextOnly == Spec => OnlyItsOwnText
<1>1. IInv /\ [Next]_vars =>
        [\A c \in Cmds : Clears(c) => clip = cmd[c].text \/ writes > cmd[c].saw]_vars
  <2> SUFFICES ASSUME IInv, NEW c \in Cmds, Clears(c)
               PROVE  clip = cmd[c].text \/ writes > cmd[c].saw
    OBVIOUS
  <2>1. writes \in Nat /\ cmd[c].saw \in Nat /\ cmd[c].saw <= writes
    BY DEF IInv, TypeInv, StampInv, Process
  <2>2. cmd[c].saw = writes => clip = cmd[c].text
    BY DEF IInv, ClearInv, Clears
  <2> QED
    BY <2>1, <2>2
<1> QED
  BY <1>1, Invariant, PTL DEF Spec, OnlyItsOwnText

(* No unclip clears another command's secret before its timeout, except the *)
(* same text or a secret copied at that very moment.                        *)
THEOREM TimeIsKept == Spec => NotBeforeItsTime
<1>1. IInv /\ [Next]_vars =>
        [\A c, d \in Cmds :
           Clears(d) /\ cmd[c].unclip \in {"asleep", "clearing"} /\ cmd[c].put = writes
                     /\ cmd[c].left > 0
           => d # c /\ (cmd[d].text = cmd[c].text \/ cmd[d].saw < writes)]_vars
  BY DEF IInv, TypeInv, StampInv, LastInv, ClearInv, Clears, Process, None
<1> QED
  BY <1>1, Invariant, PTL DEF Spec, NotBeforeItsTime
=============================================================================
