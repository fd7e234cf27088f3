----------------------------- MODULE ShimProofs -----------------------------
(***************************************************************************)
(* What wcm.exe is asked to do is what was typed in the WSL, and what      *)
(* follows for the calls of Shim: proofs for all command lines,            *)
(* environments, machines and items.                                       *)
(*                                                                         *)
(* The three readers of a command line (ReadToken, TranslateToken and      *)
(* SshToken) go from token to token; that they agree is shown by induction *)
(* over the command line, with what holds of their states when all of them *)
(* have read the same part of it.                                          *)
(***************************************************************************)
EXTENDS Shim, SequenceTheorems, TLAPS

Rd == INSTANCE ScanningProofs WITH Step <- ReadToken, Initial <- NothingRead
Tr == INSTANCE ScanningProofs WITH Step <- TranslateToken, Initial <- NothingSent
Sr == INSTANCE ScanningProofs WITH Step <- SshToken, Initial <- NothingTaken
Dd == INSTANCE ScanningProofs WITH Step <- Kept, Initial <- <<>>

-----------------------------------------------------------------------------
(* The readers, one token at a time *)

Translating(args) == Translator!Result(args)
SshReading(args) == SshReader!Result(args)

LEMMA NothingYet ==
  /\ Reading(<<>>) = NothingRead /\ Translating(<<>>) = NothingSent
  /\ SshReading(<<>>) = NothingTaken /\ Deduped(<<>>) = <<>>
<1>1. Reading(<<>>) = NothingRead
  BY Rd!NothingScanned DEF Reading, Reader!Result, Rd!Result
<1>2. Translating(<<>>) = NothingSent
  BY Tr!NothingScanned DEF Translating, Translator!Result, Tr!Result
<1>3. SshReading(<<>>) = NothingTaken
  BY Sr!NothingScanned DEF SshReading, SshReader!Result, Sr!Result
<1>4. Deduped(<<>>) = <<>>
  BY Dd!NothingScanned DEF Deduped, Dedup!Result, Dd!Result
<1> QED
  BY <1>1, <1>2, <1>3, <1>4

LEMMA OneMore ==
  ASSUME NEW S, NEW x \in Seq(S), NEW t \in S
  PROVE  /\ Reading(Append(x, t)) = ReadToken(Reading(x), t)
         /\ Translating(Append(x, t)) = TranslateToken(Translating(x), t)
         /\ SshReading(Append(x, t)) = SshToken(SshReading(x), t)
         /\ Deduped(Append(x, t)) = Kept(Deduped(x), t)
<1>1. Reading(Append(x, t)) = ReadToken(Reading(x), t)
  BY Rd!OneMoreScanned DEF Reading, Reader!Result, Rd!Result
<1>2. Translating(Append(x, t)) = TranslateToken(Translating(x), t)
  BY Tr!OneMoreScanned DEF Translating, Translator!Result, Tr!Result
<1>3. SshReading(Append(x, t)) = SshToken(SshReading(x), t)
  BY Sr!OneMoreScanned DEF SshReading, SshReader!Result, Sr!Result
<1>4. Deduped(Append(x, t)) = Kept(Deduped(x), t)
  BY Dd!OneMoreScanned DEF Deduped, Dedup!Result, Dd!Result
<1> QED
  BY <1>1, <1>2, <1>3, <1>4

-----------------------------------------------------------------------------
(* wcm's own reader: what a token does to a state in which nothing was      *)
(* wrong so far                                                             *)

State(want, cmd, opts, here, pos, tail) ==
  [want |-> want, cmd |-> cmd, opts |-> opts, here |-> here, pos |-> pos, tail |-> tail]

Good(r) == r = State(r.want, r.cmd, r.opts, r.here, r.pos, r.tail) /\ r.want # "refused"

May(r, o) == o \notin r.here \/ o \in Repeatable(r.cmd)

(* The tokens that are right in a state, by what they are.                  *)
InTail(r, t)   == r.want = "--" /\ r.cmd = "run"
InRest(r, t)   == r.want = "--" /\ r.cmd # "run"
IsValue(r, t)  == r.want \notin {"", "--", "refused"} /\ t.form = "word" /\ May(r, r.want)
IsEnd(r, t)    == r.want = "" /\ t.form = "dashes" /\ r.cmd \in Commands
IsOption(r, t) == r.want = "" /\ t.form = "opt" /\ Canonical(t.opt) \in OptsOf(r.cmd)
IsFlag(r, t)   == /\ r.want = "" /\ t.form = "opt" /\ May(r, Canonical(t.opt))
                  /\ Canonical(t.opt) \in FlagsOf(r.cmd) \ OptsOf(r.cmd)
IsInline(r, t) == /\ r.want = "" /\ t.form \in {"inline", "attached"}
                  /\ Canonical(t.opt) \in OptsOf(r.cmd) /\ May(r, Canonical(t.opt))
IsCommand(r, t) == r.want = "" /\ t.form = "word" /\ r.cmd = "" /\ t.text \in Subcommands
IsSshCommand(r, t) ==
  r.want = "" /\ t.form = "word" /\ r.cmd = "ssh" /\ t.text \in DOMAIN SshCommand
IsPositional(r, t) == r.want = "" /\ t.form = "word" /\ r.cmd \notin {"", "ssh"}

LEMMA GoodReads ==
  ASSUME NEW r, Good(r), NEW t
  PROVE  /\ InTail(r, t) => ReadToken(r, t)
              = State(r.want, r.cmd, r.opts, r.here, r.pos, Append(r.tail, t))
         /\ InRest(r, t) => ReadToken(r, t)
              = State(r.want, r.cmd, r.opts, r.here, Append(r.pos, Value(t)), r.tail)
         /\ IsValue(r, t) => ReadToken(r, t)
              = State("", r.cmd, Extended(r.opts, r.here, r.want, <<Value(t)>>), r.here \cup {r.want}, r.pos, r.tail)
         /\ IsEnd(r, t) => ReadToken(r, t)
              = State("--", r.cmd, r.opts, r.here, r.pos, r.tail)
         /\ IsOption(r, t) => ReadToken(r, t)
              = State(Canonical(t.opt), r.cmd, r.opts, r.here, r.pos, r.tail)
         /\ IsFlag(r, t) => ReadToken(r, t)
              = State("", r.cmd, Extended(r.opts, r.here, Canonical(t.opt), <<>>), r.here \cup {Canonical(t.opt)}, r.pos, r.tail)
         /\ IsInline(r, t) => ReadToken(r, t)
              = State("", r.cmd, Extended(r.opts, r.here, Canonical(t.opt), <<Value(t)>>), r.here \cup {Canonical(t.opt)}, r.pos, r.tail)
         /\ IsCommand(r, t) => ReadToken(r, t)
              = State("", t.text, r.opts, {}, r.pos, r.tail)
         /\ IsSshCommand(r, t) => ReadToken(r, t)
              = State("", SshCommand[t.text], r.opts, {}, r.pos, r.tail)
         /\ IsPositional(r, t) => ReadToken(r, t)
              = State("", r.cmd, r.opts, r.here, Append(r.pos, Value(t)), r.tail)
<1>1. PICK want, cmd, opts, here, pos, tail : r = State(want, cmd, opts, here, pos, tail)
  BY DEF Good
<1>2. InTail(r, t) => ReadToken(r, t)
        = State(r.want, r.cmd, r.opts, r.here, r.pos, Append(r.tail, t))
  BY <1>1 DEF State, ReadToken, InTail
<1>3. InRest(r, t) => ReadToken(r, t)
        = State(r.want, r.cmd, r.opts, r.here, Append(r.pos, Value(t)), r.tail)
  BY <1>1 DEF State, ReadToken, InRest
<1>4. IsValue(r, t) => ReadToken(r, t)
        = State("", r.cmd, Extended(r.opts, r.here, r.want, <<Value(t)>>), r.here \cup {r.want}, r.pos, r.tail)
  BY <1>1 DEF State, ReadToken, IsValue, Given, May
<1>5. IsEnd(r, t) => ReadToken(r, t)
        = State("--", r.cmd, r.opts, r.here, r.pos, r.tail)
  BY <1>1 DEF State, ReadToken, IsEnd
<1>6. IsOption(r, t) => ReadToken(r, t)
        = State(Canonical(t.opt), r.cmd, r.opts, r.here, r.pos, r.tail)
  BY <1>1 DEF State, ReadToken, IsOption
<1>7. IsFlag(r, t) => ReadToken(r, t)
        = State("", r.cmd, Extended(r.opts, r.here, Canonical(t.opt), <<>>), r.here \cup {Canonical(t.opt)}, r.pos, r.tail)
  BY <1>1 DEF State, ReadToken, IsFlag, Given, May
<1>8. IsInline(r, t) => ReadToken(r, t)
        = State("", r.cmd, Extended(r.opts, r.here, Canonical(t.opt), <<Value(t)>>), r.here \cup {Canonical(t.opt)}, r.pos, r.tail)
  BY <1>1 DEF State, ReadToken, IsInline, Given, May
<1>9. IsCommand(r, t) => ReadToken(r, t)
        = State("", t.text, r.opts, {}, r.pos, r.tail)
  BY <1>1 DEF State, ReadToken, IsCommand, Named, Deeper
<1>10. IsSshCommand(r, t) => ReadToken(r, t)
        = State("", SshCommand[t.text], r.opts, {}, r.pos, r.tail)
  BY <1>1 DEF State, ReadToken, IsSshCommand, Named, Deeper
<1>11. IsPositional(r, t) => ReadToken(r, t)
        = State("", r.cmd, r.opts, r.here, Append(r.pos, Value(t)), r.tail)
  BY <1>1 DEF State, ReadToken, IsPositional, Named
<1> QED
  BY <1>2, <1>3, <1>4, <1>5, <1>6, <1>7, <1>8, <1>9, <1>10, <1>11

(* The parts of a state.                                                    *)
Is(r, want, cmd, opts, here, pos, tail) ==
  r.want = want /\ r.cmd = cmd /\ r.opts = opts /\ r.here = here
  /\ r.pos = pos /\ r.tail = tail

LEMMA StateIs ==
  ASSUME NEW want, NEW cmd, NEW opts, NEW here, NEW pos, NEW tail, NEW r,
         r = State(want, cmd, opts, here, pos, tail)
  PROVE  Is(r, want, cmd, opts, here, pos, tail)
  BY DEF State, Is

LEMMA GoodMoves ==
  ASSUME NEW r, Good(r), NEW t, NEW n, n = ReadToken(r, t)
  PROVE  /\ InTail(r, t) => Is(n, r.want, r.cmd, r.opts, r.here, r.pos, Append(r.tail, t))
         /\ InRest(r, t) => Is(n, r.want, r.cmd, r.opts, r.here, Append(r.pos, Value(t)), r.tail)
         /\ IsValue(r, t) => Is(n, "", r.cmd, Extended(r.opts, r.here, r.want, <<Value(t)>>), r.here \cup {r.want}, r.pos, r.tail)
         /\ IsEnd(r, t) => Is(n, "--", r.cmd, r.opts, r.here, r.pos, r.tail)
         /\ IsOption(r, t) => Is(n, Canonical(t.opt), r.cmd, r.opts, r.here, r.pos, r.tail)
         /\ IsFlag(r, t) => Is(n, "", r.cmd, Extended(r.opts, r.here, Canonical(t.opt), <<>>), r.here \cup {Canonical(t.opt)}, r.pos, r.tail)
         /\ IsInline(r, t) => Is(n, "", r.cmd, Extended(r.opts, r.here, Canonical(t.opt), <<Value(t)>>), r.here \cup {Canonical(t.opt)}, r.pos, r.tail)
         /\ IsCommand(r, t) => Is(n, "", t.text, r.opts, {}, r.pos, r.tail)
         /\ IsSshCommand(r, t) => Is(n, "", SshCommand[t.text], r.opts, {}, r.pos, r.tail)
         /\ IsPositional(r, t) => Is(n, "", r.cmd, r.opts, r.here, Append(r.pos, Value(t)), r.tail)
<1>1. InTail(r, t) => Is(n, r.want, r.cmd, r.opts, r.here, r.pos, Append(r.tail, t))
  BY GoodReads, StateIs
<1>2. InRest(r, t) => Is(n, r.want, r.cmd, r.opts, r.here, Append(r.pos, Value(t)), r.tail)
  BY GoodReads, StateIs
<1>3. IsValue(r, t) => Is(n, "", r.cmd, Extended(r.opts, r.here, r.want, <<Value(t)>>), r.here \cup {r.want}, r.pos, r.tail)
  BY GoodReads, StateIs
<1>4. IsEnd(r, t) => Is(n, "--", r.cmd, r.opts, r.here, r.pos, r.tail)
  BY GoodReads, StateIs
<1>5. IsOption(r, t) => Is(n, Canonical(t.opt), r.cmd, r.opts, r.here, r.pos, r.tail)
  BY GoodReads, StateIs
<1>6. IsFlag(r, t) => Is(n, "", r.cmd, Extended(r.opts, r.here, Canonical(t.opt), <<>>), r.here \cup {Canonical(t.opt)}, r.pos, r.tail)
  BY GoodReads, StateIs
<1>7. IsInline(r, t) => Is(n, "", r.cmd, Extended(r.opts, r.here, Canonical(t.opt), <<Value(t)>>), r.here \cup {Canonical(t.opt)}, r.pos, r.tail)
  BY GoodReads, StateIs
<1>8. IsCommand(r, t) => Is(n, "", t.text, r.opts, {}, r.pos, r.tail)
  BY GoodReads, StateIs
<1>9. IsSshCommand(r, t) => Is(n, "", SshCommand[t.text], r.opts, {}, r.pos, r.tail)
  BY GoodReads, StateIs
<1>10. IsPositional(r, t) => Is(n, "", r.cmd, r.opts, r.here, Append(r.pos, Value(t)), r.tail)
  BY GoodReads, StateIs
<1> QED
  BY <1>1, <1>2, <1>3, <1>4, <1>5, <1>6, <1>7, <1>8, <1>9, <1>10

(* A line that is wrong stays wrong.                                        *)
IsBad(r) == r.want = "refused"

LEMMA BadStays ==
  ASSUME NEW r, IsBad(r), NEW t
  PROVE  IsBad(ReadToken(r, t))
  BY DEF IsBad, ReadToken

LEMMA GoodOrBad ==
  ASSUME NEW r, Good(r), NEW t, IsToken(t)
  PROVE  \/ IsBad(ReadToken(r, t))
         \/ InTail(r, t) \/ InRest(r, t) \/ IsValue(r, t) \/ IsEnd(r, t) \/ IsOption(r, t)
         \/ IsFlag(r, t) \/ IsInline(r, t) \/ IsCommand(r, t) \/ IsSshCommand(r, t)
         \/ IsPositional(r, t)
<1>1. PICK want, cmd, opts, here, pos, tail : r = State(want, cmd, opts, here, pos, tail)
  BY DEF Good
<1>2. t.form \in {"word", "opt", "inline", "attached", "dashes"}
  BY DEF IsToken
<1>3. r.want = "--" => InTail(r, t) \/ InRest(r, t)
  BY DEF InTail, InRest
<1>4. r.want \notin {"", "--", "refused"} => IsBad(ReadToken(r, t)) \/ IsValue(r, t)
  BY <1>1 DEF State, ReadToken, Given, May, Bad, IsBad, IsValue
<1>5. r.want = "" /\ t.form = "word" => \/ IsBad(ReadToken(r, t)) \/ IsCommand(r, t)
                                       \/ IsSshCommand(r, t) \/ IsPositional(r, t)
  BY <1>1 DEF State, ReadToken, Named, Bad, IsBad, IsCommand, IsSshCommand, IsPositional
<1>6. r.want = "" /\ t.form = "dashes" => IsBad(ReadToken(r, t)) \/ IsEnd(r, t)
  BY <1>1 DEF State, ReadToken, Bad, IsBad, IsEnd
<1>7. r.want = "" /\ t.form = "opt" =>
        IsBad(ReadToken(r, t)) \/ IsOption(r, t) \/ IsFlag(r, t)
  BY <1>1 DEF State, ReadToken, Given, May, Bad, IsBad, IsOption, IsFlag
<1>8. r.want = "" /\ t.form \in {"inline", "attached"} =>
        IsBad(ReadToken(r, t)) \/ IsInline(r, t)
  BY <1>1 DEF State, ReadToken, Given, May, Bad, IsBad, IsInline
<1> QED
  BY <1>2, <1>3, <1>4, <1>5, <1>6, <1>7, <1>8 DEF Good

LEMMA StateFields ==
  ASSUME NEW want, NEW cmd, NEW opts, NEW here, NEW pos, NEW tail
  PROVE  LET r == State(want, cmd, opts, here, pos, tail)
         IN  /\ r.want = want /\ r.cmd = cmd /\ r.opts = opts /\ r.here = here
             /\ r.pos = pos /\ r.tail = tail
             /\ want # "refused" => Good(r)
  BY DEF State, Good

LEMMA ExtendedIs ==
  ASSUME NEW opts, NEW here, NEW o, NEW values
  PROVE  LET more == Extended(opts, here, o, values)
         IN  /\ DOMAIN more = DOMAIN opts \cup {o}
             /\ more = [x \in DOMAIN more |-> more[x]]
             /\ \A x \in DOMAIN opts : x # o => more[x] = opts[x]
             /\ o \in here => more[o] = opts[o] \o values
             /\ o \notin here => more[o] = values
  BY DEF Extended

Values(S) == {Value(t) : t \in S}

Typed(r, S) ==
  /\ Good(r)
  /\ r.cmd \in {"", "ssh"} \cup Commands
  /\ r.want = "--" => r.cmd \in Commands
  /\ r.want \notin {"", "--"} => r.want \in OptsOf(r.cmd)
  /\ r.cmd \in {"", "ssh"} => r.pos = <<>>
  /\ r.pos \in Seq(Values(S)) /\ r.tail \in Seq(S)
  /\ r.opts = [o \in DOMAIN r.opts |-> r.opts[o]]
  /\ r.here \subseteq DOMAIN r.opts
  /\ \A o \in DOMAIN r.opts : r.opts[o] \in Seq(Values(S))

LEMMA OptionNames ==
  ASSUME NEW cmd, NEW o \in OptsOf(cmd)
  PROVE  o \notin {"", "--", "refused"}
  BY DEF OptsOf, GlobalOpts

LEMMA TypedState ==
  ASSUME NEW S, NEW want, NEW cmd \in {"", "ssh"} \cup Commands, NEW opts,
         NEW here \in SUBSET DOMAIN opts, NEW pos \in Seq(Values(S)), NEW tail \in Seq(S),
         want = "--" => cmd \in Commands,
         want \notin {"", "--"} => want \in OptsOf(cmd),
         cmd \in {"", "ssh"} => pos = <<>>,
         opts = [o \in DOMAIN opts |-> opts[o]],
         \A o \in DOMAIN opts : opts[o] \in Seq(Values(S))
  PROVE  Typed(State(want, cmd, opts, here, pos, tail), S)
<1> DEFINE r == State(want, cmd, opts, here, pos, tail)
<1>1. want # "refused"
  BY OptionNames
<1>2. /\ r.want = want /\ r.cmd = cmd /\ r.opts = opts /\ r.here = here
      /\ r.pos = pos /\ r.tail = tail /\ Good(r)
  BY <1>1 DEF State, Good
<1> HIDE DEF r
<1>3. Typed(r, S)
  BY <1>2 DEF Typed
<1> QED
  BY <1>3 DEF r

LEMMA TypedExtended ==
  ASSUME NEW V, NEW opts, \A x \in DOMAIN opts : opts[x] \in Seq(V),
         NEW here \in SUBSET DOMAIN opts, NEW o, NEW values \in Seq(V)
  PROVE  LET more == Extended(opts, here, o, values)
         IN  /\ more = [x \in DOMAIN more |-> more[x]]
             /\ \A x \in DOMAIN more : more[x] \in Seq(V)
<1> DEFINE more == Extended(opts, here, o, values)
<1>1. /\ more = [x \in DOMAIN more |-> more[x]]
      /\ DOMAIN more = DOMAIN opts \cup {o}
      /\ \A x \in DOMAIN opts : x # o => more[x] = opts[x]
      /\ o \in here => more[o] = opts[o] \o values
      /\ o \notin here => more[o] = values
  BY DEF Extended
<1> HIDE DEF more
<1>2. o \in here => opts[o] \o values \in Seq(V)
  OBVIOUS
<1>3. \A x \in DOMAIN more : more[x] \in Seq(V)
  BY <1>1, <1>2
<1> QED
  BY <1>1, <1>3 DEF more

LEMMA TypedSteps ==
  ASSUME NEW S, NEW r, Typed(r, S), NEW t \in S, IsToken(t)
  PROVE  IsBad(ReadToken(r, t)) \/ Typed(ReadToken(r, t), S)
<1> DEFINE V == Values(S)
           e == Extended(r.opts, r.here, r.want, <<Value(t)>>)
           f == Extended(r.opts, r.here, Canonical(t.opt), <<>>)
           g == Extended(r.opts, r.here, Canonical(t.opt), <<Value(t)>>)
<1>1. /\ Good(r) /\ r.want # "refused"
      /\ r.cmd \in {"", "ssh"} \cup Commands
      /\ r.want = "--" => r.cmd \in Commands
      /\ r.want \notin {"", "--"} => r.want \in OptsOf(r.cmd)
      /\ r.cmd \in {"", "ssh"} => r.pos = <<>>
      /\ r.pos \in Seq(V) /\ r.tail \in Seq(S)
      /\ r.opts = [o \in DOMAIN r.opts |-> r.opts[o]]
      /\ r.here \in SUBSET DOMAIN r.opts
      /\ \A o \in DOMAIN r.opts : r.opts[o] \in Seq(V)
  BY DEF Typed, Good
<1>2. Value(t) \in V
  BY DEF Values
<1>3. "ssh" \notin Commands /\ "" \notin Commands
  BY DEF Commands, Subcommands
<1> HIDE DEF V
<1>4. <<Value(t)>> \in Seq(V) /\ <<>> \in Seq(V)
  BY <1>2
<1>5. Append(r.pos, Value(t)) \in Seq(V) /\ Append(r.tail, t) \in Seq(S)
  <2>1. \A X, x, y : x \in Seq(X) /\ y \in X => Append(x, y) \in Seq(X)
    OBVIOUS
  <2> QED
    BY <1>1, <1>2, <2>1
<1>6. ASSUME NEW o, NEW v \in Seq(V)
      PROVE  LET more == Extended(r.opts, r.here, o, v)
             IN  /\ more = [x \in DOMAIN more |-> more[x]]
                 /\ \A x \in DOMAIN more : more[x] \in Seq(V)
  <2> DEFINE opts == r.opts
             here == r.here
  <2>1. (\A x \in DOMAIN opts : opts[x] \in Seq(V)) /\ here \in SUBSET DOMAIN opts
    BY <1>1
  <2> HIDE DEF opts
  <2>2. LET more == Extended(opts, here, o, v)
        IN  /\ more = [x \in DOMAIN more |-> more[x]]
            /\ \A x \in DOMAIN more : more[x] \in Seq(V)
    BY <2>1, TypedExtended
  <2> QED
    BY <2>2 DEF opts, here
<1>17. /\ e = [x \in DOMAIN e |-> e[x]] /\ \A x \in DOMAIN e : e[x] \in Seq(V)
       /\ f = [x \in DOMAIN f |-> f[x]] /\ \A x \in DOMAIN f : f[x] \in Seq(V)
       /\ g = [x \in DOMAIN g |-> g[x]] /\ \A x \in DOMAIN g : g[x] \in Seq(V)
  BY <1>4, <1>6, ZenonT(30)
<1>18. /\ r.here \cup {r.want} \in SUBSET DOMAIN e
       /\ r.here \cup {Canonical(t.opt)} \in SUBSET DOMAIN f
       /\ r.here \cup {Canonical(t.opt)} \in SUBSET DOMAIN g
  <2>1. /\ DOMAIN e = DOMAIN r.opts \cup {r.want}
        /\ DOMAIN f = DOMAIN r.opts \cup {Canonical(t.opt)}
        /\ DOMAIN g = DOMAIN r.opts \cup {Canonical(t.opt)}
    BY DEF Extended
  <2> QED
    BY <1>1, <2>1
<1> HIDE DEF e, f, g
<1>7. CASE InTail(r, t)
  <2>1. Typed(State(r.want, r.cmd, r.opts, r.here, r.pos, Append(r.tail, t)), S)
    BY <1>1, <1>5, TypedState DEF V
  <2> QED
    BY <1>1, <1>7, <2>1, GoodReads
<1>8. CASE InRest(r, t)
  <2>1. r.cmd \notin {"", "ssh"}
    BY <1>1, <1>3, <1>8 DEF InRest
  <2>2. Typed(State(r.want, r.cmd, r.opts, r.here, Append(r.pos, Value(t)), r.tail), S)
    BY <1>1, <1>5, <2>1, TypedState DEF V
  <2> QED
    BY <1>1, <1>8, <2>2, GoodReads
<1>9. CASE IsValue(r, t)
  <2>1. Typed(State("", r.cmd, e, r.here \cup {r.want}, r.pos, r.tail), S)
    BY <1>1, <1>17, <1>18, TypedState DEF V
  <2> QED
    BY <1>1, <1>9, <2>1, GoodReads DEF e
<1>10. CASE IsEnd(r, t)
  <2>1. r.cmd \in Commands
    BY <1>10 DEF IsEnd
  <2>2. Typed(State("--", r.cmd, r.opts, r.here, r.pos, r.tail), S)
    BY <1>1, <2>1, TypedState DEF V
  <2> QED
    BY <1>1, <1>10, <2>2, GoodReads
<1>11. CASE IsOption(r, t)
  <2>1. Canonical(t.opt) \in OptsOf(r.cmd)
    BY <1>11 DEF IsOption
  <2>2. Typed(State(Canonical(t.opt), r.cmd, r.opts, r.here, r.pos, r.tail), S)
    BY <1>1, <2>1, OptionNames, TypedState DEF V
  <2> QED
    BY <1>1, <1>11, <2>2, GoodReads
<1>12. CASE IsFlag(r, t)
  <2>1. Typed(State("", r.cmd, f, r.here \cup {Canonical(t.opt)}, r.pos, r.tail), S)
    BY <1>1, <1>17, <1>18, TypedState DEF V
  <2> QED
    BY <1>1, <1>12, <2>1, GoodReads DEF f
<1>13. CASE IsInline(r, t)
  <2>1. Typed(State("", r.cmd, g, r.here \cup {Canonical(t.opt)}, r.pos, r.tail), S)
    BY <1>1, <1>17, <1>18, TypedState DEF V
  <2> QED
    BY <1>1, <1>13, <2>1, GoodReads DEF g
<1>14. CASE IsCommand(r, t)
  <2>1. r.want = "" /\ t.text \in {"ssh"} \cup Commands /\ r.pos = <<>>
    BY <1>1, <1>14 DEF IsCommand, Commands
  <2>2. Typed(State("", t.text, r.opts, {}, r.pos, r.tail), S)
    BY <1>1, <2>1, TypedState DEF V
  <2>3. ReadToken(r, t) = State("", t.text, r.opts, {}, r.pos, r.tail)
    BY <1>1, <1>14, GoodReads
  <2> QED
    BY <2>2, <2>3
<1>15. CASE IsSshCommand(r, t)
  <2>1. r.want = "" /\ r.cmd = "ssh" /\ t.text \in DOMAIN SshCommand
    BY <1>15 DEF IsSshCommand
  <2>2. SshCommand[t.text] \in Commands
    <3>1. t.text \in {"add", "pubkey", "remove"}
      BY <2>1 DEF SshCommand
    <3>2. /\ SshCommand["add"] = "ssh add" /\ SshCommand["pubkey"] = "ssh pubkey"
          /\ SshCommand["remove"] = "ssh remove"
      BY DEF SshCommand
    <3> QED
      BY <3>1, <3>2 DEF Commands
  <2>3. Typed(State("", SshCommand[t.text], r.opts, {}, r.pos, r.tail), S)
    BY <1>1, <2>1, <2>2, TypedState DEF V
  <2>4. ReadToken(r, t) = State("", SshCommand[t.text], r.opts, {}, r.pos, r.tail)
    BY <1>1, <1>15, GoodReads
  <2> QED
    BY <2>3, <2>4
<1>16. CASE IsPositional(r, t)
  <2>1. r.cmd \notin {"", "ssh"}
    BY <1>16 DEF IsPositional
  <2>2. Typed(State("", r.cmd, r.opts, r.here, Append(r.pos, Value(t)), r.tail), S)
    BY <1>1, <1>5, <2>1, TypedState DEF V
  <2> QED
    BY <1>1, <1>16, <2>2, GoodReads
<1> QED
  BY <1>1, <1>7, <1>8, <1>9, <1>10, <1>11, <1>12, <1>13, <1>14, <1>15, <1>16, GoodOrBad

LEMMA Reads ==
  ASSUME NEW S, \A t \in S : IsToken(t), NEW args \in Seq(S)
  PROVE  IsBad(Reading(args)) \/ Typed(Reading(args), S)
<1> DEFINE P == {x \in Seq(S) : IsBad(Reading(x)) \/ Typed(Reading(x), S)}
<1>1. Typed(NothingRead, S)
  <2>1. NothingRead = State("", "", <<>>, {}, <<>>, <<>>)
    BY DEF NothingRead, State
  <2>2. DOMAIN <<>> = {} /\ {} \in SUBSET DOMAIN <<>> /\ <<>> = [o \in DOMAIN <<>> |-> <<>>[o]]
    OBVIOUS
  <2> DEFINE V == Values(S)
  <2> HIDE DEF V
  <2>3. <<>> \in Seq(V) /\ <<>> \in Seq(S)
    OBVIOUS
  <2>4. Typed(State("", "", <<>>, {}, <<>>, <<>>), S)
    BY <2>2, <2>3, TypedState DEF V
  <2> QED
    BY <2>1, <2>4
<1>2. <<>> \in P
  BY <1>1, NothingYet
<1>3. ASSUME NEW x \in Seq(S), NEW t \in S, x \in P
      PROVE  Append(x, t) \in P
  <2>1. Reading(Append(x, t)) = ReadToken(Reading(x), t) /\ Append(x, t) \in Seq(S)
    BY OneMore
  <2> QED
    BY <1>3, <2>1, BadStays, TypedSteps
<1> HIDE DEF P
<1>4. args \in P
  BY <1>2, <1>3, Rd!Lengthen
<1> QED
  BY <1>4 DEF P

-----------------------------------------------------------------------------
(* `--` and --vault: what the shim looks for is what the reader finds       *)

LEMMA RangeOfMore ==
  ASSUME NEW S, NEW x \in Seq(S), NEW t \in S
  PROVE  Range(Append(x, t)) = Range(x) \cup {t}
<1>1. /\ Len(Append(x, t)) = Len(x) + 1 /\ Append(x, t)[Len(x) + 1] = t
      /\ \A i \in 1..Len(x) : Append(x, t)[i] = x[i]
      /\ DOMAIN x = 1..Len(x) /\ DOMAIN Append(x, t) = 1..(Len(x) + 1) /\ Len(x) \in Nat
  OBVIOUS
<1> DEFINE y == Append(x, t)
           n == Len(x)
<1> HIDE DEF y, n
<1>2. \A i \in 1..(n + 1) : i \in 1..n \/ i = n + 1
  BY <1>1 DEF n
<1>3. /\ n \in Nat /\ n + 1 \in 1..(n + 1) /\ \A i \in 1..n : i \in 1..(n + 1)
  BY <1>1 DEF n
<1>4. /\ y[n + 1] = t /\ \A i \in 1..n : y[i] = x[i]
      /\ DOMAIN x = 1..n /\ DOMAIN y = 1..(n + 1)
  BY <1>1 DEF y, n
<1>5. Range(y) = Range(x) \cup {t}
  BY <1>2, <1>3, <1>4 DEF Range
<1> QED
  BY <1>5 DEF y

IsVault(t) == t.form \in {"opt", "inline"} /\ t.opt = "--vault"

LEMMA VaultArgOfMore ==
  ASSUME NEW S, NEW x \in Seq(S), NEW t \in S
  PROVE  HasVaultArg(Append(x, t)) <=>
           HasVaultArg(x) \/ (Dashes \notin Range(x) /\ IsVault(t))
<1>1. /\ Len(Append(x, t)) = Len(x) + 1 /\ Append(x, t)[Len(x) + 1] = t
      /\ \A i \in 1..Len(x) : Append(x, t)[i] = x[i]
      /\ DOMAIN x = 1..Len(x) /\ DOMAIN Append(x, t) = 1..(Len(x) + 1) /\ Len(x) \in Nat
  OBVIOUS
<1> DEFINE y == Append(x, t)
           n == Len(x)
           first(s, j) == \A e \in DOMAIN s : s[e] = Dashes => j < e
<1> HIDE DEF y, n
<1>2. \A i \in 1..(n + 1) : i \in 1..n \/ i = n + 1
  BY <1>1 DEF n
<1>3. /\ n \in Nat /\ n + 1 \in 1..(n + 1) /\ n + 1 \notin 1..n
      /\ \A i \in 1..n : i \in 1..(n + 1) /\ i < n + 1 /\ ~(n + 1 < i)
  BY <1>1 DEF n
<1>4. /\ y[n + 1] = t /\ \A i \in 1..n : y[i] = x[i]
      /\ DOMAIN x = 1..n /\ DOMAIN y = 1..(n + 1)
  BY <1>1 DEF y, n
<1>5. \A s : HasVaultArg(s) <=> \E j \in DOMAIN s : first(s, j) /\ IsVault(s[j])
  BY DEF HasVaultArg, BeforeDashes, IsVault
<1>6. \A j \in 1..n : first(y, j) <=> first(x, j)
  BY <1>2, <1>3, <1>4
<1>7. ~IsVault(Dashes)
  BY DEF IsVault, Dashes, Token
<1>8. IsVault(t) => (first(y, n + 1) <=> Dashes \notin Range(x))
  <2>1. IsVault(t) => t # Dashes
    BY <1>7
  <2>2. ~(n + 1 < n + 1)
    BY <1>3
  <2> QED
    BY <1>2, <1>3, <1>4, <2>1, <2>2 DEF Range
<1>9. HasVaultArg(y) <=> HasVaultArg(x) \/ (Dashes \notin Range(x) /\ IsVault(t))
  <2> HIDE DEF first
  <2> QED
    BY <1>2, <1>3, <1>4, <1>5, <1>6, <1>8
<1> QED
  BY <1>9 DEF y

(* The options that have been seen.                                         *)
Seen(r) == DOMAIN r.opts \cup {r.want}

LEMMA CanonicalNames ==
  ASSUME NEW o
  PROVE  /\ Canonical(o) = "--vault" <=> o = "--vault"
         /\ o \in {"-o", "-t"} => Canonical(o) # "--vault"
         /\ o \in GlobalOpts => Canonical(o) = o
  BY DEF Canonical, GlobalOpts

LEMMA VaultSeen ==
  ASSUME NEW r, Good(r), NEW t, IsToken(t), NEW n, n = ReadToken(r, t)
  PROVE  \/ IsBad(n)
         \/ /\ n.want = "--" <=> r.want = "--" \/ t = Dashes
            /\ "--vault" \in Seen(n) <=>
                 "--vault" \in Seen(r) \/ (r.want # "--" /\ IsVault(t))
<1>1. /\ t.form = "dashes" <=> t = Dashes
      /\ t.form = "attached" => t.opt \in {"-o", "-t"}
      /\ t.form \in {"word", "opt", "inline", "attached", "dashes"}
  <2>1. Dashes.form = "dashes"
    BY DEF Dashes, Token
  <2> QED
    BY <2>1 DEF IsToken
<1>2. \A o, v : DOMAIN Extended(r.opts, r.here, o, v) = DOMAIN r.opts \cup {o}
  BY DEF Extended
<1>3. Canonical(t.opt) = "--vault" <=> t.opt = "--vault"
  BY CanonicalNames
<1>4. "--vault" \in OptsOf(r.cmd)
  BY DEF OptsOf, GlobalOpts
<1>5. t.opt \in {"-o", "-t"} => t.opt # "--vault"
  OBVIOUS
<1>6. CASE InTail(r, t) \/ InRest(r, t)
  <2>1. \E pos, tail : Is(n, r.want, r.cmd, r.opts, r.here, pos, tail)
    BY <1>6, GoodMoves
  <2>2. n.want = r.want /\ n.opts = r.opts
    BY <2>1 DEF Is
  <2> QED
    BY <1>6, <2>2 DEF InTail, InRest, Seen
<1>7. CASE IsValue(r, t)
  <2>4. Is(n, "", r.cmd, Extended(r.opts, r.here, r.want, <<Value(t)>>), r.here \cup {r.want}, r.pos, r.tail)
    BY <1>7, GoodMoves
  <2>1. n.want = "" /\ n.opts = Extended(r.opts, r.here, r.want, <<Value(t)>>)
    BY <2>4 DEF Is
  <2>2. DOMAIN n.opts = DOMAIN r.opts \cup {r.want}
    BY <1>2, <2>1
  <2>3. t.form = "word" /\ r.want # "--"
    BY <1>7 DEF IsValue
  <2> QED
    BY <1>1, <2>1, <2>2, <2>3 DEF Seen, IsVault
<1>8. CASE IsEnd(r, t)
  <2>4. Is(n, "--", r.cmd, r.opts, r.here, r.pos, r.tail)
    BY <1>8, GoodMoves
  <2>1. n.want = "--" /\ n.opts = r.opts
    BY <2>4 DEF Is
  <2> QED
    BY <1>1, <1>8, <2>1 DEF IsEnd, Seen, IsVault
<1>9. CASE IsOption(r, t)
  <2>4. Is(n, Canonical(t.opt), r.cmd, r.opts, r.here, r.pos, r.tail)
    BY <1>9, GoodMoves
  <2>1. n.want = Canonical(t.opt) /\ n.opts = r.opts
    BY <2>4 DEF Is
  <2>2. r.want = "" /\ t.form = "opt" /\ n.want # "--"
    BY <1>9, <2>1, OptionNames DEF IsOption
  <2> QED
    BY <1>1, <1>3, <2>1, <2>2 DEF Seen, IsVault
<1>10. CASE IsFlag(r, t)
  <2>4. Is(n, "", r.cmd, Extended(r.opts, r.here, Canonical(t.opt), <<>>), r.here \cup {Canonical(t.opt)}, r.pos, r.tail)
    BY <1>10, GoodMoves
  <2>1. n.want = "" /\ n.opts = Extended(r.opts, r.here, Canonical(t.opt), <<>>)
    BY <2>4 DEF Is
  <2>2. DOMAIN n.opts = DOMAIN r.opts \cup {Canonical(t.opt)}
    BY <1>2, <2>1
  <2>3. r.want = "" /\ t.form = "opt" /\ Canonical(t.opt) # "--vault"
    BY <1>4, <1>10 DEF IsFlag
  <2> QED
    BY <1>1, <1>3, <2>1, <2>2, <2>3 DEF Seen, IsVault
<1>11. CASE IsInline(r, t)
  <2>4. Is(n, "", r.cmd, Extended(r.opts, r.here, Canonical(t.opt), <<Value(t)>>), r.here \cup {Canonical(t.opt)}, r.pos, r.tail)
    BY <1>11, GoodMoves
  <2>1. n.want = "" /\ n.opts = Extended(r.opts, r.here, Canonical(t.opt), <<Value(t)>>)
    BY <2>4 DEF Is
  <2>2. DOMAIN n.opts = DOMAIN r.opts \cup {Canonical(t.opt)}
    BY <1>2, <2>1
  <2>3. r.want = "" /\ t.form \in {"inline", "attached"}
    BY <1>11 DEF IsInline
  <2> QED
    BY <1>1, <1>3, <1>5, <2>1, <2>2, <2>3 DEF Seen, IsVault
<1>12. CASE IsCommand(r, t) \/ IsSshCommand(r, t) \/ IsPositional(r, t)
  <2>1. r.want = "" /\ t.form = "word"
    BY <1>12 DEF IsCommand, IsSshCommand, IsPositional
  <2>2. \E cmd, here, pos : Is(n, "", cmd, r.opts, here, pos, r.tail)
    BY <1>12, <2>1, GoodMoves
  <2>3. n.want = "" /\ n.opts = r.opts
    BY <2>2 DEF Is
  <2> QED
    BY <1>1, <2>1, <2>3 DEF Seen, IsVault
<1> QED
  BY <1>6, <1>7, <1>8, <1>9, <1>10, <1>11, <1>12, GoodOrBad

LEMMA ReadsVault ==
  ASSUME NEW S, \A t \in S : IsToken(t), NEW args \in Seq(S), ~IsBad(Reading(args))
  PROVE  /\ Reading(args).want = "--" <=> Dashes \in Range(args)
         /\ "--vault" \in Seen(Reading(args)) <=> HasVaultArg(args)
<1> DEFINE Right(x) == /\ Reading(x).want = "--" <=> Dashes \in Range(x)
                       /\ "--vault" \in Seen(Reading(x)) <=> HasVaultArg(x)
           P == {x \in Seq(S) : IsBad(Reading(x)) \/ Right(x)}
<1>1. <<>> \in P
  <2>1. Reading(<<>>).want = "" /\ DOMAIN Reading(<<>>).opts = {}
    <3>1. DOMAIN <<>> = {} /\ Reading(<<>>) = NothingRead
      BY NothingYet
    <3>2. NothingRead.want = "" /\ NothingRead.opts = <<>>
      BY DEF NothingRead
    <3> QED
      BY <3>1, <3>2, Zenon
  <2>2. Range(<<>>) = {} /\ ~HasVaultArg(<<>>)
    BY DEF Range, HasVaultArg, BeforeDashes
  <2>3. Right(<<>>)
    BY <2>1, <2>2 DEF Seen
  <2>4. <<>> \in Seq(S)
    OBVIOUS
  <2> HIDE DEF Right
  <2> QED
    BY <2>3, <2>4
<1>2. ASSUME NEW x \in Seq(S), NEW t \in S, x \in P
      PROVE  Append(x, t) \in P
  <2> DEFINE y == Append(x, t)
             r == Reading(x)
             n == Reading(y)
  <2>1. y \in Seq(S) /\ n = ReadToken(r, t)
    BY OneMore
  <2>2. CASE IsBad(r)
    BY <2>1, <2>2, BadStays
  <2>3. CASE ~IsBad(r)
    <3>1. Good(r) /\ Right(x) /\ IsToken(t)
      BY <1>2, <2>3, Reads DEF Typed
    <3>2. \/ IsBad(n)
          \/ /\ n.want = "--" <=> r.want = "--" \/ t = Dashes
             /\ "--vault" \in Seen(n) <=>
                  "--vault" \in Seen(r) \/ (r.want # "--" /\ IsVault(t))
      BY <2>1, <3>1, VaultSeen
    <3>3. /\ Range(y) = Range(x) \cup {t}
          /\ HasVaultArg(y) <=> HasVaultArg(x) \/ (Dashes \notin Range(x) /\ IsVault(t))
      BY RangeOfMore, VaultArgOfMore
    <3> HIDE DEF y, r, n
    <3>4. IsBad(n) \/ Right(y)
      BY <3>1, <3>2, <3>3 DEF r, n
    <3> HIDE DEF Right
    <3> QED
      BY <2>1, <3>4 DEF n, y
  <2> QED
    BY <2>2, <2>3
<1> HIDE DEF P
<1>3. args \in P
  BY <1>1, <1>2, Rd!Lengthen
<1> QED
  BY <1>3 DEF P

-----------------------------------------------------------------------------
(* What the shim makes of a token                                           *)

(* The tokens that a command line of tokens of S may become.                *)
Sent(S, vault) ==
  {e \in S \cup {ToWindows(t) : t \in S} \cup {AsPath(t) : t \in S} \cup {Opt("--vault"), VaultPath(vault)} :
     IsToken(e)}

IsVaultValue(vault) == IsToken(vault) /\ vault.form = "word"

LEMMA ToWindowsIs ==
  ASSUME NEW t, IsToken(t), t.form \in {"word", "inline"}
  PROVE  LET e == ToWindows(t)
         IN  /\ IsToken(e) /\ e.form = t.form /\ e.opt = t.opt /\ e.text = t.text
             /\ Value(e) = Windows(Value(t))
<1> DEFINE e == ToWindows(t)
<1>1. CASE t.text \in AsIs
  <2>1. e = t /\ Windows(Value(t)) = Value(t)
    BY <1>1 DEF ToWindows, Windows, Value
  <2> QED
    BY <2>1
<1>2. CASE t.text \notin AsIs
  <2>1. t = Token(t.form, t.opt, t.text, t.win)
    BY DEF IsToken
  <2>2. e = Token(t.form, t.opt, t.text, TRUE)
    BY <1>2, <2>1 DEF ToWindows, Token
  <2>3. e.form = t.form /\ e.opt = t.opt /\ e.text = t.text /\ e.win = TRUE
    BY <2>2 DEF Token
  <2>4. Value(e) = Windows(Value(t))
    BY <1>2, <2>3 DEF Value, Windows
  <2>5. IsToken(e)
    BY <2>1, <2>2, <2>3 DEF IsToken, Opt, Dashes
  <2> QED
    BY <2>3, <2>4, <2>5
<1> QED
  BY <1>1, <1>2

LEMMA VaultPathIs ==
  ASSUME NEW vault, vault = Absent \/ IsVaultValue(vault), ~NoVault(vault)
  PROVE  LET e == VaultPath(vault)
         IN  IsVaultValue(e) /\ e.text = vault.text /\ Windows(Value(e)) = Value(e)
<1> DEFINE e == VaultPath(vault)
<1>1. IsToken(vault) /\ vault.form = "word"
  <2>1. NoVault(Absent)
    BY DEF NoVault, Absent, Token
  <2> QED
    BY <2>1 DEF IsVaultValue
<1>2. vault = Token(vault.form, vault.opt, vault.text, vault.win)
  BY <1>1 DEF IsToken
<1>3. \/ e = vault /\ vault.text \in AsIs
      \/ e = Token("word", vault.opt, vault.text, TRUE)
  <2>1. CASE vault.text \in AsIs \ {"-"}
    BY <2>1 DEF VaultPath
  <2>2. CASE vault.text \notin AsIs \ {"-"}
    <3>1. e = Token(vault.form, vault.opt, vault.text, TRUE)
      BY <1>2, <2>2 DEF VaultPath, Token
    <3> QED
      BY <1>1, <3>1
  <2> QED
    BY <2>1, <2>2
<1>4. e.form = "word" /\ e.text = vault.text /\ (e.text \notin AsIs => e.win = TRUE)
  BY <1>1, <1>3 DEF Token
<1>5. IsToken(e)
  <2>1. CASE e = vault
    BY <1>1, <2>1
  <2>2. CASE e = Token("word", vault.opt, vault.text, TRUE)
    <3> DEFINE g == Token("word", vault.opt, vault.text, TRUE)
    <3>1. /\ g.form = "word" /\ g.opt = vault.opt /\ g.text = vault.text /\ g.win = TRUE
      BY DEF Token
    <3>2. g = Token(g.form, g.opt, g.text, g.win)
      BY <3>1
    <3> HIDE DEF g
    <3>3. IsToken(g)
      BY <3>1, <3>2 DEF IsToken
    <3> QED
      BY <2>2, <3>3 DEF g
  <2> QED
    BY <1>3, <2>1, <2>2
<1>6. Windows(Value(e)) = Value(e)
  BY <1>4 DEF Value, Windows
<1> QED
  BY <1>4, <1>5, <1>6 DEF IsVaultValue

LEMMA EmittedIs ==
  ASSUME NEW t, IsToken(t), NEW s, NEW e, e = Emitted(s, t)
  PROVE  /\ IsToken(e) /\ e.text = t.text
         /\ s.want # "path" \/ t.form = "word" => e.form = t.form /\ e.opt = t.opt
         /\ s.want = "path" /\ t.form = "word" => Value(e) = Windows(Value(t))
         /\ IsFile(s, t) => Value(e) = Windows(Value(t))
         /\ s.want = "" /\ t.form = "inline" /\ t.opt \in PathOpts => Value(e) = Windows(Value(t))
         /\ s.want \notin {"", "path"} => e = t
         /\ s.want = "" /\ ~IsFile(s, t) /\ ~(t.form = "inline" /\ t.opt \in PathOpts) => e = t
<1>1. /\ IsToken(WinWord(t.text)) /\ WinWord(t.text).text = t.text
  BY DEF IsToken, WinWord, Token, Opt, Dashes
<1>2. CASE s.want = "path" /\ t.form = "word"
  <2>1. e = ToWindows(t)
    BY <1>2 DEF Emitted, AsPath
  <2> QED
    BY <1>2, <2>1, ToWindowsIs DEF IsFile
<1>3. CASE s.want = "path" /\ t.form # "word"
  <2>1. e = WinWord(t.text)
    BY <1>3 DEF Emitted, AsPath
  <2> QED
    BY <1>1, <1>3, <2>1 DEF IsFile
<1>4. CASE IsFile(s, t) \/ (s.want = "" /\ t.form = "inline" /\ t.opt \in PathOpts)
  <2>1. s.want = "" /\ t.form \in {"word", "inline"}
    BY <1>4 DEF IsFile
  <2>2. e = ToWindows(t)
    BY <1>4, <2>1 DEF Emitted
  <2> QED
    BY <1>4, <2>1, <2>2, ToWindowsIs
<1>5. CASE /\ s.want # "path" /\ ~IsFile(s, t)
           /\ ~(s.want = "" /\ t.form = "inline" /\ t.opt \in PathOpts)
  <2>1. e = t
    BY <1>5 DEF Emitted
  <2> QED
    BY <1>5, <2>1
<1> QED
  BY <1>2, <1>3, <1>4, <1>5

LEMMA EmittedIsSent ==
  ASSUME NEW S, NEW vault, NEW t \in S, IsToken(t), NEW s
  PROVE  Emitted(s, t) \in Sent(S, vault)
<1>1. Emitted(s, t) \in {t, ToWindows(t), AsPath(t)}
  BY DEF Emitted
<1>2. IsToken(Emitted(s, t))
  BY EmittedIs
<1> QED
  BY <1>1, <1>2 DEF Sent

-----------------------------------------------------------------------------
(* Values that have the same text, and values of paths                      *)

SameTexts(a, b) == DOMAIN a = DOMAIN b /\ \A i \in DOMAIN a : b[i].text = a[i].text

AllWindows(a) == [i \in DOMAIN a |-> Windows(a[i])]

LEMMA JoinedIs ==
  ASSUME NEW V, NEW W, NEW a \in Seq(V), NEW v \in V, NEW b \in Seq(W), NEW w \in W,
         DOMAIN a = DOMAIN b
  PROVE  /\ Len(a) \in Nat /\ Len(a) = Len(b)
         /\ DOMAIN Append(a, v) = 1..(Len(a) + 1) /\ DOMAIN Append(b, w) = 1..(Len(a) + 1)
         /\ Append(a, v)[Len(a) + 1] = v /\ Append(b, w)[Len(a) + 1] = w
         /\ DOMAIN a = 1..Len(a)
         /\ \A i \in 1..Len(a) : Append(a, v)[i] = a[i] /\ Append(b, w)[i] = b[i]
         /\ \A i \in 1..(Len(a) + 1) : i \in 1..Len(a) \/ i = Len(a) + 1
  OBVIOUS

LEMMA SameTextsMore ==
  ASSUME NEW V, NEW W, NEW a \in Seq(V), NEW v \in V, NEW b \in Seq(W), NEW w \in W,
         SameTexts(a, b), w.text = v.text
  PROVE  SameTexts(Append(a, v), Append(b, w))
<1>1. DOMAIN a = DOMAIN b /\ \A i \in DOMAIN a : b[i].text = a[i].text
  BY DEF SameTexts
<1> DEFINE n == Len(a)
           c == Append(a, v)
           d == Append(b, w)
<1>2. /\ DOMAIN c = 1..(n + 1) /\ DOMAIN d = 1..(n + 1) /\ DOMAIN a = 1..n
      /\ c[n + 1] = v /\ d[n + 1] = w
      /\ \A i \in 1..n : c[i] = a[i] /\ d[i] = b[i]
      /\ \A i \in 1..(n + 1) : i \in 1..n \/ i = n + 1
  BY <1>1, JoinedIs
<1> HIDE DEF n, c, d
<1>3. SameTexts(c, d)
  BY <1>1, <1>2 DEF SameTexts
<1> QED
  BY <1>3 DEF c, d

LEMMA AllWindowsMore ==
  ASSUME NEW V, NEW W, NEW a \in Seq(V), NEW v \in V, NEW b \in Seq(W), NEW w \in W,
         b = AllWindows(a), w = Windows(v)
  PROVE  Append(b, w) = AllWindows(Append(a, v))
<1>1. DOMAIN a = DOMAIN b /\ \A i \in DOMAIN a : b[i] = Windows(a[i])
  BY DEF AllWindows
<1> DEFINE n == Len(a)
           c == Append(a, v)
           d == Append(b, w)
<1>2. /\ DOMAIN c = 1..(n + 1) /\ DOMAIN d = 1..(n + 1) /\ DOMAIN a = 1..n
      /\ c[n + 1] = v /\ d[n + 1] = w
      /\ \A i \in 1..n : c[i] = a[i] /\ d[i] = b[i]
      /\ \A i \in 1..(n + 1) : i \in 1..n \/ i = n + 1
  BY <1>1, JoinedIs
<1>3. d = [i \in DOMAIN d |-> d[i]]
  <2>1. \A x \in Seq(W) : x = [i \in DOMAIN x |-> x[i]]
    OBVIOUS
  <2>2. d \in Seq(W)
    OBVIOUS
  <2> HIDE DEF d
  <2> QED
    BY <2>1, <2>2
<1> HIDE DEF n, c, d
<1>4. \A i \in DOMAIN d : d[i] = Windows(c[i])
  BY <1>1, <1>2
<1>5. d = AllWindows(c)
  BY <1>2, <1>3, <1>4 DEF AllWindows
<1> QED
  BY <1>5 DEF c, d

LEMMA OneValue ==
  ASSUME NEW v, NEW w
  PROVE  /\ <<v>> = Append(<<>>, v)
         /\ \A V : \A a \in Seq(V) : v \in V => a \o <<v>> = Append(a, v) /\ a \o <<>> = a
         /\ w.text = v.text => SameTexts(<<v>>, <<w>>)
         /\ w = Windows(v) => <<w>> = AllWindows(<<v>>)
<1>1. <<v>> = Append(<<>>, v)
  OBVIOUS
<1>2. \A V : \A a \in Seq(V) : v \in V => a \o <<v>> = Append(a, v) /\ a \o <<>> = a
  OBVIOUS
<1>3. w.text = v.text => SameTexts(<<v>>, <<w>>)
  BY DEF SameTexts
<1>4. w = Windows(v) => <<w>> = AllWindows(<<v>>)
  BY DEF AllWindows
<1> QED
  BY <1>1, <1>2, <1>3, <1>4

-----------------------------------------------------------------------------
(* The options that wcm.exe is given for those that were typed              *)

OptsAlike(ropts, qopts, vs) ==
  /\ DOMAIN qopts = DOMAIN ropts \cup (IF vs = <<>> THEN {} ELSE {"--vault"})
  /\ vs # <<>> => "--vault" \notin DOMAIN ropts /\ qopts["--vault"] = vs
  /\ \A o \in DOMAIN ropts : SameTexts(ropts[o], qopts[o])

Sending(o, a) == IF IsPath(o) THEN AllWindows(a) ELSE a

OptsExact(ropts, qopts) == \A o \in DOMAIN ropts : qopts[o] = Sending(o, ropts[o])

(* Both are at the same level, but that --vault came first in the one.      *)
HereAlike(rhere, qhere, vs) ==
  \A o : (vs # <<>> => o # "--vault") => (o \in rhere <=> o \in qhere)

LEMMA OptsMore ==
  ASSUME NEW V, NEW ropts, \A o \in DOMAIN ropts : ropts[o] \in Seq(V),
         NEW W, NEW qopts, \A o \in DOMAIN qopts : qopts[o] \in Seq(W),
         NEW rhere \in SUBSET DOMAIN ropts, NEW qhere \in SUBSET DOMAIN qopts,
         NEW vs, OptsAlike(ropts, qopts, vs), HereAlike(rhere, qhere, vs),
         NEW o, vs # <<>> => o # "--vault",
         NEW a, NEW b, SameTexts(a, b),
         \A x \in Seq(V), y \in Seq(W) : SameTexts(x, y) => SameTexts(x \o a, y \o b)
  PROVE  OptsAlike(Extended(ropts, rhere, o, a), Extended(qopts, qhere, o, b), vs)
<1> DEFINE r == Extended(ropts, rhere, o, a)
           q == Extended(qopts, qhere, o, b)
           D == IF vs = <<>> THEN {} ELSE {"--vault"}
<1>1. /\ DOMAIN qopts = DOMAIN ropts \cup D
      /\ vs # <<>> => "--vault" \notin DOMAIN ropts /\ qopts["--vault"] = vs
      /\ \A x \in DOMAIN ropts : SameTexts(ropts[x], qopts[x])
  BY DEF OptsAlike
<1>2. /\ DOMAIN r = DOMAIN ropts \cup {o}
      /\ \A x \in DOMAIN ropts : x # o => r[x] = ropts[x]
      /\ o \in rhere => r[o] = ropts[o] \o a
      /\ o \notin rhere => r[o] = a
  BY DEF Extended
<1>3. /\ DOMAIN q = DOMAIN qopts \cup {o}
      /\ \A x \in DOMAIN qopts : x # o => q[x] = qopts[x]
      /\ o \in qhere => q[o] = qopts[o] \o b
      /\ o \notin qhere => q[o] = b
  BY DEF Extended
<1>4. "--vault" \in D => vs # <<>>
  OBVIOUS
<1>5. vs # <<>> => D = {"--vault"}
  OBVIOUS
<1>6. \A x \in D : x = "--vault"
  OBVIOUS
<1> HIDE DEF r, q, D
<1>7. DOMAIN q = DOMAIN r \cup D
  BY <1>1, <1>2, <1>3
<1>8. vs # <<>> => "--vault" \notin DOMAIN r /\ q["--vault"] = vs
  BY <1>1, <1>2, <1>3, <1>5
<1>9. SameTexts(r[o], q[o])
  <2>1. CASE o \in rhere
    <3>1. o \in qhere /\ ropts[o] \in Seq(V) /\ qopts[o] \in Seq(W)
      BY <1>1, <2>1 DEF HereAlike
    <3>2. SameTexts(ropts[o] \o a, qopts[o] \o b)
      BY <1>1, <2>1, <3>1
    <3> QED
      BY <1>2, <1>3, <2>1, <3>1, <3>2
  <2>2. CASE o \notin rhere
    <3>1. o \notin qhere
      BY <2>2 DEF HereAlike
    <3> QED
      BY <1>2, <1>3, <2>2, <3>1
  <2> QED
    BY <2>1, <2>2
<1>10. \A x \in DOMAIN r : SameTexts(r[x], q[x])
  BY <1>1, <1>2, <1>3, <1>9
<1>11. OptsAlike(r, q, vs)
  BY <1>7, <1>8, <1>10 DEF OptsAlike, D
<1> QED
  BY <1>11 DEF r, q

LEMMA OptsExactMore ==
  ASSUME NEW V, NEW ropts, \A o \in DOMAIN ropts : ropts[o] \in Seq(V),
         NEW W, NEW qopts, \A o \in DOMAIN qopts : qopts[o] \in Seq(W),
         NEW rhere \in SUBSET DOMAIN ropts, NEW qhere \in SUBSET DOMAIN qopts,
         NEW vs, OptsAlike(ropts, qopts, vs), HereAlike(rhere, qhere, vs),
         NEW o, vs # <<>> => o # "--vault",
         OptsExact(ropts, qopts), NEW a, NEW b, b = Sending(o, a),
         \A x \in Seq(V), y \in Seq(W) : y = Sending(o, x) => y \o b = Sending(o, x \o a)
  PROVE  OptsExact(Extended(ropts, rhere, o, a), Extended(qopts, qhere, o, b))
<1> DEFINE r == Extended(ropts, rhere, o, a)
           q == Extended(qopts, qhere, o, b)
           D == IF vs = <<>> THEN {} ELSE {"--vault"}
<1>1. /\ DOMAIN qopts = DOMAIN ropts \cup D
      /\ \A x \in DOMAIN ropts : qopts[x] = Sending(x, ropts[x])
  BY DEF OptsAlike, OptsExact
<1>2. /\ DOMAIN r = DOMAIN ropts \cup {o}
      /\ \A x \in DOMAIN ropts : x # o => r[x] = ropts[x]
      /\ o \in rhere => r[o] = ropts[o] \o a
      /\ o \notin rhere => r[o] = a
  BY DEF Extended
<1>3. /\ DOMAIN q = DOMAIN qopts \cup {o}
      /\ \A x \in DOMAIN qopts : x # o => q[x] = qopts[x]
      /\ o \in qhere => q[o] = qopts[o] \o b
      /\ o \notin qhere => q[o] = b
  BY DEF Extended
<1>4. o \notin D
  OBVIOUS
<1> HIDE DEF r, q, D
<1>5. q[o] = Sending(o, r[o])
  <2>1. CASE o \in rhere
    <3>1. o \in qhere /\ ropts[o] \in Seq(V) /\ qopts[o] \in Seq(W)
      BY <1>1, <2>1 DEF HereAlike
    <3>2. qopts[o] \o b = Sending(o, ropts[o] \o a)
      BY <1>1, <2>1, <3>1
    <3> QED
      BY <1>2, <1>3, <2>1, <3>1, <3>2
  <2>2. CASE o \notin rhere
    <3>1. o \notin qhere
      BY <2>2 DEF HereAlike
    <3> QED
      BY <1>2, <1>3, <2>2, <3>1
  <2> QED
    BY <2>1, <2>2
<1>6. \A x \in DOMAIN r : q[x] = Sending(x, r[x])
  BY <1>1, <1>2, <1>3, <1>5
<1> QED
  BY <1>6 DEF r, q, OptsExact

(* A value more, or none for a flag.                                        *)
LEMMA TextsJoin ==
  ASSUME NEW V, NEW W, NEW v \in V, NEW w \in W, w.text = v.text
  PROVE  /\ SameTexts(<<v>>, <<w>>)
         /\ \A x \in Seq(V), y \in Seq(W) : SameTexts(x, y) => SameTexts(x \o <<v>>, y \o <<w>>)
<1>1. ASSUME NEW x \in Seq(V), NEW y \in Seq(W), SameTexts(x, y)
      PROVE  SameTexts(x \o <<v>>, y \o <<w>>)
  <2>1. x \o <<v>> = Append(x, v) /\ y \o <<w>> = Append(y, w)
    BY OneValue
  <2> QED
    BY <1>1, <2>1, SameTextsMore
<1> QED
  BY <1>1, OneValue

LEMMA NoneJoin ==
  ASSUME NEW V, NEW W, NEW o
  PROVE  /\ SameTexts(<<>>, <<>>) /\ <<>> = Sending(o, <<>>)
         /\ \A x \in Seq(V), y \in Seq(W) : SameTexts(x, y) => SameTexts(x \o <<>>, y \o <<>>)
         /\ \A x \in Seq(V), y \in Seq(W) : y = Sending(o, x) => y \o <<>> = Sending(o, x \o <<>>)
<1>1. (\A x \in Seq(V) : x \o <<>> = x) /\ \A y \in Seq(W) : y \o <<>> = y
  OBVIOUS
<1>2. SameTexts(<<>>, <<>>)
  BY DEF SameTexts
<1>3. <<>> = AllWindows(<<>>)
  BY DEF AllWindows
<1> QED
  BY <1>1, <1>2, <1>3 DEF Sending

ValueSent(o, v) == IF IsPath(o) THEN Windows(v) ELSE v

LEMMA OneSent ==
  ASSUME NEW v, NEW w, NEW o, w = ValueSent(o, v)
  PROVE  <<w>> = Sending(o, <<v>>)
  BY OneValue DEF Sending, ValueSent

LEMMA OneMoreSent ==
  ASSUME NEW V, NEW W, NEW v \in V, NEW w \in W, NEW o, w = ValueSent(o, v),
         NEW x \in Seq(V), NEW y \in Seq(W), y = Sending(o, x)
  PROVE  Append(y, w) = Sending(o, Append(x, v))
<1>1. CASE IsPath(o)
  <2>1. y = AllWindows(x) /\ w = Windows(v)
    BY <1>1 DEF Sending, ValueSent
  <2>2. Append(y, w) = AllWindows(Append(x, v))
    BY <2>1, AllWindowsMore
  <2> QED
    BY <1>1, <2>2 DEF Sending
<1>2. CASE ~IsPath(o)
  BY <1>2 DEF Sending, ValueSent
<1> QED
  BY <1>1, <1>2

-----------------------------------------------------------------------------
(* The shim, wcm's reader of what was typed and wcm.exe's reader of what it *)
(* is given, after the same number of tokens                                *)

Importing == <<"import">>

(* r has read what was typed, s has translated it, and q has read --vault   *)
(* with the values vs, if there are any, and what s has sent.               *)
Alike(r, s, q, vs, X) ==
  /\ q.want = r.want /\ q.cmd = r.cmd /\ q.tail = r.tail
  /\ HereAlike(r.here, q.here, vs)
  /\ s.want = IF r.want = "--" THEN "--" ELSE Wanted(r.want)
  /\ s.words \in Seq(X)
  /\ r.cmd = "" <=> s.words = <<>>
  /\ r.want # "--" => (s.words = Importing <=> r.cmd = "import" /\ r.pos = <<>>)
  /\ OptsAlike(r.opts, q.opts, vs)
  /\ SameTexts(r.pos, q.pos)

(* What is not so if `-o` and its value are one token.                      *)
Exact(r, q) ==
  /\ OptsExact(r.opts, q.opts)
  /\ r.cmd = "import" /\ r.want # "--" /\ r.pos # <<>> => q.pos[1] = Windows(r.pos[1])
  /\ r.cmd # "import" => q.pos = r.pos

LEMMA WantedIs ==
  /\ Wanted("") = "" /\ \A o : Wanted(o) \in {"", "path", "value"}
  /\ \A cmd : \A o \in OptsOf(cmd) :
       /\ Wanted(o) = "path" <=> IsPath(o)
       /\ cmd \in {"", "import"} => Wanted(o) # ""
  /\ \A o : Wanted(Canonical(o)) = Wanted(o) /\ (o \in PathOpts <=> IsPath(Canonical(o)))
  /\ \A cmd, o : Canonical(o) \in FlagsOf(cmd) \ OptsOf(cmd) => Wanted(o) = ""
<1>1. Wanted("") = "" /\ \A o : Wanted(o) \in {"", "path", "value"}
  BY DEF Wanted, PathOpts
<1>2. \A cmd : \A o \in OptsOf(cmd) : Wanted(o) = "path" <=> IsPath(o)
  BY ZenonT(60) DEF Wanted, PathOpts, IsPath, OptsOf, GlobalOpts
<1>3. \A cmd : \A o \in OptsOf(cmd) : cmd \in {"", "import"} => Wanted(o) # ""
  BY ZenonT(30) DEF Wanted, PathOpts, OptsOf, GlobalOpts
<1>4. \A o : Wanted(Canonical(o)) = Wanted(o)
  BY DEF Wanted, PathOpts, Canonical
<1>5. \A o : o \in PathOpts <=> IsPath(Canonical(o))
  BY DEF PathOpts, IsPath, Canonical
<1>6. ASSUME NEW cmd, NEW o, Canonical(o) \in FlagsOf(cmd) \ OptsOf(cmd)
      PROVE  Wanted(o) = ""
  <2>1. Wanted(o) # "" => Canonical(o) \in {"--vault", "--file", "--out-file", "--env-file", "--out", "--slot"}
    BY DEF Wanted, PathOpts, Canonical
  <2>2. FlagsOf(cmd) \cap {"--vault", "--file", "--out-file", "--env-file", "--out", "--slot"} = {}
    BY DEF FlagsOf, GlobalFlags
  <2> QED
    BY <1>6, <2>1, <2>2
<1> QED
  BY <1>1, <1>2, <1>3, <1>4, <1>5, <1>6

LEMMA WordsOfMore ==
  ASSUME NEW X, NEW words \in Seq(X), NEW w \in X, NEW more, more = Append(words, w)
  PROVE  /\ more \in Seq(X) /\ more # <<>>
         /\ words # <<>> => more # Importing
         /\ words = <<>> => (more = Importing <=> w = "import")
<1>1. /\ more \in Seq(X) /\ Len(more) = Len(words) + 1 /\ Len(words) \in Nat
      /\ Len(<<>>) = 0 /\ Len(Importing) = 1
      /\ words # <<>> => Len(words) # 0
  BY DEF Importing
<1>2. more # <<>>
  BY <1>1
<1>3. words # <<>> => more # Importing
  BY <1>1
<1>4. words = <<>> => (more = Importing <=> w = "import")
  <2>1. Append(<<>>, w) = <<w>>
    OBVIOUS
  <2>2. <<w>> = <<"import">> <=> w = "import"
    OBVIOUS
  <2> QED
    BY <2>1, <2>2 DEF Importing
<1> QED
  BY <1>1, <1>2, <1>3, <1>4, Zenon

LEMMA FirstOfMore ==
  ASSUME NEW V, NEW W, NEW a \in Seq(V), NEW v \in V, NEW b \in Seq(W), NEW w \in W,
         SameTexts(a, b)
  PROVE  /\ Append(a, v) # <<>>
         /\ a # <<>> => Append(a, v)[1] = a[1] /\ Append(b, w)[1] = b[1]
         /\ a = <<>> => Append(a, v)[1] = v /\ Append(b, w)[1] = w
<1> DEFINE c == Append(a, v)
           d == Append(b, w)
           n == Len(a)
<1>1. n \in Nat /\ n = Len(b)
  BY JoinedIs DEF SameTexts
<1>2. /\ c[n + 1] = v /\ d[n + 1] = w
      /\ 1 \in 1..n => c[1] = a[1] /\ d[1] = b[1]
      /\ Len(c) = n + 1 /\ Len(<<>>) = 0
      /\ a # <<>> => n # 0
      /\ a = <<>> => n = 0
  BY <1>1
<1> HIDE DEF c, d, n
<1>3. c # <<>>
  BY <1>1, <1>2
<1>4. a # <<>> => c[1] = a[1] /\ d[1] = b[1]
  BY <1>1, <1>2
<1>5. a = <<>> => c[1] = v /\ d[1] = w
  BY <1>1, <1>2
<1> QED
  BY <1>3, <1>4, <1>5 DEF c, d

Moved(r, q, t, n, u, m, vs, X) ==
  /\ Alike(n, u, m, vs, X) /\ ~IsBad(m)
  /\ Exact(r, q) /\ t.form # "attached" => Exact(n, m)

LEMMA AlikeSteps ==
  ASSUME NEW S, NEW T, NEW X, NEW vs,
         NEW r, Typed(r, S), NEW s, NEW q, Typed(q, T), Alike(r, s, q, vs, X),
         NEW t \in S, IsToken(t), t.text \in X, NEW e \in T, e = Emitted(s, t),
         NEW n, n = ReadToken(r, t), ~IsBad(n), NEW u, u = TranslateToken(s, t),
         NEW m, m = ReadToken(q, e),
         vs # <<>> => "--vault" \notin Seen(r) /\ "--vault" \notin Seen(n)
  PROVE  Moved(r, q, t, n, u, m, vs, X)
<1> SUFFICES /\ Alike(n, u, m, vs, X) /\ ~IsBad(m)
             /\ Exact(r, q) /\ t.form # "attached" => Exact(n, m)
  BY DEF Moved
<1> DEFINE v == Value(t)
           w == Value(e)
           o == Canonical(t.opt)
           V == Values(S)
           W == Values(T)
<1>1. /\ q.want = r.want /\ q.cmd = r.cmd /\ q.tail = r.tail
      /\ s.want = IF r.want = "--" THEN "--" ELSE Wanted(r.want)
      /\ s.words \in Seq(X)
      /\ r.cmd = "" <=> s.words = <<>>
      /\ r.want # "--" => (s.words = Importing <=> r.cmd = "import" /\ r.pos = <<>>)
      /\ OptsAlike(r.opts, q.opts, vs)
      /\ SameTexts(r.pos, q.pos)
  BY DEF Alike
<1>2. /\ Good(r) /\ Good(q) /\ r.want # "refused"
      /\ r.pos \in Seq(V) /\ q.pos \in Seq(W)
      /\ \A x \in DOMAIN r.opts : r.opts[x] \in Seq(V)
      /\ \A x \in DOMAIN q.opts : q.opts[x] \in Seq(W)
      /\ r.want \notin {"", "--"} => r.want \in OptsOf(r.cmd)
      /\ r.cmd = "" => r.pos = <<>>
  BY DEF Typed, Good
<1>3. v \in V /\ w \in W /\ w.text = v.text
  <2>1. e.text = t.text
    BY EmittedIs
  <2> QED
    BY <2>1 DEF Values, Value
<1>4. /\ e.text = t.text
      /\ s.want # "path" \/ t.form = "word" => e.form = t.form /\ e.opt = t.opt
      /\ s.want = "path" /\ t.form = "word" => w = Windows(v)
      /\ IsFile(s, t) => w = Windows(v)
      /\ s.want = "" /\ t.form = "inline" /\ t.opt \in PathOpts => w = Windows(v)
      /\ s.want \notin {"", "path"} => e = t
      /\ s.want = "" /\ ~IsFile(s, t) /\ ~(t.form = "inline" /\ t.opt \in PathOpts) => e = t
  BY EmittedIs, ZenonT(60)
<1>17. /\ HereAlike(r.here, q.here, vs) /\ HereAlike({}, {}, vs)
       /\ \A x : HereAlike(r.here \cup {x}, q.here \cup {x}, vs)
  BY DEF Alike, HereAlike
<1>18. r.here \in SUBSET DOMAIN r.opts /\ q.here \in SUBSET DOMAIN q.opts
  BY DEF Typed
<1>5. ASSUME NEW x, May(r, x), vs # <<>> => x # "--vault"
      PROVE  May(q, x)
  <2>1. x \in q.here => x \in r.here
    BY <1>5, <1>17 DEF HereAlike
  <2> QED
    BY <1>1, <1>5, <2>1 DEF May
<1>6. r.want = "" => s.want = ""
  BY <1>1, WantedIs
<1> HIDE DEF V, W, v, w, o
<1>7. /\ SameTexts(Append(r.pos, v), Append(q.pos, w))
      /\ \A x : OptsAlike(r.opts, q.opts, vs) /\ (vs # <<>> => x # "--vault") =>
                  OptsAlike(Extended(r.opts, r.here, x, <<v>>), Extended(q.opts, q.here, x, <<w>>), vs)
      /\ \A x : OptsAlike(r.opts, q.opts, vs) /\ (vs # <<>> => x # "--vault") =>
                  OptsAlike(Extended(r.opts, r.here, x, <<>>), Extended(q.opts, q.here, x, <<>>), vs)
  <2>1. SameTexts(Append(r.pos, v), Append(q.pos, w))
    BY <1>1, <1>2, <1>3, SameTextsMore
  <2> DEFINE ro == r.opts
             qo == q.opts
             rh == r.here
             qh == q.here
  <2>2. /\ \A x \in DOMAIN ro : ro[x] \in Seq(V)
        /\ \A x \in DOMAIN qo : qo[x] \in Seq(W)
        /\ rh \in SUBSET DOMAIN ro /\ qh \in SUBSET DOMAIN qo /\ HereAlike(rh, qh, vs)
    BY <1>2, <1>17, <1>18
  <2>3. /\ SameTexts(<<v>>, <<w>>)
        /\ \A x \in Seq(V), y \in Seq(W) : SameTexts(x, y) => SameTexts(x \o <<v>>, y \o <<w>>)
        /\ SameTexts(<<>>, <<>>)
        /\ \A x \in Seq(V), y \in Seq(W) : SameTexts(x, y) => SameTexts(x \o <<>>, y \o <<>>)
    BY <1>3, TextsJoin, NoneJoin
  <2> HIDE DEF ro, qo, rh, qh
  <2>4. ASSUME NEW x, OptsAlike(ro, qo, vs), vs # <<>> => x # "--vault"
        PROVE  /\ OptsAlike(Extended(ro, rh, x, <<v>>), Extended(qo, qh, x, <<w>>), vs)
               /\ OptsAlike(Extended(ro, rh, x, <<>>), Extended(qo, qh, x, <<>>), vs)
    BY <2>2, <2>3, <2>4, OptsMore
  <2> QED
    BY <2>1, <2>4 DEF ro, qo, rh, qh
<1>8. ASSUME Exact(r, q)
      PROVE  /\ \A x : /\ vs # <<>> => x # "--vault"
                       /\ w = ValueSent(x, v)
                       => OptsExact(Extended(r.opts, r.here, x, <<v>>), Extended(q.opts, q.here, x, <<w>>))
             /\ \A x : (vs # <<>> => x # "--vault") =>
                         OptsExact(Extended(r.opts, r.here, x, <<>>), Extended(q.opts, q.here, x, <<>>))
  <2> DEFINE ro == r.opts
             qo == q.opts
             rh == r.here
             qh == q.here
  <2>1. /\ \A x \in DOMAIN ro : ro[x] \in Seq(V)
        /\ \A x \in DOMAIN qo : qo[x] \in Seq(W)
        /\ OptsAlike(ro, qo, vs) /\ OptsExact(ro, qo)
        /\ rh \in SUBSET DOMAIN ro /\ qh \in SUBSET DOMAIN qo /\ HereAlike(rh, qh, vs)
    BY <1>1, <1>2, <1>8, <1>17, <1>18 DEF Exact
  <2> HIDE DEF ro, qo, rh, qh
  <2>2. ASSUME NEW x, vs # <<>> => x # "--vault",
               w = ValueSent(x, v)
        PROVE  OptsExact(Extended(ro, rh, x, <<v>>), Extended(qo, qh, x, <<w>>))
    <3>1. <<w>> = Sending(x, <<v>>)
      BY <2>2, OneSent
    <3>2. ASSUME NEW a \in Seq(V), NEW b \in Seq(W), b = Sending(x, a)
          PROVE  b \o <<w>> = Sending(x, a \o <<v>>)
      <4>1. Append(b, w) = Sending(x, Append(a, v))
        BY <1>3, <2>2, <3>2, OneMoreSent
      <4>2. a \o <<v>> = Append(a, v) /\ b \o <<w>> = Append(b, w)
        BY <1>3, OneValue
      <4> QED
        BY <4>1, <4>2
    <3> QED
      BY <2>1, <2>2, <3>1, <3>2, OptsExactMore
  <2>3. ASSUME NEW x, vs # <<>> => x # "--vault"
        PROVE  OptsExact(Extended(ro, rh, x, <<>>), Extended(qo, qh, x, <<>>))
    <3>1. /\ <<>> = Sending(x, <<>>)
          /\ \A a \in Seq(V), b \in Seq(W) :
               b = Sending(x, a) => b \o <<>> = Sending(x, a \o <<>>)
      BY NoneJoin
    <3> QED
      BY <2>1, <2>3, <3>1, OptsExactMore
  <2> QED
    BY <2>2, <2>3 DEF ro, qo, rh, qh
<1>9. CASE InTail(r, t) \/ InRest(r, t)
  <2>1. r.want = "--" /\ s.want = "--" /\ e = t /\ w = v
    <3>1. r.want = "--"
      BY <1>9 DEF InTail, InRest
    <3> QED
      BY <1>1, <1>4, <3>1 DEF v, w
  <2>2. u.want = "--" /\ u.words = s.words
    BY <2>1 DEF TranslateToken
  <2>3. CASE r.cmd = "run"
    <3>1. InTail(r, t) /\ InTail(q, e)
      BY <1>1, <2>1, <2>3 DEF InTail
    <3>2. /\ Is(n, r.want, r.cmd, r.opts, r.here, r.pos, Append(r.tail, t))
          /\ Is(m, q.want, q.cmd, q.opts, q.here, q.pos, Append(q.tail, e))
      BY <1>2, <3>1, GoodMoves
    <3>3. /\ n.want = "--" /\ n.cmd = r.cmd /\ n.opts = r.opts /\ n.pos = r.pos
          /\ n.tail = Append(r.tail, t)
          /\ m.want = "--" /\ m.cmd = r.cmd /\ m.opts = q.opts /\ m.pos = q.pos
          /\ m.tail = Append(r.tail, t)
      BY <1>1, <2>1, <3>2 DEF Is
    <3>6. HereAlike(n.here, m.here, vs)
      BY <1>17, <3>2 DEF Is
    <3>4. Alike(n, u, m, vs, X) /\ ~IsBad(m)
      BY <1>1, <2>2, <3>3, <3>6 DEF Alike, IsBad
    <3>5. Exact(r, q) => Exact(n, m)
      BY <3>3 DEF Exact
    <3> QED
      BY <3>4, <3>5
  <2>4. CASE r.cmd # "run"
    <3>1. InRest(r, t) /\ InRest(q, e)
      BY <1>1, <2>1, <2>4 DEF InRest
    <3>2. /\ Is(n, r.want, r.cmd, r.opts, r.here, Append(r.pos, v), r.tail)
          /\ Is(m, q.want, q.cmd, q.opts, q.here, Append(q.pos, w), q.tail)
      BY <1>2, <3>1, GoodMoves DEF v, w
    <3>3. /\ n.want = "--" /\ n.cmd = r.cmd /\ n.opts = r.opts /\ n.tail = r.tail
          /\ n.pos = Append(r.pos, v)
          /\ m.want = "--" /\ m.cmd = r.cmd /\ m.opts = q.opts /\ m.tail = r.tail
          /\ m.pos = Append(q.pos, w)
      BY <1>1, <2>1, <3>2 DEF Is
    <3>6. HereAlike(n.here, m.here, vs)
      BY <1>17, <3>2 DEF Is
    <3>4. Alike(n, u, m, vs, X) /\ ~IsBad(m)
      BY <1>1, <1>7, <2>2, <3>3, <3>6 DEF Alike, IsBad
    <3>5. Exact(r, q) => Exact(n, m)
      BY <2>1, <3>3 DEF Exact
    <3> QED
      BY <3>4, <3>5
  <2> QED
    BY <2>3, <2>4
<1>10. CASE IsValue(r, t)
  <2>1. r.want \notin {"", "--"} /\ t.form = "word" /\ May(r, r.want) /\ r.want \in OptsOf(r.cmd)
    BY <1>2, <1>10 DEF IsValue
  <2>2. e.form = "word" /\ s.want = Wanted(r.want)
    BY <1>1, <1>4, <2>1
  <2>3. vs # <<>> => r.want # "--vault"
    BY DEF Seen
  <2>4. IsValue(q, e)
    BY <1>1, <1>2, <1>5, <2>1, <2>2, <2>3 DEF IsValue
  <2>5. /\ Is(n, "", r.cmd, Extended(r.opts, r.here, r.want, <<v>>), r.here \cup {r.want}, r.pos, r.tail)
        /\ Is(m, "", q.cmd, Extended(q.opts, q.here, q.want, <<w>>), q.here \cup {q.want}, q.pos, q.tail)
    BY <1>2, <1>10, <2>4, GoodMoves DEF v, w
  <2>6. /\ n.want = "" /\ n.cmd = r.cmd /\ n.opts = Extended(r.opts, r.here, r.want, <<v>>)
        /\ n.pos = r.pos /\ n.tail = r.tail
        /\ m.want = "" /\ m.cmd = r.cmd /\ m.opts = Extended(q.opts, q.here, r.want, <<w>>)
        /\ m.pos = q.pos /\ m.tail = r.tail
    BY <1>1, <2>5 DEF Is
  <2>7. Wanted("") = "" /\ Wanted(r.want) \in {"", "path", "value"}
    BY WantedIs
  <2>8. r.cmd \in {"", "import"} => Wanted(r.want) # ""
    BY <2>1, WantedIs
  <2>9. /\ u.want = "" /\ u.words \in Seq(X)
        /\ r.cmd = "" <=> u.words = <<>>
        /\ u.words = Importing <=> r.cmd = "import" /\ r.pos = <<>>
    <3>1. CASE s.want = ""
      <4>1. r.cmd \notin {"", "import"} /\ s.words # <<>>
        BY <1>1, <2>2, <2>8, <3>1
      <4>2. u.want = "" /\ u.words = Append(s.words, t.text)
        BY <2>1, <3>1 DEF TranslateToken
      <4> DEFINE words == s.words
                 x == t.text
      <4>3. u.words \in Seq(X) /\ u.words # <<>> /\ u.words # Importing
        <5>1. words \in Seq(X) /\ words # <<>> /\ u.words = Append(words, x) /\ x \in X
          BY <1>1, <4>1, <4>2
        <5> HIDE DEF words, x
        <5> QED
          BY <5>1, WordsOfMore
      <4> QED
        BY <1>1, <4>1, <4>2, <4>3
    <3>2. CASE s.want \in {"path", "value"}
      <4>1. u.want = "" /\ u.words = s.words
        BY <3>2 DEF TranslateToken
      <4> QED
        BY <1>1, <2>1, <4>1
    <3> QED
      BY <2>2, <2>7, <3>1, <3>2
  <2>10. Alike(n, u, m, vs, X) /\ ~IsBad(m)
    <3>1. OptsAlike(n.opts, m.opts, vs)
      BY <1>1, <1>7, <2>3, <2>6
    <3>2. n.here = r.here \cup {r.want} /\ m.here = q.here \cup {q.want}
      BY <2>5 DEF Is
    <3>3. HereAlike(n.here, m.here, vs)
      BY <1>1, <1>17, <3>2
    <3> QED
      BY <1>1, <2>6, <2>7, <2>9, <3>1, <3>3 DEF Alike, IsBad
  <2>11. ASSUME Exact(r, q)
         PROVE  Exact(n, m)
    <3>1. w = ValueSent(r.want, v)
      <4>1. s.want = "path" <=> IsPath(r.want)
        BY <2>1, <2>2, WantedIs
      <4>2. s.want = "value" => w = v
        BY <1>4 DEF v, w
      <4>3. s.want = "" => w = v
        <5>1. s.want = "" => s.words # Importing
          BY <1>1, <2>1, <2>2, <2>8
        <5> QED
          BY <1>4, <2>1, <5>1 DEF IsFile, Importing, v, w
      <4> QED
        BY <1>4, <2>1, <2>2, <2>7, <4>1, <4>2, <4>3 DEF ValueSent
    <3>2. OptsExact(n.opts, m.opts)
      BY <1>8, <2>3, <2>6, <2>11, <3>1
    <3> QED
      BY <2>1, <2>6, <2>11, <3>2 DEF Exact
  <2> QED
    BY <2>10, <2>11
<1>11. CASE IsEnd(r, t)
  <2>1. r.want = "" /\ t.form = "dashes" /\ r.cmd \in Commands
    BY <1>11 DEF IsEnd
  <2>2. e = t /\ IsEnd(q, e)
    BY <1>1, <1>4, <1>6, <2>1 DEF IsFile, IsEnd
  <2>3. /\ Is(n, "--", r.cmd, r.opts, r.here, r.pos, r.tail)
        /\ Is(m, "--", q.cmd, q.opts, q.here, q.pos, q.tail)
    BY <1>2, <1>11, <2>2, GoodMoves
  <2>4. /\ n.want = "--" /\ n.cmd = r.cmd /\ n.opts = r.opts /\ n.pos = r.pos /\ n.tail = r.tail
        /\ m.want = "--" /\ m.cmd = r.cmd /\ m.opts = q.opts /\ m.pos = q.pos /\ m.tail = r.tail
    BY <1>1, <2>3 DEF Is
  <2>5. u.want = "--" /\ u.words = s.words
    BY <1>6, <2>1 DEF TranslateToken
  <2>8. HereAlike(n.here, m.here, vs)
    BY <1>17, <2>3 DEF Is
  <2>6. Alike(n, u, m, vs, X) /\ ~IsBad(m)
    BY <1>1, <2>4, <2>5, <2>8 DEF Alike, IsBad
  <2>7. Exact(r, q) => Exact(n, m)
    BY <2>4 DEF Exact
  <2> QED
    BY <2>6, <2>7
<1>12. CASE IsOption(r, t)
  <2>1. r.want = "" /\ t.form = "opt" /\ o \in OptsOf(r.cmd)
    BY <1>12 DEF IsOption, o
  <2>2. e = t /\ IsOption(q, e)
    BY <1>1, <1>4, <1>6, <2>1 DEF IsFile, IsOption, o
  <2>3. /\ Is(n, o, r.cmd, r.opts, r.here, r.pos, r.tail)
        /\ Is(m, o, q.cmd, q.opts, q.here, q.pos, q.tail)
    BY <1>2, <1>12, <2>2, GoodMoves DEF o
  <2>4. /\ n.want = o /\ n.cmd = r.cmd /\ n.opts = r.opts /\ n.pos = r.pos /\ n.tail = r.tail
        /\ m.want = o /\ m.cmd = r.cmd /\ m.opts = q.opts /\ m.pos = q.pos /\ m.tail = r.tail
    BY <1>1, <2>3 DEF Is
  <2>5. o \notin {"", "--", "refused"}
    BY <2>1, OptionNames
  <2>6. u.want = Wanted(o) /\ u.words = s.words
    <3>1. u.want = Wanted(t.opt) /\ u.words = s.words
      BY <1>6, <2>1 DEF TranslateToken
    <3> QED
      BY <3>1, WantedIs DEF o
  <2>9. HereAlike(n.here, m.here, vs)
    BY <1>17, <2>3 DEF Is
  <2>7. Alike(n, u, m, vs, X) /\ ~IsBad(m)
    BY <1>1, <2>1, <2>4, <2>5, <2>6, <2>9 DEF Alike, IsBad
  <2>8. Exact(r, q) => Exact(n, m)
    BY <2>1, <2>4 DEF Exact
  <2> QED
    BY <2>7, <2>8
<1>13. CASE IsFlag(r, t)
  <2>1. r.want = "" /\ t.form = "opt" /\ May(r, o) /\ o \in FlagsOf(r.cmd) \ OptsOf(r.cmd)
    BY <1>13 DEF IsFlag, o
  <2>2. vs # <<>> => o # "--vault"
    BY <2>1 DEF OptsOf, GlobalOpts
  <2>3. e = t /\ IsFlag(q, e)
    BY <1>1, <1>4, <1>5, <1>6, <2>1, <2>2 DEF IsFile, IsFlag, o
  <2>4. /\ Is(n, "", r.cmd, Extended(r.opts, r.here, o, <<>>), r.here \cup {o}, r.pos, r.tail)
        /\ Is(m, "", q.cmd, Extended(q.opts, q.here, o, <<>>), q.here \cup {o}, q.pos, q.tail)
    BY <1>2, <1>13, <2>3, GoodMoves DEF o
  <2>5. /\ n.want = "" /\ n.cmd = r.cmd /\ n.opts = Extended(r.opts, r.here, o, <<>>)
        /\ n.pos = r.pos /\ n.tail = r.tail
        /\ m.want = "" /\ m.cmd = r.cmd /\ m.opts = Extended(q.opts, q.here, o, <<>>)
        /\ m.pos = q.pos /\ m.tail = r.tail
    BY <1>1, <2>4 DEF Is
  <2>6. u.want = "" /\ u.words = s.words
    <3>1. u.want = Wanted(t.opt) /\ u.words = s.words
      BY <1>6, <2>1 DEF TranslateToken
    <3> QED
      BY <2>1, <3>1, WantedIs DEF o
  <2>7. Alike(n, u, m, vs, X) /\ ~IsBad(m)
    <3>1. OptsAlike(n.opts, m.opts, vs)
      BY <1>1, <1>7, <2>2, <2>5
    <3>2. Wanted("") = ""
      BY WantedIs
    <3>3. HereAlike(n.here, m.here, vs)
      BY <1>17, <2>4 DEF Is
    <3> QED
      BY <1>1, <2>1, <2>5, <2>6, <3>1, <3>2, <3>3 DEF Alike, IsBad
  <2>8. ASSUME Exact(r, q)
        PROVE  Exact(n, m)
    <3>1. OptsExact(n.opts, m.opts)
      BY <1>8, <2>2, <2>5, <2>8
    <3> QED
      BY <2>1, <2>5, <2>8, <3>1 DEF Exact
  <2> QED
    BY <2>7, <2>8
<1>14. CASE IsInline(r, t)
  <2>1. /\ r.want = "" /\ t.form \in {"inline", "attached"} /\ May(r, o)
        /\ o \in OptsOf(r.cmd)
    BY <1>14 DEF IsInline, o
  <2>2. Is(n, "", r.cmd, Extended(r.opts, r.here, o, <<v>>), r.here \cup {o}, r.pos, r.tail)
    BY <1>2, <1>14, GoodMoves DEF o, v
  <2>3. /\ n.want = "" /\ n.cmd = r.cmd /\ n.opts = Extended(r.opts, r.here, o, <<v>>)
        /\ n.pos = r.pos /\ n.tail = r.tail
    BY <2>2 DEF Is
  <2>4. vs # <<>> => o # "--vault"
    <3>1. o \in DOMAIN n.opts
      BY <2>3 DEF Extended
    <3> QED
      BY <3>1 DEF Seen
  <2>5. e.form = t.form /\ e.opt = t.opt
    BY <1>4, <1>6, <2>1
  <2>6. IsInline(q, e)
    BY <1>1, <1>5, <2>1, <2>4, <2>5 DEF IsInline, o
  <2>7. Is(m, "", q.cmd, Extended(q.opts, q.here, o, <<w>>), q.here \cup {o}, q.pos, q.tail)
    <3>1. Is(m, "", q.cmd, Extended(q.opts, q.here, Canonical(e.opt), <<w>>), q.here \cup {Canonical(e.opt)}, q.pos, q.tail)
      BY <1>2, <2>6, GoodMoves DEF w
    <3> QED
      BY <2>5, <3>1 DEF o
  <2>8. /\ m.want = "" /\ m.cmd = r.cmd /\ m.opts = Extended(q.opts, q.here, o, <<w>>)
        /\ m.pos = q.pos /\ m.tail = r.tail
    BY <1>1, <2>7 DEF Is
  <2>9. u.want = "" /\ u.words = s.words
    BY <1>6, <2>1 DEF TranslateToken
  <2>10. Alike(n, u, m, vs, X) /\ ~IsBad(m)
    <3>1. OptsAlike(n.opts, m.opts, vs)
      BY <1>1, <1>7, <2>3, <2>4, <2>8
    <3>2. Wanted("") = ""
      BY WantedIs
    <3>3. HereAlike(n.here, m.here, vs)
      BY <1>17, <2>2, <2>7 DEF Is
    <3> QED
      BY <1>1, <2>1, <2>3, <2>8, <2>9, <3>1, <3>2, <3>3 DEF Alike, IsBad
  <2>11. ASSUME Exact(r, q), t.form # "attached"
         PROVE  Exact(n, m)
    <3>1. w = ValueSent(o, v)
      <4>1. t.opt \in PathOpts <=> IsPath(o)
        BY WantedIs DEF o
      <4>2. t.form = "inline"
        BY <2>1, <2>11
      <4>3. t.opt \in PathOpts => w = Windows(v)
        BY <1>4, <1>6, <2>1, <4>2
      <4>4. t.opt \notin PathOpts => w = v
        <5>1. t.opt \notin PathOpts => e = t
          BY <1>4, <1>6, <2>1, <4>2 DEF IsFile
        <5> QED
          BY <5>1 DEF w, v
      <4> QED
        BY <4>1, <4>3, <4>4 DEF ValueSent
    <3>2. OptsExact(n.opts, m.opts)
      BY <1>8, <2>3, <2>4, <2>8, <2>11, <3>1
    <3> QED
      BY <2>1, <2>3, <2>8, <2>11, <3>2 DEF Exact
  <2> QED
    BY <2>10, <2>11
<1>15. CASE IsCommand(r, t) \/ IsSshCommand(r, t)
  <2> DEFINE cmd == IF r.cmd = "" THEN t.text ELSE SshCommand[t.text]
  <2>1. /\ r.want = "" /\ t.form = "word"
        /\ \/ r.cmd = "" /\ t.text \in Subcommands /\ cmd = t.text
           \/ r.cmd = "ssh" /\ t.text \in DOMAIN SshCommand /\ cmd = SshCommand[t.text]
    BY <1>15 DEF IsCommand, IsSshCommand
  <2>2. /\ cmd # ""
        /\ r.cmd = "" => (cmd = "import" <=> t.text = "import")
        /\ r.cmd = "ssh" => cmd # "import"
    <3>1. \A x \in Subcommands : x # ""
      BY DEF Subcommands
    <3>2. \A x \in DOMAIN SshCommand : SshCommand[x] \notin {"", "import"}
      <4>1. /\ DOMAIN SshCommand = {"add", "pubkey", "remove"}
            /\ SshCommand["add"] = "ssh add" /\ SshCommand["pubkey"] = "ssh pubkey"
            /\ SshCommand["remove"] = "ssh remove"
        BY DEF SshCommand
      <4> QED
        BY <4>1
    <3> HIDE DEF cmd
    <3> QED
      BY <2>1, <3>1, <3>2
  <2>3. e = t
    <3>1. ~IsFile(s, t)
      BY <1>1, <2>1 DEF IsFile, Importing
    <3> QED
      BY <1>4, <1>6, <2>1, <3>1
  <2>4. /\ IsCommand(r, t) => IsCommand(q, e)
        /\ IsSshCommand(r, t) => IsSshCommand(q, e)
    BY <1>1, <2>3 DEF IsCommand, IsSshCommand
  <2>5. /\ n.want = "" /\ n.cmd = cmd /\ n.opts = r.opts /\ n.pos = r.pos /\ n.tail = r.tail
        /\ m.want = "" /\ m.cmd = cmd /\ m.opts = q.opts /\ m.pos = q.pos /\ m.tail = r.tail
        /\ n.here = {} /\ m.here = {}
    <3>1. CASE IsCommand(r, t)
      <4>1. /\ Is(n, "", t.text, r.opts, {}, r.pos, r.tail)
            /\ Is(m, "", t.text, q.opts, {}, q.pos, q.tail)
        BY <1>2, <2>3, <2>4, <3>1, GoodMoves
      <4>2. cmd = t.text
        BY <3>1 DEF IsCommand
      <4> QED
        BY <1>1, <4>1, <4>2 DEF Is
    <3>2. CASE IsSshCommand(r, t)
      <4>1. /\ Is(n, "", SshCommand[t.text], r.opts, {}, r.pos, r.tail)
            /\ Is(m, "", SshCommand[t.text], q.opts, {}, q.pos, q.tail)
        BY <1>2, <2>3, <2>4, <3>2, GoodMoves
      <4>2. cmd = SshCommand[t.text]
        BY <3>2 DEF IsSshCommand
      <4> QED
        BY <1>1, <4>1, <4>2 DEF Is
    <3> QED
      BY <1>15, <3>1, <3>2
  <2> HIDE DEF cmd
  <2>6. r.pos = <<>>
    BY <1>1, <1>2, <2>1 DEF Typed
  <2>7. u.want = "" /\ u.words = Append(s.words, t.text)
    BY <1>6, <2>1 DEF TranslateToken
  <2>8. /\ u.words \in Seq(X) /\ u.words # <<>>
        /\ s.words # <<>> => u.words # Importing
        /\ s.words = <<>> => (u.words = Importing <=> t.text = "import")
    <3> DEFINE words == s.words
               x == t.text
    <3>1. words \in Seq(X) /\ u.words = Append(words, x) /\ x \in X
      BY <1>1, <2>7
    <3> HIDE DEF words, x
    <3>2. /\ u.words \in Seq(X) /\ u.words # <<>>
          /\ words # <<>> => u.words # Importing
          /\ words = <<>> => (u.words = Importing <=> x = "import")
      BY <3>1, WordsOfMore
    <3> QED
      BY <3>2 DEF words, x
  <2>9. u.words = Importing <=> cmd = "import"
    BY <1>1, <2>1, <2>2, <2>8
  <2>10. Alike(n, u, m, vs, X) /\ ~IsBad(m)
    <3>1. Wanted("") = ""
      BY WantedIs
    <3> QED
      BY <1>1, <1>17, <2>2, <2>5, <2>6, <2>7, <2>8, <2>9, <3>1 DEF Alike, IsBad
  <2>11. Exact(r, q) => Exact(n, m)
    BY <2>1, <2>5, <2>6 DEF Exact
  <2> QED
    BY <2>10, <2>11
<1>16. CASE IsPositional(r, t)
  <2>1. r.want = "" /\ t.form = "word" /\ r.cmd \notin {"", "ssh"}
    BY <1>16 DEF IsPositional
  <2>2. e.form = "word"
    BY <1>4, <2>1
  <2>3. IsPositional(q, e)
    BY <1>1, <2>1, <2>2 DEF IsPositional
  <2>4. /\ Is(n, "", r.cmd, r.opts, r.here, Append(r.pos, v), r.tail)
        /\ Is(m, "", q.cmd, q.opts, q.here, Append(q.pos, w), q.tail)
    BY <1>2, <1>16, <2>3, GoodMoves DEF v, w
  <2>5. /\ n.want = "" /\ n.cmd = r.cmd /\ n.opts = r.opts /\ n.pos = Append(r.pos, v)
        /\ n.tail = r.tail
        /\ m.want = "" /\ m.cmd = r.cmd /\ m.opts = q.opts /\ m.pos = Append(q.pos, w)
        /\ m.tail = r.tail
    BY <1>1, <2>4 DEF Is
  <2>6. /\ Append(r.pos, v) # <<>>
        /\ r.pos # <<>> => Append(r.pos, v)[1] = r.pos[1] /\ Append(q.pos, w)[1] = q.pos[1]
        /\ r.pos = <<>> => Append(r.pos, v)[1] = v /\ Append(q.pos, w)[1] = w
    <3> DEFINE a == r.pos
               b == q.pos
    <3>1. a \in Seq(V) /\ b \in Seq(W) /\ SameTexts(a, b)
      BY <1>1, <1>2
    <3> HIDE DEF a, b
    <3>2. /\ Append(a, v) # <<>>
          /\ a # <<>> => Append(a, v)[1] = a[1] /\ Append(b, w)[1] = b[1]
          /\ a = <<>> => Append(a, v)[1] = v /\ Append(b, w)[1] = w
      BY <1>3, <3>1, FirstOfMore
    <3> QED
      BY <3>2 DEF a, b
  <2>7. u.want = "" /\ u.words = Append(s.words, t.text) /\ s.words # <<>>
    BY <1>1, <1>6, <2>1 DEF TranslateToken
  <2>8. u.words \in Seq(X) /\ u.words # <<>> /\ u.words # Importing
    <3> DEFINE words == s.words
               x == t.text
    <3>1. words \in Seq(X) /\ words # <<>> /\ u.words = Append(words, x) /\ x \in X
      BY <1>1, <2>7
    <3> HIDE DEF words, x
    <3> QED
      BY <3>1, WordsOfMore
  <2>9. Alike(n, u, m, vs, X) /\ ~IsBad(m)
    <3>1. Wanted("") = ""
      BY WantedIs
    <3>2. SameTexts(n.pos, m.pos)
      BY <1>7, <2>5
    <3>3. HereAlike(n.here, m.here, vs)
      BY <1>17, <2>4 DEF Is
    <3> QED
      BY <1>1, <2>1, <2>5, <2>6, <2>7, <2>8, <3>1, <3>2, <3>3 DEF Alike, IsBad
  <2>10. ASSUME Exact(r, q)
         PROVE  Exact(n, m)
    <3>1. r.cmd # "import" => m.pos = n.pos
      <4>1. r.cmd # "import" => e = t
        BY <1>1, <1>4, <1>6, <2>1 DEF IsFile, Importing
      <4>2. r.cmd # "import" => w = v /\ q.pos = r.pos
        BY <2>10, <4>1 DEF w, v, Exact
      <4> QED
        BY <2>5, <4>2
    <3>2. r.cmd = "import" => m.pos[1] = Windows(n.pos[1])
      <4>1. CASE r.cmd = "import" /\ r.pos = <<>>
        <5>1. IsFile(s, t)
          BY <1>1, <1>6, <2>1, <4>1 DEF IsFile, Importing
        <5> QED
          BY <1>4, <2>5, <2>6, <4>1, <5>1
      <4>2. CASE r.cmd = "import" /\ r.pos # <<>>
        <5>1. q.pos[1] = Windows(r.pos[1])
          BY <2>1, <2>10, <4>2 DEF Exact
        <5> QED
          BY <2>5, <2>6, <4>2, <5>1
      <4> QED
        BY <4>1, <4>2
    <3> QED
      BY <2>5, <2>10, <3>1, <3>2 DEF Exact
  <2> QED
    BY <2>9, <2>10
<1> QED
  <2>1. IsBad(ReadToken(r, t)) \/ InTail(r, t) \/ InRest(r, t) \/ IsValue(r, t) \/ IsEnd(r, t)
        \/ IsOption(r, t) \/ IsFlag(r, t) \/ IsInline(r, t) \/ IsCommand(r, t)
        \/ IsSshCommand(r, t) \/ IsPositional(r, t)
    BY <1>2, GoodOrBad
  <2> QED
    BY <1>9, <1>10, <1>11, <1>12, <1>13, <1>14, <1>15, <1>16, <2>1

-----------------------------------------------------------------------------
(* The whole command line                                                   *)

(* What wcm.exe has been given when the shim has read x, and what it makes  *)
(* of it, with `head` in front.                                             *)
WhatIsGiven(head, x) == Reading(head \o Translating(x).out)

Follows(S, T, X, head, vs, x) ==
  /\ Translating(x).out \in Seq(T)
  /\ ~IsBad(WhatIsGiven(head, x))
  /\ Alike(Reading(x), Translating(x), WhatIsGiven(head, x), vs, X)
  /\ (\A t \in S : t.form # "attached") => Exact(Reading(x), WhatIsGiven(head, x))

LEMMA OutOfMore ==
  ASSUME NEW s, NEW t
  PROVE  TranslateToken(s, t).out = Append(s.out, Emitted(s, t))
  BY DEF TranslateToken

LEMMA TranslationFollows ==
  ASSUME NEW S, \A t \in S : IsToken(t), NEW T, \A t \in T : IsToken(t),
         \A t \in S : \A s : Emitted(s, t) \in T,
         NEW X, \A t \in S : t.text \in X, NEW vs, NEW head \in Seq(T),
         Follows(S, T, X, head, vs, <<>>), NEW args \in Seq(S), ~IsBad(Reading(args)),
         vs = <<>> \/ ~HasVaultArg(args)
  PROVE  Follows(S, T, X, head, vs, args)
<1> DEFINE F(x) == Follows(S, T, X, head, vs, x)
           P == {x \in Seq(S) : IsBad(Reading(x)) \/ (vs # <<>> /\ HasVaultArg(x)) \/ F(x)}
<1>1. <<>> \in P
  <2>1. <<>> \in Seq(S)
    OBVIOUS
  <2> QED
    BY <2>1
<1>2. ASSUME NEW x \in Seq(S), NEW t \in S, x \in P
      PROVE  Append(x, t) \in P
  <2> DEFINE y == Append(x, t)
             r == Reading(x)
             n == Reading(y)
             s == Translating(x)
             u == Translating(y)
             e == Emitted(s, t)
             q == WhatIsGiven(head, x)
             m == WhatIsGiven(head, y)
  <2>1. y \in Seq(S) /\ n = ReadToken(r, t) /\ u = TranslateToken(s, t)
    BY OneMore
  <2> SUFFICES ASSUME ~IsBad(n), vs = <<>> \/ ~HasVaultArg(y)
               PROVE  F(y)
    BY <2>1
  <2>2. ~IsBad(r)
    BY <2>1, BadStays
  <2>3. vs # <<>> => ~HasVaultArg(x) /\ ~HasVaultArg(y)
    BY VaultArgOfMore
  <2>4. F(x)
    BY <1>2, <2>2, <2>3
  <2>5. IsToken(t) /\ t.text \in X /\ e \in T
    OBVIOUS
  <2>6. vs # <<>> => "--vault" \notin Seen(r) /\ "--vault" \notin Seen(n)
    <3>1. "--vault" \in Seen(r) <=> HasVaultArg(x)
      BY <2>2, ReadsVault
    <3>2. "--vault" \in Seen(n) <=> HasVaultArg(y)
      BY <2>1, ReadsVault
    <3> QED
      BY <2>3, <3>1, <3>2
  <2>7. s.out \in Seq(T) /\ ~IsBad(q) /\ Alike(r, s, q, vs, X)
    BY <2>4 DEF Follows
  <2>8. m = ReadToken(q, e) /\ u.out \in Seq(T)
    <3>1. u.out = Append(s.out, e)
      BY <2>1, OutOfMore
    <3> DEFINE out == s.out
    <3>2. out \in Seq(T) /\ e \in T
      BY <2>5, <2>7
    <3> HIDE DEF out, e
    <3>3. /\ head \o out \in Seq(T) /\ Append(out, e) \in Seq(T)
          /\ head \o Append(out, e) = Append(head \o out, e)
      BY <3>2
    <3>4. Reading(Append(head \o out, e)) = ReadToken(Reading(head \o out), e)
      BY <3>2, <3>3, OneMore
    <3> QED
      BY <3>1, <3>3, <3>4 DEF WhatIsGiven, out
  <2>9. Typed(r, S) /\ Typed(q, T)
    <3>1. head \o s.out \in Seq(T)
      BY <2>7
    <3> QED
      BY <2>2, <2>7, <3>1, Reads DEF WhatIsGiven
  <2> HIDE DEF y, r, n, s, u, e, q, m
  <2>10. e = Emitted(s, t)
    BY DEF e
  <2>11. Moved(r, q, t, n, u, m, vs, X)
    BY <2>1, <2>5, <2>6, <2>7, <2>8, <2>9, <2>10, AlikeSteps
  <2>12. Alike(n, u, m, vs, X) /\ ~IsBad(m)
    BY <2>11 DEF Moved
  <2>13. ASSUME Exact(r, q), t.form # "attached"
         PROVE  Exact(n, m)
    BY <2>11, <2>13 DEF Moved
  <2>14. (\A z \in S : z.form # "attached") => Exact(n, m)
    BY <2>4, <2>13 DEF Follows, r, q
  <2> QED
    BY <2>8, <2>12, <2>14 DEF Follows, n, u, m
<1> HIDE DEF P
<1>3. args \in P
  BY <1>1, <1>2, Rd!Lengthen
<1> QED
  BY <1>3 DEF P

-----------------------------------------------------------------------------
(* What is in front of it: --vault, if $WCM_VAULT is to count               *)

(* The values of --vault that are put in front.                             *)
Ahead(args, vault) == IF VaultArg(args, vault) = <<>> THEN <<>> ELSE <<Value(VaultPath(vault))>>

LEMMA NoDomain == DOMAIN <<>> = {}
  OBVIOUS

LEMMA EmptyIsSeq ==
  ASSUME NEW T
  PROVE  <<>> \in Seq(T)
  OBVIOUS

LEMMA PairIs ==
  ASSUME NEW T, NEW a \in T, NEW b \in T
  PROVE  Append(<<a>>, b) = <<a, b>>
<1> DEFINE x == Append(<<a>>, b)
           y == <<a, b>>
<1>1. x \in Seq(T) /\ y \in Seq(T) /\ Len(x) = 2 /\ Len(y) = 2
  OBVIOUS
<1>2. x[1] = y[1] /\ x[2] = y[2]
  OBVIOUS
<1>3. \A i \in 1..2 : i = 1 \/ i = 2
  OBVIOUS
<1> HIDE DEF x, y
<1>4. \A i \in 1..Len(x) : x[i] = y[i]
  BY <1>1, <1>2, <1>3
<1>5. x = y
  BY <1>1, <1>4, SeqEqual
<1> QED
  BY <1>5 DEF x, y

LEMMA TwoTokens ==
  ASSUME NEW T, NEW a \in T, NEW b \in T
  PROVE  <<a, b>> \in Seq(T) /\ Reading(<<a, b>>) = ReadToken(ReadToken(NothingRead, a), b)
<1> DEFINE none == <<>>
           one == Append(none, a)
           two == Append(one, b)
<1>1. none \in Seq(T) /\ one \in Seq(T) /\ two \in Seq(T) /\ two = <<a, b>>
  <2>1. one = <<a>>
    OBVIOUS
  <2>2. Append(<<a>>, b) = <<a, b>>
    BY PairIs
  <2>3. none \in Seq(T)
    OBVIOUS
  <2>4. \A x \in Seq(T), y \in T : Append(x, y) \in Seq(T)
    OBVIOUS
  <2> HIDE DEF none
  <2>5. one \in Seq(T)
    BY <2>3, <2>4
  <2>6. two \in Seq(T)
    BY <2>4, <2>5
  <2> QED
    BY <2>1, <2>2, <2>3, <2>5, <2>6
<1>2. Reading(none) = NothingRead
  BY NothingYet
<1> HIDE DEF none
<1>3. Reading(one) = ReadToken(Reading(none), a)
  BY <1>1, OneMore
<1> HIDE DEF one
<1>4. Reading(two) = ReadToken(Reading(one), b)
  BY <1>1, OneMore
<1> HIDE DEF two
<1> QED
  BY <1>1, <1>2, <1>3, <1>4

LEMMA VaultIsRead ==
  ASSUME NEW w, IsToken(w), w.form = "word", NEW v, v = Value(w),
         NEW q, q = Reading(<<Opt("--vault"), w>>)
  PROVE  Is(q, "", "", Extended(<<>>, {}, "--vault", <<v>>), {"--vault"}, <<>>, <<>>)
<1> DEFINE a == Opt("--vault")
           n == ReadToken(NothingRead, a)
<1>1. /\ a.form = "opt" /\ a.opt = "--vault" /\ Canonical("--vault") = "--vault"
      /\ "--vault" \in OptsOf("") /\ "--vault" \notin {"", "--", "refused"}
  BY DEF Opt, Token, Canonical, OptsOf, GlobalOpts
<1>2. /\ NothingRead = State("", "", <<>>, {}, <<>>, <<>>)
      /\ DOMAIN <<>> = {}
  BY DEF NothingRead, State
<1>3. Good(NothingRead) /\ Is(NothingRead, "", "", <<>>, {}, <<>>, <<>>)
  BY <1>2, StateFields, StateIs
<1>4. q = ReadToken(n, w)
  <2> DEFINE T == {a, w}
  <2>1. a \in T /\ w \in T
    OBVIOUS
  <2> HIDE DEF T, a
  <2>2. Reading(<<a, w>>) = ReadToken(ReadToken(NothingRead, a), w)
    BY <2>1, TwoTokens
  <2> QED
    BY <2>2 DEF a
<1> HIDE DEF a
<1>5. IsOption(NothingRead, a)
  BY <1>1, <1>3 DEF Is, IsOption
<1>6. n = State("--vault", "", <<>>, {}, <<>>, <<>>)
  <2>1. n = State(Canonical(a.opt), NothingRead.cmd, NothingRead.opts, NothingRead.here, NothingRead.pos, NothingRead.tail)
    BY <1>3, <1>5, GoodReads
  <2> QED
    BY <1>1, <1>3, <2>1 DEF Is
<1>7. Good(n) /\ Is(n, "--vault", "", <<>>, {}, <<>>, <<>>)
  <2> HIDE DEF n
  <2> QED
    BY <1>1, <1>6 DEF State, Good, Is
<1> HIDE DEF n
<1>8. IsValue(n, w)
  BY <1>1, <1>2, <1>7 DEF Is, IsValue, May
<1>9. Is(q, "", n.cmd, Extended(n.opts, n.here, n.want, <<Value(w)>>), n.here \cup {n.want}, n.pos, n.tail)
  BY <1>4, <1>7, <1>8, GoodMoves
<1> QED
  BY <1>7, <1>9 DEF Is

LEMMA NothingFollows ==
  ASSUME NEW S, NEW T, NEW X, NEW head \in Seq(T), NEW vs,
         NEW opts, NEW here, Is(Reading(head), "", "", opts, here, <<>>, <<>>),
         OptsAlike(<<>>, opts, vs), HereAlike({}, here, vs)
  PROVE  Follows(S, T, X, head, vs, <<>>)
<1>1. Reading(<<>>) = NothingRead /\ Translating(<<>>) = NothingSent
  BY NothingYet
<1>2. /\ NothingRead.want = "" /\ NothingRead.cmd = "" /\ NothingRead.opts = <<>>
      /\ NothingRead.here = {} /\ NothingRead.pos = <<>> /\ NothingRead.tail = <<>>
      /\ NothingSent.out = <<>> /\ NothingSent.want = "" /\ NothingSent.words = <<>>
  BY DEF NothingRead, NothingSent
<1>3. <<>> \in Seq(T) /\ <<>> \in Seq(X) /\ head \o <<>> = head
  <2>1. <<>> \in Seq(T) /\ <<>> \in Seq(X)
    BY EmptyIsSeq
  <2>2. head \o <<>> = head
    BY ConcatEmptySeq
  <2> QED
    BY <2>1, <2>2
<1>4. SameTexts(<<>>, <<>>) /\ Wanted("") = "" /\ <<>> # Importing
  <2>1. <<>> # Importing
    BY DEF Importing
  <2> QED
    BY <2>1, WantedIs DEF SameTexts
<1> DEFINE r == Reading(<<>>)
           s == Translating(<<>>)
           q == WhatIsGiven(head, <<>>)
<1>5. /\ r.want = "" /\ r.cmd = "" /\ r.opts = <<>> /\ r.here = {}
      /\ r.pos = <<>> /\ r.tail = <<>>
      /\ s.out = <<>> /\ s.want = "" /\ s.words = <<>>
  BY <1>1, <1>2
<1>6. /\ q.want = "" /\ q.cmd = "" /\ q.opts = opts /\ q.here = here
      /\ q.pos = <<>> /\ q.tail = <<>>
  <2>1. q = Reading(head)
    BY <1>3, <1>5 DEF WhatIsGiven
  <2> QED
    BY <2>1 DEF Is
<1> HIDE DEF r, s, q
<1>7. Alike(r, s, q, vs, X) /\ ~IsBad(q)
  BY <1>3, <1>4, <1>5, <1>6 DEF Alike, IsBad
<1>8. Exact(r, q)
  <2>1. DOMAIN <<>> = {}
    BY NoDomain
  <2>2. OptsExact(<<>>, opts)
    BY <2>1 DEF OptsExact
  <2> QED
    BY <1>5, <1>6, <2>2 DEF Exact
<1> QED
  BY <1>3, <1>5, <1>7, <1>8 DEF Follows, r, s, q

LEMMA WindowsArgsFollow ==
  ASSUME NEW S, \A t \in S : IsToken(t), NEW vault, vault = Absent \/ IsVaultValue(vault),
         NEW args \in Seq(S), ~IsBad(Reading(args)),
         NEW T, T = Sent(S, vault), NEW X, X = {t.text : t \in S},
         NEW head, head = VaultArg(args, vault)
  PROVE  /\ head \in Seq(T)
         /\ Follows(S, T, X, head, Ahead(args, vault), args)
<1> DEFINE vs == Ahead(args, vault)
<1>1. (\A t \in T : IsToken(t)) /\ \A t \in S : \A s : Emitted(s, t) \in T
  BY EmittedIsSent DEF Sent
<1>2. \A t \in S : t.text \in X
  OBVIOUS
<1>3. /\ head \in Seq(T)
      /\ vs = <<>> \/ ~HasVaultArg(args)
      /\ Follows(S, T, X, head, vs, <<>>)
  <2>1. CASE head = <<>>
    <3>1. vs = <<>> /\ head \in Seq(T)
      <4>1. <<>> \in Seq(T)
        OBVIOUS
      <4> QED
        BY <2>1, <4>1 DEF Ahead
    <3>2. Is(Reading(head), "", "", <<>>, {}, <<>>, <<>>)
      <4>1. Reading(head) = NothingRead
        BY <2>1, NothingYet
      <4>2. Is(NothingRead, "", "", <<>>, {}, <<>>, <<>>)
        BY DEF Is, NothingRead
      <4> QED
        BY <4>1, <4>2
    <3>4. HereAlike({}, {}, <<>>)
      BY DEF HereAlike
    <3>3. OptsAlike(<<>>, <<>>, <<>>)
      <4>1. DOMAIN <<>> = {}
        OBVIOUS
      <4> QED
        BY <4>1 DEF OptsAlike
    <3> HIDE DEF vs
    <3> QED
      BY <3>1, <3>2, <3>3, <3>4, NothingFollows
  <2>2. CASE head # <<>>
    <3> DEFINE w == VaultPath(vault)
               v == Value(VaultPath(vault))
               opts == Extended(<<>>, {}, "--vault", <<v>>)
    <3>1. ~HasVaultArg(args) /\ ~NoVault(vault) /\ head = <<Opt("--vault"), w>> /\ vs = <<v>>
      BY <2>2 DEF VaultArg, Ahead
    <3>2. IsToken(w) /\ w.form = "word" /\ Value(w) = v
      BY <3>1, VaultPathIs DEF IsVaultValue
    <3>3. Opt("--vault") \in T /\ w \in T
      <4>1. IsToken(Opt("--vault"))
        BY DEF IsToken, Opt, Token, Dashes
      <4> QED
        BY <3>2, <4>1 DEF Sent
    <3> HIDE DEF w, v
    <3>4. head \in Seq(T)
      BY <3>1, <3>3, TwoTokens
    <3>5. Is(Reading(head), "", "", opts, {"--vault"}, <<>>, <<>>)
      BY <3>1, <3>2, VaultIsRead
    <3>7. HereAlike({}, {"--vault"}, <<v>>)
      <4>1. <<v>> # <<>>
        OBVIOUS
      <4> QED
        BY <4>1 DEF HereAlike
    <3>6. OptsAlike(<<>>, opts, <<v>>)
      <4>1. DOMAIN <<>> = {} /\ <<v>> # <<>>
        OBVIOUS
      <4>2. DOMAIN opts = {"--vault"} /\ opts["--vault"] = <<v>>
        BY <4>1 DEF Extended
      <4> HIDE DEF opts
      <4> QED
        BY <4>1, <4>2 DEF OptsAlike
    <3> HIDE DEF vs, opts
    <3> QED
      BY <3>1, <3>4, <3>5, <3>6, <3>7, NothingFollows
  <2> QED
    BY <2>1, <2>2
<1> HIDE DEF vs
<1>4. Follows(S, T, X, head, vs, args)
  BY <1>1, <1>2, <1>3, TranslationFollows
<1> QED
  BY <1>3, <1>4 DEF vs

-----------------------------------------------------------------------------
(* What wcm.exe is asked to do                                              *)

LEMMA Parsed ==
  ASSUME NEW args, NEW r, r = Reading(args)
  PROVE  /\ Parse(args).ok = TRUE \/ Parse(args).ok = FALSE
         /\ Parse(args).ok <=> Complete(r)
         /\ Complete(r) => Parse(args) = [ok |-> TRUE, cmd |-> r.cmd, opts |-> r.opts,
                                          pos |-> r.pos, tail |-> r.tail]
  BY DEF Parse, Usage

(* The texts are those that were typed, whatever it is that was typed.      *)
SameCommand(args, w, vs) ==
  /\ Parse(w).ok /\ Parse(w).cmd = Parse(args).cmd /\ Parse(w).tail = Parse(args).tail
  /\ OptsAlike(Parse(args).opts, Parse(w).opts, vs)
  /\ SameTexts(Parse(args).pos, Parse(w).pos)

LEMMA CompleteAlike ==
  ASSUME NEW S, NEW r, Typed(r, S), NEW T, NEW q, Typed(q, T), NEW s, NEW X, NEW vs,
         Alike(r, s, q, vs, X), Complete(r)
  PROVE  Complete(q)
<1>1. Len(q.pos) = Len(r.pos)
  <2> DEFINE a == r.pos
             b == q.pos
             V == Values(S)
             W == Values(T)
  <2>1. a \in Seq(V) /\ b \in Seq(W) /\ DOMAIN a = DOMAIN b
    BY DEF Typed, Alike, SameTexts
  <2> HIDE DEF a, b, V, W
  <2>2. Len(b) = Len(a)
    BY <2>1
  <2> QED
    BY <2>2 DEF a, b
<1> QED
  BY <1>1 DEF Complete, Alike

LEMMA CommandIsKept ==
  ASSUME NEW S, \A t \in S : IsToken(t), NEW vault, vault = Absent \/ IsVaultValue(vault),
         NEW args \in Seq(S), Parse(args).ok, NEW w, w = BuildWindowsArgs(args, vault)
  PROVE  /\ SameCommand(args, w, Ahead(args, vault))
         /\ w \in Seq(Sent(S, vault))
         /\ (\A t \in S : t.form # "attached") => Exact(Reading(args), Reading(w))
<1> DEFINE r == Reading(args)
           s == Translating(args)
           T == Sent(S, vault)
           X == {t.text : t \in S}
           head == VaultArg(args, vault)
           q == Reading(w)
           vs == Ahead(args, vault)
<1>1. Complete(r) /\ ~IsBad(r)
  BY Parsed DEF Complete, IsBad
<1>2. Typed(r, S)
  BY <1>1, Reads
<1>3. head \in Seq(T) /\ Follows(S, T, X, head, vs, args)
  BY <1>1, WindowsArgsFollow
<1>4. w \in Seq(T) /\ q = WhatIsGiven(head, args)
  <2> DEFINE out == s.out
  <2>1. out \in Seq(T) /\ w = head \o out
    BY <1>3 DEF Follows, BuildWindowsArgs, TranslateArgs, Translating
  <2> HIDE DEF out, head
  <2>2. w \in Seq(T)
    BY <1>3, <2>1
  <2> QED
    BY <2>1, <2>2 DEF WhatIsGiven, out
<1>5. ~IsBad(q) /\ Alike(r, s, q, vs, X)
  BY <1>3, <1>4 DEF Follows
<1>6. (\A t \in S : t.form # "attached") => Exact(r, q)
  BY <1>3, <1>4 DEF Follows
<1>7. \A t \in T : IsToken(t)
  BY DEF Sent
<1>8. Typed(q, T)
  BY <1>4, <1>5, <1>7, Reads
<1>9. Complete(q)
  BY <1>1, <1>2, <1>5, <1>8, CompleteAlike
<1> HIDE DEF r, s, T, X, head, q, vs
<1>10. SameCommand(args, w, vs)
  <2>1. Parse(args) = [ok |-> TRUE, cmd |-> r.cmd, opts |-> r.opts, pos |-> r.pos, tail |-> r.tail]
    BY <1>1, Parsed DEF r
  <2>2. Parse(w) = [ok |-> TRUE, cmd |-> q.cmd, opts |-> q.opts, pos |-> q.pos, tail |-> q.tail]
    BY <1>9, Parsed DEF q
  <2> DEFINE a == Parse(args)
             b == Parse(w)
  <2> HIDE DEF a, b
  <2>3. a.cmd = r.cmd /\ a.opts = r.opts /\ a.pos = r.pos /\ a.tail = r.tail
    BY <2>1 DEF a
  <2>4. b.cmd = q.cmd /\ b.opts = q.opts /\ b.pos = q.pos /\ b.tail = q.tail
    BY <2>2 DEF b
  <2>5. b.ok
    BY <1>9, Parsed DEF q, b
  <2>6. q.cmd = r.cmd /\ q.tail = r.tail /\ OptsAlike(r.opts, q.opts, vs) /\ SameTexts(r.pos, q.pos)
    BY <1>5 DEF Alike
  <2>7. /\ b.ok /\ b.cmd = a.cmd /\ b.tail = a.tail
        /\ OptsAlike(a.opts, b.opts, vs) /\ SameTexts(a.pos, b.pos)
    BY <2>3, <2>4, <2>5, <2>6
  <2> QED
    BY <2>7 DEF SameCommand, a, b
<1> QED
  BY <1>4, <1>6, <1>10 DEF r, T, q, vs


(* The options that are meant.                                              *)
Chosen(opts, vault, o) == IF o \in DOMAIN opts THEN opts[o] ELSE <<Value(VaultPath(vault))>>

MeantOpts(opts, vault) ==
  [o \in DOMAIN opts \cup IF NoVault(vault) THEN {} ELSE {"--vault"} |->
     Sending(o, Chosen(opts, vault, o))]

LEMMA OptsAreMeant ==
  ASSUME NEW ropts, NEW qopts, qopts = [o \in DOMAIN qopts |-> qopts[o]], NEW vs,
         OptsAlike(ropts, qopts, vs), OptsExact(ropts, qopts),
         NEW vault, vault = Absent \/ IsVaultValue(vault),
         vs = <<>> => NoVault(vault) \/ "--vault" \in DOMAIN ropts,
         vs # <<>> => ~NoVault(vault) /\ vs = <<Value(VaultPath(vault))>>
  PROVE  qopts = MeantOpts(ropts, vault)
<1> DEFINE D == DOMAIN ropts \cup IF NoVault(vault) THEN {} ELSE {"--vault"}
<1>1. DOMAIN qopts = D
  BY DEF OptsAlike
<1>2. ASSUME NEW o \in D
      PROVE  qopts[o] = Sending(o, Chosen(ropts, vault, o))
  <2>1. CASE o \in DOMAIN ropts
    BY <2>1 DEF OptsExact, Chosen
  <2>2. CASE o \notin DOMAIN ropts
    <3>1. o = "--vault" /\ ~NoVault(vault) /\ vs # <<>>
      BY <2>2
    <3>2. qopts[o] = <<Value(VaultPath(vault))>>
      BY <3>1 DEF OptsAlike
    <3>3. Sending(o, <<Value(VaultPath(vault))>>) = <<Value(VaultPath(vault))>>
      <4> DEFINE v == Value(VaultPath(vault))
      <4>1. Windows(v) = v
        BY <3>1, VaultPathIs
      <4> HIDE DEF v
      <4>2. <<v>> = AllWindows(<<v>>)
        BY <4>1, OneValue
      <4>3. Sending(o, <<v>>) = <<v>>
        BY <3>1, <4>2 DEF Sending, IsPath
      <4> QED
        BY <4>3 DEF v
    <3> QED
      BY <2>2, <3>2, <3>3 DEF Chosen
  <2> QED
    BY <2>1, <2>2
<1>3. qopts = [o \in D |-> Sending(o, Chosen(ropts, vault, o))]
  BY <1>1, <1>2
<1> QED
  BY <1>3 DEF MeantOpts

LEMMA MeantIs ==
  ASSUME NEW args, NEW vault, NEW cmd, NEW opts, NEW pos, NEW tail,
         Parse(args) = [ok |-> TRUE, cmd |-> cmd, opts |-> opts, pos |-> pos, tail |-> tail]
  PROVE  Meant(args, vault)
           = [ok |-> TRUE, cmd |-> cmd, opts |-> MeantOpts(opts, vault),
              pos |-> IF cmd = "import" THEN <<Windows(pos[1])>> ELSE pos, tail |-> tail]
<1> DEFINE r == Parse(args)
           o == MeantOpts(r.opts, vault)
           ps == IF r.cmd = "import" THEN <<Windows(r.pos[1])>> ELSE r.pos
<1>1. Meant(args, vault) = [r EXCEPT !.opts = o, !.pos = ps]
  BY DEF Meant, MeantOpts, Chosen, Sending, AllWindows
<1> HIDE DEF r
<1>2. r.cmd = cmd /\ r.opts = opts /\ r.pos = pos
  BY DEF r
<1> HIDE DEF o, ps
<1>3. Meant(args, vault) = [ok |-> TRUE, cmd |-> cmd, opts |-> o, pos |-> ps, tail |-> tail]
  <2> DEFINE z == Meant(args, vault)
  <2>1. r = [ok |-> TRUE, cmd |-> cmd, opts |-> opts, pos |-> pos, tail |-> tail]
    BY DEF r
  <2>2. z = [r EXCEPT !.opts = o, !.pos = ps]
    BY <1>1
  <2> HIDE DEF z
  <2>3. z = [x \in {"ok", "cmd", "opts", "pos", "tail"} |-> z[x]]
    BY <2>1, <2>2
  <2>4. z.ok = TRUE /\ z.cmd = cmd /\ z.opts = o /\ z.pos = ps /\ z.tail = tail
    BY <2>1, <2>2
  <2>5. z = [ok |-> TRUE, cmd |-> cmd, opts |-> o, pos |-> ps, tail |-> tail]
    BY <2>3, <2>4
  <2> QED
    BY <2>5 DEF z
<1> QED
  BY <1>2, <1>3 DEF o, ps

LEMMA PosIsMeant ==
  ASSUME NEW V, NEW W, NEW a \in Seq(V), NEW b \in Seq(W), SameTexts(a, b), Len(a) = 1,
         b[1] = Windows(a[1])
  PROVE  b = <<Windows(a[1])>>
<1> DEFINE v == Windows(a[1])
<1>1. Len(b) = 1 /\ b[1] \in W /\ b \in Seq(W)
  <2>1. Len(b) = Len(a)
    BY DEF SameTexts
  <2> QED
    BY <2>1
<1> DEFINE c == <<v>>
<1>2. v \in W
  BY <1>1
<1> HIDE DEF v
<1>3. c \in Seq(W) /\ Len(c) = 1 /\ c[1] = v
  BY <1>2
<1>4. \A i \in 1..1 : i = 1
  OBVIOUS
<1> HIDE DEF c
<1>5. Len(b) = Len(c) /\ \A i \in 1..Len(b) : b[i] = c[i]
  BY <1>1, <1>3, <1>4 DEF v
<1>6. b = c
  BY <1>1, <1>3, <1>5, SeqEqual
<1> QED
  BY <1>6 DEF c, v

LEMMA MeaningIsKept ==
  ASSUME NEW args, NEW S, S = Range(args), args \in Seq(S), \A t \in S : IsToken(t),
         NEW vault, vault = Absent \/ IsVaultValue(vault), Parse(args).ok, Documented(args),
         NEW w, w = BuildWindowsArgs(args, vault)
  PROVE  Parse(w) = Meant(args, vault)
<1> DEFINE r == Reading(args)
           q == Reading(w)
           vs == Ahead(args, vault)
           T == Sent(S, vault)
<1>1. /\ SameCommand(args, w, vs)
      /\ w \in Seq(T)
      /\ (\A t \in S : t.form # "attached") => Exact(r, q)
  BY CommandIsKept
<1>2. Exact(r, q)
  <2>1. \A t \in S : t.form # "attached"
    BY DEF Documented, Range
  <2> QED
    BY <1>1, <2>1
<1>3. Parse(w).ok
  BY <1>1 DEF SameCommand
<1>4. /\ Parse(args) = [ok |-> TRUE, cmd |-> r.cmd, opts |-> r.opts, pos |-> r.pos, tail |-> r.tail]
      /\ Parse(w) = [ok |-> TRUE, cmd |-> q.cmd, opts |-> q.opts, pos |-> q.pos, tail |-> q.tail]
      /\ Complete(r) /\ Complete(q)
  BY <1>3, Parsed
<1>5. Typed(r, S) /\ Typed(q, T)
  <2>1. ~IsBad(r) /\ ~IsBad(q)
    BY <1>4 DEF Complete, IsBad
  <2>2. \A t \in T : IsToken(t)
    BY DEF Sent
  <2> QED
    BY <1>1, <2>1, <2>2, Reads
<1>6. r.want = "--" => r.cmd = "run"
  <2>1. ~IsBad(r)
    BY <1>4 DEF Complete, IsBad
  <2>2. r.want = "--" <=> Dashes \in Range(args)
    BY <2>1, ReadsVault
  <2>3. Parse(args).cmd = r.cmd
    BY <1>4
  <2> QED
    BY <2>2, <2>3 DEF Documented
<1>7. /\ vs = <<>> => NoVault(vault) \/ "--vault" \in DOMAIN r.opts
      /\ vs # <<>> => ~NoVault(vault) /\ vs = <<Value(VaultPath(vault))>>
  <2>1. vs = <<>> => HasVaultArg(args) \/ NoVault(vault)
    <3>1. <<Value(VaultPath(vault))>> # <<>> /\ <<Opt("--vault"), VaultPath(vault)>> # <<>>
      OBVIOUS
    <3> QED
      BY <3>1 DEF Ahead, VaultArg
  <2>2. HasVaultArg(args) => "--vault" \in DOMAIN r.opts
    <3>1. ~IsBad(r) /\ r.want \in {"", "--"}
      BY <1>4 DEF Complete, IsBad
    <3>2. "--vault" \in Seen(r) <=> HasVaultArg(args)
      BY <3>1, ReadsVault
    <3> QED
      BY <3>1, <3>2 DEF Seen
  <2>3. vs # <<>> => ~NoVault(vault) /\ vs = <<Value(VaultPath(vault))>>
    BY DEF Ahead, VaultArg
  <2> QED
    BY <2>1, <2>2, <2>3
<1>8. OptsAlike(r.opts, q.opts, vs) /\ SameTexts(r.pos, q.pos) /\ q.cmd = r.cmd /\ q.tail = r.tail
  BY <1>1, <1>4 DEF SameCommand
<1> HIDE DEF r, q, vs, T
<1>9. q.opts = MeantOpts(r.opts, vault)
  <2> DEFINE a == r.opts
             b == q.opts
  <2>1. b = [o \in DOMAIN b |-> b[o]] /\ OptsAlike(a, b, vs) /\ OptsExact(a, b)
    BY <1>2, <1>5, <1>8 DEF Typed, Exact
  <2>2. /\ vs = <<>> => NoVault(vault) \/ "--vault" \in DOMAIN a
        /\ vs # <<>> => ~NoVault(vault) /\ vs = <<Value(VaultPath(vault))>>
    BY <1>7
  <2> HIDE DEF a, b
  <2>3. b = MeantOpts(a, vault)
    BY <2>1, <2>2, OptsAreMeant
  <2> QED
    BY <2>3 DEF a, b
<1>10. q.pos = IF r.cmd = "import" THEN <<Windows(r.pos[1])>> ELSE r.pos
  <2>1. CASE r.cmd = "import"
    <3> DEFINE a == r.pos
               b == q.pos
               V == Values(S)
               W == Values(T)
    <3>1. Len(a) = 1
      BY <1>4, <2>1 DEF Complete, Positionals
    <3>2. a \in Seq(V) /\ b \in Seq(W) /\ SameTexts(a, b)
      BY <1>5, <1>8 DEF Typed
    <3>3. a # <<>>
      <4>1. Len(<<>>) = 0
        BY EmptySeq
      <4> HIDE DEF a
      <4> QED
        BY <3>1, <4>1
    <3>4. b[1] = Windows(a[1])
      BY <1>2, <1>6, <2>1, <3>3 DEF Exact
    <3> HIDE DEF a, b, V, W
    <3>5. b = <<Windows(a[1])>>
      BY <3>1, <3>2, <3>4, PosIsMeant
    <3> QED
      BY <2>1, <3>5 DEF a, b
  <2>2. CASE r.cmd # "import"
    BY <1>2, <2>2 DEF Exact
  <2> QED
    BY <2>1, <2>2
<1> QED
  <2>1. Meant(args, vault)
          = [ok |-> TRUE, cmd |-> r.cmd, opts |-> MeantOpts(r.opts, vault),
             pos |-> IF r.cmd = "import" THEN <<Windows(r.pos[1])>> ELSE r.pos, tail |-> r.tail]
    BY <1>4, MeantIs
  <2> QED
    BY <1>4, <1>8, <1>9, <1>10, <2>1

-----------------------------------------------------------------------------
(* The shim's own reader, for `ssh add` and `ssh remove`                    *)

SState(want, pos, globals, seen) ==
  [want |-> want, pos |-> pos, globals |-> globals, seen |-> seen]

SGood(s) == s = SState(s.want, s.pos, s.globals, s.seen)

SIs(s, want, pos, globals, seen) ==
  SGood(s) /\ s.want = want /\ s.pos = pos /\ s.globals = globals /\ s.seen = seen

WordOf(t) == [t EXCEPT !.form = "word", !.opt = ""]

LEMMA SStateIs ==
  ASSUME NEW want, NEW pos, NEW globals, NEW seen, NEW s, s = SState(want, pos, globals, seen)
  PROVE  SIs(s, want, pos, globals, seen)
  BY DEF SState, SIs, SGood

LEMMA ForwardedIs ==
  ASSUME NEW s, SGood(s), NEW o, NEW values
  PROVE  Forwarded(s, o, values) = SState("", s.pos, s.globals \o (<<Opt(o)>> \o values), s.seen)
<1>1. PICK want, pos, globals, seen : s = SState(want, pos, globals, seen)
  BY DEF SGood
<1> DEFINE more == <<Opt(o)>> \o values
<1> HIDE DEF more
<1>2. [s EXCEPT !.globals = @ \o more, !.want = ""] = SState("", s.pos, s.globals \o more, s.seen)
  <2> DEFINE z == [s EXCEPT !.globals = @ \o more, !.want = ""]
  <2>1. z = [x \in {"want", "pos", "globals", "seen"} |-> z[x]]
    BY <1>1 DEF SState
  <2>2. z.want = "" /\ z.pos = s.pos /\ z.globals = s.globals \o more /\ z.seen = s.seen
    BY <1>1 DEF SState
  <2> HIDE DEF z
  <2>3. z = SState("", s.pos, s.globals \o more, s.seen)
    BY <2>1, <2>2 DEF SState
  <2> QED
    BY <2>3 DEF z
<1> QED
  BY <1>2 DEF Forwarded, more

LEMMA TakenIs ==
  ASSUME NEW s, SGood(s), NEW o, NEW t
  PROVE  /\ o \in GlobalOpts =>
              Taken(s, o, t) = SState("", s.pos, s.globals \o (<<Opt(o)>> \o <<t>>), s.seen)
         /\ o \notin GlobalOpts =>
              Taken(s, o, t) = SState("", s.pos, s.globals, s.seen \cup {o})
<1>1. PICK want, pos, globals, seen : s = SState(want, pos, globals, seen)
  BY DEF SGood
<1> QED
  BY <1>1 DEF SState, Taken, Forwarded

(* What it does to a token.                                                 *)
SshMove(s, t, u) ==
  LET o == Canonical(t.opt)
  IN  /\ s.want = "refused" => u = s
      /\ s.want \in SshOpts => u = Taken(s, s.want, t)
      /\ s.want = "" /\ t.form = "word" =>
           u = SState("", Append(s.pos, t), s.globals, s.seen)
      /\ s.want = "" /\ t.form = "inline" /\ o \in SshOpts => u = Taken(s, o, WordOf(t))
      /\ s.want = "" /\ t.form = "opt" /\ o \in SshOpts =>
           u = SState(o, s.pos, s.globals, s.seen)
      /\ s.want = "" /\ t.form = "opt" /\ o = "--json" => u = s
      /\ s.want = "" /\ t.form = "opt" /\ o \in {"-q", "--no-input"} =>
           u = SState("", s.pos, s.globals \o (<<Opt(o)>> \o <<>>), s.seen)
      /\ \/ s.want = "" /\ t.form \in {"dashes", "attached"}
         \/ s.want = "" /\ t.form = "inline" /\ o \notin SshOpts
         \/ s.want = "" /\ t.form = "opt" /\ o \notin SshOpts \cup GlobalFlags
         => u = SState("refused", s.pos, s.globals, s.seen)

LEMMA SshMoves ==
  ASSUME NEW s, SGood(s), NEW t
  PROVE  SshMove(s, t, SshToken(s, t))
<1>1. PICK want, pos, globals, seen : s = SState(want, pos, globals, seen)
  BY DEF SGood
<1> DEFINE o == Canonical(t.opt)
           u == SshToken(s, t)
<1>2. "" \notin SshOpts /\ "refused" \notin SshOpts /\ "--json" \notin SshOpts
      /\ "-q" \notin SshOpts /\ "--no-input" \notin SshOpts
  BY DEF SshOpts, GlobalOpts
<1>3. s.want = "refused" => u = s
  BY <1>1, <1>2 DEF SshToken
<1>4. s.want \in SshOpts => u = Taken(s, s.want, t)
  BY <1>2 DEF SshToken
<1>5. s.want = "" /\ t.form = "word" => u = SState("", Append(s.pos, t), s.globals, s.seen)
  BY <1>1, <1>2 DEF SshToken, SState
<1>6. s.want = "" /\ t.form = "inline" /\ o \in SshOpts => u = Taken(s, o, WordOf(t))
  BY <1>1, <1>2 DEF SshToken, WordOf
<1>7. s.want = "" /\ t.form = "opt" /\ o \in SshOpts => u = SState(o, s.pos, s.globals, s.seen)
  BY <1>1, <1>2 DEF SshToken, SState
<1>8. s.want = "" /\ t.form = "opt" /\ o = "--json" => u = s
  BY <1>1, <1>2 DEF SshToken
<1>9. s.want = "" /\ t.form = "opt" /\ o \in {"-q", "--no-input"} =>
        u = SState("", s.pos, s.globals \o (<<Opt(o)>> \o <<>>), s.seen)
  <2>1. s.want = "" /\ t.form = "opt" /\ o \in {"-q", "--no-input"} => u = Forwarded(s, o, <<>>)
    BY <1>1, <1>2 DEF SshToken
  <2>2. Forwarded(s, o, <<>>) = SState("", s.pos, s.globals \o (<<Opt(o)>> \o <<>>), s.seen)
    <3> HIDE DEF o
    <3> QED
      BY ForwardedIs
  <2> QED
    BY <2>1, <2>2
<1>10. s.want = "" /\ t.form \in {"dashes", "attached"} =>
         u = SState("refused", s.pos, s.globals, s.seen)
  BY <1>1, <1>2 DEF SshToken, SState, Refused
<1>11. s.want = "" /\ t.form = "inline" /\ o \notin SshOpts =>
         u = SState("refused", s.pos, s.globals, s.seen)
  BY <1>1, <1>2 DEF SshToken, SState, Refused
<1>12. s.want = "" /\ t.form = "opt" /\ o \notin SshOpts \cup GlobalFlags =>
         u = SState("refused", s.pos, s.globals, s.seen)
  BY <1>1, <1>2 DEF SshToken, SState, Refused, GlobalFlags
<1> QED
  BY <1>3, <1>4, <1>5, <1>6, <1>7, <1>8, <1>9, <1>10, <1>11, <1>12 DEF SshMove

-----------------------------------------------------------------------------
(* What wcm makes of the options that are forwarded                         *)

LEMMA FlagMore ==
  ASSUME NEW T, NEW x \in Seq(T), NEW a \in T
  PROVE  /\ x \o (<<a>> \o <<>>) \in Seq(T)
         /\ Reading(x \o (<<a>> \o <<>>)) = ReadToken(Reading(x), a)
<1> DEFINE one == <<a>>
           y == Append(x, a)
<1>1. one \in Seq(T) /\ one \o <<>> = one
  <2>1. one \in Seq(T)
    OBVIOUS
  <2> HIDE DEF one
  <2>2. one \o <<>> = one
    BY <2>1, ConcatEmptySeq
  <2> QED
    BY <2>1, <2>2
<1>2. x \o one = y /\ y \in Seq(T)
  <2>1. x \o one = y
    BY OneValue
  <2> QED
    BY <2>1
<1>3. Reading(y) = ReadToken(Reading(x), a)
  BY OneMore
<1> HIDE DEF one, y
<1> QED
  BY <1>1, <1>2, <1>3 DEF one

LEMMA OptionMore ==
  ASSUME NEW T, NEW x \in Seq(T), NEW a \in T, NEW b \in T
  PROVE  /\ x \o (<<a>> \o <<b>>) \in Seq(T)
         /\ Reading(x \o (<<a>> \o <<b>>)) = ReadToken(ReadToken(Reading(x), a), b)
<1> DEFINE one == <<a>>
           y == Append(x, a)
<1>1. one \in Seq(T) /\ one \o <<b>> = Append(one, b)
  <2>1. one \in Seq(T)
    OBVIOUS
  <2> HIDE DEF one
  <2>2. one \o <<b>> = Append(one, b)
    BY <2>1, OneValue
  <2> QED
    BY <2>1, <2>2
<1>2. x \o one = y /\ y \in Seq(T)
  <2>1. x \o one = y
    BY OneValue
  <2> QED
    BY <2>1
<1> HIDE DEF one
<1>3. x \o Append(one, b) = Append(x \o one, b)
  BY <1>1
<1>4. Reading(y) = ReadToken(Reading(x), a)
  BY OneMore
<1> HIDE DEF y
<1>5. Reading(Append(y, b)) = ReadToken(Reading(y), b) /\ Append(y, b) \in Seq(T)
  BY <1>2, OneMore
<1> QED
  BY <1>1, <1>2, <1>3, <1>4, <1>5 DEF one

LEMMA ForwardsAre ==
  ASSUME NEW o \in Forwards
  PROVE  /\ Opt(o).form = "opt" /\ Opt(o).opt = o /\ Canonical(o) = o /\ IsToken(Opt(o))
         /\ o \notin {"", "--", "refused"}
         /\ \A cmd : IF o \in GlobalOpts THEN o \in OptsOf(cmd) ELSE o \in FlagsOf(cmd) \ OptsOf(cmd)
         /\ \A cmd : o \notin Repeatable(cmd)
<1>1. o \in {"--vault", "--slot", "-q", "--no-input"}
  BY DEF Forwards, GlobalOpts
<1>2. Opt(o).form = "opt" /\ Opt(o).opt = o /\ Canonical(o) = o
  BY <1>1 DEF Opt, Token, Canonical
<1>3. IsToken(Opt(o))
  BY <1>1 DEF IsToken, Opt, Token, Dashes
<1>4. o \in GlobalOpts => \A cmd : o \in OptsOf(cmd)
  BY DEF OptsOf
<1>5. o \notin GlobalOpts => \A cmd : o \in FlagsOf(cmd) /\ o \notin OptsOf(cmd)
  <2>1. CASE o \in {"-q", "--no-input"}
    <3>1. \A cmd : o \in FlagsOf(cmd)
      BY <2>1 DEF FlagsOf, GlobalFlags
    <3>2. \A cmd : o \notin OptsOf(cmd)
      BY <2>1 DEF OptsOf, GlobalOpts
    <3> QED
      BY <3>1, <3>2
  <2> QED
    BY <1>1, <2>1 DEF GlobalOpts
<1>6. \A cmd : o \notin Repeatable(cmd)
  BY <1>1 DEF Repeatable
<1> QED
  BY <1>1, <1>2, <1>3, <1>4, <1>5, <1>6

LEMMA StateIsGood ==
  ASSUME NEW want, want # "refused", NEW cmd, NEW opts, NEW here, NEW pos, NEW tail, NEW r,
         r = State(want, cmd, opts, here, pos, tail)
  PROVE  Good(r) /\ Is(r, want, cmd, opts, here, pos, tail)
<1>1. Is(r, want, cmd, opts, here, pos, tail)
  BY StateIs
<1>2. Good(r)
  BY <1>1 DEF Is, Good
<1> QED
  BY <1>1, <1>2

Ready(g) == Good(g) /\ g.want = ""

AfterOption(g, o, t, m) ==
  \/ IsBad(m) /\ ~(t.form = "word" /\ o \notin g.here)
  \/ Ready(m) /\ Is(m, "", g.cmd, Extended(g.opts, g.here, o, <<Value(t)>>), g.here \cup {o}, g.pos, g.tail)

AfterFlag(g, o, m) ==
  \/ IsBad(m) /\ o \in g.here
  \/ Ready(m) /\ Is(m, "", g.cmd, Extended(g.opts, g.here, o, <<>>), g.here \cup {o}, g.pos, g.tail)

LEMMA OptionForwarded ==
  ASSUME NEW g, Ready(g), NEW o \in GlobalOpts, NEW t, IsToken(t),
         NEW n, n = ReadToken(g, Opt(o)), NEW m, m = ReadToken(n, t)
  PROVE  AfterOption(g, o, t, m)
<1> DEFINE a == Opt(o)
<1>1. /\ a.form = "opt" /\ a.opt = o /\ Canonical(o) = o /\ o \in OptsOf(g.cmd)
      /\ o \notin {"", "--", "refused"}
  BY ForwardsAre DEF Forwards
<1> HIDE DEF a
<1>2. IsOption(g, a)
  BY <1>1 DEF IsOption, Ready
<1>3. n = State(o, g.cmd, g.opts, g.here, g.pos, g.tail)
  <2>1. n = State(Canonical(a.opt), g.cmd, g.opts, g.here, g.pos, g.tail)
    BY <1>2, GoodReads DEF Ready, a
  <2> QED
    BY <1>1, <2>1
<1>4. Good(n) /\ Is(n, o, g.cmd, g.opts, g.here, g.pos, g.tail)
  BY <1>1, <1>3, StateIsGood
<1>5. IsBad(m) \/ IsValue(n, t)
  <2>1. ~InTail(n, t) /\ ~InRest(n, t) /\ ~IsEnd(n, t) /\ ~IsOption(n, t) /\ ~IsFlag(n, t)
        /\ ~IsInline(n, t) /\ ~IsCommand(n, t) /\ ~IsSshCommand(n, t) /\ ~IsPositional(n, t)
    BY <1>1, <1>4 DEF Is, InTail, InRest, IsEnd, IsOption, IsFlag, IsInline, IsCommand,
                      IsSshCommand, IsPositional
  <2> QED
    BY <1>4, <2>1, GoodOrBad
<1>6. ASSUME IsValue(n, t)
      PROVE  Ready(m) /\ Is(m, "", g.cmd, Extended(g.opts, g.here, o, <<Value(t)>>), g.here \cup {o}, g.pos, g.tail)
  <2>1. m = State("", n.cmd, Extended(n.opts, n.here, n.want, <<Value(t)>>), n.here \cup {n.want}, n.pos, n.tail)
    BY <1>4, <1>6, GoodReads
  <2>2. m = State("", g.cmd, Extended(g.opts, g.here, o, <<Value(t)>>), g.here \cup {o}, g.pos, g.tail)
    BY <1>4, <2>1 DEF Is
  <2>3. Good(m) /\ Is(m, "", g.cmd, Extended(g.opts, g.here, o, <<Value(t)>>), g.here \cup {o}, g.pos, g.tail)
    BY <2>2, StateIsGood
  <2> QED
    BY <2>3 DEF Ready, Is
<1>7. t.form = "word" /\ o \notin g.here => IsValue(n, t)
  BY <1>1, <1>4 DEF Is, IsValue, May
<1> QED
  BY <1>5, <1>6, <1>7 DEF AfterOption

LEMMA FlagForwarded ==
  ASSUME NEW g, Ready(g), NEW o \in {"-q", "--no-input"}, NEW m, m = ReadToken(g, Opt(o))
  PROVE  AfterFlag(g, o, m)
<1> DEFINE t == Opt(o)
<1>1. o \notin GlobalOpts
  BY DEF GlobalOpts
<1>2. /\ t.form = "opt" /\ t.opt = o /\ Canonical(o) = o /\ IsToken(t)
      /\ o \in FlagsOf(g.cmd) \ OptsOf(g.cmd) /\ o \notin {"", "--", "refused"}
      /\ o \notin Repeatable(g.cmd)
  BY <1>1, ForwardsAre DEF Forwards
<1> HIDE DEF t
<1>3. IsBad(m) \/ IsFlag(g, t)
  <2>1. ~InTail(g, t) /\ ~InRest(g, t) /\ ~IsEnd(g, t) /\ ~IsOption(g, t) /\ ~IsValue(g, t)
        /\ ~IsInline(g, t) /\ ~IsCommand(g, t) /\ ~IsSshCommand(g, t) /\ ~IsPositional(g, t)
    BY <1>2 DEF Ready, InTail, InRest, IsEnd, IsOption, IsValue, IsInline, IsCommand,
                IsSshCommand, IsPositional
  <2>2. m = ReadToken(g, t)
    BY DEF t
  <2> QED
    BY <1>2, <2>1, <2>2, GoodOrBad DEF Ready
<1>4. ASSUME IsFlag(g, t)
      PROVE  Ready(m) /\ Is(m, "", g.cmd, Extended(g.opts, g.here, o, <<>>), g.here \cup {o}, g.pos, g.tail)
  <2>1. m = State("", g.cmd, Extended(g.opts, g.here, Canonical(t.opt), <<>>), g.here \cup {Canonical(t.opt)}, g.pos, g.tail)
    BY <1>4, GoodReads DEF Ready, t
  <2>2. m = State("", g.cmd, Extended(g.opts, g.here, o, <<>>), g.here \cup {o}, g.pos, g.tail)
    BY <1>2, <2>1
  <2>3. Good(m) /\ Is(m, "", g.cmd, Extended(g.opts, g.here, o, <<>>), g.here \cup {o}, g.pos, g.tail)
    BY <2>2, StateIsGood
  <2> QED
    BY <2>3 DEF Ready, Is
<1>5. o \notin g.here => IsFlag(g, t)
  BY <1>2 DEF Ready, IsFlag, May
<1> QED
  BY <1>3, <1>4, <1>5 DEF AfterFlag

-----------------------------------------------------------------------------
(* What the shim's reader has taken                                         *)

Words(T) == {t \in T : t.form = "word"}

ToForward(T) ==
  {e \in T \cup {Opt(o) : o \in Forwards} \cup {WordOf(t) : t \in T} : IsToken(e)}

(* A reader to whom nothing but such options was given.                     *)
Fresh(g) ==
  Ready(g) /\ g.cmd = "" /\ g.pos = <<>> /\ g.here = DOMAIN g.opts /\ g.here \subseteq Forwards

OnlyOptions(g) == IsBad(g) \/ Fresh(g)

LEMMA FreshExtended ==
  ASSUME NEW g, Fresh(g), NEW o \in Forwards, NEW values, NEW m, Ready(m),
         Is(m, "", g.cmd, Extended(g.opts, g.here, o, values), g.here \cup {o}, g.pos, g.tail)
  PROVE  Fresh(m)
<1>1. /\ m.cmd = g.cmd /\ m.pos = g.pos /\ DOMAIN m.opts = DOMAIN g.opts \cup {o}
      /\ m.here = g.here \cup {o}
  BY DEF Is, Extended
<1> QED
  BY <1>1 DEF Fresh

STyped(s, T) ==
  /\ SGood(s) /\ s.want \in {"", "refused"} \cup SshOpts
  /\ s.pos \in Seq(Words(T)) /\ s.globals \in Seq(ToForward(T))
  /\ OnlyOptions(Reading(s.globals))

LEMMA WordOfIs ==
  ASSUME NEW t, IsToken(t)
  PROVE  IsToken(WordOf(t)) /\ WordOf(t).form = "word" /\ Value(WordOf(t)) = Value(t)
<1>1. PICK form, opt, text, win : t = Token(form, opt, text, win) /\ win \in BOOLEAN
  BY DEF IsToken
<1> DEFINE e == WordOf(t)
<1>2. e = [x \in {"form", "opt", "text", "win"} |-> e[x]]
  BY <1>1 DEF WordOf, Token
<1>3. e.form = "word" /\ e.opt = "" /\ e.text = t.text /\ e.win = t.win
  BY <1>1 DEF WordOf, Token
<1> HIDE DEF e
<1>6. e = Token("word", "", e.text, e.win)
  BY <1>2, <1>3 DEF Token
<1>7. e.win \in BOOLEAN
  BY <1>3 DEF IsToken
<1>4. IsToken(e)
  <2>1. e.form = "word"
    BY <1>3
  <2> QED
    BY <1>3, <1>6, <1>7 DEF IsToken
<1>5. Value(e) = Value(t)
  BY <1>3 DEF Value
<1> QED
  BY <1>3, <1>4, <1>5 DEF e

LEMMA STypedState ==
  ASSUME NEW T, NEW want \in {"", "refused"} \cup SshOpts, NEW pos \in Seq(Words(T)),
         NEW globals \in Seq(ToForward(T)), OnlyOptions(Reading(globals)), NEW seen,
         NEW s, s = SState(want, pos, globals, seen)
  PROVE  STyped(s, T)
<1>1. SIs(s, want, pos, globals, seen)
  BY SStateIs
<1> QED
  BY <1>1 DEF STyped, SIs

LEMMA OptionTaken ==
  ASSUME NEW T, NEW s, STyped(s, T), NEW o \in SshOpts, NEW t \in ToForward(T)
  PROVE  STyped(Taken(s, o, t), T)
<1> DEFINE G == ToForward(T)
           x == s.globals
           y == x \o (<<Opt(o)>> \o <<t>>)
           pos == s.pos
<1>1. pos \in Seq(Words(T)) /\ x \in Seq(G) /\ OnlyOptions(Reading(x)) /\ SGood(s)
  BY DEF STyped
<1>2. CASE o \in GlobalOpts
  <2>1. IsToken(Opt(o)) /\ IsToken(t)
    BY <1>2, ForwardsAre DEF Forwards, ToForward
  <2>2. Opt(o) \in G
    BY <1>2, <2>1 DEF ToForward, Forwards
  <2> DEFINE a == Opt(o)
  <2> HIDE DEF G, x, a
  <2>3. /\ x \o (<<a>> \o <<t>>) \in Seq(G)
        /\ Reading(x \o (<<a>> \o <<t>>)) = ReadToken(ReadToken(Reading(x), a), t)
    BY <1>1, <2>2, OptionMore DEF G, a
  <2>4. OnlyOptions(Reading(y))
    <3>1. CASE IsBad(Reading(x))
      <4>1. IsBad(ReadToken(ReadToken(Reading(x), a), t))
        BY <3>1, BadStays
      <4> QED
        BY <2>3, <4>1 DEF OnlyOptions, a
    <3>2. CASE Fresh(Reading(x))
      <4> DEFINE g == Reading(x)
                 n == ReadToken(g, a)
                 m == ReadToken(n, t)
      <4>1. Fresh(g) /\ Ready(g) /\ n = ReadToken(g, Opt(o)) /\ m = ReadToken(n, t)
        BY <3>2 DEF a, Fresh
      <4>2. m = Reading(y)
        BY <2>3 DEF a
      <4> HIDE DEF g, n, m
      <4>3. IsBad(m) \/ Fresh(m)
        <5>1. AfterOption(g, o, t, m)
          BY <1>2, <2>1, <4>1, OptionForwarded
        <5>2. \/ IsBad(m)
              \/ Ready(m) /\ Is(m, "", g.cmd, Extended(g.opts, g.here, o, <<Value(t)>>), g.here \cup {o}, g.pos, g.tail)
          BY <5>1 DEF AfterOption
        <5>3. o \in Forwards
          BY <1>2 DEF Forwards
        <5> QED
          BY <4>1, <5>2, <5>3, FreshExtended
      <4> HIDE DEF y
      <4> QED
        BY <4>2, <4>3 DEF OnlyOptions
    <3> QED
      BY <1>1, <3>1, <3>2 DEF OnlyOptions
  <2>5. Taken(s, o, t) = SState("", pos, y, s.seen)
    BY <1>1, <1>2, TakenIs DEF x
  <2>6. y \in Seq(G)
    BY <2>3 DEF a
  <2> HIDE DEF y, pos
  <2> QED
    BY <1>1, <2>4, <2>5, <2>6, STypedState DEF G
<1>3. CASE o \notin GlobalOpts
  <2>1. Taken(s, o, t) = SState("", pos, x, s.seen \cup {o})
    BY <1>1, <1>3, TakenIs
  <2> HIDE DEF x, pos
  <2> QED
    BY <1>1, <2>1, STypedState
<1> QED
  BY <1>2, <1>3

LEMMA SshTypedSteps ==
  ASSUME NEW T, NEW s, STyped(s, T), NEW t \in T, IsToken(t), NEW u, u = SshToken(s, t)
  PROVE  STyped(u, T)
<1> DEFINE o == Canonical(t.opt)
           x == s.globals
           pos == s.pos
           G == ToForward(T)
<1>1. /\ pos \in Seq(Words(T)) /\ x \in Seq(G) /\ OnlyOptions(Reading(x)) /\ SGood(s)
      /\ s.want \in {"", "refused"} \cup SshOpts
  BY DEF STyped
<1>2. SshMove(s, t, u)
  BY <1>1, SshMoves
<1>3. /\ s.want = "refused" => u = s
      /\ s.want \in SshOpts => u = Taken(s, s.want, t)
      /\ s.want = "" /\ t.form = "word" => u = SState("", Append(pos, t), x, s.seen)
      /\ s.want = "" /\ t.form = "inline" /\ o \in SshOpts => u = Taken(s, o, WordOf(t))
      /\ s.want = "" /\ t.form = "opt" /\ o \in SshOpts => u = SState(o, pos, x, s.seen)
      /\ s.want = "" /\ t.form = "opt" /\ o = "--json" => u = s
      /\ s.want = "" /\ t.form = "opt" /\ o \in {"-q", "--no-input"} =>
           u = SState("", pos, x \o (<<Opt(o)>> \o <<>>), s.seen)
      /\ \/ s.want = "" /\ t.form \in {"dashes", "attached"}
         \/ s.want = "" /\ t.form = "inline" /\ o \notin SshOpts
         \/ s.want = "" /\ t.form = "opt" /\ o \notin SshOpts \cup GlobalFlags
         => u = SState("refused", pos, x, s.seen)
  BY <1>2 DEF SshMove
<1>4. t \in G /\ WordOf(t) \in G
  BY WordOfIs DEF ToForward
<1>5. t.form \in {"word", "opt", "inline", "attached", "dashes"}
  BY DEF IsToken
<1> HIDE DEF x, pos, G
<1>6. CASE s.want = "refused" \/ (s.want = "" /\ t.form = "opt" /\ o = "--json")
  BY <1>3, <1>6
<1>7. CASE s.want \in SshOpts
  <2>1. STyped(Taken(s, s.want, t), T)
    BY <1>4, <1>7, OptionTaken DEF G
  <2> QED
    BY <1>3, <1>7, <2>1
<1>8. CASE s.want = "" /\ t.form = "word"
  <2>1. Append(pos, t) \in Seq(Words(T))
    <3>1. t \in Words(T)
      BY <1>8 DEF Words
    <3> DEFINE W == Words(T)
    <3>2. t \in W /\ pos \in Seq(W)
      BY <1>1, <3>1
    <3> HIDE DEF W
    <3>3. Append(pos, t) \in Seq(W)
      BY <3>2
    <3> QED
      BY <3>3 DEF W
  <2> QED
    BY <1>1, <1>3, <1>8, <2>1, STypedState DEF G
<1>9. CASE s.want = "" /\ t.form = "inline" /\ o \in SshOpts
  <2>1. STyped(Taken(s, o, WordOf(t)), T)
    BY <1>4, <1>9, OptionTaken DEF G
  <2> QED
    BY <1>3, <1>9, <2>1
<1>10. CASE s.want = "" /\ t.form = "opt" /\ o \in SshOpts
  <2> HIDE DEF o
  <2> QED
    BY <1>1, <1>3, <1>10, STypedState DEF G
<1>11. CASE s.want = "" /\ t.form = "opt" /\ o \in {"-q", "--no-input"}
  <2>1. Opt(o) \in G
    BY <1>11, ForwardsAre DEF ToForward, Forwards, G
  <2> DEFINE a == Opt(o)
             y == x \o (<<a>> \o <<>>)
  <2> HIDE DEF a, o
  <2>2. y \in Seq(G) /\ Reading(y) = ReadToken(Reading(x), a)
    BY <1>1, <2>1, FlagMore DEF a
  <2>3. OnlyOptions(Reading(y))
    <3>1. CASE IsBad(Reading(x))
      <4>1. IsBad(ReadToken(Reading(x), a))
        BY <3>1, BadStays
      <4> QED
        BY <2>2, <4>1 DEF OnlyOptions
    <3>2. CASE Fresh(Reading(x))
      <4> DEFINE g == Reading(x)
                 m == Reading(y)
      <4>1. Fresh(g) /\ Ready(g) /\ m = ReadToken(g, Opt(o)) /\ o \in Forwards
        BY <1>11, <2>2, <3>2 DEF a, Fresh, Forwards
      <4> HIDE DEF g, m
      <4>2. AfterFlag(g, o, m)
        BY <1>11, <4>1, FlagForwarded
      <4>3. \/ IsBad(m)
            \/ Ready(m) /\ Is(m, "", g.cmd, Extended(g.opts, g.here, o, <<>>), g.here \cup {o}, g.pos, g.tail)
        BY <4>2 DEF AfterFlag
      <4>4. IsBad(m) \/ Fresh(m)
        BY <4>1, <4>3, FreshExtended
      <4> QED
        BY <4>4 DEF OnlyOptions, m
    <3> QED
      BY <1>1, <3>1, <3>2 DEF OnlyOptions
  <2>4. u = SState("", pos, y, s.seen)
    BY <1>3, <1>11 DEF a
  <2> HIDE DEF y
  <2> QED
    BY <1>1, <2>2, <2>3, <2>4, STypedState DEF G
<1>12. CASE \/ s.want = "" /\ t.form \in {"dashes", "attached"}
            \/ s.want = "" /\ t.form = "inline" /\ o \notin SshOpts
            \/ s.want = "" /\ t.form = "opt" /\ o \notin SshOpts \cup GlobalFlags
  BY <1>1, <1>3, <1>12, STypedState DEF G
<1> QED
  BY <1>1, <1>5, <1>6, <1>7, <1>8, <1>9, <1>10, <1>11, <1>12 DEF GlobalFlags

LEMMA SshReads ==
  ASSUME NEW T, \A t \in T : IsToken(t), NEW w \in Seq(T)
  PROVE  STyped(SshReading(w), T)
<1> DEFINE P == {x \in Seq(T) : STyped(SshReading(x), T)}
<1>1. <<>> \in P
  <2>1. NothingTaken = SState("", <<>>, <<>>, {})
    BY DEF NothingTaken, SState
  <2>2. <<>> \in Seq(Words(T)) /\ <<>> \in Seq(ToForward(T)) /\ <<>> \in Seq(T)
    BY EmptyIsSeq
  <2>3. OnlyOptions(Reading(<<>>))
    <3>1. NothingRead = State("", "", <<>>, {}, <<>>, <<>>)
      BY DEF NothingRead, State
    <3>2. Good(NothingRead) /\ Is(NothingRead, "", "", <<>>, {}, <<>>, <<>>)
      BY <3>1, StateFields, StateIs
    <3>3. OnlyOptions(NothingRead)
      BY <3>2, NoDomain DEF OnlyOptions, Fresh, Ready, Is
    <3> QED
      BY <3>3, NothingYet
  <2>4. STyped(NothingTaken, T)
    <3> DEFINE none == <<>>
               seen == {}
    <3> HIDE DEF none, seen
    <3>1. NothingTaken = SState("", none, none, seen)
      BY <2>1 DEF none, seen
    <3>2. none \in Seq(Words(T)) /\ none \in Seq(ToForward(T)) /\ OnlyOptions(Reading(none))
      BY <2>2, <2>3 DEF none
    <3> QED
      BY <3>1, <3>2, STypedState
  <2> QED
    BY <2>2, <2>4, NothingYet
<1>2. ASSUME NEW x \in Seq(T), NEW t \in T, x \in P
      PROVE  Append(x, t) \in P
  <2>1. SshReading(Append(x, t)) = SshToken(SshReading(x), t) /\ Append(x, t) \in Seq(T)
    BY OneMore
  <2> QED
    BY <1>2, <2>1, SshTypedSteps
<1> HIDE DEF P
<1>3. w \in P
  BY <1>1, <1>2, Rd!Lengthen
<1> QED
  BY <1>3 DEF P

-----------------------------------------------------------------------------
(* What wcm.exe is asked for when the key is to be fetched                  *)

LEMMA ThreeIs ==
  ASSUME NEW T, NEW a \in T, NEW b \in T, NEW c \in T
  PROVE  Append(Append(<<a>>, b), c) = <<a, b, c>>
<1> DEFINE x == Append(Append(<<a>>, b), c)
           y == <<a, b, c>>
<1>1. /\ x \in Seq(T) /\ Len(x) = 3
      /\ x[1] = a /\ x[2] = b /\ x[3] = c
  OBVIOUS
<1>2. /\ y \in Seq(T) /\ Len(y) = 3
      /\ y[1] = a /\ y[2] = b /\ y[3] = c
  OBVIOUS
<1>3. \A i \in 1..3 : i = 1 \/ i = 2 \/ i = 3
  OBVIOUS
<1> HIDE DEF x, y
<1>4. \A i \in 1..Len(x) : x[i] = y[i]
  BY <1>1, <1>2, <1>3
<1>5. x = y
  BY <1>1, <1>2, <1>4, SeqEqual
<1> QED
  BY <1>5 DEF x, y

LEMMA FiveIs ==
  ASSUME NEW T, NEW a \in T, NEW b \in T, NEW c \in T, NEW d \in T, NEW e \in T
  PROVE  Append(Append(<<a, b, c>>, d), e) = <<a, b, c, d, e>>
<1> DEFINE u == Append(Append(<<a, b, c>>, d), e)
           v == <<a, b, c, d, e>>
<1>1. /\ u \in Seq(T) /\ Len(u) = 5
      /\ u[1] = a /\ u[2] = b /\ u[3] = c /\ u[4] = d /\ u[5] = e
  OBVIOUS
<1>2. /\ v \in Seq(T) /\ Len(v) = 5
      /\ v[1] = a /\ v[2] = b /\ v[3] = c /\ v[4] = d /\ v[5] = e
  OBVIOUS
<1>3. \A i \in 1..5 : i = 1 \/ i = 2 \/ i = 3 \/ i = 4 \/ i = 5
  OBVIOUS
<1> HIDE DEF u, v
<1>4. \A i \in 1..Len(u) : u[i] = v[i]
  BY <1>1, <1>2, <1>3
<1>5. u = v
  BY <1>1, <1>2, <1>4, SeqEqual
<1> QED
  BY <1>5 DEF u, v

Joined(x, y) == x \o y

LEMMA JoinedReads ==
  ASSUME NEW T, NEW x \in Seq(T), NEW y \in Seq(T), NEW t \in T
  PROVE  Reading(Joined(x, Append(y, t))) = ReadToken(Reading(Joined(x, y)), t)
<1> DEFINE v == x \o y
<1>1. v \in Seq(T) /\ x \o Append(y, t) = Append(v, t)
  OBVIOUS
<1> HIDE DEF v
<1>2. Reading(Append(v, t)) = ReadToken(Reading(v), t)
  BY <1>1, OneMore
<1> QED
  BY <1>1, <1>2 DEF v, Joined

LEMMA MoreIsSeq ==
  ASSUME NEW T, NEW y \in Seq(T), NEW t \in T
  PROVE  Append(y, t) \in Seq(T)
  OBVIOUS

LEMMA ThreeMore ==
  ASSUME NEW T, NEW x \in Seq(T), NEW a \in T, NEW b \in T, NEW c \in T
  PROVE  Reading(Joined(x, <<a, b, c>>)) = ReadToken(ReadToken(ReadToken(Reading(x), a), b), c)
<1> DEFINE one == <<a>>
<1>1. one \in Seq(T) /\ Joined(x, one) = Append(x, a)
  BY OneValue DEF Joined
<1>2. Append(Append(one, b), c) = <<a, b, c>>
  BY ThreeIs
<1>3. Reading(Append(x, a)) = ReadToken(Reading(x), a)
  BY OneMore
<1> HIDE DEF one
<1>4. Append(one, b) \in Seq(T)
  BY <1>1, MoreIsSeq
<1>5. Reading(Joined(x, Append(one, b))) = ReadToken(Reading(Joined(x, one)), b)
  BY <1>1, JoinedReads, ZenonT(30)
<1>6. Reading(Joined(x, Append(Append(one, b), c))) = ReadToken(Reading(Joined(x, Append(one, b))), c)
  BY <1>4, JoinedReads, ZenonT(30)
<1> QED
  BY <1>1, <1>2, <1>3, <1>5, <1>6

LEMMA FiveMore ==
  ASSUME NEW T, NEW x \in Seq(T), NEW a \in T, NEW b \in T, NEW c \in T, NEW d \in T, NEW e \in T
  PROVE  Reading(Joined(x, <<a, b, c, d, e>>))
           = ReadToken(ReadToken(Reading(Joined(x, <<a, b, c>>)), d), e)
<1> DEFINE three == <<a, b, c>>
<1>1. three \in Seq(T)
  OBVIOUS
<1>2. Append(Append(three, d), e) = <<a, b, c, d, e>>
  BY FiveIs
<1>3. three = <<a, b, c>>
  OBVIOUS
<1> HIDE DEF three
<1>4. Append(three, d) \in Seq(T)
  BY <1>1, MoreIsSeq
<1>5. Reading(Joined(x, Append(three, d))) = ReadToken(Reading(Joined(x, three)), d)
  BY <1>1, JoinedReads
<1>6. Reading(Joined(x, Append(Append(three, d), e)))
        = ReadToken(Reading(Joined(x, Append(three, d))), e)
  BY <1>4, JoinedReads, ZenonT(30)
<1> QED
  BY <1>2, <1>3, <1>5, <1>6

LEMMA WordIs ==
  ASSUME NEW text
  PROVE  /\ IsToken(Word(text)) /\ Word(text).form = "word" /\ Word(text).text = text
<1> DEFINE t == Word(text)
<1>1. t.form = "word" /\ t.opt = "" /\ t.text = text /\ t.win = FALSE
  BY DEF Word, Token
<1>2. t = Token(t.form, t.opt, t.text, t.win) /\ t.win \in BOOLEAN
  BY DEF Word, Token
<1> HIDE DEF t
<1> QED
  BY <1>1, <1>2 DEF t, IsToken

LEMMA OptIs ==
  ASSUME NEW o, o # ""
  PROVE  /\ IsToken(Opt(o)) /\ Opt(o).form = "opt" /\ Opt(o).opt = o
  BY DEF Opt, Token, IsToken, Dashes

LEMMA PubkeyReads ==
  ASSUME NEW g, Fresh(g), NEW name, IsToken(name), name.form = "word", NEW n,
         n = ReadToken(ReadToken(ReadToken(g, Word("ssh")), Word("pubkey")), name)
  PROVE  Good(n) /\ Is(n, "", "ssh pubkey", g.opts, {}, <<Value(name)>>, g.tail)
<1> DEFINE a == Word("ssh")
           b == Word("pubkey")
           x == ReadToken(g, a)
           y == ReadToken(x, b)
<1>1. /\ a.form = "word" /\ a.text = "ssh" /\ b.form = "word" /\ b.text = "pubkey"
  BY WordIs
<1>2. Good(g) /\ g.want = "" /\ g.cmd = "" /\ g.pos = <<>> /\ "ssh" \in Subcommands
  BY DEF Fresh, Ready, Subcommands
<1>3. SshCommand["pubkey"] = "ssh pubkey" /\ "pubkey" \in DOMAIN SshCommand
  BY DEF SshCommand
<1> HIDE DEF a, b
<1>4. IsCommand(g, a)
  BY <1>1, <1>2 DEF IsCommand
<1>5. x = State("", "ssh", g.opts, {}, g.pos, g.tail)
  BY <1>1, <1>2, <1>4, GoodReads
<1>6. Good(x) /\ Is(x, "", "ssh", g.opts, {}, g.pos, g.tail)
  BY <1>5, StateIsGood
<1> HIDE DEF x
<1>7. IsSshCommand(x, b)
  BY <1>1, <1>3, <1>6 DEF IsSshCommand, Is
<1>8. y = State("", SshCommand[b.text], x.opts, {}, x.pos, x.tail)
  BY <1>6, <1>7, GoodReads
<1>9. Good(y) /\ Is(y, "", SshCommand[b.text], x.opts, {}, x.pos, x.tail)
  BY <1>8, StateIsGood
<1>10. Good(y) /\ y.want = "" /\ y.cmd = "ssh pubkey" /\ y.opts = g.opts /\ y.pos = g.pos
       /\ y.tail = g.tail /\ y.here = {}
  BY <1>1, <1>3, <1>6, <1>9 DEF Is
<1>11. n = ReadToken(y, name)
  BY DEF a, b, x
<1> HIDE DEF y
<1>12. IsPositional(y, name)
  BY <1>10 DEF IsPositional
<1>13. n = State("", y.cmd, y.opts, y.here, Append(y.pos, Value(name)), y.tail)
  BY <1>10, <1>11, <1>12, GoodReads
<1>14. Good(n) /\ Is(n, "", y.cmd, y.opts, y.here, Append(y.pos, Value(name)), y.tail)
  BY <1>13, StateIsGood
<1>15. Append(<<>>, Value(name)) = <<Value(name)>>
  BY OneValue
<1> QED
  BY <1>2, <1>10, <1>14, <1>15 DEF Is

IsGet(m, g, name) ==
  /\ Good(m) /\ m.want = "" /\ m.cmd = "get" /\ m.pos = <<Value(name)>>
  /\ DOMAIN m.opts = DOMAIN g.opts \cup {"--field", "--raw"}
  /\ \A o \in DOMAIN g.opts : m.opts[o] = g.opts[o]

LEMMA GetReads ==
  ASSUME NEW g, Fresh(g), NEW name, IsToken(name), name.form = "word", NEW n,
         n = ReadToken(ReadToken(ReadToken(g, Word("get")), name), Opt("--field")),
         NEW m, m = ReadToken(ReadToken(n, Word("private_key")), Opt("--raw"))
  PROVE  IsGet(m, g, name)
<1> DEFINE a == Word("get")
           c == Opt("--field")
           d == Word("private_key")
           e == Opt("--raw")
           x == ReadToken(g, a)
           y == ReadToken(x, name)
           z == ReadToken(n, d)
<1>1. /\ a.form = "word" /\ a.text = "get" /\ c.form = "opt" /\ c.opt = "--field"
      /\ d.form = "word" /\ e.form = "opt" /\ e.opt = "--raw"
  BY WordIs, OptIs
<1>2. /\ Good(g) /\ g.want = "" /\ g.cmd = "" /\ g.pos = <<>>
      /\ DOMAIN g.opts \subseteq Forwards
  BY DEF Fresh, Ready
<1>3. /\ "get" \in Subcommands
      /\ Canonical("--field") = "--field" /\ "--field" \in OptsOf("get")
      /\ Canonical("--raw") = "--raw" /\ "--raw" \in FlagsOf("get") \ OptsOf("get")
      /\ Repeatable("get") = {}
  <2>1. Canonical("--field") = "--field" /\ Canonical("--raw") = "--raw" /\ "get" \in Subcommands
    BY DEF Canonical, Subcommands
  <2>2. OptsOf("get") = GlobalOpts \cup {"--field", "--out-file", "--clip-timeout"}
    BY DEF OptsOf
  <2>3. FlagsOf("get") = GlobalFlags \cup {"--raw", "--clip"} /\ Repeatable("get") = {}
    BY DEF FlagsOf, Repeatable
  <2> QED
    BY <2>1, <2>2, <2>3 DEF GlobalOpts
<1>4. "--field" \notin Forwards /\ "--raw" \notin Forwards
  BY DEF Forwards, GlobalOpts
<1>5. n = ReadToken(y, c) /\ m = ReadToken(z, e)
  OBVIOUS
<1> HIDE DEF a, c, d, e
<1>6. IsCommand(g, a)
  BY <1>1, <1>2, <1>3 DEF IsCommand
<1>7. x = State("", "get", g.opts, {}, g.pos, g.tail)
  BY <1>1, <1>2, <1>6, GoodReads
<1>8. Good(x) /\ Is(x, "", "get", g.opts, {}, g.pos, g.tail)
  BY <1>7, StateIsGood
<1> HIDE DEF x
<1>9. IsPositional(x, name)
  BY <1>8 DEF IsPositional, Is
<1>10. y = State("", x.cmd, x.opts, x.here, Append(x.pos, Value(name)), x.tail)
  BY <1>8, <1>9, GoodReads
<1>11. Good(y) /\ Is(y, "", x.cmd, x.opts, x.here, Append(x.pos, Value(name)), x.tail)
  BY <1>10, StateIsGood
<1> DEFINE vs == <<Value(name)>>
<1>12. Append(<<>>, Value(name)) = vs
  BY OneValue
<1> HIDE DEF vs
<1>13. Good(y) /\ y.want = "" /\ y.cmd = "get" /\ y.opts = g.opts /\ y.pos = vs
       /\ y.here = {}
  BY <1>2, <1>8, <1>11, <1>12 DEF Is
<1> HIDE DEF y
<1>14. IsOption(y, c)
  BY <1>1, <1>3, <1>13 DEF IsOption
<1>15. n = State(Canonical(c.opt), y.cmd, y.opts, y.here, y.pos, y.tail)
  BY <1>5, <1>13, <1>14, GoodReads
<1>16. Canonical(c.opt) = "--field"
  BY <1>1, <1>3
<1>17. Good(n) /\ Is(n, "--field", y.cmd, y.opts, y.here, y.pos, y.tail)
  BY <1>15, <1>16, StateIsGood
<1>18. Good(n) /\ n.want = "--field" /\ n.cmd = "get" /\ n.opts = g.opts /\ n.pos = vs
       /\ n.here = {}
  BY <1>13, <1>17 DEF Is
<1>19. IsValue(n, d)
  BY <1>1, <1>2, <1>3, <1>4, <1>18 DEF IsValue, May
<1>20. z = State("", n.cmd, Extended(n.opts, n.here, n.want, <<Value(d)>>), n.here \cup {n.want}, n.pos, n.tail)
  BY <1>18, <1>19, GoodReads
<1>21. Good(z) /\ Is(z, "", n.cmd, Extended(n.opts, n.here, n.want, <<Value(d)>>), n.here \cup {n.want}, n.pos, n.tail)
  BY <1>20, StateIsGood
<1>22. Good(z) /\ z.want = "" /\ z.cmd = "get" /\ z.pos = vs
       /\ z.opts = Extended(g.opts, {}, "--field", <<Value(d)>>)
       /\ z.here = {"--field"}
  BY <1>18, <1>21 DEF Is
<1> HIDE DEF z
<1>23. /\ DOMAIN z.opts = DOMAIN g.opts \cup {"--field"}
       /\ \A o \in DOMAIN g.opts : z.opts[o] = g.opts[o]
  <2>1. "--field" \notin DOMAIN g.opts
    BY <1>2, <1>4
  <2> QED
    BY <1>22, <2>1 DEF Extended
<1>24. IsFlag(z, e)
  <2>1. "--raw" \notin z.here
    BY <1>22
  <2> QED
    BY <1>1, <1>3, <1>22, <2>1 DEF IsFlag, May
<1>25. m = State("", z.cmd, Extended(z.opts, z.here, Canonical(e.opt), <<>>), z.here \cup {Canonical(e.opt)}, z.pos, z.tail)
  BY <1>5, <1>22, <1>24, GoodReads
<1>26. Good(m) /\ Is(m, "", z.cmd, Extended(z.opts, z.here, Canonical(e.opt), <<>>), z.here \cup {Canonical(e.opt)}, z.pos, z.tail)
  BY <1>25, StateIsGood
<1>27. Good(m) /\ m.want = "" /\ m.cmd = "get" /\ m.pos = vs
       /\ m.opts = Extended(z.opts, z.here, "--raw", <<>>)
  <2>1. Canonical(e.opt) = "--raw" /\ z.cmd = "get" /\ z.pos = vs
    BY <1>1, <1>3, <1>22
  <2>2. /\ m.want = "" /\ m.cmd = z.cmd /\ m.pos = z.pos
        /\ m.opts = Extended(z.opts, z.here, Canonical(e.opt), <<>>)
    BY <1>26, Zenon DEF Is
  <2> QED
    BY <1>26, <2>1, <2>2
<1>28. /\ DOMAIN m.opts = DOMAIN g.opts \cup {"--field", "--raw"}
       /\ \A o \in DOMAIN g.opts : m.opts[o] = g.opts[o]
  <2>1. "--raw" \notin DOMAIN g.opts
    BY <1>2, <1>4
  <2> QED
    BY <1>23, <1>27, <2>1, ZenonT(60) DEF Extended
<1> QED
  BY <1>27, <1>28 DEF vs, IsGet

-----------------------------------------------------------------------------
(* The command line of a fetch *)

IsAction(s, a) ==
  IF /\ s.want = "" /\ Len(s.pos) = 3 /\ s.pos[1].text = "ssh"
     /\ s.pos[2].text = "add" \/ (s.pos[2].text = "remove" /\ "--lifetime" \notin s.seen)
  THEN /\ a # NoAction /\ a.op \in {"add", "remove"} /\ a.op = s.pos[2].text
       /\ a.name = s.pos[3] /\ a.globals = s.globals
  ELSE a = NoAction

LEMMA ActionIs ==
  ASSUME NEW w
  PROVE  IsAction(SshReading(w), ParseSshAction(w))
<1> DEFINE s == SshReading(w)
           a == ParseSshAction(w)
           op == s.pos[2].text
           found == /\ s.want = "" /\ Len(s.pos) = 3 /\ s.pos[1].text = "ssh"
                    /\ op = "add" \/ (op = "remove" /\ "--lifetime" \notin s.seen)
           act == [op |-> op, name |-> s.pos[3], globals |-> s.globals]
<1>1. a = IF found THEN act ELSE NoAction
  BY DEF ParseSshAction, SshReading
<1>2. act.op = op /\ act.name = s.pos[3] /\ act.globals = s.globals /\ NoAction.op = "none"
  BY DEF NoAction
<1> HIDE DEF act
<1> SUFFICES IsAction(s, a)
  OBVIOUS
<1> HIDE DEF a, s
<1>3. CASE found
  <2>1. a = act /\ op \in {"add", "remove"}
    BY <1>1, <1>3
  <2>2. a # NoAction
    BY <1>2, <2>1
  <2> QED
    BY <1>2, <1>3, <2>1, <2>2 DEF IsAction
<1>4. CASE ~found
  BY <1>1, <1>4 DEF IsAction
<1> QED
  BY <1>3, <1>4

FetchCmd(op) == IF op = "add" THEN "get" ELSE "ssh pubkey"

(* What is read of the command line of a fetch, if g is read of the options *)
(* it begins with.                                                          *)
Fetches(a, g, r) ==
  /\ IsBad(g) => IsBad(r)
  /\ Fresh(g) =>
       /\ Good(r) /\ r.want = "" /\ r.cmd = FetchCmd(a.op) /\ r.pos = <<Value(a.name)>>
       /\ DOMAIN g.opts \subseteq DOMAIN r.opts
       /\ DOMAIN r.opts \subseteq DOMAIN g.opts \cup {"--field", "--raw"}
       /\ \A o \in DOMAIN g.opts : r.opts[o] = g.opts[o]

LEMMA ExeArgsRead ==
  ASSUME NEW T, NEW a, a.op \in {"add", "remove"}, a.globals \in Seq(T), a.name \in T,
         IsToken(a.name), a.name.form = "word",
         NEW g, g = Reading(a.globals), NEW r, r = Reading(ExeArgs(a))
  PROVE  Fetches(a, g, r)
<1> DEFINE get == Word("get")
           ssh == Word("ssh")
           pubkey == Word("pubkey")
           field == Opt("--field")
           key == Word("private_key")
           raw == Opt("--raw")
           W == T \cup {get, ssh, pubkey, field, key, raw}
           name == a.name
           x == a.globals
<1>1. /\ name \in W /\ get \in W /\ ssh \in W /\ pubkey \in W /\ field \in W /\ key \in W
      /\ raw \in W /\ x \in Seq(W)
  OBVIOUS
<1>2. CASE a.op = "add"
  <2> DEFINE n == ReadToken(ReadToken(ReadToken(g, get), name), field)
             m == ReadToken(ReadToken(n, key), raw)
  <2>1. ExeArgs(a) = Joined(x, <<get, name, field, key, raw>>)
    BY <1>2 DEF ExeArgs, Joined
  <2> HIDE DEF W, get, ssh, pubkey, field, key, raw, name, x
  <2>2. Reading(Joined(x, <<get, name, field>>)) = ReadToken(ReadToken(ReadToken(Reading(x), get), name), field)
    BY <1>1, ThreeMore
  <2>3. Reading(Joined(x, <<get, name, field, key, raw>>))
          = ReadToken(ReadToken(Reading(Joined(x, <<get, name, field>>)), key), raw)
    BY <1>1, FiveMore
  <2>4. r = m
    BY <2>1, <2>2, <2>3 DEF x
  <2>5. ASSUME IsBad(g) PROVE IsBad(m)
    BY <2>5, BadStays
  <2>6. ASSUME Fresh(g)
        PROVE  /\ Good(m) /\ m.want = "" /\ m.cmd = "get" /\ m.pos = <<Value(name)>>
               /\ DOMAIN m.opts = DOMAIN g.opts \cup {"--field", "--raw"}
               /\ \A o \in DOMAIN g.opts : m.opts[o] = g.opts[o]
    <3>1. IsGet(m, g, name)
      <4>1. /\ n = ReadToken(ReadToken(ReadToken(g, Word("get")), name), Opt("--field"))
            /\ m = ReadToken(ReadToken(n, Word("private_key")), Opt("--raw"))
            /\ IsToken(name) /\ name.form = "word"
        BY DEF get, field, key, raw, name
      <4> HIDE DEF n, m
      <4> QED
        BY <2>6, <4>1, GetReads
    <3> HIDE DEF n, m
    <3> QED
      BY <3>1 DEF IsGet
  <2> HIDE DEF m
  <2> QED
    BY <1>2, <2>4, <2>5, <2>6 DEF Fetches, FetchCmd, name
<1>3. CASE a.op = "remove"
  <2> DEFINE m == ReadToken(ReadToken(ReadToken(g, ssh), pubkey), name)
  <2>1. ExeArgs(a) = Joined(x, <<ssh, pubkey, name>>)
    BY <1>3 DEF ExeArgs, Joined
  <2> HIDE DEF W, get, ssh, pubkey, field, key, raw, name, x
  <2>2. Reading(Joined(x, <<ssh, pubkey, name>>)) = ReadToken(ReadToken(ReadToken(Reading(x), ssh), pubkey), name)
    BY <1>1, ThreeMore
  <2>3. r = m
    BY <2>1, <2>2 DEF x
  <2>4. ASSUME IsBad(g) PROVE IsBad(m)
    BY <2>4, BadStays
  <2>5. ASSUME Fresh(g)
        PROVE  Good(m) /\ Is(m, "", "ssh pubkey", g.opts, {}, <<Value(name)>>, g.tail)
    BY <2>5, PubkeyReads DEF ssh, pubkey, name
  <2> HIDE DEF m
  <2>6. ASSUME Fresh(g)
        PROVE  Good(m) /\ m.want = "" /\ m.cmd = "ssh pubkey" /\ m.opts = g.opts
               /\ m.pos = <<Value(name)>>
    BY <2>5, <2>6 DEF Is
  <2> QED
    BY <1>3, <2>3, <2>4, <2>6 DEF Fetches, FetchCmd, name
<1> QED
  BY <1>2, <1>3

(* The options of g that matter to what is fetched are those of q.          *)
SameGlobals(q, g) ==
  \A o \in GlobalOpts \cup {"--no-input"} :
    /\ o \in DOMAIN q <=> o \in DOMAIN g
    /\ o \in DOMAIN q => q[o] = g[o]

FetchParsed(a, g, q) ==
  IF IsBad(g) THEN ~q.ok
  ELSE /\ q.ok /\ q.cmd = FetchCmd(a.op) /\ q.pos = <<Value(a.name)>>
       /\ SameGlobals(q.opts, g.opts)

LEMMA FetchIs ==
  ASSUME NEW T, \A t \in T : IsToken(t), NEW w \in Seq(T), NEW s, s = SshReading(w),
         NEW a, a = ParseSshAction(w), a # NoAction, NEW g, g = Reading(s.globals)
  PROVE  FetchParsed(a, g, Parse(ExeArgs(a)))
<1>1. STyped(s, T)
  BY SshReads
<1>2. s.pos \in Seq(Words(T)) /\ s.globals \in Seq(ToForward(T)) /\ OnlyOptions(g)
  BY <1>1 DEF STyped
<1>3. /\ Len(s.pos) = 3 /\ a.op \in {"add", "remove"}
      /\ a.name = s.pos[3] /\ a.globals = s.globals
  <2>1. IsAction(s, a)
    BY ActionIs
  <2> QED
    BY <2>1 DEF IsAction
<1>4. a.name \in Words(T)
  BY <1>2, <1>3
<1>5. a.name \in T /\ IsToken(a.name) /\ a.name.form = "word"
  BY <1>4 DEF Words
<1>6. a.name \in ToForward(T)
  BY <1>5 DEF ToForward
<1> DEFINE r == Reading(ExeArgs(a))
           q == Parse(ExeArgs(a))
<1>7. Fetches(a, g, r)
  BY <1>2, <1>3, <1>5, <1>6, ExeArgsRead
<1>8. /\ q.ok = TRUE \/ q.ok = FALSE
      /\ q.ok <=> Complete(r)
      /\ Complete(r) => q = [ok |-> TRUE, cmd |-> r.cmd, opts |-> r.opts,
                             pos |-> r.pos, tail |-> r.tail]
  BY Parsed
<1> HIDE DEF r, q
<1>9. CASE IsBad(g)
  <2>1. ~Complete(r)
    BY <1>7, <1>9 DEF Fetches, Complete, IsBad
  <2> QED
    BY <1>8, <1>9, <2>1 DEF FetchParsed, q
<1>10. CASE ~IsBad(g)
  <2>1. Fresh(g)
    BY <1>2, <1>10 DEF OnlyOptions
  <2> DEFINE vs == <<Value(a.name)>>
  <2>2. Len(vs) = 1
    OBVIOUS
  <2> HIDE DEF vs
  <2>3. /\ r.want = "" /\ r.cmd = FetchCmd(a.op) /\ r.pos = vs
        /\ DOMAIN g.opts \subseteq DOMAIN r.opts
        /\ DOMAIN r.opts \subseteq DOMAIN g.opts \cup {"--field", "--raw"}
        /\ \A o \in DOMAIN g.opts : r.opts[o] = g.opts[o]
    BY <1>7, <2>1 DEF Fetches, vs
  <2>4. FetchCmd(a.op) \in Commands /\ 1 \in Positionals(FetchCmd(a.op)) /\ FetchCmd(a.op) # "run"
    BY <1>3 DEF FetchCmd, Commands, Subcommands, Positionals
  <2>5. Complete(r)
    BY <2>2, <2>3, <2>4 DEF Complete
  <2>6. SameGlobals(r.opts, g.opts)
    BY <2>3 DEF SameGlobals, GlobalOpts
  <2>7. q.ok /\ q.cmd = r.cmd /\ q.pos = r.pos /\ q.opts = r.opts
    BY <1>8, <2>5
  <2> QED
    BY <1>10, <2>3, <2>6, <2>7 DEF FetchParsed, q, vs
<1> QED
  BY <1>9, <1>10

-----------------------------------------------------------------------------
(* ssh add and ssh remove: the shim's reading of a command line follows     *)
(* wcm's                                                                    *)

SshOrders == {"", "ssh", "ssh add", "ssh remove"}
SshNames == {"ssh add", "ssh pubkey", "ssh remove"}

Agrees(ropts, gopts) ==
  \A o \in Forwards :
    /\ o \in DOMAIN gopts <=> o \in DOMAIN ropts
    /\ o \in DOMAIN ropts => gopts[o] = ropts[o]

LEMMA AgreesMore ==
  ASSUME NEW ropts, NEW gopts, Agrees(ropts, gopts), NEW o, NEW values,
         NEW rhere, o \notin rhere, NEW ghere, o \notin ghere
  PROVE  Agrees(Extended(ropts, rhere, o, values), Extended(gopts, ghere, o, values))
<1> DEFINE r == Extended(ropts, rhere, o, values)
           g == Extended(gopts, ghere, o, values)
<1>1. /\ DOMAIN r = DOMAIN ropts \cup {o}
      /\ \A x \in DOMAIN ropts : x # o => r[x] = ropts[x]
      /\ r[o] = values
  BY DEF Extended
<1>2. /\ DOMAIN g = DOMAIN gopts \cup {o}
      /\ \A x \in DOMAIN gopts : x # o => g[x] = gopts[x]
      /\ g[o] = values
  BY DEF Extended
<1> HIDE DEF r, g
<1>3. Agrees(r, g)
  BY <1>1, <1>2 DEF Agrees
<1> QED
  BY <1>3 DEF r, g

LEMMA AgreesStill ==
  ASSUME NEW ropts, NEW gopts, Agrees(ropts, gopts), NEW o, o \notin Forwards, NEW values,
         NEW rhere
  PROVE  Agrees(Extended(ropts, rhere, o, values), gopts)
<1> DEFINE r == Extended(ropts, rhere, o, values)
<1>1. /\ DOMAIN r = DOMAIN ropts \cup {o}
      /\ \A x \in DOMAIN ropts : x # o => r[x] = ropts[x]
  BY DEF Extended
<1> HIDE DEF r
<1>2. Agrees(r, gopts)
  BY <1>1 DEF Agrees
<1> QED
  BY <1>2 DEF r

(* What the words read so far say to both.                                  *)
SameNames(cmd, rpos, pos) ==
  /\ cmd = "" <=> pos = <<>>
  /\ cmd # "" => (pos[1].text = "ssh" <=> cmd \in {"ssh"} \cup SshNames)
  /\ cmd = "ssh" => Len(pos) = 1
  /\ cmd \in SshNames =>
       /\ Len(pos) = 2 + Len(rpos)
       /\ pos[2].text \in DOMAIN SshCommand /\ SshCommand[pos[2].text] = cmd
       /\ rpos # <<>> => Value(pos[3]) = rpos[1]

Grown(more, a, t) ==
  /\ Len(a) \in Nat /\ Len(more) = Len(a) + 1 /\ more # <<>>
  /\ \A i \in 1..Len(a) : more[i] = a[i]
  /\ more[Len(a) + 1] = t
  /\ a # <<>> => Len(a) > 0
  /\ a = <<>> => Len(a) = 0

LEMMA GrownIs ==
  ASSUME NEW W, NEW a \in Seq(W), NEW t \in W
  PROVE  Grown(Append(a, t), a, t)
<1> DEFINE more == Append(a, t)
<1>1. Len(a) \in Nat /\ Len(more) = Len(a) + 1 /\ more # <<>> /\ more[Len(a) + 1] = t
  OBVIOUS
<1>2. \A i \in 1..Len(a) : more[i] = a[i]
  OBVIOUS
<1>3. a # <<>> => Len(a) > 0
  OBVIOUS
<1>4. a = <<>> => Len(a) = 0
  OBVIOUS
<1> HIDE DEF more
<1>5. Grown(more, a, t)
  BY <1>1, <1>2, <1>3, <1>4 DEF Grown
<1> QED
  BY <1>5 DEF more

LEMMA CommandNamed ==
  ASSUME NEW W, NEW t \in W, t.text \in Subcommands, NEW rpos
  PROVE  SameNames(t.text, rpos, Append(<<>>, t))
<1> DEFINE pos == Append(<<>>, t)
<1>1. pos # <<>> /\ pos[1] = t /\ Len(pos) = 1
  OBVIOUS
<1> HIDE DEF pos
<1>2. t.text # "" /\ t.text \notin SshNames
  BY DEF Subcommands, SshNames
<1>3. SameNames(t.text, rpos, pos)
  BY <1>1, <1>2 DEF SameNames
<1> QED
  BY <1>3 DEF pos

LEMMA SshCommandNamed ==
  ASSUME NEW W, NEW pos \in Seq(W), SameNames("ssh", <<>>, pos), NEW t \in W,
         t.text \in DOMAIN SshCommand
  PROVE  SameNames(SshCommand[t.text], <<>>, Append(pos, t))
<1> DEFINE more == Append(pos, t)
           none == <<>>
           cmd == SshCommand[t.text]
<1>1. Len(none) = 0
  OBVIOUS
<1> HIDE DEF none
<1>2. Len(pos) = 1 /\ pos[1].text = "ssh"
  BY DEF SameNames
<1>3. more # <<>> /\ more[1] = pos[1] /\ more[2] = t /\ Len(more) = 2
  <2>1. Grown(more, pos, t)
    BY GrownIs
  <2> HIDE DEF more
  <2>2. 1 \in 1..Len(pos)
    BY <1>2
  <2> QED
    BY <1>2, <2>1, <2>2 DEF Grown
<1> HIDE DEF more
<1>4. cmd \in SshNames /\ cmd # "" /\ cmd # "ssh"
  <2>1. DOMAIN SshCommand = {"add", "pubkey", "remove"}
    BY DEF SshCommand
  <2>2. t.text = "add" \/ t.text = "pubkey" \/ t.text = "remove"
    BY <2>1
  <2>3. /\ SshCommand["add"] = "ssh add" /\ SshCommand["pubkey"] = "ssh pubkey"
        /\ SshCommand["remove"] = "ssh remove"
    BY DEF SshCommand
  <2>4. cmd = "ssh add" \/ cmd = "ssh pubkey" \/ cmd = "ssh remove"
    BY <2>2, <2>3
  <2> HIDE DEF cmd
  <2> QED
    BY <2>4 DEF SshNames
<1> HIDE DEF cmd
<1>5. SshCommand[more[2].text] = cmd /\ more[2].text \in DOMAIN SshCommand
  BY <1>3 DEF cmd
<1>6. SameNames(cmd, none, more)
  <2>1. none = <<>>
    BY DEF none
  <2>2. more[1].text = "ssh" /\ cmd \in {"ssh"} \cup SshNames
    BY <1>2, <1>3, <1>4
  <2>3. Len(more) = 2 + Len(none)
    BY <1>1, <1>3
  <2> QED
    BY <1>3, <1>4, <1>5, <2>1, <2>2, <2>3 DEF SameNames
<1> QED
  BY <1>6 DEF more, none, cmd

LEMMA Counted ==
  ASSUME NEW n \in Nat, NEW k \in Nat
  PROVE  /\ n > 0 => 1 \in 1..n
         /\ n = 2 + k => 2 \in 1..n /\ n + 1 = 2 + (k + 1)
         /\ n = 2 + k /\ k > 0 => 3 \in 1..n /\ 1 \in 1..k
         /\ n = 2 + k /\ k = 0 => n + 1 = 3 /\ k + 1 = 1
  OBVIOUS

LEMMA PositionalNamed ==
  ASSUME NEW W, NEW pos \in Seq(W), NEW V, NEW rpos \in Seq(V), NEW cmd, cmd \notin {"", "ssh"},
         SameNames(cmd, rpos, pos), NEW t \in W, NEW v \in V, v = Value(t)
  PROVE  SameNames(cmd, Append(rpos, v), Append(pos, t))
<1> DEFINE more == Append(pos, t)
           rmore == Append(rpos, v)
<1>0. Grown(more, pos, t) /\ Grown(rmore, rpos, v)
  BY GrownIs
<1> HIDE DEF more, rmore
<1>1. /\ Len(pos) \in Nat /\ Len(rpos) \in Nat
      /\ Len(more) = Len(pos) + 1 /\ Len(rmore) = Len(rpos) + 1
      /\ \A i \in 1..Len(pos) : more[i] = pos[i]
      /\ \A i \in 1..Len(rpos) : rmore[i] = rpos[i]
      /\ more[Len(pos) + 1] = t /\ rmore[Len(rpos) + 1] = v
      /\ more # <<>> /\ rmore # <<>>
      /\ pos # <<>> => Len(pos) > 0
      /\ rpos # <<>> => Len(rpos) > 0
      /\ rpos = <<>> => Len(rpos) = 0
  BY <1>0 DEF Grown
<1>2. /\ pos # <<>> /\ (pos[1].text = "ssh" <=> cmd \in {"ssh"} \cup SshNames)
      /\ cmd \in SshNames =>
           /\ Len(pos) = 2 + Len(rpos)
           /\ pos[2].text \in DOMAIN SshCommand /\ SshCommand[pos[2].text] = cmd
           /\ rpos # <<>> => Value(pos[3]) = rpos[1]
  BY DEF SameNames
<1>3. more[1] = pos[1] /\ (cmd \in SshNames => more[2] = pos[2] /\ Len(more) = 2 + Len(rmore))
  <2> DEFINE n == Len(pos)
             k == Len(rpos)
  <2>0. n \in Nat /\ n > 0 /\ k \in Nat
    BY <1>1, <1>2, Zenon
  <2> HIDE DEF n, k
  <2>1. 1 \in 1..n
    BY <2>0, Counted, Zenon
  <2>2. ASSUME cmd \in SshNames PROVE 2 \in 1..n /\ n + 1 = 2 + (k + 1)
    <3>1. n = 2 + k
      BY <1>2, <2>2, Zenon DEF n, k
    <3> QED
      BY <2>0, <3>1, Counted, Zenon
  <2> QED
    BY <1>1, <2>1, <2>2, Zenon DEF n, k
<1>4. cmd \in SshNames => Value(more[3]) = rmore[1]
  <2>1. CASE rpos = <<>>
    <3>1. ASSUME cmd \in SshNames PROVE Len(pos) + 1 = 3 /\ Len(rpos) + 1 = 1
      BY <1>1, <1>2, <2>1, <3>1, Counted, Zenon
    <3>2. ASSUME cmd \in SshNames PROVE more[3] = t /\ rmore[1] = v
      BY <1>1, <3>1, <3>2, Zenon
    <3> QED
      BY <3>2
  <2>2. CASE rpos # <<>>
    <3>1. ASSUME cmd \in SshNames PROVE 3 \in 1..Len(pos) /\ 1 \in 1..Len(rpos)
      <4> DEFINE n == Len(pos)
                 k == Len(rpos)
      <4>1. n = 2 + k /\ k > 0 /\ n \in Nat /\ k \in Nat
        BY <1>1, <1>2, <2>2, <3>1, Zenon
      <4> HIDE DEF n, k
      <4>2. 3 \in 1..n /\ 1 \in 1..k
        BY <4>1, Counted, Zenon
      <4> QED
        BY <4>2 DEF n, k
    <3> QED
      BY <1>1, <1>2, <2>2, <3>1
  <2> QED
    BY <2>1, <2>2
<1>5. SameNames(cmd, rmore, more)
  BY <1>1, <1>2, <1>3, <1>4 DEF SameNames
<1> QED
  BY <1>5 DEF more, rmore

(* r has read what s has, while s goes on as long as the command may be     *)
(* ssh add or ssh remove.                                                   *)
Along(r, s) ==
  /\ s.want = r.want /\ r.want \in {""} \cup SshOpts
  /\ SameNames(r.cmd, r.pos, s.pos)
  /\ "--lifetime" \in s.seen => r.cmd = "ssh add"

Follow(r, s) ==
  \/ s.want = "refused" /\ (r.want = "--" \/ r.cmd \notin SshOrders)
  \/ Along(r, s)

(* And g has read the same options to forward, as long as none comes again. *)
Unmet(r, o) == o \in Forwards => o \notin DOMAIN r.opts

Forwarding(r, g) == Fresh(g) /\ Agrees(r.opts, g.opts) /\ Unmet(r, r.want)

Mention(t) == t.form \in {"opt", "inline"} /\ Canonical(t.opt) \in Forwards
New(r, t) == Mention(t) => Canonical(t.opt) \notin DOMAIN r.opts

Goes(r, g, t, n, u, h) ==
  /\ Follow(n, u)
  /\ Forwarding(r, g) /\ New(r, t) /\ u.want # "refused" => Forwarding(n, h)

WithOption(s, o, t) == s.globals \o (<<Opt(o)>> \o <<t>>)
WithFlag(s, o) == s.globals \o (<<Opt(o)>> \o <<>>)

LEMMA OptionForwardedRead ==
  ASSUME NEW T, NEW s, STyped(s, T), NEW o \in Forwards, NEW t \in ToForward(T)
  PROVE  /\ Reading(WithOption(s, o, t)) = ReadToken(ReadToken(Reading(s.globals), Opt(o)), t)
         /\ Reading(WithFlag(s, o)) = ReadToken(Reading(s.globals), Opt(o))
<1> DEFINE a == Opt(o)
           x == s.globals
           G == ToForward(T)
<1>1. x \in Seq(G)
  BY DEF STyped
<1>2. a \in G
  BY ForwardsAre DEF ToForward
<1> HIDE DEF a, x, G
<1>3. Reading(x \o (<<a>> \o <<t>>)) = ReadToken(ReadToken(Reading(x), a), t)
  BY <1>1, <1>2, OptionMore DEF G
<1>4. Reading(x \o (<<a>> \o <<>>)) = ReadToken(Reading(x), a)
  BY <1>1, <1>2, FlagMore
<1> QED
  BY <1>3, <1>4 DEF a, x, WithOption, WithFlag

TakenAlong(s, u, cmd) ==
  /\ u.want = "" /\ u.pos = s.pos
  /\ "--lifetime" \in u.seen => cmd = "ssh add"

LEMMA TakenFollows ==
  ASSUME NEW T, NEW s, STyped(s, T), NEW cmd, "--lifetime" \in s.seen => cmd = "ssh add",
         NEW o \in SshOpts, o \in OptsOf(cmd), NEW t, NEW u, u = Taken(s, o, t)
  PROVE  TakenAlong(s, u, cmd)
<1>1. SGood(s)
  BY DEF STyped
<1>2. CASE o \in GlobalOpts
  <2> DEFINE y == s.globals \o (<<Opt(o)>> \o <<t>>)
  <2>1. u = SState("", s.pos, y, s.seen)
    BY <1>1, <1>2, TakenIs
  <2> HIDE DEF y
  <2>2. SIs(u, "", s.pos, y, s.seen)
    BY <2>1, SStateIs
  <2> QED
    BY <2>2 DEF SIs, TakenAlong
<1>3. CASE o \notin GlobalOpts
  <2>1. u = SState("", s.pos, s.globals, s.seen \cup {o})
    BY <1>1, <1>3, TakenIs
  <2>2. SIs(u, "", s.pos, s.globals, s.seen \cup {o})
    BY <2>1, SStateIs
  <2>3. o = "--lifetime" => cmd = "ssh add"
    BY DEF OptsOf, GlobalOpts
  <2> QED
    BY <2>2, <2>3 DEF SIs, TakenAlong
<1> QED
  BY <1>2, <1>3

TakenForwards(opts, u) ==
  Fresh(Reading(u.globals)) /\ Agrees(opts, Reading(u.globals).opts)

LEMMA TakenIsForwarded ==
  ASSUME NEW T, NEW s, STyped(s, T), NEW g, g = Reading(s.globals),
         NEW r, Forwarding(r, g), r.here \subseteq DOMAIN r.opts,
         NEW o \in SshOpts, Unmet(r, o), NEW t \in ToForward(T), t.form = "word",
         NEW u, u = Taken(s, o, t), NEW opts, opts = Extended(r.opts, r.here, o, <<Value(t)>>)
  PROVE  TakenForwards(opts, u)
<1>1. SGood(s) /\ s.globals \in Seq(ToForward(T))
  BY DEF STyped
<1>0. Fresh(g) /\ Agrees(r.opts, g.opts)
  BY DEF Forwarding
<1>2. CASE o \in GlobalOpts
  <2> DEFINE y == WithOption(s, o, t)
             n == ReadToken(g, Opt(o))
             m == ReadToken(n, t)
  <2>1. u = SState("", s.pos, y, s.seen)
    BY <1>1, <1>2, TakenIs DEF WithOption
  <2>2. o \in Forwards
    BY <1>2 DEF Forwards
  <2> HIDE DEF y
  <2>3. Reading(y) = m
    BY <2>2, OptionForwardedRead DEF y
  <2>4. SIs(u, "", s.pos, y, s.seen)
    BY <2>1, SStateIs
  <2>5. u.globals = y
    BY <2>4 DEF SIs
  <2>6. n = ReadToken(g, Opt(o)) /\ IsToken(t) /\ Ready(g)
    BY <1>0 DEF ToForward, Fresh
  <2> HIDE DEF n, m
  <2>7. m = ReadToken(n, t)
    BY DEF m
  <2>8. AfterOption(g, o, t, m)
    BY <1>2, <2>6, <2>7, OptionForwarded
  <2>9. o \notin DOMAIN r.opts /\ o \notin DOMAIN g.opts
    BY <1>0, <2>2 DEF Unmet, Agrees
  <2>10. o \notin r.here /\ o \notin g.here
    BY <1>0, <2>9 DEF Fresh
  <2> DEFINE vs == <<Value(t)>>
  <2>11. Ready(m) /\ Is(m, "", g.cmd, Extended(g.opts, g.here, o, vs), g.here \cup {o}, g.pos, g.tail)
    BY <2>8, <2>10 DEF AfterOption
  <2> HIDE DEF vs
  <2>12. Fresh(m)
    BY <1>0, <2>2, <2>11, FreshExtended
  <2>13. Agrees(Extended(r.opts, r.here, o, vs), Extended(g.opts, g.here, o, vs))
    BY <1>0, <2>10, AgreesMore
  <2>14. m.opts = Extended(g.opts, g.here, o, vs)
    BY <2>11 DEF Is
  <2>15. Agrees(opts, m.opts)
    BY <2>13, <2>14 DEF vs
  <2> QED
    BY <2>3, <2>5, <2>12, <2>15 DEF TakenForwards
<1>3. CASE o \notin GlobalOpts
  <2>1. u = SState("", s.pos, s.globals, s.seen \cup {o})
    BY <1>1, <1>3, TakenIs
  <2>2. SIs(u, "", s.pos, s.globals, s.seen \cup {o})
    BY <2>1, SStateIs
  <2>3. u.globals = s.globals
    BY <2>2 DEF SIs
  <2>4. o \notin Forwards
    BY <1>3 DEF SshOpts, Forwards
  <2>5. Agrees(opts, g.opts)
    BY <1>0, <2>4, AgreesStill
  <2> QED
    BY <1>0, <2>3, <2>5 DEF TakenForwards
<1> QED
  BY <1>2, <1>3

LEMMA SshNamesAre ==
  /\ \A cmd \in SshOrders : OptsOf(cmd) \subseteq SshOpts /\ FlagsOf(cmd) = GlobalFlags
  /\ \A cmd : FlagsOf(cmd) \cap SshOpts = {}
  /\ \A cmd : \A o \in OptsOf(cmd) : o \notin GlobalFlags
  /\ "--" \notin SshOpts /\ "" \notin SshOpts /\ "refused" \notin SshOpts
<1>1. \A cmd \in SshOrders : OptsOf(cmd) \subseteq SshOpts
  BY DEF SshOrders, OptsOf, SshOpts, GlobalOpts
<1>2. \A cmd \in SshOrders : FlagsOf(cmd) = GlobalFlags
  BY DEF SshOrders, FlagsOf, GlobalFlags
<1>3. \A cmd : FlagsOf(cmd) \cap SshOpts = {}
  BY DEF FlagsOf, GlobalFlags, SshOpts, GlobalOpts
<1>4. \A cmd : \A o \in OptsOf(cmd) : o \notin GlobalFlags
  BY DEF OptsOf, GlobalFlags, GlobalOpts
<1>5. "--" \notin SshOpts /\ "" \notin SshOpts /\ "refused" \notin SshOpts
  BY DEF SshOpts, GlobalOpts
<1> QED
  BY <1>1, <1>2, <1>3, <1>4, <1>5

LEMMA RefusedFollows ==
  ASSUME NEW r, Good(r), NEW s, SGood(s), s.want = "refused", NEW g, Follow(r, s),
         NEW t, IsToken(t), NEW n, n = ReadToken(r, t), ~IsBad(n),
         NEW u, u = SshToken(s, t), NEW h
  PROVE  Goes(r, g, t, n, u, h)
<1>1. u.want = "refused"
  <2>1. SshMove(s, t, u)
    BY SshMoves
  <2> QED
    BY <2>1 DEF SshMove
<1>2. r.want = "--" \/ r.cmd \notin SshOrders
  BY SshNamesAre DEF Follow, Along
<1>3. \/ InTail(r, t) \/ InRest(r, t) \/ IsValue(r, t) \/ IsEnd(r, t) \/ IsOption(r, t)
      \/ IsFlag(r, t) \/ IsInline(r, t) \/ IsCommand(r, t) \/ IsSshCommand(r, t)
      \/ IsPositional(r, t)
  BY GoodOrBad
<1>4. CASE r.want = "--"
  <2>1. InTail(r, t) \/ InRest(r, t)
    BY <1>3, <1>4 DEF InTail, InRest, IsValue, IsEnd, IsOption, IsFlag, IsInline, IsCommand,
                      IsSshCommand, IsPositional
  <2>2. \/ Is(n, r.want, r.cmd, r.opts, r.here, r.pos, Append(r.tail, t))
        \/ Is(n, r.want, r.cmd, r.opts, r.here, Append(r.pos, Value(t)), r.tail)
    BY <2>1, GoodMoves
  <2>3. n.want = "--"
    BY <1>4, <2>2 DEF Is
  <2> QED
    BY <1>1, <2>3 DEF Follow, Goes
<1>5. CASE r.cmd \notin SshOrders
  <2>1. ~IsCommand(r, t) /\ ~IsSshCommand(r, t)
    BY <1>5 DEF IsCommand, IsSshCommand, SshOrders
  <2>2. \/ Is(n, r.want, r.cmd, r.opts, r.here, r.pos, Append(r.tail, t))
        \/ Is(n, r.want, r.cmd, r.opts, r.here, Append(r.pos, Value(t)), r.tail)
        \/ Is(n, "", r.cmd, Extended(r.opts, r.here, r.want, <<Value(t)>>), r.here \cup {r.want}, r.pos, r.tail)
        \/ Is(n, "--", r.cmd, r.opts, r.here, r.pos, r.tail)
        \/ Is(n, Canonical(t.opt), r.cmd, r.opts, r.here, r.pos, r.tail)
        \/ Is(n, "", r.cmd, Extended(r.opts, r.here, Canonical(t.opt), <<>>), r.here \cup {Canonical(t.opt)}, r.pos, r.tail)
        \/ Is(n, "", r.cmd, Extended(r.opts, r.here, Canonical(t.opt), <<Value(t)>>), r.here \cup {Canonical(t.opt)}, r.pos, r.tail)
        \/ Is(n, "", r.cmd, r.opts, r.here, Append(r.pos, Value(t)), r.tail)
    BY <1>3, <2>1, GoodMoves
  <2>3. n.cmd = r.cmd
    BY <2>2 DEF Is
  <2> QED
    BY <1>1, <1>5, <2>3 DEF Follow, Goes
<1> QED
  BY <1>2, <1>4, <1>5

(* What s and r do with a word.                                             *)
LEMMA WordFollows ==
  ASSUME NEW T, NEW r, Typed(r, T), NEW s, STyped(s, T), NEW g, g = Reading(s.globals),
         Along(r, s), NEW t \in T, IsToken(t), t.form = "word", r.want = "",
         NEW n, n = ReadToken(r, t), ~IsBad(n),
         NEW u, u = SshToken(s, t), NEW h, h = Reading(u.globals)
  PROVE  Goes(r, g, t, n, u, h)
<1>1. SGood(s) /\ s.pos \in Seq(Words(T)) /\ t \in Words(T)
  BY DEF STyped, Words
<1>2. s.want = "" /\ SameNames(r.cmd, r.pos, s.pos)
  BY DEF Along
<1>3. SshMove(s, t, u)
  BY <1>1, SshMoves
<1>4. u = SState("", Append(s.pos, t), s.globals, s.seen)
  BY <1>2, <1>3 DEF SshMove
<1>5. SIs(u, "", Append(s.pos, t), s.globals, s.seen)
  BY <1>4, SStateIs
<1>6. u.want = "" /\ u.pos = Append(s.pos, t) /\ u.globals = s.globals /\ u.seen = s.seen
  BY <1>5 DEF SIs
<1>7. Good(r) /\ r.pos \in Seq(Values(T)) /\ (r.cmd \in {"", "ssh"} => r.pos = <<>>)
  BY DEF Typed
<1>8. IsCommand(r, t) \/ IsSshCommand(r, t) \/ IsPositional(r, t)
  <2>1. \/ InTail(r, t) \/ InRest(r, t) \/ IsValue(r, t) \/ IsEnd(r, t) \/ IsOption(r, t)
        \/ IsFlag(r, t) \/ IsInline(r, t) \/ IsCommand(r, t) \/ IsSshCommand(r, t)
        \/ IsPositional(r, t)
    BY <1>7, GoodOrBad
  <2> QED
    BY <2>1 DEF InTail, InRest, IsValue, IsEnd, IsOption, IsFlag, IsInline
<1>0. ASSUME n.want = "", n.opts = r.opts, Along(n, u)
      PROVE  Goes(r, g, t, n, u, h)
  <2>1. h = g
    BY <1>6
  <2>2. Unmet(n, n.want)
    BY <1>0 DEF Unmet, Forwards, GlobalOpts
  <2> QED
    BY <1>0, <2>1, <2>2 DEF Goes, Follow, Forwarding
<1>9. CASE IsCommand(r, t)
  <2>1. Is(n, "", t.text, r.opts, {}, r.pos, r.tail)
    BY <1>7, <1>9, GoodMoves
  <2>2. n.want = "" /\ n.cmd = t.text /\ n.opts = r.opts /\ n.pos = r.pos
    BY <2>1 DEF Is
  <2>3. r.cmd = "" /\ t.text \in Subcommands
    BY <1>9 DEF IsCommand
  <2>4. s.pos = <<>>
    BY <1>2, <2>3 DEF SameNames
  <2>5. SameNames(t.text, r.pos, Append(<<>>, t))
    BY <1>1, <2>3, CommandNamed
  <2>6. SameNames(n.cmd, n.pos, u.pos)
    BY <1>6, <2>2, <2>4, <2>5
  <2>7. "--lifetime" \notin u.seen
    BY <1>6, <2>3 DEF Along
  <2> QED
    BY <1>0, <1>6, <2>2, <2>6, <2>7 DEF Along
<1>10. CASE IsSshCommand(r, t)
  <2>1. Is(n, "", SshCommand[t.text], r.opts, {}, r.pos, r.tail)
    BY <1>7, <1>10, GoodMoves
  <2>2. n.want = "" /\ n.cmd = SshCommand[t.text] /\ n.opts = r.opts /\ n.pos = r.pos
    BY <2>1 DEF Is
  <2>3. r.cmd = "ssh" /\ t.text \in DOMAIN SshCommand
    BY <1>10 DEF IsSshCommand
  <2>4. r.pos = <<>>
    BY <1>7, <2>3
  <2>5. SameNames("ssh", <<>>, s.pos)
    BY <1>2, <2>3, <2>4
  <2>6. SameNames(SshCommand[t.text], <<>>, Append(s.pos, t))
    BY <1>1, <2>3, <2>5, SshCommandNamed
  <2>7. SameNames(n.cmd, n.pos, u.pos)
    BY <1>6, <2>2, <2>4, <2>6
  <2>8. "--lifetime" \notin u.seen
    BY <1>6, <2>3 DEF Along
  <2> QED
    BY <1>0, <1>6, <2>2, <2>7, <2>8 DEF Along
<1>11. CASE IsPositional(r, t)
  <2>1. Is(n, "", r.cmd, r.opts, r.here, Append(r.pos, Value(t)), r.tail)
    BY <1>7, <1>11, GoodMoves
  <2>2. n.want = "" /\ n.cmd = r.cmd /\ n.opts = r.opts /\ n.pos = Append(r.pos, Value(t))
    BY <2>1 DEF Is
  <2>3. r.cmd \notin {"", "ssh"} /\ Value(t) \in Values(T)
    BY <1>11 DEF IsPositional, Values
  <2>4. SameNames(r.cmd, Append(r.pos, Value(t)), Append(s.pos, t))
    BY <1>1, <1>2, <1>7, <2>3, PositionalNamed
  <2>5. SameNames(n.cmd, n.pos, u.pos)
    BY <1>6, <2>2, <2>4
  <2>6. "--lifetime" \in u.seen => n.cmd = "ssh add"
    BY <1>6, <2>2 DEF Along
  <2> QED
    BY <1>0, <1>6, <2>2, <2>5, <2>6 DEF Along
<1> QED
  BY <1>8, <1>9, <1>10, <1>11

(* What s and r do with an option and its value.                            *)
LEMMA ValueFollows ==
  ASSUME NEW T, NEW r, Typed(r, T), NEW s, STyped(s, T), NEW g, g = Reading(s.globals),
         Along(r, s), NEW o \in SshOpts, o \in OptsOf(r.cmd),
         NEW t \in ToForward(T), t.form = "word", NEW n,
         Is(n, "", r.cmd, Extended(r.opts, r.here, o, <<Value(t)>>), r.here \cup {o}, r.pos, r.tail),
         NEW u, u = Taken(s, o, t), NEW h, h = Reading(u.globals)
  PROVE  Follow(n, u) /\ (Forwarding(r, g) /\ Unmet(r, o) => Forwarding(n, h))
<1> DEFINE opts == Extended(r.opts, r.here, o, <<Value(t)>>)
<1>1. n.want = "" /\ n.cmd = r.cmd /\ n.opts = opts /\ n.pos = r.pos
  BY DEF Is
<1>2. SameNames(r.cmd, r.pos, s.pos) /\ ("--lifetime" \in s.seen => r.cmd = "ssh add")
  BY DEF Along
<1>3. opts = Extended(r.opts, r.here, o, <<Value(t)>>) /\ r.here \subseteq DOMAIN r.opts
  BY DEF Typed
<1> HIDE DEF opts
<1>4. TakenAlong(s, u, r.cmd)
  BY <1>2, TakenFollows
<1>5. Follow(n, u)
  BY <1>1, <1>2, <1>4 DEF Follow, Along, TakenAlong
<1>6. ASSUME Forwarding(r, g), Unmet(r, o) PROVE Forwarding(n, h)
  <2>1. TakenForwards(opts, u)
    BY <1>3, <1>6, TakenIsForwarded
  <2>2. Unmet(n, n.want)
    BY <1>1 DEF Unmet, Forwards, GlobalOpts
  <2> QED
    BY <1>1, <2>1, <2>2 DEF TakenForwards, Forwarding
<1> QED
  BY <1>5, <1>6

LEMMA FlagFollows ==
  ASSUME NEW T, NEW r, Typed(r, T), NEW s, STyped(s, T), NEW g, g = Reading(s.globals),
         Along(r, s), NEW o \in GlobalFlags, r.want = "",
         NEW t \in T, IsToken(t), t.form = "opt", Canonical(t.opt) = o, NEW n,
         Is(n, "", r.cmd, Extended(r.opts, r.here, o, <<>>), r.here \cup {o}, r.pos, r.tail),
         NEW u, u = SshToken(s, t), NEW h, h = Reading(u.globals)
  PROVE  Goes(r, g, t, n, u, h)
<1> DEFINE opts == Extended(r.opts, r.here, o, <<>>)
<1>1. n.want = "" /\ n.cmd = r.cmd /\ n.opts = opts /\ n.pos = r.pos
  BY DEF Is
<1>2. /\ SameNames(r.cmd, r.pos, s.pos) /\ s.want = ""
      /\ "--lifetime" \in s.seen => r.cmd = "ssh add"
  BY DEF Along
<1>3. SshMove(s, t, u)
  BY SshMoves DEF STyped
<1>0. Unmet(n, n.want)
  BY <1>1 DEF Unmet, Forwards, GlobalOpts
<1>4. CASE o = "--json"
  <2>1. u = s
    BY <1>2, <1>3, <1>4 DEF SshMove
  <2>2. "--json" \notin Forwards
    BY DEF Forwards, GlobalOpts
  <2>3. ASSUME Forwarding(r, g) PROVE Agrees(opts, g.opts)
    BY <1>4, <2>2, <2>3, AgreesStill DEF Forwarding
  <2> HIDE DEF opts
  <2>4. Follow(n, u)
    BY <1>1, <1>2, <2>1 DEF Follow, Along
  <2> QED
    BY <1>0, <1>1, <2>1, <2>3, <2>4 DEF Goes, Forwarding
<1>5. CASE o \in {"-q", "--no-input"}
  <2> DEFINE y == WithFlag(s, o)
             m == ReadToken(g, Opt(o))
  <2>1. o \in Forwards
    BY <1>5 DEF Forwards
  <2>2. u = SState("", s.pos, y, s.seen)
    BY <1>2, <1>3, <1>5 DEF SshMove, WithFlag
  <2>3. t \in ToForward(T)
    BY DEF ToForward
  <2>4. Reading(y) = m
    BY <2>1, <2>3, OptionForwardedRead
  <2> HIDE DEF y
  <2>5. SIs(u, "", s.pos, y, s.seen)
    BY <2>2, SStateIs
  <2>6. u.want = "" /\ u.pos = s.pos /\ u.globals = y /\ u.seen = s.seen
    BY <2>5 DEF SIs
  <2>7. h = m
    BY <2>4, <2>6
  <2>8. Follow(n, u)
    BY <1>1, <1>2, <2>6 DEF Follow, Along
  <2>9. ASSUME Forwarding(r, g), New(r, t) PROVE Forwarding(n, h)
    <3>1. Fresh(g) /\ Ready(g) /\ Agrees(r.opts, g.opts) /\ m = ReadToken(g, Opt(o))
      BY <2>9 DEF Forwarding, Fresh
    <3> HIDE DEF m
    <3>2. AfterFlag(g, o, m)
      BY <1>5, <3>1, FlagForwarded
    <3>3. o \notin DOMAIN r.opts
      BY <2>1, <2>9 DEF New, Mention
    <3>4. o \notin r.here /\ o \notin g.here
      BY <2>1, <3>1, <3>3 DEF Typed, Agrees, Fresh
    <3> DEFINE vs == <<>>
    <3> HIDE DEF vs
    <3>5. Ready(m) /\ Is(m, "", g.cmd, Extended(g.opts, g.here, o, vs), g.here \cup {o}, g.pos, g.tail)
      BY <3>2, <3>4 DEF AfterFlag, vs
    <3>6. Fresh(m)
      BY <2>1, <3>1, <3>5, FreshExtended
    <3>7. Agrees(Extended(r.opts, r.here, o, vs), Extended(g.opts, g.here, o, vs))
      BY <3>1, <3>4, AgreesMore
    <3>8. m.opts = Extended(g.opts, g.here, o, vs)
      BY <3>5 DEF Is
    <3>9. Agrees(opts, m.opts)
      BY <3>7, <3>8 DEF vs
    <3> HIDE DEF opts
    <3> QED
      BY <1>0, <1>1, <2>7, <3>6, <3>9 DEF Forwarding
  <2> QED
    BY <2>8, <2>9 DEF Goes
<1> QED
  BY <1>4, <1>5 DEF GlobalFlags

LEMMA FollowSteps ==
  ASSUME NEW T, NEW r, Typed(r, T), NEW s, STyped(s, T), NEW g, g = Reading(s.globals),
         Follow(r, s), NEW t \in T, IsToken(t), t.form # "attached",
         NEW n, n = ReadToken(r, t), ~IsBad(n),
         NEW u, u = SshToken(s, t), NEW h, h = Reading(u.globals)
  PROVE  Goes(r, g, t, n, u, h)
<1> DEFINE o == Canonical(t.opt)
<1>1. Good(r) /\ SGood(s) /\ t \in ToForward(T) /\ WordOf(t) \in ToForward(T)
  BY WordOfIs DEF Typed, STyped, ToForward
<1>2. CASE s.want = "refused"
  BY <1>1, <1>2, RefusedFollows
<1>3. CASE s.want # "refused"
  <2>1. Along(r, s)
    BY <1>3 DEF Follow
  <2>2. s.want = r.want /\ r.want \in {""} \cup SshOpts
    BY <2>1 DEF Along
  <2>3. \/ InTail(r, t) \/ InRest(r, t) \/ IsValue(r, t) \/ IsEnd(r, t) \/ IsOption(r, t)
        \/ IsFlag(r, t) \/ IsInline(r, t) \/ IsCommand(r, t) \/ IsSshCommand(r, t)
        \/ IsPositional(r, t)
    BY <1>1, GoodOrBad
  <2>4. SshMove(s, t, u)
    BY <1>1, SshMoves
  <2>5. ~InTail(r, t) /\ ~InRest(r, t)
    BY <2>2, SshNamesAre DEF InTail, InRest
  <2>6. CASE IsValue(r, t)
    <3>1. Is(n, "", r.cmd, Extended(r.opts, r.here, r.want, <<Value(t)>>), r.here \cup {r.want}, r.pos, r.tail)
      BY <1>1, <2>6, GoodMoves
    <3>2. r.want \in SshOpts /\ t.form = "word" /\ May(r, r.want)
      BY <2>2, <2>6 DEF IsValue
    <3>3. r.want \in OptsOf(r.cmd)
      <4>1. r.want \notin {"", "--"}
        BY <2>6 DEF IsValue
      <4> QED
        BY <4>1 DEF Typed
    <3>4. u = Taken(s, r.want, t)
      BY <2>2, <2>4, <3>2 DEF SshMove
    <3>5. Follow(n, u) /\ (Forwarding(r, g) /\ Unmet(r, r.want) => Forwarding(n, h))
      BY <1>1, <2>1, <3>1, <3>2, <3>3, <3>4, ValueFollows
    <3> QED
      BY <3>5 DEF Goes, Forwarding
  <2>7. CASE IsEnd(r, t)
    <3>1. Is(n, "--", r.cmd, r.opts, r.here, r.pos, r.tail)
      BY <1>1, <2>7, GoodMoves
    <3>2. n.want = "--"
      BY <3>1 DEF Is
    <3>3. s.want = "" /\ t.form = "dashes"
      BY <2>2, <2>7 DEF IsEnd
    <3>4. u = SState("refused", s.pos, s.globals, s.seen)
      BY <2>4, <3>3 DEF SshMove
    <3>5. u.want = "refused"
      BY <3>4 DEF SState
    <3> QED
      BY <3>2, <3>5 DEF Follow, Goes
  <2>8. CASE IsOption(r, t)
    <3>1. Is(n, o, r.cmd, r.opts, r.here, r.pos, r.tail)
      BY <1>1, <2>8, GoodMoves
    <3>2. n.want = o /\ n.cmd = r.cmd /\ n.opts = r.opts /\ n.pos = r.pos
      BY <3>1 DEF Is
    <3>3. s.want = "" /\ t.form = "opt" /\ o \in OptsOf(r.cmd)
      BY <2>2, <2>8 DEF IsOption
    <3> HIDE DEF o
    <3>4. CASE o \in SshOpts
      <4>1. u = SState(o, s.pos, s.globals, s.seen)
        BY <2>4, <3>3, <3>4 DEF SshMove, o
      <4>2. SIs(u, o, s.pos, s.globals, s.seen)
        BY <4>1, SStateIs
      <4>3. u.want = o /\ u.pos = s.pos /\ u.globals = s.globals /\ u.seen = s.seen
        BY <4>2 DEF SIs
      <4>4. Follow(n, u) /\ h = g
        BY <2>1, <3>2, <3>4, <4>3 DEF Along, Follow
      <4>5. New(r, t) => Unmet(n, n.want)
        BY <3>2, <3>3 DEF New, Mention, Unmet, o
      <4> QED
        BY <3>2, <4>4, <4>5 DEF Goes, Forwarding
    <3>5. CASE o \notin SshOpts
      <4>1. o \notin GlobalFlags /\ r.cmd \notin SshOrders
        BY <3>3, <3>5, SshNamesAre
      <4>2. u = SState("refused", s.pos, s.globals, s.seen)
        BY <2>4, <3>3, <3>5, <4>1 DEF SshMove, o
      <4>3. u.want = "refused"
        BY <4>2 DEF SState
      <4> QED
        BY <3>2, <4>1, <4>3 DEF Follow, Goes
    <3> QED
      BY <3>4, <3>5
  <2>9. CASE IsFlag(r, t)
    <3>1. Is(n, "", r.cmd, Extended(r.opts, r.here, o, <<>>), r.here \cup {o}, r.pos, r.tail)
      BY <1>1, <2>9, GoodMoves
    <3>2. n.cmd = r.cmd
      BY <3>1 DEF Is
    <3>3. s.want = "" /\ r.want = "" /\ t.form = "opt" /\ o \in FlagsOf(r.cmd) \ OptsOf(r.cmd)
          /\ May(r, o)
      BY <2>2, <2>9 DEF IsFlag
    <3> HIDE DEF o
    <3>4. o = Canonical(t.opt)
      BY DEF o
    <3>5. CASE o \in GlobalFlags
      BY <2>1, <3>1, <3>3, <3>4, <3>5, FlagFollows
    <3>6. CASE o \notin GlobalFlags
      <4>1. o \notin SshOpts /\ r.cmd \notin SshOrders
        BY <3>3, <3>6, SshNamesAre
      <4>2. u = SState("refused", s.pos, s.globals, s.seen)
        BY <2>4, <3>3, <3>6, <4>1 DEF SshMove, o
      <4>3. u.want = "refused"
        BY <4>2 DEF SState
      <4> QED
        BY <3>2, <4>1, <4>3 DEF Follow, Goes
    <3> QED
      BY <3>5, <3>6
  <2>10. CASE IsInline(r, t)
    <3> DEFINE v == WordOf(t)
    <3>1. Is(n, "", r.cmd, Extended(r.opts, r.here, o, <<Value(t)>>), r.here \cup {o}, r.pos, r.tail)
      BY <1>1, <2>10, GoodMoves
    <3>2. n.cmd = r.cmd
      BY <3>1 DEF Is
    <3>3. s.want = "" /\ t.form = "inline" /\ o \in OptsOf(r.cmd) /\ May(r, o)
      BY <2>2, <2>10 DEF IsInline
    <3>4. v \in ToForward(T) /\ v.form = "word" /\ Value(v) = Value(t)
      BY <1>1, WordOfIs
    <3> HIDE DEF o, v
    <3>5. CASE o \in SshOpts
      <4>1. u = Taken(s, o, v)
        BY <2>4, <3>3, <3>5 DEF SshMove, o, v
      <4>2. Is(n, "", r.cmd, Extended(r.opts, r.here, o, <<Value(v)>>), r.here \cup {o}, r.pos, r.tail)
        BY <3>1, <3>4
      <4>3. Follow(n, u) /\ (Forwarding(r, g) /\ Unmet(r, o) => Forwarding(n, h))
        BY <2>1, <3>3, <3>4, <3>5, <4>1, <4>2, ValueFollows
      <4>4. New(r, t) => Unmet(r, o)
        BY <3>3 DEF New, Mention, Unmet, o
      <4> QED
        BY <4>3, <4>4 DEF Goes
    <3>6. CASE o \notin SshOpts
      <4>1. r.cmd \notin SshOrders
        BY <3>3, <3>6, SshNamesAre
      <4>2. u = SState("refused", s.pos, s.globals, s.seen)
        BY <2>4, <3>3, <3>6 DEF SshMove, o
      <4>3. u.want = "refused"
        BY <4>2 DEF SState
      <4> QED
        BY <3>2, <4>1, <4>3 DEF Follow, Goes
    <3> QED
      BY <3>5, <3>6
  <2>11. CASE IsCommand(r, t) \/ IsSshCommand(r, t) \/ IsPositional(r, t)
    <3>1. t.form = "word" /\ r.want = ""
      BY <2>11 DEF IsCommand, IsSshCommand, IsPositional
    <3> QED
      BY <2>1, <3>1, WordFollows
  <2> QED
    BY <2>3, <2>5, <2>6, <2>7, <2>8, <2>9, <2>10, <2>11
<1> QED
  BY <1>2, <1>3

(* The options to forward that a command line mentions.                     *)
Heard(x) == {Canonical(x[i].opt) : i \in Mentions(x)}

LEMMA HeardMore ==
  ASSUME NEW T, NEW x \in Seq(T), NEW t \in T, NEW more, more = Append(x, t)
  PROVE  /\ Heard(x) \subseteq Heard(more)
         /\ Mention(t) => Canonical(t.opt) \in Heard(more)
         /\ Repeats(x) => Repeats(more)
         /\ Mention(t) /\ Canonical(t.opt) \in Heard(x) => Repeats(more)
<1> DEFINE k == Len(x)
<1>1. /\ DOMAIN x = 1..k /\ DOMAIN more = 1..(k + 1) /\ k \in Nat
      /\ \A i \in 1..k : more[i] = x[i]
      /\ more[k + 1] = t
  OBVIOUS
<1> HIDE DEF k
<1>2. /\ k + 1 \in DOMAIN more /\ k + 1 \notin DOMAIN x
      /\ \A i \in DOMAIN x : i \in DOMAIN more /\ more[i] = x[i]
  BY <1>1
<1>3. \A i \in Mentions(x) : i \in Mentions(more) /\ more[i] = x[i] /\ i # k + 1
  BY <1>2 DEF Mentions
<1>4. Mention(t) => k + 1 \in Mentions(more)
  BY <1>1, <1>2 DEF Mentions, Mention
<1>5. Heard(x) \subseteq Heard(more)
  BY <1>3 DEF Heard
<1>6. Mention(t) => Canonical(t.opt) \in Heard(more)
  BY <1>1, <1>4 DEF Heard
<1>7. ASSUME Repeats(x) PROVE Repeats(more)
  <2>1. PICK i \in Mentions(x), j \in Mentions(x) : i # j /\ Canonical(x[i].opt) = Canonical(x[j].opt)
    BY <1>7 DEF Repeats
  <2>2. i \in Mentions(more) /\ j \in Mentions(more) /\ more[i] = x[i] /\ more[j] = x[j]
    BY <1>3
  <2>3. Canonical(more[i].opt) = Canonical(more[j].opt)
    BY <2>1, <2>2
  <2> QED
    BY <2>1, <2>2, <2>3 DEF Repeats
<1>8. ASSUME Mention(t), Canonical(t.opt) \in Heard(x) PROVE Repeats(more)
  <2>1. PICK i \in Mentions(x) : Canonical(x[i].opt) = Canonical(t.opt)
    BY <1>8 DEF Heard
  <2>2. /\ i \in Mentions(more) /\ k + 1 \in Mentions(more) /\ i # k + 1
        /\ Canonical(more[i].opt) = Canonical(more[k + 1].opt)
    BY <1>1, <1>3, <1>4, <1>8, <2>1
  <2> QED
    BY <2>2 DEF Repeats
<1> QED
  BY <1>5, <1>6, <1>7, <1>8

LEMMA SeenGrows ==
  ASSUME NEW r, Good(r), NEW t, IsToken(t), t.form # "attached",
         NEW n, n = ReadToken(r, t), ~IsBad(n), NEW o \in Forwards, o \in Seen(n)
  PROVE  o \in Seen(r) \/ (Mention(t) /\ Canonical(t.opt) = o)
<1> DEFINE c == Canonical(t.opt)
<1>2. o \notin {"", "--"}
  BY DEF Forwards, GlobalOpts
<1>3. \/ InTail(r, t) \/ InRest(r, t) \/ IsValue(r, t) \/ IsEnd(r, t) \/ IsOption(r, t)
      \/ IsFlag(r, t) \/ IsInline(r, t) \/ IsCommand(r, t) \/ IsSshCommand(r, t)
      \/ IsPositional(r, t)
  BY GoodOrBad
<1>4. CASE InTail(r, t) \/ InRest(r, t) \/ IsEnd(r, t) \/ IsCommand(r, t) \/ IsSshCommand(r, t)
           \/ IsPositional(r, t)
  <2>1. \E cmd, here, pos, tail : \/ Is(n, "--", cmd, r.opts, here, pos, tail)
                                 \/ Is(n, r.want, cmd, r.opts, here, pos, tail)
                                 \/ Is(n, "", cmd, r.opts, here, pos, tail)
    BY <1>4, GoodMoves
  <2>2. n.opts = r.opts /\ n.want \in {"", "--", r.want}
    BY <2>1 DEF Is
  <2> QED
    BY <1>2, <2>2 DEF Seen
<1>5. CASE IsValue(r, t)
  <2>1. Is(n, "", r.cmd, Extended(r.opts, r.here, r.want, <<Value(t)>>), r.here \cup {r.want}, r.pos, r.tail)
    BY <1>5, GoodMoves
  <2>2. n.want = "" /\ n.opts = Extended(r.opts, r.here, r.want, <<Value(t)>>)
    BY <2>1 DEF Is
  <2>3. DOMAIN n.opts = DOMAIN r.opts \cup {r.want}
    BY <2>2 DEF Extended
  <2> QED
    BY <1>2, <2>2, <2>3 DEF Seen
<1>6. CASE IsOption(r, t)
  <2>1. Is(n, c, r.cmd, r.opts, r.here, r.pos, r.tail)
    BY <1>6, GoodMoves
  <2>2. n.want = c /\ n.opts = r.opts
    BY <2>1 DEF Is
  <2> QED
    BY <1>6, <2>2 DEF Seen, Mention, IsOption
<1>7. CASE IsFlag(r, t)
  <2>1. Is(n, "", r.cmd, Extended(r.opts, r.here, c, <<>>), r.here \cup {c}, r.pos, r.tail)
    BY <1>7, GoodMoves
  <2>2. n.want = "" /\ n.opts = Extended(r.opts, r.here, c, <<>>)
    BY <2>1 DEF Is
  <2>3. DOMAIN n.opts = DOMAIN r.opts \cup {c}
    BY <2>2 DEF Extended
  <2> QED
    BY <1>2, <1>7, <2>2, <2>3 DEF Seen, Mention, IsFlag
<1>8. CASE IsInline(r, t)
  <2>1. Is(n, "", r.cmd, Extended(r.opts, r.here, c, <<Value(t)>>), r.here \cup {c}, r.pos, r.tail)
    BY <1>8, GoodMoves
  <2>2. n.want = "" /\ n.opts = Extended(r.opts, r.here, c, <<Value(t)>>)
    BY <2>1 DEF Is
  <2>3. DOMAIN n.opts = DOMAIN r.opts \cup {c}
    BY <2>2 DEF Extended
  <2>4. t.form = "inline"
    BY <1>8 DEF IsInline
  <2> QED
    BY <1>2, <2>2, <2>3, <2>4 DEF Seen, Mention
<1> QED
  BY <1>3, <1>4, <1>5, <1>6, <1>7, <1>8

LEMMA SeenIsHeard ==
  ASSUME NEW T, \A t \in T : IsToken(t) /\ t.form # "attached", NEW w \in Seq(T),
         ~IsBad(Reading(w))
  PROVE  Seen(Reading(w)) \cap Forwards \subseteq Heard(w)
<1> DEFINE Right(x) == Seen(Reading(x)) \cap Forwards \subseteq Heard(x)
           P == {x \in Seq(T) : IsBad(Reading(x)) \/ Right(x)}
<1>1. <<>> \in P
  <2>1. Reading(<<>>) = NothingRead /\ <<>> \in Seq(T)
    BY NothingYet, EmptyIsSeq
  <2>2. NothingRead.want = "" /\ NothingRead.opts = <<>>
    BY DEF NothingRead
  <2>3. Seen(NothingRead) = {""}
    BY <2>2, NoDomain DEF Seen
  <2>4. "" \notin Forwards
    BY DEF Forwards, GlobalOpts
  <2> QED
    BY <2>1, <2>3, <2>4
<1>2. ASSUME NEW x \in Seq(T), NEW t \in T, x \in P
      PROVE  Append(x, t) \in P
  <2> DEFINE r == Reading(x)
             n == ReadToken(r, t)
             more == Append(x, t)
  <2>1. Reading(more) = n /\ more \in Seq(T)
    BY OneMore
  <2>2. IsToken(t) /\ t.form # "attached" /\ (IsBad(r) \/ Typed(r, T))
    BY Reads
  <2>3. IsBad(r) \/ Seen(r) \cap Forwards \subseteq Heard(x)
    BY <1>2
  <2>4. Heard(x) \subseteq Heard(more) /\ (Mention(t) => Canonical(t.opt) \in Heard(more))
    BY HeardMore
  <2> HIDE DEF P, Right, r, more
  <2>5. IsBad(n) \/ Seen(n) \cap Forwards \subseteq Heard(more)
    <3>1. CASE IsBad(r)
      BY <3>1, BadStays
    <3>2. CASE ~IsBad(r) /\ ~IsBad(n)
      <4>1. Good(r)
        BY <2>2, <3>2 DEF Typed
      <4>2. ASSUME NEW o \in Forwards, o \in Seen(n)
            PROVE  o \in Seen(r) \/ (Mention(t) /\ Canonical(t.opt) = o)
        <5>1. n = ReadToken(r, t)
          OBVIOUS
        <5> HIDE DEF n
        <5> QED
          BY <2>2, <3>2, <4>1, <4>2, <5>1, SeenGrows
      <4> HIDE DEF n
      <4> QED
        BY <2>3, <2>4, <3>2, <4>2
    <3> QED
      BY <3>1, <3>2
  <2> HIDE DEF n
  <2> QED
    BY <2>1, <2>5 DEF P, Right, more
<1> HIDE DEF P
<1>3. w \in P
  BY <1>1, <1>2, Rd!Lengthen
<1> QED
  BY <1>3 DEF P, Right

SshFollow(x) ==
  LET r == Reading(x)
      s == SshReading(x)
  IN  /\ Follow(r, s)
      /\ Repeats(x) \/ s.want = "refused" \/ Forwarding(r, Reading(s.globals))

LEMMA SshFollowSteps ==
  ASSUME NEW T, \A t \in T : IsToken(t) /\ t.form # "attached", NEW x \in Seq(T), NEW t \in T,
         ~IsBad(Reading(x)), ~IsBad(Reading(Append(x, t))), SshFollow(x)
  PROVE  SshFollow(Append(x, t))
<1> DEFINE more == Append(x, t)
           r == Reading(x)
           s == SshReading(x)
           n == Reading(more)
           u == SshReading(more)
           g == Reading(s.globals)
           h == Reading(u.globals)
<1>1. n = ReadToken(r, t) /\ u = SshToken(s, t) /\ more \in Seq(T)
  BY OneMore
<1>2. IsToken(t) /\ t.form # "attached" /\ Typed(r, T) /\ STyped(s, T)
  BY SshReads, Reads
<1>3. Seen(r) \cap Forwards \subseteq Heard(x)
  BY SeenIsHeard
<1>4. /\ Repeats(x) => Repeats(more)
      /\ Mention(t) /\ Canonical(t.opt) \in Heard(x) => Repeats(more)
  BY HeardMore
<1>5. /\ g = Reading(s.globals) /\ h = Reading(u.globals)
      /\ ~IsBad(n) /\ Follow(r, s)
      /\ Repeats(x) \/ s.want = "refused" \/ Forwarding(r, g)
  BY DEF SshFollow
<1> HIDE DEF more, r, s, n, u, g, h
<1>6. Goes(r, g, t, n, u, h)
  BY <1>1, <1>2, <1>5, FollowSteps
<1>7. New(r, t) \/ Repeats(more)
  BY <1>3, <1>4 DEF New, Mention, Seen
<1>8. s.want = "refused" => u.want = "refused"
  <2>1. SshMove(s, t, u)
    BY <1>1, <1>2, SshMoves DEF STyped
  <2> QED
    BY <2>1 DEF SshMove
<1>9. Follow(n, u) /\ (Repeats(more) \/ u.want = "refused" \/ Forwarding(n, h))
  BY <1>4, <1>5, <1>6, <1>7, <1>8 DEF Goes
<1> QED
  BY <1>9 DEF SshFollow, more, n, u, h

LEMMA SshFollows ==
  ASSUME NEW T, \A t \in T : IsToken(t) /\ t.form # "attached", NEW w \in Seq(T),
         ~IsBad(Reading(w))
  PROVE  SshFollow(w)
<1> DEFINE P == {x \in Seq(T) : IsBad(Reading(x)) \/ SshFollow(x)}
<1>1. <<>> \in P
  <2>1. Reading(<<>>) = NothingRead /\ SshReading(<<>>) = NothingTaken /\ <<>> \in Seq(T)
    BY NothingYet, EmptyIsSeq
  <2>2. NothingTaken.globals = <<>>
    BY DEF NothingTaken
  <2>3. Follow(NothingRead, NothingTaken) /\ Forwarding(NothingRead, NothingRead)
    <3>1. NothingRead = State("", "", <<>>, {}, <<>>, <<>>)
      BY DEF NothingRead, State
    <3>2. Good(NothingRead) /\ Is(NothingRead, "", "", <<>>, {}, <<>>, <<>>)
      BY <3>1, StateFields, StateIs
    <3>3. Fresh(NothingRead)
      BY <3>2, NoDomain DEF Fresh, Ready, Is
    <3>4. Agrees(<<>>, <<>>)
      BY NoDomain DEF Agrees
    <3>5. SameNames("", <<>>, <<>>)
      BY DEF SameNames, SshNames
    <3>6. NothingTaken.want = "" /\ NothingTaken.pos = <<>> /\ NothingTaken.seen = {}
      BY DEF NothingTaken
    <3>7. "--lifetime" \notin NothingTaken.seen
      BY <3>6
    <3>8. NothingRead.want = "" /\ NothingRead.cmd = "" /\ NothingRead.opts = <<>>
          /\ NothingRead.pos = <<>>
      BY <3>2 DEF Is
    <3>9. Unmet(NothingRead, NothingRead.want)
      BY <3>8, NoDomain DEF Unmet
    <3>10. Follow(NothingRead, NothingTaken)
      BY <3>5, <3>6, <3>7, <3>8 DEF Follow, Along
    <3> QED
      BY <3>3, <3>4, <3>8, <3>9, <3>10 DEF Forwarding
  <2>4. SshFollow(<<>>)
    BY <2>1, <2>2, <2>3 DEF SshFollow
  <2> QED
    BY <2>1, <2>4
<1>2. ASSUME NEW x \in Seq(T), NEW t \in T, x \in P
      PROVE  Append(x, t) \in P
  <2>1. Reading(Append(x, t)) = ReadToken(Reading(x), t) /\ Append(x, t) \in Seq(T)
    BY OneMore
  <2>2. IsBad(Reading(x)) => IsBad(Reading(Append(x, t)))
    BY <2>1, BadStays
  <2>3. IsBad(Reading(x)) \/ SshFollow(x)
    BY <1>2
  <2> HIDE DEF P
  <2>4. IsBad(Reading(Append(x, t))) \/ SshFollow(Append(x, t))
    BY <2>2, <2>3, SshFollowSteps
  <2> QED
    BY <2>1, <2>4 DEF P
<1> HIDE DEF P
<1>3. w \in P
  BY <1>1, <1>2, Rd!Lengthen
<1> QED
  BY <1>3 DEF P

(* Whatever is fetched is what the command line asks for.                   *)
KeyAsked(a, parsed) == parsed.cmd = SshCommand[a.op] /\ a.op \in {"add", "remove"}

FetchesTheKey(a, parsed, fetch) ==
  /\ parsed.cmd = SshCommand[a.op] /\ a.op \in {"add", "remove"}
  /\ fetch.ok /\ fetch.cmd = FetchCmd(a.op) /\ fetch.pos = parsed.pos
  /\ SameGlobals(fetch.opts, parsed.opts)

LEMMA OneIs ==
  ASSUME NEW V, NEW a \in Seq(V), Len(a) = 1
  PROVE  a = <<a[1]>> /\ a # <<>>
<1> DEFINE b == <<a[1]>>
<1>1. a[1] \in V /\ a # <<>>
  OBVIOUS
<1>2. b \in Seq(V) /\ Len(b) = 1 /\ b[1] = a[1]
  BY <1>1
<1>3. \A i \in 1..1 : i = 1
  OBVIOUS
<1> HIDE DEF b
<1>4. \A i \in 1..Len(a) : a[i] = b[i]
  BY <1>2, <1>3
<1>5. a = b
  BY <1>2, <1>4, SeqEqual
<1> QED
  BY <1>1, <1>5 DEF b

LEMMA ThreeWords ==
  ASSUME NEW W, NEW a \in Seq(W), NEW V, NEW b \in Seq(V)
  PROVE  /\ Len(a) = 3 => a # <<>>
         /\ Len(a) = 3 /\ Len(a) = 2 + Len(b) => Len(b) = 1
         /\ Len(b) = 1 /\ Len(a) = 2 + Len(b) => Len(a) = 3
<1>1. Len(a) = 3 => a # <<>>
  OBVIOUS
<1> DEFINE n == Len(a)
           k == Len(b)
<1>2. n \in Nat /\ k \in Nat
  OBVIOUS
<1>3. n = 3 => a # <<>>
  BY <1>1
<1> HIDE DEF n, k
<1>4. (n = 3 /\ n = 2 + k => k = 1) /\ (k = 1 /\ n = 2 + k => n = 3)
  BY <1>2
<1> QED
  BY <1>3, <1>4, Zenon DEF n, k

LEMMA ParsedIs ==
  ASSUME NEW w, Parse(w).ok, NEW r, r = Reading(w)
  PROVE  /\ Complete(r)
         /\ Parse(w).cmd = r.cmd /\ Parse(w).pos = r.pos /\ Parse(w).opts = r.opts
         /\ Parse(w).tail = r.tail
<1>1. /\ Complete(r)
      /\ Parse(w) = [ok |-> TRUE, cmd |-> r.cmd, opts |-> r.opts, pos |-> r.pos, tail |-> r.tail]
  BY Parsed
<1> QED
  BY <1>1

LEMMA NotInRange ==
  ASSUME NEW T, NEW w \in Seq(T), NEW x, x \notin T
  PROVE  x \notin Range(w)
  BY DEF Range

LEMMA KeyIsFetched ==
  ASSUME NEW T, \A t \in T : IsToken(t) /\ t.form # "attached", NEW w \in Seq(T), Parse(w).ok,
         NEW a, a = ParseSshAction(w), a # NoAction
  PROVE  /\ KeyAsked(a, Parse(w))
         /\ ~Repeats(w) => FetchesTheKey(a, Parse(w), Parse(ExeArgs(a)))
<1> DEFINE r == Reading(w)
           s == SshReading(w)
           g == Reading(s.globals)
           q == Parse(ExeArgs(a))
<1>1. /\ Complete(r)
      /\ Parse(w) = [ok |-> TRUE, cmd |-> r.cmd, opts |-> r.opts, pos |-> r.pos, tail |-> r.tail]
  BY Parsed
<1>2. Parse(w).cmd = r.cmd /\ Parse(w).pos = r.pos /\ Parse(w).opts = r.opts
  BY <1>1
<1>3. ~IsBad(r)
  BY <1>1 DEF Complete, IsBad
<1>4. Follow(r, s) /\ (Repeats(w) \/ s.want = "refused" \/ Forwarding(r, g))
  BY <1>3, SshFollows DEF SshFollow
<1>5. Typed(r, T)
  BY <1>3, Reads
<1>6. IsAction(s, a)
  BY ActionIs
<1>7. FetchParsed(a, g, q)
  BY FetchIs
<1>8. /\ s.want = "" /\ Len(s.pos) = 3 /\ s.pos[1].text = "ssh"
      /\ a.op \in {"add", "remove"} /\ a.op = s.pos[2].text /\ a.name = s.pos[3]
  BY <1>6 DEF IsAction
<1>0. s.pos \in Seq(Words(T))
  BY SshReads DEF STyped
<1> HIDE DEF r, s, g, q
<1>9. SameNames(r.cmd, r.pos, s.pos)
  BY <1>4, <1>8 DEF Follow, Along
<1>10. r.cmd \in SshNames
  <2>1. r.cmd # ""
    <3>1. s.pos # <<>>
      BY <1>0, <1>8, ThreeWords, Zenon
    <3> QED
      BY <1>9, <3>1 DEF SameNames
  <2>2. r.cmd # "ssh"
    BY <1>1 DEF Complete, Commands, Subcommands
  <2> QED
    BY <1>8, <1>9, <2>1, <2>2 DEF SameNames
<1>11. /\ Len(s.pos) = 2 + Len(r.pos)
       /\ SshCommand[a.op] = r.cmd
       /\ r.pos # <<>> => Value(a.name) = r.pos[1]
  BY <1>8, <1>9, <1>10 DEF SameNames
<1>12. Len(r.pos) = 1
  <2>1. r.pos \in Seq(Values(T))
    BY <1>5 DEF Typed
  <2> QED
    BY <1>0, <1>8, <1>11, <2>1, ThreeWords, Zenon
<1>13. r.pos = <<Value(a.name)>>
  <2>1. r.pos \in Seq(Values(T))
    BY <1>5 DEF Typed
  <2>2. r.pos = <<r.pos[1]>> /\ r.pos # <<>>
    BY <1>12, <2>1, OneIs
  <2> QED
    BY <1>11, <2>2
<1>14. ASSUME ~Repeats(w) PROVE FetchesTheKey(a, Parse(w), q)
  <2>1. Fresh(g) /\ Agrees(r.opts, g.opts)
    BY <1>4, <1>8, <1>14 DEF Forwarding
  <2>2. ~IsBad(g)
    BY <2>1 DEF Fresh, Ready, Good, IsBad
  <2>3. q.ok /\ q.cmd = FetchCmd(a.op) /\ q.pos = <<Value(a.name)>> /\ SameGlobals(q.opts, g.opts)
    BY <1>7, <2>2 DEF FetchParsed
  <2>4. SameGlobals(q.opts, r.opts)
    BY <2>1, <2>3 DEF SameGlobals, Agrees, Forwards
  <2> QED
    BY <1>2, <1>8, <1>11, <1>13, <2>3, <2>4 DEF FetchesTheKey
<1>15. KeyAsked(a, Parse(w))
  BY <1>2, <1>8, <1>11 DEF KeyAsked
<1> QED
  BY <1>14, <1>15 DEF q

LEMMA SshIsNoticed ==
  ASSUME NEW T, \A t \in T : IsToken(t) /\ t.form \notin {"attached", "dashes"}, NEW w \in Seq(T),
         Parse(w).ok, Parse(w).cmd \in {"ssh add", "ssh remove"}
  PROVE  ParseSshAction(w) # NoAction
<1> DEFINE r == Reading(w)
           s == SshReading(w)
           a == ParseSshAction(w)
<1>1. /\ Complete(r)
      /\ Parse(w) = [ok |-> TRUE, cmd |-> r.cmd, opts |-> r.opts, pos |-> r.pos, tail |-> r.tail]
  BY Parsed
<1>2. r.cmd \in {"ssh add", "ssh remove"}
  <2>1. Parse(w).cmd = r.cmd
    BY ParsedIs, Zenon
  <2> QED
    BY <2>1
<1>3. ~IsBad(r)
  BY <1>1 DEF Complete, IsBad
<1>4. Follow(r, s)
  BY <1>3, SshFollows DEF SshFollow
<1>5. Typed(r, T)
  BY <1>3, Reads
<1>6. IsAction(s, a)
  BY ActionIs
<1>7. Dashes \notin Range(w)
  <2>1. Dashes \notin T
    BY DEF Dashes, Token
  <2> QED
    BY <2>1, NotInRange
<1>8. r.want = ""
  <2>1. r.want # "--"
    BY <1>3, <1>7, ReadsVault
  <2> QED
    BY <1>1, <2>1 DEF Complete
<1>0. s.pos \in Seq(Words(T))
  BY SshReads DEF STyped
<1> HIDE DEF r, s
<1>9. SameNames(r.cmd, r.pos, s.pos) /\ s.want = "" /\ ("--lifetime" \in s.seen => r.cmd = "ssh add")
  BY <1>2, <1>4, <1>8 DEF Follow, Along, SshOrders
<1>10. r.cmd \in SshNames /\ r.cmd # "" /\ r.cmd # "ssh"
  BY <1>2 DEF SshNames
<1>11. /\ Len(s.pos) = 2 + Len(r.pos) /\ s.pos[1].text = "ssh"
       /\ s.pos[2].text \in DOMAIN SshCommand /\ SshCommand[s.pos[2].text] = r.cmd
  BY <1>9, <1>10 DEF SameNames
<1>12. Len(r.pos) = 1
  <2>1. Positionals(r.cmd) = {1}
    BY <1>2 DEF Positionals
  <2> QED
    BY <1>1, <2>1 DEF Complete
<1>13. Len(s.pos) = 3
  <2>1. r.pos \in Seq(Values(T))
    BY <1>5 DEF Typed
  <2> QED
    BY <1>0, <1>11, <1>12, <2>1, ThreeWords, Zenon
<1>14. s.pos[2].text = "add" \/ (s.pos[2].text = "remove" /\ r.cmd = "ssh remove")
  <2>1. DOMAIN SshCommand = {"add", "pubkey", "remove"}
    BY DEF SshCommand
  <2>2. SshCommand["pubkey"] = "ssh pubkey" /\ SshCommand["remove"] = "ssh remove"
    BY DEF SshCommand
  <2> QED
    BY <1>2, <1>11, <2>1, <2>2
<1>15. s.pos[2].text = "remove" => "--lifetime" \notin s.seen
  BY <1>9, <1>14
<1> HIDE DEF a
<1>16. a # NoAction
  BY <1>6, <1>9, <1>11, <1>13, <1>14, <1>15 DEF IsAction
<1> QED
  BY <1>16 DEF a

-----------------------------------------------------------------------------
(* What the shim makes of a call *)

LEMMA WindowsArgsAre ==
  ASSUME NEW S, NEW T, \A t \in S : \A s : Emitted(s, t) \in T, NEW vault,
         NoVault(vault) \/ (Opt("--vault") \in T /\ VaultPath(vault) \in T),
         NEW args \in Seq(S)
  PROVE  BuildWindowsArgs(args, vault) \in Seq(T)
<1> DEFINE P == {x \in Seq(S) : Translating(x).out \in Seq(T)}
<1>1. <<>> \in P
  <2>1. Translating(<<>>) = NothingSent /\ <<>> \in Seq(S) /\ <<>> \in Seq(T)
    BY NothingYet, EmptyIsSeq
  <2>2. NothingSent.out = <<>>
    BY DEF NothingSent
  <2> QED
    BY <2>1, <2>2
<1>2. ASSUME NEW x \in Seq(S), NEW t \in S, x \in P
      PROVE  Append(x, t) \in P
  <2> DEFINE s == Translating(x)
  <2>1. /\ Translating(Append(x, t)) = TranslateToken(s, t)
        /\ Append(x, t) \in Seq(S)
    BY OneMore
  <2>2. s.out \in Seq(T)
    BY <1>2
  <2> HIDE DEF s
  <2>3. TranslateToken(s, t).out = Append(s.out, Emitted(s, t))
    BY OutOfMore
  <2>4. Emitted(s, t) \in T
    OBVIOUS
  <2>5. Append(s.out, Emitted(s, t)) \in Seq(T)
    BY <2>2, <2>4, MoreIsSeq
  <2> QED
    BY <2>1, <2>3, <2>5
<1> HIDE DEF P
<1>3. args \in P
  BY <1>1, <1>2, Rd!Lengthen
<1>4. TranslateArgs(args) \in Seq(T)
  BY <1>3 DEF P, Translating, TranslateArgs
<1>5. VaultArg(args, vault) \in Seq(T)
  <2>1. CASE VaultArg(args, vault) = <<>>
    BY <2>1, EmptyIsSeq
  <2>2. CASE VaultArg(args, vault) # <<>>
    <3> DEFINE a == Opt("--vault")
               b == VaultPath(vault)
    <3>1. a \in T /\ b \in T /\ VaultArg(args, vault) = <<a, b>>
      BY <2>2 DEF VaultArg
    <3> HIDE DEF a, b
    <3> QED
      BY <3>1, TwoTokens
  <2> QED
    BY <2>1, <2>2
<1> DEFINE h == VaultArg(args, vault)
           o == TranslateArgs(args)
<1> HIDE DEF h, o
<1>6. h \o o \in Seq(T)
  BY <1>4, <1>5 DEF h, o
<1> QED
  BY <1>6 DEF BuildWindowsArgs, h, o

Forms(T, forms) == {t \in T : t.form \notin forms}

LEMMA WindowsArgsSent ==
  ASSUME NEW S, \A t \in S : IsToken(t), NEW vault, vault = Absent \/ IsVaultValue(vault),
         NEW args \in Seq(S), NEW forms, forms \subseteq {"attached", "dashes"},
         \A t \in S : t.form \notin forms
  PROVE  BuildWindowsArgs(args, vault) \in Seq(Forms(Sent(S, vault), forms))
<1> DEFINE T == Forms(Sent(S, vault), forms)
<1>1. ASSUME NEW t \in S, NEW s PROVE Emitted(s, t) \in T
  <2> DEFINE e == Emitted(s, t)
  <2>1. e \in Sent(S, vault)
    BY EmittedIsSent
  <2>2. e.form = t.form \/ e.form = "word"
    BY DEF Emitted, AsPath, ToWindows, WinWord, Token
  <2> HIDE DEF e
  <2>3. e.form \notin forms
    BY <2>2
  <2> QED
    BY <2>1, <2>3 DEF Forms, e
<1>2. NoVault(vault) \/ (Opt("--vault") \in T /\ VaultPath(vault) \in T)
  <2> SUFFICES ASSUME ~NoVault(vault) PROVE Opt("--vault") \in T /\ VaultPath(vault) \in T
    OBVIOUS
  <2> DEFINE a == Opt("--vault")
             b == VaultPath(vault)
  <2>1. IsToken(a) /\ a.form = "opt"
    BY DEF IsToken, Opt, Token, Dashes
  <2>2. IsToken(b) /\ b.form = "word"
    BY VaultPathIs DEF IsVaultValue
  <2>3. a \in Sent(S, vault) /\ b \in Sent(S, vault)
    BY <2>1, <2>2 DEF Sent
  <2> HIDE DEF a, b
  <2> QED
    BY <2>1, <2>2, <2>3 DEF Forms, a, b
<1> HIDE DEF T
<1>3. BuildWindowsArgs(args, vault) \in Seq(T)
  BY <1>1, <1>2, WindowsArgsAre
<1> QED
  BY <1>3 DEF T

(* What the shim passes on mentions no option twice that the line does not. *)
MentionsKept(o, x) ==
  /\ DOMAIN o = DOMAIN x
  /\ \A i \in DOMAIN o : Mention(o[i]) => Mention(x[i]) /\ o[i].opt = x[i].opt

LEMMA MentionsOfMore ==
  ASSUME NEW T, NEW o \in Seq(T), NEW S, NEW x \in Seq(S), MentionsKept(o, x),
         NEW e \in T, NEW t \in S, Mention(e) => Mention(t) /\ e.opt = t.opt
  PROVE  MentionsKept(Append(o, e), Append(x, t))
<1> DEFINE k == Len(x)
           a == Append(o, e)
           b == Append(x, t)
<1>1. k \in Nat /\ DOMAIN o = 1..k /\ DOMAIN x = 1..k
  BY DEF MentionsKept
<1>2. Len(o) = k
  BY <1>1
<1>3. /\ DOMAIN a = 1..(k + 1) /\ DOMAIN b = 1..(k + 1) /\ a[k + 1] = e /\ b[k + 1] = t
      /\ \A i \in 1..k : a[i] = o[i] /\ b[i] = x[i]
  BY <1>2
<1> HIDE DEF k, a, b
<1>4. \A i \in 1..(k + 1) : i \in 1..k \/ i = k + 1
  BY <1>1
<1>5. MentionsKept(a, b)
  BY <1>1, <1>3, <1>4 DEF MentionsKept
<1> QED
  BY <1>5 DEF a, b

LEMMA TranslationMentions ==
  ASSUME NEW S, \A t \in S : IsToken(t), NEW args \in Seq(S)
  PROVE  MentionsKept(TranslateArgs(args), args) /\ \E T : TranslateArgs(args) \in Seq(T)
<1> DEFINE T == S \cup {ToWindows(t) : t \in S} \cup {AsPath(t) : t \in S}
           Right(x) == Translating(x).out \in Seq(T) /\ MentionsKept(Translating(x).out, x)
           P == {x \in Seq(S) : Right(x)}
<1>1. <<>> \in P
  <2>1. Translating(<<>>) = NothingSent /\ <<>> \in Seq(S) /\ <<>> \in Seq(T)
    BY NothingYet, EmptyIsSeq
  <2>2. NothingSent.out = <<>>
    BY DEF NothingSent
  <2>3. MentionsKept(<<>>, <<>>)
    BY NoDomain DEF MentionsKept
  <2> QED
    BY <2>1, <2>2, <2>3
<1>2. ASSUME NEW x \in Seq(S), NEW t \in S, x \in P
      PROVE  Append(x, t) \in P
  <2> DEFINE s == Translating(x)
             e == Emitted(s, t)
  <2>1. /\ Translating(Append(x, t)) = TranslateToken(s, t)
        /\ Append(x, t) \in Seq(S)
    BY OneMore
  <2>2. s.out \in Seq(T) /\ MentionsKept(s.out, x)
    BY <1>2
  <2>3. TranslateToken(s, t).out = Append(s.out, e)
    BY OutOfMore
  <2>4. e \in T
    BY DEF Emitted
  <2>5. Mention(e) => Mention(t) /\ e.opt = t.opt
    <3>1. CASE s.want # "path" \/ t.form = "word"
      <4>1. e.form = t.form /\ e.opt = t.opt
        BY <3>1, EmittedIs
      <4> HIDE DEF e
      <4> QED
        BY <4>1 DEF Mention
    <3>2. CASE s.want = "path" /\ t.form # "word"
      <4>1. e.form = "word"
        BY <3>2 DEF Emitted, AsPath, WinWord, Token
      <4> HIDE DEF e
      <4> QED
        BY <4>1 DEF Mention
    <3> QED
      BY <3>1, <3>2
  <2> HIDE DEF P, Right, T, s, e
  <2>6. MentionsKept(Append(s.out, e), Append(x, t)) /\ Append(s.out, e) \in Seq(T)
    BY <2>2, <2>4, <2>5, MentionsOfMore, MoreIsSeq
  <2> QED
    BY <2>1, <2>3, <2>6 DEF P, Right
<1> HIDE DEF P
<1>3. args \in P
  BY <1>1, <1>2, Rd!Lengthen
<1> QED
  BY <1>3 DEF P, Right, Translating, TranslateArgs

LEMMA TwoAhead ==
  ASSUME NEW T, NEW o \in Seq(T), NEW a, NEW b, NEW w, w = <<a, b>> \o o
  PROVE  /\ DOMAIN w = 1..(Len(o) + 2) /\ w[1] = a /\ w[2] = b
         /\ \A i \in 3..(Len(o) + 2) : i - 2 \in DOMAIN o /\ w[i] = o[i - 2]
  OBVIOUS

LEMMA RepeatsStay ==
  ASSUME NEW args, NEW S, S = Range(args), args \in Seq(S), \A t \in S : IsToken(t), Dashes \notin S,
         NEW vault, vault = Absent \/ IsVaultValue(vault),
         NEW w, w = BuildWindowsArgs(args, vault), Repeats(w)
  PROVE  Repeats(args)
<1> DEFINE o == TranslateArgs(args)
<1>1. MentionsKept(o, args)
  BY TranslationMentions
<1>2. PICK T : o \in Seq(T)
  BY TranslationMentions
<1>3. w = VaultArg(args, vault) \o o
  BY DEF BuildWindowsArgs
<1> HIDE DEF o
<1>4. PICK i \in Mentions(w), j \in Mentions(w) : i # j /\ Canonical(w[i].opt) = Canonical(w[j].opt)
  BY DEF Repeats
<1>5. i \in DOMAIN w /\ j \in DOMAIN w /\ Mention(w[i]) /\ Mention(w[j])
  BY DEF Mentions, Mention
<1>6. ASSUME NEW x \in DOMAIN o, NEW y \in DOMAIN o, x # y, Mention(o[x]), Mention(o[y]),
             Canonical(o[x].opt) = Canonical(o[y].opt)
      PROVE  Repeats(args)
  <2>1. /\ x \in DOMAIN args /\ y \in DOMAIN args /\ Mention(args[x]) /\ Mention(args[y])
        /\ o[x].opt = args[x].opt /\ o[y].opt = args[y].opt
    BY <1>1, <1>6 DEF MentionsKept
  <2>2. x \in Mentions(args) /\ y \in Mentions(args)
    BY <2>1 DEF Mentions, Mention
  <2>3. Canonical(args[x].opt) = Canonical(args[y].opt)
    BY <1>6, <2>1
  <2> QED
    BY <1>6, <2>2, <2>3 DEF Repeats
<1>7. CASE VaultArg(args, vault) = <<>>
  <2>1. w = o
    BY <1>2, <1>3, <1>7
  <2> QED
    BY <1>4, <1>5, <1>6, <2>1
<1>8. CASE VaultArg(args, vault) # <<>>
  <2> DEFINE a == Opt("--vault")
             b == VaultPath(vault)
             k == Len(o)
  <2>1. VaultArg(args, vault) = <<a, b>> /\ ~NoVault(vault) /\ ~HasVaultArg(args)
    BY <1>8 DEF VaultArg
  <2>2. a.opt = "--vault" /\ ~Mention(b)
    BY <2>1, VaultPathIs DEF Opt, Token, Mention, IsVaultValue
  <2>3. k \in Nat
    BY <1>2
  <2>4. /\ DOMAIN w = 1..(k + 2) /\ w[1] = a /\ w[2] = b
        /\ \A x \in 3..(k + 2) : x - 2 \in DOMAIN o /\ w[x] = o[x - 2]
    BY <1>2, <1>3, <2>1, TwoAhead
  <2> HIDE DEF a, b, k
  <2>5. \A x \in DOMAIN o : Mention(o[x]) => Canonical(o[x].opt) # Canonical("--vault")
    <3> SUFFICES ASSUME NEW x \in DOMAIN o, Mention(o[x]),
                        Canonical(o[x].opt) = Canonical("--vault")
                 PROVE  FALSE
      OBVIOUS
    <3>1. o[x].opt = "--vault"
      BY CanonicalNames
    <3>2. x \in DOMAIN args /\ Mention(args[x]) /\ args[x].opt = "--vault"
      BY <1>1, <3>1 DEF MentionsKept
    <3>3. args[x] \in BeforeDashes(args)
      BY <3>2 DEF BeforeDashes, Range
    <3> QED
      BY <2>1, <3>2, <3>3 DEF HasVaultArg, Mention
  <2>6. \A x \in DOMAIN w : x = 1 \/ x = 2 \/ x \in 3..(k + 2)
    BY <2>3, <2>4
  <2>7. /\ i = 1 \/ i \in 3..(k + 2)
        /\ j = 1 \/ j \in 3..(k + 2)
    BY <1>5, <2>2, <2>4, <2>6
  <2>8. i # 1 /\ j # 1
    BY <1>4, <1>5, <2>2, <2>4, <2>5, <2>7
  <2>9. i \in 3..(k + 2) /\ j \in 3..(k + 2)
    BY <2>7, <2>8
  <2>10. i - 2 # j - 2
    BY <1>4, <2>3, <2>9
  <2>11. /\ i - 2 \in DOMAIN o /\ j - 2 \in DOMAIN o
         /\ w[i] = o[i - 2] /\ w[j] = o[j - 2]
    BY <2>4, <2>9
  <2> QED
    BY <1>4, <1>5, <1>6, <2>10, <2>11
<1> QED
  BY <1>7, <1>8

(* A fetch is none of ssh add and ssh remove, nor run.                      *)
FetchIsHarmless(parsed) == parsed.ok => parsed.cmd \in {"get", "ssh pubkey"}

LEMMA FetchesAreHarmless ==
  ASSUME NEW T, \A t \in T : IsToken(t), NEW w \in Seq(T),
         NEW a, a = ParseSshAction(w), a # NoAction
  PROVE  FetchIsHarmless(Parse(ExeArgs(a)))
<1> DEFINE g == Reading(SshReading(w).globals)
           q == Parse(ExeArgs(a))
<1>1. FetchParsed(a, g, q)
  BY FetchIs
<1> HIDE DEF g, q
<1>2. q.ok => q.cmd = FetchCmd(a.op)
  BY <1>1 DEF FetchParsed
<1>3. FetchIsHarmless(q)
  BY <1>2 DEF FetchIsHarmless, FetchCmd
<1> QED
  BY <1>3 DEF q

(* The keys of a call do not reach the Windows agent, if w is read there    *)
(* only when no action is seen in it.                                       *)
KeysAreFetched(w, a) ==
  Parse(w).ok /\ Parse(w).cmd \in {"ssh add", "ssh remove"} => a # NoAction

(* What the shim looks for is the key that was asked for.                   *)
KeyKept(args, a, meant, fetch) ==
  KeyAsked(a, meant) /\ (~Repeats(args) => FetchesTheKey(a, meant, fetch))

LEMMA CallIsKept ==
  ASSUME NEW args, NEW S, S = Range(args), args \in Seq(S), \A t \in S : IsToken(t),
         NEW vault, vault = Absent \/ IsVaultValue(vault), Documented(args),
         NEW w, w = BuildWindowsArgs(args, vault), NEW a, a = ParseSshAction(w)
  PROVE  /\ KeysAreFetched(w, a)
         /\ Parse(args).ok /\ a # NoAction => KeyKept(args, a, Meant(args, vault), Parse(ExeArgs(a)))
<1>1. \A t \in S : t.form # "attached"
  BY DEF Documented, Range
<1>2. ASSUME Parse(args).ok PROVE Parse(w) = Meant(args, vault) /\ Parse(w).ok
  <2>1. Parse(w) = Meant(args, vault)
    BY <1>2, MeaningIsKept
  <2>2. SameCommand(args, w, Ahead(args, vault))
    BY <1>2, CommandIsKept
  <2> QED
    BY <2>1, <2>2 DEF SameCommand
<1>3. ASSUME Parse(args).ok, a # NoAction
      PROVE  KeyKept(args, a, Meant(args, vault), Parse(ExeArgs(a)))
  <2> DEFINE T == Forms(Sent(S, vault), {"attached"})
             forms == {"attached"}
  <2>1. forms \subseteq {"attached", "dashes"} /\ \A t \in S : t.form \notin forms
    BY <1>1
  <2>2. \A t \in T : IsToken(t) /\ t.form # "attached"
    BY DEF Forms, Sent
  <2> HIDE DEF forms
  <2>3. w \in Seq(Forms(Sent(S, vault), forms))
    BY <2>1, WindowsArgsSent
  <2>4. w \in Seq(T)
    BY <2>3 DEF forms
  <2> HIDE DEF T
  <2>5. /\ KeyAsked(a, Parse(w))
        /\ ~Repeats(w) => FetchesTheKey(a, Parse(w), Parse(ExeArgs(a)))
    BY <1>2, <1>3, <2>2, <2>4, KeyIsFetched
  <2>6. Dashes \notin S
    <3>1. Dashes \in S => Parse(args).cmd = "run"
      BY DEF Documented
    <3>2. Parse(w).cmd = Parse(args).cmd
      <4>1. SameCommand(args, w, Ahead(args, vault))
        BY <1>3, CommandIsKept
      <4> QED
        BY <4>1 DEF SameCommand
    <3>3. SshCommand[a.op] # "run"
      <4>1. SshCommand["add"] = "ssh add" /\ SshCommand["remove"] = "ssh remove"
        BY DEF SshCommand
      <4>2. a.op = "add" \/ a.op = "remove"
        BY <2>5 DEF KeyAsked
      <4> QED
        BY <4>1, <4>2
    <3> QED
      BY <2>5, <3>1, <3>2, <3>3 DEF KeyAsked
  <2>7. Repeats(w) => Repeats(args)
    BY <2>6, RepeatsStay
  <2> QED
    BY <1>2, <1>3, <2>5, <2>7 DEF KeyKept
<1>4. KeysAreFetched(w, a)
  <2>1. CASE Dashes \in S
    <3>1. Parse(args).ok /\ Parse(args).cmd = "run"
      BY <2>1 DEF Documented
    <3>2. SameCommand(args, w, Ahead(args, vault))
      BY <3>1, CommandIsKept
    <3>3. Parse(w).cmd = "run"
      BY <3>1, <3>2 DEF SameCommand
    <3> QED
      BY <3>3 DEF KeysAreFetched
  <2>2. CASE Dashes \notin S
    <3> DEFINE T == Forms(Sent(S, vault), {"attached", "dashes"})
               forms == {"attached", "dashes"}
    <3>1. \A t \in S : t.form \notin forms
      BY <1>1, <2>2 DEF IsToken
    <3>2. \A t \in T : IsToken(t) /\ t.form \notin {"attached", "dashes"}
      BY DEF Forms, Sent
    <3>3. forms \subseteq {"attached", "dashes"}
      OBVIOUS
    <3> HIDE DEF forms
    <3>4. w \in Seq(Forms(Sent(S, vault), forms))
      BY <3>1, <3>3, WindowsArgsSent
    <3>5. w \in Seq(T)
      BY <3>4 DEF forms
    <3> HIDE DEF T
    <3> QED
      BY <3>2, <3>5, SshIsNoticed DEF KeysAreFetched
  <2> QED
    BY <2>1, <2>2
<1> QED
  BY <1>3, <1>4

-----------------------------------------------------------------------------
(* What the command of run is given *)

LEMMA EmptyFunction ==
  ASSUME NEW f, f = [x \in DOMAIN f |-> f[x]], DOMAIN f = {}
  PROVE  f = <<>>
<1>1. f \in [{} -> {}]
  OBVIOUS
<1>2. <<>> \in [{} -> {}]
  OBVIOUS
<1> QED
  BY <1>1, <1>2

IsLast(specs, j) == \A k \in DOMAIN specs : specs[k].var = specs[j].var => k <= j

(* d holds the last mapping of every variable, and nothing else.            *)
LastWins(specs, d) ==
  /\ \A i \in DOMAIN d, j \in DOMAIN d : d[i].var = d[j].var => i = j
  /\ \A i \in DOMAIN d : \E j \in DOMAIN specs : d[i] = specs[j] /\ IsLast(specs, j)
  /\ \A j \in DOMAIN specs : \E i \in DOMAIN d : d[i].var = specs[j].var

OneLater(more, x, s) ==
  /\ DOMAIN more = DOMAIN x \cup {Len(x) + 1} /\ more[Len(x) + 1] = s
  /\ \A j \in DOMAIN x : more[j] = x[j]
  /\ IsLast(more, Len(x) + 1)
  /\ \A j \in DOMAIN x : IsLast(x, j) /\ x[j].var # s.var => IsLast(more, j)

LEMMA IsLastOfMore ==
  ASSUME NEW M, NEW x \in Seq(M), NEW s \in M
  PROVE  OneLater(Append(x, s), x, s)
<1> DEFINE n == Len(x)
           more == Append(x, s)
<1>1. /\ n \in Nat /\ DOMAIN x = 1..n /\ DOMAIN more = 1..(n + 1) /\ more[n + 1] = s
      /\ \A j \in 1..n : more[j] = x[j]
  OBVIOUS
<1> HIDE DEF n, more
<1>2. \A j \in 1..(n + 1) : (j \in 1..n \/ j = n + 1) /\ j <= n + 1
  BY <1>1
<1>3. \A j \in 1..n : j \in 1..(n + 1) /\ j # n + 1
  BY <1>1
<1>4. n + 1 \in 1..(n + 1)
  BY <1>1
<1>5. DOMAIN more = DOMAIN x \cup {n + 1}
  BY <1>1, <1>2, <1>3, <1>4
<1>6. IsLast(more, n + 1)
  BY <1>1, <1>2 DEF IsLast
<1>7. \A j \in DOMAIN x : IsLast(x, j) /\ x[j].var # s.var => IsLast(more, j)
  BY <1>1, <1>2, <1>3 DEF IsLast
<1>8. OneLater(more, x, s)
  BY <1>1, <1>5, <1>6, <1>7 DEF n, OneLater
<1> QED
  BY <1>8 DEF more

KeptAs(e, d, s) ==
  /\ (\E i \in DOMAIN d : d[i].var = s.var) =>
       /\ DOMAIN e = DOMAIN d
       /\ \A i \in DOMAIN d : e[i] = IF d[i].var = s.var THEN s ELSE d[i]
  /\ ~(\E i \in DOMAIN d : d[i].var = s.var) =>
       /\ DOMAIN e = DOMAIN d \cup {Len(d) + 1} /\ e[Len(d) + 1] = s
       /\ \A i \in DOMAIN d : e[i] = d[i]

LEMMA KeptIs ==
  ASSUME NEW M, NEW d \in Seq(M), NEW s \in M
  PROVE  KeptAs(Kept(d, s), d, s) /\ Kept(d, s) \in Seq(M)
<1> DEFINE e == Kept(d, s)
<1> SUFFICES KeptAs(e, d, s) /\ e \in Seq(M)
  OBVIOUS
<1>1. CASE \E i \in DOMAIN d : d[i].var = s.var
  <2> DEFINE x == [i \in DOMAIN d |-> IF d[i].var = s.var THEN s ELSE d[i]]
  <2>1. e = x
    BY <1>1 DEF Kept
  <2> HIDE DEF e
  <2>2. x \in Seq(M)
    <3>1. Len(d) \in Nat /\ DOMAIN d = 1..Len(d) /\ \A i \in DOMAIN d : d[i] \in M
      OBVIOUS
    <3>2. x \in [1..Len(d) -> M]
      BY <3>1
    <3> HIDE DEF x
    <3> QED
      BY <3>1, <3>2
  <2>3. DOMAIN x = DOMAIN d /\ \A i \in DOMAIN d : x[i] = IF d[i].var = s.var THEN s ELSE d[i]
    OBVIOUS
  <2> HIDE DEF x
  <2> QED
    BY <1>1, <2>1, <2>2, <2>3 DEF KeptAs
<1>2. CASE ~(\E i \in DOMAIN d : d[i].var = s.var)
  <2>1. e = Append(d, s)
    BY <1>2 DEF Kept
  <2> HIDE DEF e
  <2>2. e \in Seq(M)
    BY <2>1
  <2>3. OneLater(e, d, s)
    BY <2>1, IsLastOfMore
  <2> QED
    BY <1>2, <2>2, <2>3 DEF KeptAs, OneLater
<1> QED
  BY <1>1, <1>2

LEMMA KeptLast ==
  ASSUME NEW M, NEW x \in Seq(M), NEW d \in Seq(M), LastWins(x, d), NEW s \in M
  PROVE  LastWins(Append(x, s), Kept(d, s))
<1> DEFINE more == Append(x, s)
           e == Kept(d, s)
           n == Len(x) + 1
           m == Len(d) + 1
<1>0. OneLater(more, x, s) /\ KeptAs(e, d, s)
  BY IsLastOfMore, KeptIs
<1> HIDE DEF more, e
<1>1. /\ DOMAIN more = DOMAIN x \cup {n} /\ more[n] = s
      /\ \A j \in DOMAIN x : more[j] = x[j]
      /\ IsLast(more, n)
      /\ \A j \in DOMAIN x : IsLast(x, j) /\ x[j].var # s.var => IsLast(more, j)
  BY <1>0 DEF OneLater
<1>2. /\ (\E i \in DOMAIN d : d[i].var = s.var) =>
           /\ DOMAIN e = DOMAIN d
           /\ \A i \in DOMAIN d : e[i] = IF d[i].var = s.var THEN s ELSE d[i]
      /\ ~(\E i \in DOMAIN d : d[i].var = s.var) =>
           /\ DOMAIN e = DOMAIN d \cup {m} /\ e[m] = s
           /\ \A i \in DOMAIN d : e[i] = d[i]
  BY <1>0 DEF KeptAs
<1>3. /\ \A i \in DOMAIN d, j \in DOMAIN d : d[i].var = d[j].var => i = j
      /\ \A i \in DOMAIN d : \E j \in DOMAIN x : d[i] = x[j] /\ IsLast(x, j)
      /\ \A j \in DOMAIN x : \E i \in DOMAIN d : d[i].var = x[j].var
  BY DEF LastWins
<1> HIDE DEF n, m
<1>4. CASE \E i \in DOMAIN d : d[i].var = s.var
  <2>1. /\ DOMAIN e = DOMAIN d
        /\ \A i \in DOMAIN d : e[i] = IF d[i].var = s.var THEN s ELSE d[i]
    BY <1>2, <1>4
  <2>2. \A i \in DOMAIN d : e[i].var = d[i].var
    BY <2>1
  <2>3. \A i \in DOMAIN e, j \in DOMAIN e : e[i].var = e[j].var => i = j
    BY <1>3, <2>1, <2>2
  <2>4. ASSUME NEW i \in DOMAIN e PROVE \E j \in DOMAIN more : e[i] = more[j] /\ IsLast(more, j)
    <3>1. CASE d[i].var = s.var
      BY <1>1, <2>1, <3>1
    <3>2. CASE d[i].var # s.var
      <4>1. e[i] = d[i]
        BY <2>1, <3>2
      <4>2. PICK j \in DOMAIN x : d[i] = x[j] /\ IsLast(x, j)
        BY <1>3, <2>1
      <4> QED
        BY <1>1, <3>2, <4>1, <4>2
    <3> QED
      BY <3>1, <3>2
  <2>5. ASSUME NEW j \in DOMAIN more PROVE \E i \in DOMAIN e : e[i].var = more[j].var
    <3>1. CASE j = n
      BY <1>1, <1>4, <2>1, <2>2, <3>1
    <3>2. CASE j \in DOMAIN x
      <4>1. PICK i \in DOMAIN d : d[i].var = x[j].var
        BY <1>3, <3>2
      <4> QED
        BY <1>1, <2>1, <2>2, <3>2, <4>1
    <3> QED
      BY <1>1, <3>1, <3>2
  <2> QED
    BY <2>3, <2>4, <2>5 DEF LastWins, more, e
<1>5. CASE ~(\E i \in DOMAIN d : d[i].var = s.var)
  <2>1. /\ DOMAIN e = DOMAIN d \cup {m} /\ e[m] = s
        /\ \A i \in DOMAIN d : e[i] = d[i]
    BY <1>2, <1>5
  <2>2. \A i \in DOMAIN d : e[i].var # s.var
    BY <1>5, <2>1
  <2>3. \A i \in DOMAIN e, j \in DOMAIN e : e[i].var = e[j].var => i = j
    BY <1>3, <2>1, <2>2
  <2>4. ASSUME NEW i \in DOMAIN e PROVE \E j \in DOMAIN more : e[i] = more[j] /\ IsLast(more, j)
    <3>1. CASE i = m
      BY <1>1, <2>1, <3>1
    <3>2. CASE i \in DOMAIN d
      <4>1. PICK j \in DOMAIN x : d[i] = x[j] /\ IsLast(x, j)
        BY <1>3, <3>2
      <4>2. e[i] = x[j] /\ x[j].var # s.var
        BY <2>1, <2>2, <3>2, <4>1
      <4> QED
        BY <1>1, <4>1, <4>2
    <3> QED
      BY <2>1, <3>1, <3>2
  <2>5. ASSUME NEW j \in DOMAIN more PROVE \E i \in DOMAIN e : e[i].var = more[j].var
    <3>1. CASE j = n
      BY <1>1, <2>1, <3>1
    <3>2. CASE j \in DOMAIN x
      <4>1. PICK i \in DOMAIN d : d[i].var = x[j].var
        BY <1>3, <3>2
      <4> QED
        BY <1>1, <2>1, <3>2, <4>1
    <3> QED
      BY <1>1, <3>1, <3>2
  <2> QED
    BY <2>3, <2>4, <2>5 DEF LastWins, more, e
<1> QED
  BY <1>4, <1>5

LEMMA LastOnesWin ==
  ASSUME NEW M, NEW specs \in Seq(M)
  PROVE  LastWins(specs, Deduped(specs)) /\ Deduped(specs) \in Seq(M)
<1> DEFINE P == {x \in Seq(M) : LastWins(x, Deduped(x)) /\ Deduped(x) \in Seq(M)}
<1>1. <<>> \in P
  BY NothingYet, EmptyIsSeq, NoDomain DEF LastWins
<1>2. ASSUME NEW x \in Seq(M), NEW s \in M, x \in P
      PROVE  Append(x, s) \in P
  <2> DEFINE d == Deduped(x)
  <2>1. Deduped(Append(x, s)) = Kept(d, s) /\ Append(x, s) \in Seq(M)
    BY OneMore
  <2>2. LastWins(x, d) /\ d \in Seq(M)
    BY <1>2
  <2> HIDE DEF d
  <2>3. LastWins(Append(x, s), Kept(d, s))
    BY <2>2, KeptLast
  <2>4. Kept(d, s) \in Seq(M)
    BY <2>2, KeptIs
  <2> QED
    BY <2>1, <2>3, <2>4
<1> HIDE DEF P
<1>3. specs \in P
  BY <1>1, <1>2, Rd!Lengthen
<1> QED
  BY <1>3 DEF P

GivenTo(opts, o) == IF o \in DOMAIN opts THEN opts[o] ELSE <<>>

TextsOf(opts, o) ==
  IF o \in DOMAIN opts THEN [i \in DOMAIN opts[o] |-> opts[o][i].text] ELSE <<>>

FileOf(texts) == IF texts = <<>> THEN <<>> ELSE EnvFiles[texts[1]]
LineOf(texts) == [i \in DOMAIN texts |-> Mapping(texts[i])]

FileGiven(values) == IF values = <<>> THEN <<>> ELSE EnvFiles[values[1].text]
LineGiven(values) == [i \in DOMAIN values |-> Mappings[values[i].text]]

SpecsOf(opts) == FileOf(TextsOf(opts, "--env-file")) \o LineOf(TextsOf(opts, "--env"))

MappingsIn(opts) ==
  FileGiven(GivenTo(opts, "--env-file")) \o LineGiven(GivenTo(opts, "--env"))

(* x holds the texts of a.                                                  *)
TextsAre(x, a) ==
  /\ DOMAIN x = DOMAIN a /\ \A i \in DOMAIN a : x[i] = a[i].text
  /\ x = <<>> <=> a = <<>>
  /\ a # <<>> => x[1] = a[1].text

LEMMA TextsOfAlike ==
  ASSUME NEW V, NEW ropts, \A o \in DOMAIN ropts : ropts[o] \in Seq(V), NEW qopts, NEW vs,
         OptsAlike(ropts, qopts, vs), NEW o, o # "--vault"
  PROVE  /\ TextsAre(TextsOf(qopts, o), GivenTo(ropts, o))
         /\ GivenTo(ropts, o) \in Seq(V)
<1>1. o \in DOMAIN qopts <=> o \in DOMAIN ropts
  BY DEF OptsAlike
<1>2. CASE o \in DOMAIN ropts
  <2> DEFINE a == ropts[o]
             b == qopts[o]
             x == [i \in DOMAIN b |-> b[i].text]
  <2>1. a \in Seq(V) /\ SameTexts(a, b)
    BY <1>2 DEF OptsAlike
  <2>2. DOMAIN a = DOMAIN b /\ \A i \in DOMAIN a : b[i].text = a[i].text
    BY <2>1 DEF SameTexts
  <2>3. TextsOf(qopts, o) = x /\ GivenTo(ropts, o) = a
    BY <1>1, <1>2 DEF TextsOf, GivenTo
  <2> HIDE DEF a, b
  <2>4. DOMAIN x = DOMAIN a /\ (\A i \in DOMAIN a : x[i] = a[i].text) /\ x = [i \in DOMAIN x |-> x[i]]
    BY <2>2
  <2> HIDE DEF x
  <2>5. a = <<>> => x = <<>>
    BY <2>4, EmptyFunction, NoDomain
  <2>6. a # <<>> => 1 \in DOMAIN a
    BY <2>1
  <2>7. a # <<>> => x # <<>> /\ x[1] = a[1].text
    BY <2>4, <2>6, NoDomain
  <2> QED
    BY <2>1, <2>3, <2>4, <2>5, <2>7 DEF TextsAre
<1>3. CASE o \notin DOMAIN ropts
  <2>1. TextsOf(qopts, o) = <<>> /\ GivenTo(ropts, o) = <<>>
    BY <1>1, <1>3 DEF TextsOf, GivenTo
  <2>2. TextsAre(<<>>, <<>>)
    BY NoDomain DEF TextsAre
  <2> QED
    BY <2>1, <2>2, EmptyIsSeq
<1> QED
  BY <1>2, <1>3

ReadableIn(opts) ==
  TextsOf(opts, "--env-file") = <<>> \/ TextsOf(opts, "--env-file")[1] \in DOMAIN EnvFiles

LEMMA MappingsJoined ==
  ASSUME NEW a, a \in Seq(Range(a)), NEW b, b \in Seq(Range(b)), BadMapping \notin Range(a \o b)
  PROVE  /\ a \o b \in Seq(Range(a) \cup Range(b))
         /\ \A i \in DOMAIN b : b[i] # BadMapping
<1> DEFINE M == Range(a) \cup Range(b)
           c == a \o b
<1>1. a \in Seq(M) /\ b \in Seq(M)
  OBVIOUS
<1> HIDE DEF M
<1>2. c \in Seq(M) /\ Len(a) \in Nat /\ Len(b) \in Nat
  BY <1>1
<1>3. ASSUME NEW i \in DOMAIN b PROVE b[i] # BadMapping
  <2>1. Len(a) + i \in DOMAIN c /\ c[Len(a) + i] = b[i]
    BY <1>1
  <2> HIDE DEF c
  <2>2. b[i] \in Range(c)
    BY <2>1 DEF Range
  <2> QED
    BY <2>2 DEF c
<1> QED
  BY <1>2, <1>3 DEF M

LEMMA LineIsSeq ==
  ASSUME NEW V, NEW a \in Seq(V), NEW x, TextsAre(x, a)
  PROVE  LineOf(x) \in Seq(Range(LineOf(x))) /\ DOMAIN LineOf(x) = DOMAIN a
<1> DEFINE l == LineOf(x)
           n == Len(a)
<1>1. n \in Nat /\ DOMAIN a = 1..n
  OBVIOUS
<1>2. DOMAIN l = DOMAIN x /\ l = [i \in DOMAIN l |-> l[i]] /\ DOMAIN x = DOMAIN a
  BY DEF LineOf, TextsAre
<1> HIDE DEF l, n
<1>3. \A i \in DOMAIN l : l[i] \in Range(l)
  BY DEF Range
<1>4. l \in [1..n -> Range(l)]
  BY <1>1, <1>2, <1>3
<1>5. l \in Seq(Range(l))
  BY <1>1, <1>4
<1> QED
  BY <1>2, <1>5 DEF l

LEMMA SpecsAreGiven ==
  ASSUME NEW V, NEW ropts, \A o \in DOMAIN ropts : ropts[o] \in Seq(V), NEW qopts, NEW vs,
         OptsAlike(ropts, qopts, vs), ReadableIn(qopts), BadMapping \notin Range(SpecsOf(qopts))
  PROVE  /\ SpecsOf(qopts) = MappingsIn(ropts)
         /\ \E M : SpecsOf(qopts) \in Seq(M)
<1> DEFINE f == TextsOf(qopts, "--env-file")
           e == TextsOf(qopts, "--env")
           a == GivenTo(ropts, "--env-file")
           b == GivenTo(ropts, "--env")
<1>1. TextsAre(f, a) /\ a \in Seq(V) /\ TextsAre(e, b) /\ b \in Seq(V)
  BY TextsOfAlike
<1>2. f = <<>> \/ f[1] \in DOMAIN EnvFiles
  BY DEF ReadableIn
<1>3. BadMapping \notin Range(FileOf(f) \o LineOf(e))
  BY DEF SpecsOf
<1> HIDE DEF f, e, a, b
<1>4. FileOf(f) = FileGiven(a)
  BY <1>1 DEF TextsAre, FileOf, FileGiven
<1>5. FileOf(f) \in Seq(Range(FileOf(f)))
  <2>1. CASE f = <<>>
    BY <2>1, EmptyIsSeq DEF FileOf
  <2>2. CASE f # <<>>
    BY <1>2, <2>2, LaunchConstants DEF FileOf
  <2> QED
    BY <2>1, <2>2
<1>6. LineOf(e) \in Seq(Range(LineOf(e))) /\ DOMAIN LineOf(e) = DOMAIN b
  BY <1>1, LineIsSeq
<1> DEFINE x == FileOf(f)
           y == LineOf(e)
<1>7. /\ x \o y \in Seq(Range(x) \cup Range(y))
      /\ \A i \in DOMAIN y : y[i] # BadMapping
  BY <1>3, <1>5, <1>6, MappingsJoined
<1>8. LineOf(e) = LineGiven(b)
  <2>1. ASSUME NEW i \in DOMAIN b PROVE Mapping(e[i]) = Mappings[b[i].text]
    <3>1. e[i] = b[i].text /\ i \in DOMAIN e
      BY <1>1 DEF TextsAre
    <3>2. LineOf(e)[i] = Mapping(e[i])
      BY <3>1 DEF LineOf
    <3>3. Mapping(e[i]) # BadMapping
      BY <1>6, <1>7, <3>2
    <3> QED
      BY <3>1, <3>3 DEF Mapping
  <2>2. DOMAIN e = DOMAIN b
    BY <1>1 DEF TextsAre
  <2> QED
    BY <2>1, <2>2 DEF LineOf, LineGiven
<1>9. SpecsOf(qopts) = x \o y /\ MappingsIn(ropts) = FileGiven(a) \o LineGiven(b)
  BY DEF SpecsOf, MappingsIn, f, e, a, b
<1>10. SpecsOf(qopts) = MappingsIn(ropts)
  BY <1>4, <1>8, <1>9
<1> QED
  BY <1>7, <1>9, <1>10

ValsOf(d) == [v \in {s.var : s \in Range(d)} |-> SpecValue(CHOOSE s \in Range(d) : s.var = v)]

(* The variables hold what was asked for.                                   *)
Shown(all, vals) ==
  /\ DOMAIN vals = {all[j].var : j \in DOMAIN all}
  /\ \A j \in DOMAIN all :
       IsLast(all, j) => /\ vals[all[j].var] = SpecValue(all[j])
                         /\ all[j].kind = "secret" => RefFault(all[j].value) = 0

LEMMA ValsAreShown ==
  ASSUME NEW M, NEW all \in Seq(M), NEW d \in Seq(M), LastWins(all, d), Faulty(d) = {}
  PROVE  Shown(all, ValsOf(d))
<1> DEFINE vals == ValsOf(d)
<1>1. /\ \A i \in DOMAIN d, j \in DOMAIN d : d[i].var = d[j].var => i = j
      /\ \A i \in DOMAIN d : \E j \in DOMAIN all : d[i] = all[j] /\ IsLast(all, j)
      /\ \A j \in DOMAIN all : \E i \in DOMAIN d : d[i].var = all[j].var
  BY DEF LastWins
<1>2. Range(d) = {d[i] : i \in DOMAIN d}
  BY DEF Range
<1>3. DOMAIN vals = {s.var : s \in Range(d)}
  BY DEF ValsOf
<1>4. DOMAIN vals = {all[j].var : j \in DOMAIN all}
  BY <1>1, <1>2, <1>3, SMTT(30)
<1>5. ASSUME NEW j \in DOMAIN all, IsLast(all, j)
      PROVE  vals[all[j].var] = SpecValue(all[j]) /\ Fault(all[j]) = 0
  <2>1. PICK i \in DOMAIN d : d[i].var = all[j].var
    BY <1>1
  <2>2. PICK k \in DOMAIN all : d[i] = all[k] /\ IsLast(all, k)
    BY <1>1, <2>1
  <2>3. k <= j /\ j <= k
    BY <1>5, <2>1, <2>2 DEF IsLast
  <2>4. j \in Nat /\ k \in Nat
    OBVIOUS
  <2>5. k = j
    BY <2>3, <2>4
  <2>6. d[i] = all[j] /\ d[i] \in Range(d)
    BY <1>2, <2>2, <2>5
  <2> DEFINE v == all[j].var
             c == CHOOSE s \in Range(d) : s.var = v
  <2>7. c \in Range(d) /\ c.var = v
    BY <2>6
  <2>8. vals[v] = SpecValue(c)
    BY <2>6 DEF ValsOf
  <2> HIDE DEF c
  <2>9. c = d[i]
    <3>1. PICK m \in DOMAIN d : c = d[m]
      BY <1>2, <2>7
    <3>2. d[m].var = d[i].var
      BY <2>6, <2>7, <3>1
    <3> QED
      BY <1>1, <3>1, <3>2
  <2>10. Fault(d[i]) = 0
    BY DEF Faulty
  <2> QED
    BY <2>6, <2>8, <2>9, <2>10
<1> HIDE DEF vals
<1>6. ASSUME NEW j \in DOMAIN all, IsLast(all, j), all[j].kind = "secret"
      PROVE  RefFault(all[j].value) = 0
  BY <1>5, <1>6 DEF Fault
<1>7. Shown(all, vals)
  BY <1>4, <1>5, <1>6 DEF Shown
<1> QED
  BY <1>7 DEF vals

-----------------------------------------------------------------------------
(* The processes of a call *)

EnvFields ==
  {"force", "interop", "version", "noProxy", "launched", "exe", "path", "vault", "wslenv", "secrets"}
ProcessFields == {"pc", "side", "args", "env", "req", "specs", "vals", "out", "code"}
ShimFields == {"pc", "exe", "act", "kind"}

LEMMA ProcessIs ==
  ASSUME NEW side, NEW args, NEW env, NEW r, r = Process(side, args, env)
  PROVE  /\ DOMAIN r = ProcessFields
         /\ r.pc = "main" /\ r.side = side /\ r.args = args /\ r.env = env
         /\ r.out = "" /\ r.code = 0
  BY DEF Process, ProcessFields

LEMMA EndedIs ==
  ASSUME NEW r, DOMAIN r = ProcessFields, NEW code, NEW e, e = Ended(r, code)
  PROVE  /\ DOMAIN e = ProcessFields
         /\ e.pc = "ended" /\ e.side = r.side /\ e.args = r.args /\ e.env = r.env
         /\ e.out = r.out /\ e.code = code
<1> DEFINE m == [r EXCEPT !.pc = "ended"]
<1>1. /\ DOMAIN m = ProcessFields /\ m.pc = "ended" /\ m.side = r.side /\ m.args = r.args
      /\ m.env = r.env /\ m.out = r.out
  BY DEF ProcessFields
<1>2. e = [m EXCEPT !.code = code]
  BY DEF Ended
<1> HIDE DEF m
<1> QED
  BY <1>1, <1>2 DEF ProcessFields

LEMMA PcIs ==
  ASSUME NEW r, DOMAIN r = ProcessFields, NEW pc, NEW e, e = [r EXCEPT !.pc = pc]
  PROVE  /\ DOMAIN e = ProcessFields
         /\ e.pc = pc /\ e.side = r.side /\ e.args = r.args /\ e.env = r.env /\ e.req = r.req
         /\ e.specs = r.specs /\ e.vals = r.vals /\ e.out = r.out /\ e.code = r.code
  BY DEF ProcessFields

LEMMA OutIs ==
  ASSUME NEW r, DOMAIN r = ProcessFields, NEW out, NEW e, e = [r EXCEPT !.out = out]
  PROVE  /\ DOMAIN e = ProcessFields
         /\ e.pc = r.pc /\ e.side = r.side /\ e.args = r.args /\ e.env = r.env
         /\ e.out = out /\ e.code = r.code
  BY DEF ProcessFields

LEMMA ReqIs ==
  ASSUME NEW r, DOMAIN r = ProcessFields, NEW req, NEW pc, NEW e,
         NEW m, m = [r EXCEPT !.req = req], e = [m EXCEPT !.pc = pc]
  PROVE  /\ DOMAIN e = ProcessFields
         /\ e.pc = pc /\ e.side = r.side /\ e.args = r.args /\ e.env = r.env /\ e.req = req
         /\ e.out = r.out /\ e.code = r.code
<1>1. /\ DOMAIN m = ProcessFields /\ m.req = req /\ m.side = r.side /\ m.args = r.args
      /\ m.env = r.env /\ m.out = r.out /\ m.code = r.code
  BY DEF ProcessFields
<1> QED
  BY <1>1, PcIs

LEMMA SpecsIs ==
  ASSUME NEW r, DOMAIN r = ProcessFields, NEW specs, NEW pc, NEW e,
         NEW m, m = [r EXCEPT !.specs = specs], e = [m EXCEPT !.pc = pc]
  PROVE  /\ DOMAIN e = ProcessFields
         /\ e.pc = pc /\ e.side = r.side /\ e.args = r.args /\ e.env = r.env /\ e.req = r.req
         /\ e.specs = specs /\ e.out = r.out /\ e.code = r.code
<1>1. /\ DOMAIN m = ProcessFields /\ m.specs = specs /\ m.side = r.side /\ m.args = r.args
      /\ m.env = r.env /\ m.req = r.req /\ m.out = r.out /\ m.code = r.code
  BY DEF ProcessFields
<1> QED
  BY <1>1, PcIs

LEMMA ValsIs ==
  ASSUME NEW r, DOMAIN r = ProcessFields, NEW vals, NEW pc, NEW e,
         NEW m, m = [r EXCEPT !.pc = pc], e = [m EXCEPT !.vals = vals]
  PROVE  /\ DOMAIN e = ProcessFields
         /\ e.pc = pc /\ e.side = r.side /\ e.args = r.args /\ e.env = r.env /\ e.req = r.req
         /\ e.vals = vals /\ e.out = r.out /\ e.code = r.code
<1>1. /\ DOMAIN m = ProcessFields /\ m.pc = pc /\ m.side = r.side /\ m.args = r.args
      /\ m.env = r.env /\ m.req = r.req /\ m.out = r.out /\ m.code = r.code
  BY PcIs
<1> QED
  BY <1>1 DEF ProcessFields

LEMMA ChildEnvIs ==
  ASSUME NEW e \in Envs
  PROVE  /\ ChildEnv(e).launched /\ ChildEnv(e).secrets \subseteq e.secrets
         /\ Format = "pe" => ChildEnv(e).secrets = e.secrets \cap ExtendWslenv(e.wslenv)
<1> DEFINE names == ExtendWslenv(e.wslenv)
           f == "WCM_LAUNCHED_FROM_WSL" \in names
<1>1. DOMAIN e = EnvFields
  BY ShimConstants DEF EnvFields
<1>2. f
  BY DEF ExtendWslenv
<1>3. CASE Format = "pe"
  <2> DEFINE a == [e EXCEPT !.launched = f]
             b == [a EXCEPT !.secrets = @ \cap names]
             c == [b EXCEPT !.vault = Absent]
             d == [c EXCEPT !.wslenv = names]
  <2>1. ChildEnv(e) = d
    BY <1>3 DEF ChildEnv
  <2>2. DOMAIN a = EnvFields /\ a.launched = f /\ a.secrets = e.secrets
    BY <1>1 DEF EnvFields
  <2> HIDE DEF a, f, names
  <2>3. DOMAIN b = EnvFields /\ b.launched = f /\ b.secrets = e.secrets \cap names
    BY <2>2 DEF EnvFields
  <2> HIDE DEF b
  <2>4. DOMAIN c = EnvFields /\ c.launched = f /\ c.secrets = e.secrets \cap names
    BY <2>3 DEF EnvFields
  <2> HIDE DEF c
  <2>5. d.launched = f /\ d.secrets = e.secrets \cap names
    BY <2>4 DEF EnvFields
  <2> HIDE DEF d
  <2>6. ChildEnv(e).launched = f /\ ChildEnv(e).secrets = e.secrets \cap names
    BY <2>1, <2>5
  <2> QED
    BY <1>2, <2>6 DEF names
<1>4. CASE Format # "pe"
  <2> DEFINE a == [e EXCEPT !.launched = TRUE]
             d == [a EXCEPT !.wslenv = names]
  <2>1. ChildEnv(e) = d
    BY <1>4 DEF ChildEnv
  <2>2. DOMAIN a = EnvFields /\ a.launched = TRUE /\ a.secrets = e.secrets
    BY <1>1 DEF EnvFields
  <2> HIDE DEF a, names
  <2>3. d.launched = TRUE /\ d.secrets = e.secrets
    BY <2>2 DEF EnvFields
  <2> QED
    BY <1>4, <2>1, <2>3
<1> QED
  BY <1>3, <1>4

-----------------------------------------------------------------------------
(* One wcm process, whichever it is *)

Codes == {0, 1, 2, 3, 6, 10, 11, 126, 127, 130, 134}
Outs == {"", "good", "odd", "blank", "public"}
Pcs == {"begin", "shim", "main", "other", "collect", "resolve", "start", "wait", "load",
        "ssh-add", "ended"}

Shaped(r) ==
  /\ DOMAIN r = ProcessFields
  /\ r.pc \in Pcs /\ r.side \in Sides /\ r.code \in Codes /\ r.out \in Outs

(* e is what r has become, by itself.                                       *)
Onward(r, e) ==
  /\ e.args = r.args /\ e.side = r.side /\ e.env = r.env
  /\ r.pc \notin {"begin", "shim", "ended"} /\ e.pc \notin {"begin", "main", "shim"}

LEMMA EndedOnward ==
  ASSUME NEW r, Shaped(r), r.pc \notin {"begin", "shim", "ended"}, NEW code \in Codes
  PROVE  Shaped(Ended(r, code)) /\ Onward(r, Ended(r, code))
<1> DEFINE e == Ended(r, code)
<1>1. /\ DOMAIN e = ProcessFields
      /\ e.pc = "ended" /\ e.side = r.side /\ e.args = r.args /\ e.env = r.env
      /\ e.out = r.out /\ e.code = code
  BY EndedIs DEF Shaped
<1> HIDE DEF e
<1>2. Shaped(e) /\ Onward(r, e)
  BY <1>1 DEF Shaped, Onward, Pcs
<1> QED
  BY <1>2 DEF e

LEMMA PrintedOnward ==
  ASSUME NEW r, Shaped(r), r.pc \notin {"begin", "shim", "ended"}, NEW out \in Outs
  PROVE  Shaped([Ended(r, 0) EXCEPT !.out = out]) /\ Onward(r, [Ended(r, 0) EXCEPT !.out = out])
<1> DEFINE m == Ended(r, 0)
           e == [m EXCEPT !.out = out]
<1>1. Shaped(m) /\ Onward(r, m) /\ m.pc = "ended"
  BY EndedOnward, EndedIs DEF Codes, Shaped
<1> HIDE DEF m
<1>2. /\ DOMAIN e = ProcessFields
      /\ e.pc = m.pc /\ e.side = m.side /\ e.args = m.args /\ e.env = m.env
      /\ e.out = out /\ e.code = m.code
  BY <1>1, OutIs DEF Shaped
<1> HIDE DEF e
<1>3. Shaped(e) /\ Onward(r, e)
  BY <1>1, <1>2 DEF Shaped, Onward, Pcs
<1> QED
  BY <1>3 DEF e, m

(* A step that goes on and does not print.                                  *)
Continues(r, e, pc) ==
  /\ DOMAIN e = ProcessFields
  /\ e.pc = pc /\ e.side = r.side /\ e.args = r.args /\ e.env = r.env
  /\ e.out = r.out /\ e.code = r.code

LEMMA GoneOnward ==
  ASSUME NEW r, Shaped(r), r.pc \notin {"begin", "shim", "ended"},
         NEW pc \in Pcs \ {"begin", "main", "shim"}, NEW e, Continues(r, e, pc)
  PROVE  Shaped(e) /\ Onward(r, e)
  BY DEF Shaped, Onward, Continues

LEMMA FaultsAre ==
  ASSUME NEW s
  PROVE  Fault(s) \in {0, 2, 3}
  BY DEF Fault, RefFault

LEMMA KeyFaultsAre ==
  ASSUME item \in KeyItems, NEW op
  PROVE  KeyFault(op) \in {0, 2, 3}
<1>1. item.kind \in {"none", "login", "ssh-key"}
  BY LaunchConstants
<1> QED
  BY <1>1 DEF KeyFault

(* What the steps of a process leave alone.                                 *)
Inward == UNCHANGED <<call, item, agent>>

LEMMA MainMoves ==
  ASSUME Shaped(p), Main
  PROVE  Shaped(p') /\ Onward(p, p')
<1> DEFINE r == Parse(p.args)
           pc == CASE r.cmd = "run" -> "collect"
                   [] r.cmd \in {"ssh add", "ssh remove", "ssh pubkey"} -> "load"
                   [] OTHER -> "other"
           e == [p EXCEPT !.req = r, !.pc = pc]
<1>1. p.pc = "main" /\ p' = IF ~r.ok THEN Ended(p, 2) ELSE e
  BY DEF Main, Become
<1>2. pc \in Pcs \ {"begin", "main", "shim"}
  BY DEF Pcs
<1>3. CASE ~r.ok
  BY <1>1, <1>3, EndedOnward DEF Codes
<1>4. CASE r.ok
  <2> HIDE DEF r, pc
  <2> DEFINE m == [p EXCEPT !.req = r]
  <2>0. e = [m EXCEPT !.pc = pc] /\ DOMAIN p = ProcessFields
    BY DEF Shaped
  <2> HIDE DEF e
  <2>1. Continues(p, e, pc)
    BY <2>0, ReqIs DEF Continues
  <2>2. p' = e
    BY <1>1, <1>4
  <2> QED
    BY <1>1, <1>2, <2>1, <2>2, GoneOnward
<1> QED
  BY <1>3, <1>4

LEMMA OtherMoves ==
  ASSUME Shaped(p), item \in KeyItems, Other
  PROVE  Shaped(p') /\ Onward(p, p')
<1>1. p.pc = "other" /\ 0 \in Codes /\ 3 \in Codes
  BY DEF Other, Codes
<1>2. p' \in {Ended(p, 0), Ended(p, 3)} \/ (item.key # "none" /\ p' = [Ended(p, 0) EXCEPT !.out = item.key])
  BY DEF Other, Become
<1>3. CASE p' \in {Ended(p, 0), Ended(p, 3)}
  BY <1>1, <1>3, EndedOnward
<1>4. CASE item.key # "none" /\ p' = [Ended(p, 0) EXCEPT !.out = item.key]
  <2>1. item.key \in Outs
    BY <1>4, LaunchConstants DEF Outs
  <2> QED
    BY <1>1, <1>4, <2>1, PrintedOnward
<1> QED
  BY <1>2, <1>3, <1>4

LEMMA RunMoves ==
  ASSUME Shaped(p), Collect \/ Resolve \/ StartCommand \/ CommandEnds
  PROVE  Shaped(p') /\ Onward(p, p')
<1>1. CASE Collect
  <2> DEFINE d == Deduped(Specs)
             e == [p EXCEPT !.specs = d, !.pc = "resolve"]
  <2>1. p.pc = "collect" /\ p' \in {Ended(p, 10), Ended(p, 2), e}
    BY <1>1 DEF Collect, At, Become
  <2>2. Continues(p, e, "resolve")
    <3>1. DOMAIN p = ProcessFields
      BY DEF Shaped
    <3> HIDE DEF d
    <3> DEFINE m == [p EXCEPT !.specs = d]
    <3>2. e = [m EXCEPT !.pc = "resolve"]
      OBVIOUS
    <3> HIDE DEF e
    <3> QED
      BY <3>1, <3>2, SpecsIs DEF Continues
  <2> HIDE DEF e
  <2>3. CASE p' = e
    BY <2>1, <2>2, <2>3, GoneOnward DEF Pcs
  <2>4. CASE p' \in {Ended(p, 10), Ended(p, 2)}
    BY <2>1, <2>4, EndedOnward DEF Codes
  <2> QED
    BY <2>1, <2>3, <2>4
<1>2. CASE Resolve
  <2> DEFINE v == ValsOf(p.specs)
             e == [p EXCEPT !.pc = "start", !.vals = v]
  <2>1. p.pc = "resolve"
    BY <1>2 DEF Resolve, At
  <2>2. CASE Faulty(p.specs) = {}
    <3>1. p' = e
      BY <1>2, <2>2 DEF Resolve, Become, ValsOf
    <3>2. Continues(p, e, "start")
      <4>1. DOMAIN p = ProcessFields
        BY DEF Shaped
      <4> HIDE DEF v
      <4> DEFINE m == [p EXCEPT !.pc = "start"]
      <4>2. e = [m EXCEPT !.vals = v]
        OBVIOUS
      <4> HIDE DEF e
      <4> QED
        BY <4>1, <4>2, ValsIs DEF Continues
    <3> HIDE DEF e
    <3> QED
      BY <2>1, <3>1, <3>2, GoneOnward DEF Pcs
  <2>3. CASE Faulty(p.specs) # {}
    <3>1. PICK i \in Faulty(p.specs) : p' = Ended(p, Fault(p.specs[i]))
      BY <1>2, <2>3 DEF Resolve, Become
    <3>2. Fault(p.specs[i]) \in Codes
      BY FaultsAre DEF Codes
    <3> QED
      BY <2>1, <3>1, <3>2, EndedOnward
  <2> QED
    BY <2>2, <2>3
<1>3. CASE StartCommand
  <2> DEFINE e == [p EXCEPT !.pc = "wait"]
  <2>1. p.pc = "start" /\ p' \in {e, Ended(p, 11)}
    BY <1>3 DEF StartCommand, At, Become
  <2>2. Continues(p, e, "wait")
    BY PcIs DEF Continues, Shaped
  <2> HIDE DEF e
  <2>3. CASE p' = e
    BY <2>1, <2>2, <2>3, GoneOnward DEF Pcs
  <2>4. CASE p' = Ended(p, 11)
    BY <2>1, <2>4, EndedOnward DEF Codes
  <2> QED
    BY <2>1, <2>3, <2>4
<1>4. CASE CommandEnds
  <2>1. PICK code \in {0, 1, 126, 130} : p' = Ended(p, code)
    BY <1>4 DEF CommandEnds, Become
  <2>2. p.pc = "wait" /\ code \in Codes
    BY <1>4, <2>1 DEF CommandEnds, Codes
  <2> QED
    BY <2>1, <2>2, EndedOnward
<1> QED
  BY <1>1, <1>2, <1>3, <1>4

LEMMA SshMovesOn ==
  ASSUME Shaped(p), item \in KeyItems, LoadKey \/ SshAdd
  PROVE  Shaped(p') /\ Onward(p, p')
<1>1. CASE LoadKey
  <2> DEFINE fault == KeyFault(p.req.cmd)
             e == [p EXCEPT !.pc = "ssh-add"]
  <2>1. fault \in {0, 2, 3} /\ p.pc = "load"
    BY <1>1, KeyFaultsAre DEF LoadKey
  <2>2. p' \in {Ended(p, fault), [Ended(p, 0) EXCEPT !.out = "public"], e}
    BY <1>1 DEF LoadKey, Become
  <2> HIDE DEF fault
  <2>3. CASE p' = Ended(p, fault)
    BY <2>1, <2>3, EndedOnward DEF Codes
  <2>4. CASE p' = [Ended(p, 0) EXCEPT !.out = "public"]
    BY <2>1, <2>4, PrintedOnward DEF Outs
  <2>5. CASE p' = e
    <3>1. Continues(p, e, "ssh-add")
      BY PcIs DEF Continues, Shaped
    <3> HIDE DEF e
    <3> QED
      BY <2>1, <2>5, <3>1, GoneOnward DEF Pcs
  <2> QED
    BY <2>2, <2>3, <2>4, <2>5
<1>2. CASE SshAdd
  <2>1. p.pc = "ssh-add" /\ \E code \in {11, 0} \cup LateFaults : p' = Ended(p, code)
    BY <1>2 DEF SshAdd, Become
  <2>2. {11, 0} \cup LateFaults \subseteq Codes
    BY DEF LateFaults, Codes
  <2> QED
    BY <2>1, <2>2, EndedOnward
<1> QED
  BY <1>1, <1>2

LEMMA NativeMoves ==
  ASSUME Shaped(p), item \in KeyItems, Native
  PROVE  Shaped(p') /\ Onward(p, p') /\ call' = call /\ item' = item
<1>1. CASE Main
  BY <1>1, MainMoves DEF Main
<1>2. CASE Other
  BY <1>2, OtherMoves DEF Other
<1>3. ASSUME NEW pc \in {"other", "resolve", "load"}, UnlockFails(pc)
      PROVE  Shaped(p') /\ Onward(p, p') /\ call' = call /\ item' = item
  BY <1>3, EndedOnward DEF UnlockFails, Become, Codes
<1>4. CASE Collect \/ Resolve \/ StartCommand \/ CommandEnds
  BY <1>4, RunMoves DEF Collect, Resolve, StartCommand, CommandEnds
<1>5. CASE LoadKey \/ SshAdd
  BY <1>5, SshMovesOn DEF LoadKey, SshAdd
<1> QED
  BY <1>1, <1>2, <1>3, <1>4, <1>5 DEF Native, UnlockFailsForRun

-----------------------------------------------------------------------------
(* The shim and the process it starts *)

ShimPcs == {"none", "locate", "preflight", "hand over", "fetch", "ssh-add"}

(* What the shim of the call c hands over, and what it takes that for.      *)
Handed(c) == BuildWindowsArgs(c.args, c.env.vault)
Recognised(c) == ParseSshAction(Handed(c))

AsCalled(c, r) == r.args = c.args /\ r.side = "linux" /\ r.env = c.env

Passed(c, r) ==
  /\ r.env.launched /\ r.env.secrets \subseteq SecretVars
  /\ r.side = "windows" => r.env.secrets = c.env.secrets \cap ExtendWslenv(c.env.wslenv)

Alone(c, r, s) ==
  /\ s.pc = "none" /\ s.act = NoAction /\ r.pc # "shim"
  /\ AsCalled(c, r) \/ (Passed(c, r) /\ r.args = Handed(c) /\ Recognised(c) = NoAction)

Looking(c, r, s) ==
  /\ s.pc \in {"locate", "preflight", "hand over"} /\ s.act = NoAction
  /\ r.pc = "shim" /\ AsCalled(c, r)

Fetching(c, r, s) ==
  /\ s.pc \in {"fetch", "ssh-add"} /\ s.act = Recognised(c) /\ Recognised(c) # NoAction
  /\ Passed(c, r) /\ r.args = ExeArgs(Recognised(c))
  /\ r.pc # "shim"
  /\ s.pc = "ssh-add" => r.pc = "ended"

(* Which of the two is running, and on whose behalf.                        *)
InPhase(c, r, s) ==
  /\ DOMAIN s = ShimFields
  /\ Alone(c, r, s) \/ Looking(c, r, s) \/ Fetching(c, r, s)

Calls == [args : Lines, env : Envs, held : BOOLEAN]

Running ==
  /\ call \in Calls /\ item \in KeyItems /\ host \in Hosts
  /\ Shaped(p) /\ InPhase(call, p, shim)

LEMMA NoShimIs ==
  /\ DOMAIN NoShim = ShimFields /\ NoShim.pc = "none" /\ NoShim.act = NoAction
  BY DEF NoShim, ShimFields

LEMMA ShimGoesOn ==
  ASSUME NEW s, DOMAIN s = ShimFields, NEW pc, NEW e, e = [s EXCEPT !.pc = pc]
  PROVE  DOMAIN e = ShimFields /\ e.pc = pc /\ e.act = s.act
  BY DEF ShimFields

LEMMA FirstIs ==
  ASSUME NEW args, NEW env
  PROVE  LET e == [Process("linux", args, env) EXCEPT !.pc = "begin"]
         IN  Shaped(e) /\ e.pc = "begin" /\ e.args = args /\ e.side = "linux" /\ e.env = env
<1> DEFINE r == Process("linux", args, env)
           e == [r EXCEPT !.pc = "begin"]
<1>1. /\ DOMAIN r = ProcessFields
      /\ r.side = "linux" /\ r.args = args /\ r.env = env /\ r.out = "" /\ r.code = 0
  BY DEF Process, ProcessFields
<1>0. DOMAIN r = ProcessFields
  BY <1>1
<1> HIDE DEF r
<1>2. /\ DOMAIN e = ProcessFields
      /\ e.pc = "begin" /\ e.side = r.side /\ e.args = r.args /\ e.env = r.env
      /\ e.out = r.out /\ e.code = r.code
  BY <1>0, PcIs
<1> HIDE DEF e
<1>3. Shaped(e) /\ e.pc = "begin" /\ e.args = args /\ e.side = "linux" /\ e.env = env
  BY <1>1, <1>2 DEF Shaped, Pcs, Sides, Codes, Outs
<1> QED
  BY <1>3 DEF e, r

LEMMA RunningAtFirst ==
  ASSUME Init PROVE Running
<1>1. p = [Process("linux", call.args, call.env) EXCEPT !.pc = "begin"] /\ shim = NoShim
  BY DEF Init
<1>2. Shaped(p) /\ p.pc = "begin" /\ AsCalled(call, p)
  BY <1>1, FirstIs DEF AsCalled
<1>3. InPhase(call, p, shim)
  BY <1>1, <1>2, NoShimIs DEF InPhase, Alone
<1> QED
  BY <1>2, <1>3 DEF Init, Running, Calls

LEMMA GivenUpIs ==
  ASSUME NEW args, NEW env, NEW r, r = Process("linux", args, env), NEW code \in Codes,
         NEW e, e = Ended(r, code)
  PROVE  /\ Shaped(e) /\ e.pc = "ended" /\ e.code = code
         /\ e.args = args /\ e.side = "linux" /\ e.env = env
<1>1. /\ DOMAIN r = ProcessFields
      /\ r.side = "linux" /\ r.args = args /\ r.env = env /\ r.out = ""
  BY DEF Process, ProcessFields
<1>0. DOMAIN r = ProcessFields
  BY <1>1
<1>2. /\ DOMAIN e = ProcessFields
      /\ e.pc = "ended" /\ e.side = r.side /\ e.args = r.args /\ e.env = r.env
      /\ e.out = r.out /\ e.code = code
  BY <1>0, EndedIs
<1> QED
  BY <1>1, <1>2 DEF Shaped, Pcs, Sides, Outs

(* The shim gives up, or has done what it was asked.                        *)
LEMMA ShimEndsAlone ==
  ASSUME NEW code \in Codes, ShimEnds(code)
  PROVE  /\ Shaped(p') /\ InPhase(call, p', shim')
         /\ p'.pc = "ended" /\ p'.code = code /\ shim'.pc = "none" /\ p'.args = call.args
<1>1. p' = Ended(Process("linux", call.args, call.env), code) /\ shim' = NoShim
  BY DEF ShimEnds, Become
<1>2. Shaped(p') /\ p'.pc = "ended" /\ p'.code = code /\ AsCalled(call, p')
  BY <1>1, GivenUpIs DEF AsCalled
<1>3. InPhase(call, p', shim')
  BY <1>1, <1>2, NoShimIs DEF InPhase, Alone
<1> QED
  BY <1>1, <1>2, <1>3, NoShimIs DEF AsCalled

LEMMA EnterRuns ==
  ASSUME Running, Enter PROVE Shaped(p') /\ InPhase(call, p', shim')
<1>1. /\ p.pc = "begin" /\ DOMAIN p = ProcessFields /\ Shaped(p)
      /\ InPhase(call, p, shim)
  BY DEF Enter, Running, Shaped
<1>2. CASE Proxied(p.env)
  <2> DEFINE kind == Detect(p.env)
             m == [NoShim EXCEPT !.pc = "locate"]
  <2>1. p' = [p EXCEPT !.pc = "shim"] /\ shim' = [m EXCEPT !.kind = kind]
    BY <1>2 DEF Enter, Become
  <2>2. ~p.env.launched
    BY <1>2 DEF Proxied
  <2>3. AsCalled(call, p)
    BY <1>1, <2>2 DEF InPhase, Alone, Looking, Fetching, Passed
  <2>4. DOMAIN m = ShimFields /\ m.pc = "locate" /\ m.act = NoAction
    BY NoShimIs, ShimGoesOn
  <2> HIDE DEF m, kind
  <2>5. DOMAIN shim' = ShimFields /\ shim'.pc = "locate" /\ shim'.act = NoAction
    BY <2>1, <2>4 DEF ShimFields
  <2>6. Continues(p, p', "shim")
    BY <1>1, <2>1, PcIs DEF Continues
  <2>7. Shaped(p')
    BY <1>1, <2>6 DEF Continues, Shaped, Pcs
  <2>8. Looking(call, p', shim')
    BY <2>3, <2>5, <2>6 DEF Looking, AsCalled, Continues
  <2> QED
    BY <2>5, <2>7, <2>8 DEF InPhase
<1>3. CASE ~Proxied(p.env)
  <2>1. p' = [p EXCEPT !.pc = "main"] /\ shim' = shim
    BY <1>3 DEF Enter, Become
  <2>2. Continues(p, p', "main")
    BY <1>1, <2>1, PcIs DEF Continues
  <2>3. Shaped(p')
    BY <1>1, <2>2 DEF Continues, Shaped, Pcs
  <2>4. InPhase(call, p', shim)
    BY <1>1, <2>2 DEF InPhase, Alone, Looking, Fetching, AsCalled, Passed, Continues
  <2> QED
    BY <2>1, <2>3, <2>4
<1> QED
  BY <1>2, <1>3

LEMMA LocateRuns ==
  ASSUME Running, Locate \/ Preflight PROVE Shaped(p') /\ InPhase(call, p', shim')
<1>1. Shaped(p) /\ InPhase(call, p, shim) /\ shim.pc \in {"locate", "preflight"}
  BY DEF Running, Locate, Preflight
<1>2. Looking(call, p, shim) /\ DOMAIN shim = ShimFields
  BY <1>1 DEF InPhase, Alone, Fetching
<1>3. CASE \E code \in Codes : ShimEnds(code)
  BY <1>3, ShimEndsAlone
<1>4. ASSUME NEW pc \in {"preflight", "hand over"}, NEW exe,
             \/ shim' = [shim EXCEPT !.pc = pc, !.exe = exe]
             \/ shim' = [shim EXCEPT !.pc = pc],
             p' = p
      PROVE  Shaped(p') /\ InPhase(call, p', shim')
  <2> DEFINE m == [shim EXCEPT !.pc = pc]
  <2>1. shim' = [m EXCEPT !.exe = exe] \/ shim' = m
    BY <1>4
  <2>2. DOMAIN m = ShimFields /\ m.pc = pc /\ m.act = shim.act
    BY <1>2, ShimGoesOn
  <2> HIDE DEF m
  <2>3. DOMAIN shim' = ShimFields /\ shim'.pc = pc /\ shim'.act = shim.act
    BY <2>1, <2>2 DEF ShimFields
  <2>4. Looking(call, p, shim')
    BY <1>2, <2>3, ZenonT(30) DEF Looking
  <2> QED
    BY <1>1, <1>4, <2>3, <2>4 DEF InPhase
<1>5. CASE Locate
  BY <1>3, <1>4, <1>5 DEF Locate, Codes
<1>6. CASE Preflight
  BY <1>3, <1>4, <1>6 DEF Preflight, Codes
<1> QED
  BY <1>5, <1>6

LEMMA MainProcessIs ==
  ASSUME NEW args, NEW env
  PROVE  LET r == Process("windows", args, env)
         IN  Shaped(r) /\ r.pc = "main" /\ r.args = args /\ r.side = "windows" /\ r.env = env
<1> DEFINE r == Process("windows", args, env)
<1>1. /\ DOMAIN r = ProcessFields /\ r.pc = "main"
      /\ r.side = "windows" /\ r.args = args /\ r.env = env /\ r.out = "" /\ r.code = 0
  BY DEF Process, ProcessFields
<1> HIDE DEF r
<1>2. Shaped(r) /\ r.pc = "main" /\ r.args = args /\ r.side = "windows" /\ r.env = env
  BY <1>1 DEF Shaped, Pcs, Sides, Codes, Outs
<1> QED
  BY <1>2 DEF r

Started(c, r, args) ==
  Shaped(r) /\ Passed(c, r) /\ r.args = args /\ r.pc \in {"begin", "main"}

LEMMA ChildIs ==
  ASSUME call \in Calls, AsCalled(call, p), NEW args
  PROVE  Started(call, Child(args), args)
<1> DEFINE r == Child(args)
           e == ChildEnv(p.env)
<1>1. p.env = call.env /\ call.env \in Envs
  BY DEF AsCalled, Calls
<1>2. /\ e.launched /\ e.secrets \subseteq call.env.secrets
      /\ Format = "pe" => e.secrets = call.env.secrets \cap ExtendWslenv(call.env.wslenv)
  BY <1>1, ChildEnvIs
<1>3. call.env.secrets \subseteq SecretVars
  BY <1>1, LaunchConstants
<1> HIDE DEF e
<1>4. CASE Format = "pe"
  <2>1. r = Process("windows", args, e)
    BY <1>4 DEF Child, e
  <2> HIDE DEF r
  <2>2. Shaped(r) /\ r.pc = "main" /\ r.args = args /\ r.env = e
    BY <2>1, MainProcessIs
  <2>3. Passed(call, r)
    BY <1>2, <1>3, <1>4, <2>2 DEF Passed
  <2>4. Started(call, r, args)
    BY <2>2, <2>3 DEF Started
  <2> QED
    BY <2>4 DEF r
<1>5. CASE Format # "pe"
  <2>1. r = [Process("linux", args, e) EXCEPT !.pc = "begin"]
    BY <1>5 DEF Child, e
  <2> HIDE DEF r
  <2>2. Shaped(r) /\ r.pc = "begin" /\ r.args = args /\ r.side = "linux" /\ r.env = e
    BY <2>1, FirstIs
  <2>3. Passed(call, r)
    BY <1>2, <1>3, <2>2 DEF Passed
  <2>4. Started(call, r, args)
    BY <2>2, <2>3 DEF Started
  <2> QED
    BY <2>4 DEF r
<1> QED
  BY <1>4, <1>5

LEMMA HandOverRuns ==
  ASSUME Running, HandOver PROVE Shaped(p') /\ InPhase(call, p', shim')
<1>1. /\ Shaped(p) /\ InPhase(call, p, shim) /\ shim.pc = "hand over"
      /\ call \in Calls
  BY DEF Running, HandOver
<1>2. Looking(call, p, shim) /\ DOMAIN shim = ShimFields
  BY <1>1 DEF InPhase, Alone, Fetching
<1>3. AsCalled(call, p)
  BY <1>2 DEF Looking
<1>4. WindowsArgs = Handed(call)
  BY <1>3 DEF WindowsArgs, Handed, AsCalled
<1> DEFINE a == Recognised(call)
           w == Handed(call)
<1>5. ParseSshAction(WindowsArgs) = a
  BY <1>4 DEF Recognised
<1> HIDE DEF a, w
<1>6. \/ ShimEnds(126)
      \/ a = NoAction /\ p' = Child(w) /\ shim' = NoShim
      \/ a # NoAction /\ p' = Child(ExeArgs(a)) /\ shim' = [shim EXCEPT !.pc = "fetch", !.act = a]
  BY <1>4, <1>5 DEF HandOver, CannotRun, Become, w
<1>7. CASE ShimEnds(126)
  BY <1>7, ShimEndsAlone DEF Codes
<1>8. CASE a = NoAction /\ p' = Child(w) /\ shim' = NoShim
  <2>1. Started(call, p', w)
    BY <1>1, <1>3, <1>8, ChildIs
  <2>2. Alone(call, p', shim')
    BY <1>8, <2>1, NoShimIs DEF Alone, Started, a, w
  <2> QED
    BY <1>8, <2>1, <2>2, NoShimIs DEF Started, InPhase
<1>9. CASE a # NoAction /\ p' = Child(ExeArgs(a)) /\ shim' = [shim EXCEPT !.pc = "fetch", !.act = a]
  <2> DEFINE m == [shim EXCEPT !.pc = "fetch"]
  <2>1. shim' = [m EXCEPT !.act = a]
    BY <1>9
  <2>2. DOMAIN m = ShimFields /\ m.pc = "fetch"
    BY <1>2, ShimGoesOn
  <2> HIDE DEF m
  <2>3. DOMAIN shim' = ShimFields /\ shim'.pc = "fetch" /\ shim'.act = a
    BY <2>1, <2>2 DEF ShimFields
  <2>4. Started(call, p', ExeArgs(a))
    BY <1>1, <1>3, <1>9, ChildIs
  <2>5. Fetching(call, p', shim')
    BY <1>9, <2>3, <2>4 DEF Fetching, Started, a
  <2> QED
    BY <2>3, <2>4, <2>5 DEF Started, InPhase
<1> QED
  BY <1>6, <1>7, <1>8, <1>9

LEMMA FetchRuns ==
  ASSUME Running, Interrupted \/ Fetched PROVE Shaped(p') /\ InPhase(call, p', shim')
<1>1. Shaped(p) /\ InPhase(call, p, shim) /\ shim.pc = "fetch"
  BY DEF Running, Interrupted, Fetched
<1>2. Fetching(call, p, shim) /\ DOMAIN shim = ShimFields
  BY <1>1 DEF InPhase, Alone, Looking
<1>3. CASE Interrupted
  <2>1. PICK code \in {1, 130} : p' = Ended(p, code)
    BY <1>3 DEF Interrupted, Become
  <2>2. DOMAIN p = ProcessFields /\ code \in Codes
    BY <1>1, <2>1 DEF Shaped, Codes
  <2> DEFINE e == Ended(p, code)
  <2>3. /\ DOMAIN e = ProcessFields
        /\ e.pc = "ended" /\ e.side = p.side /\ e.args = p.args /\ e.env = p.env
        /\ e.out = p.out /\ e.code = code
    BY <2>2, EndedIs
  <2> HIDE DEF e
  <2>4. Shaped(e) /\ Fetching(call, e, shim)
    BY <1>1, <1>2, <2>2, <2>3 DEF Shaped, Fetching, Passed, Pcs
  <2>5. p' = e /\ shim' = shim
    BY <1>3, <2>1 DEF Interrupted, e
  <2> QED
    BY <1>2, <2>4, <2>5 DEF InPhase
<1>4. CASE Fetched
  <2>1. CASE FetchCode # 0
    <3>1. FetchCode \in Codes
      BY <1>1 DEF FetchCode, Shaped, Codes
    <3> QED
      BY <1>4, <2>1, <3>1, ShimEndsAlone DEF Fetched
  <2>2. CASE FetchCode = 0
    <3>1. shim' = [shim EXCEPT !.pc = "ssh-add"] /\ p' = p /\ p.pc = "ended"
      BY <1>4, <2>2 DEF Fetched
    <3>2. DOMAIN shim' = ShimFields /\ shim'.pc = "ssh-add" /\ shim'.act = shim.act
      BY <1>2, <3>1, ShimGoesOn
    <3>3. Fetching(call, p, shim')
      BY <1>2, <3>1, <3>2 DEF Fetching
    <3> QED
      BY <1>1, <3>1, <3>2, <3>3 DEF InPhase
  <2> QED
    BY <2>1, <2>2
<1> QED
  BY <1>3, <1>4

LEMMA PipeRuns ==
  ASSUME Pipe PROVE Shaped(p') /\ InPhase(call, p', shim')
<1>1. \E code \in {0, 11, 134} : ShimEnds(code)
  BY DEF Pipe, PipeFailed
<1>2. {0, 11, 134} \subseteq Codes
  BY DEF Codes
<1> QED
  BY <1>1, <1>2, ShimEndsAlone

LEMMA NativeRuns ==
  ASSUME Running, Native, shim' = shim PROVE Shaped(p') /\ InPhase(call, p', shim')
<1>1. Shaped(p) /\ item \in KeyItems /\ InPhase(call, p, shim)
  BY DEF Running
<1>2. Shaped(p') /\ Onward(p, p')
  BY <1>1, NativeMoves
<1>3. ~Looking(call, p, shim)
  BY <1>2 DEF Onward, Looking
<1>4. Alone(call, p, shim) => Alone(call, p', shim)
  BY <1>2 DEF Onward, Alone, AsCalled, Passed
<1>5. Fetching(call, p, shim) => Fetching(call, p', shim)
  BY <1>2 DEF Onward, Fetching, Passed
<1> QED
  BY <1>1, <1>2, <1>3, <1>4, <1>5 DEF InPhase

LEMMA RunningStays ==
  ASSUME Running, [Next]_vars PROVE Running'
<1>1. Shaped(p) /\ InPhase(call, p, shim) /\ item \in KeyItems
  BY DEF Running
<1>2. CASE UNCHANGED vars
  BY <1>1, <1>2 DEF vars, Running
<1>3. ASSUME Shaped(p'), InPhase(call, p', shim'), call' = call, item' = item, host' = host
      PROVE  Running'
  BY <1>3 DEF Running
<1>4. CASE Enter
  BY <1>3, <1>4, EnterRuns DEF Enter
<1>5. CASE Locate \/ Preflight
  BY <1>3, <1>5, LocateRuns DEF Locate, Preflight
<1>6. CASE HandOver
  BY <1>3, <1>6, HandOverRuns DEF HandOver
<1>7. CASE Interrupted \/ Fetched
  BY <1>3, <1>7, FetchRuns DEF Interrupted, Fetched
<1>8. CASE Pipe
  BY <1>3, <1>8, PipeRuns DEF Pipe
<1>9. CASE Native /\ UNCHANGED <<host, shim>>
  <2>1. call' = call /\ item' = item
    BY <1>1, <1>9, NativeMoves
  <2> QED
    BY <1>3, <1>9, <2>1, NativeRuns
<1> QED
  BY <1>2, <1>4, <1>5, <1>6, <1>7, <1>8, <1>9 DEF Next

-----------------------------------------------------------------------------
(* Types *)

Agents == [Sides -> BOOLEAN]

LEMMA AgentIsChanged ==
  ASSUME agent \in Agents, NEW side \in Sides, NEW op, Changed(op, side)
  PROVE  /\ agent' \in Agents
         /\ agent'[side] <=> op = "add"
         /\ \A s \in Sides : s # side => (agent'[s] <=> agent[s])
<1> DEFINE b == (op = "add")
<1>1. b \in BOOLEAN
  OBVIOUS
<1>2. agent' = [agent EXCEPT ![side] = b]
  BY DEF Changed
<1> HIDE DEF b
<1>3. agent' \in Agents
  BY <1>1, <1>2 DEF Agents
<1>4. agent'[side] = b /\ \A s \in Sides : s # side => agent'[s] = agent[s]
  BY <1>2 DEF Agents
<1> QED
  BY <1>3, <1>4 DEF b

LEMMA OnlySshAddChanges ==
  ASSUME Native PROVE agent' = agent \/ SshAdd
  BY DEF Native, Main, Other, UnlockFails, Collect, Resolve, UnlockFailsForRun, StartCommand,
         CommandEnds, LoadKey

LEMMA AgentStays ==
  ASSUME Running, agent \in Agents, [Next]_vars PROVE agent' \in Agents
<1>1. CASE agent' = agent
  BY <1>1
<1>2. CASE SshAdd
  <2>1. p.side \in Sides
    BY DEF Running, Shaped
  <2>2. agent' = agent \/ \E op : Changed(op, p.side)
    BY <1>2 DEF SshAdd
  <2> QED
    BY <1>1, <2>1, <2>2, AgentIsChanged
<1>3. CASE Pipe
  <2>1. agent' = agent \/ \E op : Changed(op, "linux")
    BY <1>3 DEF Pipe
  <2> QED
    BY <1>1, <2>1, AgentIsChanged DEF Sides
<1>4. agent' = agent \/ SshAdd \/ Pipe
  BY OnlySshAddChanges DEF Next, Enter, Locate, Preflight, HandOver, Interrupted, Fetched, vars
<1> QED
  BY <1>1, <1>2, <1>3, <1>4

LEMMA AgentAtFirst ==
  ASSUME Init PROVE agent \in Agents
  BY DEF Init, Agents, Calls

LEMMA RunningIsTyped ==
  ASSUME Running, agent \in Agents PROVE TypeOK
<1>1. Shaped(p) /\ InPhase(call, p, shim)
  BY DEF Running
<1>2. p.side = "windows" => p.env.launched
  BY <1>1 DEF InPhase, Alone, Looking, Fetching, AsCalled, Passed
<1>3. shim.pc \in {"none", "locate", "preflight", "hand over", "fetch", "ssh-add"}
  BY <1>1 DEF InPhase, Alone, Looking, Fetching
<1>4. shim.pc \in {"fetch", "ssh-add"} <=> shim.act # NoAction
  BY <1>1 DEF InPhase, Alone, Looking, Fetching
<1> QED
  BY <1>1, <1>2, <1>3, <1>4 DEF TypeOK, Running, Agents, Shaped, Pcs, Codes, Outs

(* A call is running or has run as the code of the shim has it: the         *)
(* inductive invariant that the theorems below rest on.                     *)
THEOREM RunsOn == Spec => [](Running /\ agent \in Agents)
<1> DEFINE I == Running /\ agent \in Agents
<1>1. Init => I
  BY RunningAtFirst, AgentAtFirst
<1>2. I /\ [Next]_vars => I'
  BY RunningStays, AgentStays DEF Agents
<1>3. I => Running /\ agent \in Agents
  OBVIOUS
<1> HIDE DEF I
<1> QED
  BY <1>1, <1>2, <1>3, PTL DEF Spec

(* Whatever is typed, wherever, the process, the shim and the ssh-agents    *)
(* are always in one of their states, and a wcm.exe has been told that it   *)
(* was launched from a WSL.                                                 *)
THEOREM TypeCorrect == Spec => []TypeOK
<1>1. Running /\ agent \in Agents => TypeOK
  BY RunningIsTyped
<1> QED
  BY <1>1, RunsOn, PTL

-----------------------------------------------------------------------------
(* What is asked of wcm.exe *)

LEMMA CallIs ==
  ASSUME NEW c \in Calls
  PROVE  /\ c.args \in Seq(Range(c.args)) /\ \A t \in Range(c.args) : IsToken(t)
         /\ c.env.vault = Absent \/ IsVaultValue(c.env.vault)
         /\ c.env.secrets \subseteq SecretVars
<1>1. c.args \in Lines /\ c.env \in Envs
  BY DEF Calls
<1>2. c.args \in Seq(Range(c.args)) /\ \A t \in Range(c.args) : IsToken(t)
  BY <1>1, LaunchConstants
<1>3. c.env.vault = Absent \/ IsVaultValue(c.env.vault)
  BY <1>1, ShimConstants DEF IsVaultValue
<1>4. c.env.secrets \subseteq SecretVars
  BY <1>1, LaunchConstants
<1> QED
  BY <1>2, <1>3, <1>4

(* What the shim hands over, or fetches, for the call c.                    *)
HandedIs(c) ==
  /\ Parse(c.args).ok =>
       SameCommand(c.args, Handed(c), Ahead(c.args, c.env.vault))
  /\ Parse(c.args).ok /\ Documented(c.args) => Parse(Handed(c)) = Meant(c.args, c.env.vault)
  /\ Documented(c.args) => KeysAreFetched(Handed(c), Recognised(c))
  /\ Documented(c.args) /\ Parse(c.args).ok /\ Recognised(c) # NoAction =>
       KeyKept(c.args, Recognised(c), Meant(c.args, c.env.vault), Parse(ExeArgs(Recognised(c))))
  /\ Recognised(c) # NoAction => FetchIsHarmless(Parse(ExeArgs(Recognised(c))))

LEMMA HandedAsMeant ==
  ASSUME NEW c \in Calls
  PROVE  HandedIs(c)
<1> DEFINE args == c.args
           S == Range(args)
           vault == c.env.vault
           w == Handed(c)
           a == Recognised(c)
<1>1. /\ args \in Seq(S) /\ \A t \in S : IsToken(t)
      /\ vault = Absent \/ IsVaultValue(vault)
  BY CallIs
<1>2. w = BuildWindowsArgs(args, vault) /\ a = ParseSshAction(w) /\ S = Range(args)
  BY DEF Handed, Recognised
<1> HIDE DEF args, S, vault, w, a
<1>3. ASSUME Parse(args).ok PROVE SameCommand(args, w, Ahead(args, vault))
  BY <1>1, <1>2, <1>3, CommandIsKept
<1>4. ASSUME Parse(args).ok, Documented(args) PROVE Parse(w) = Meant(args, vault)
  BY <1>1, <1>2, <1>4, MeaningIsKept
<1>5. ASSUME Documented(args) PROVE KeysAreFetched(w, a)
  BY <1>1, <1>2, <1>5, CallIsKept
<1>6. ASSUME Documented(args), Parse(args).ok, a # NoAction
      PROVE  KeyKept(args, a, Meant(args, vault), Parse(ExeArgs(a)))
  BY <1>1, <1>2, <1>6, CallIsKept
<1>7. ASSUME a # NoAction PROVE FetchIsHarmless(Parse(ExeArgs(a)))
  <2> DEFINE forms == {}
             T == Forms(Sent(S, vault), forms)
  <2>1. forms \subseteq {"attached", "dashes"} /\ \A t \in S : t.form \notin forms
    OBVIOUS
  <2>2. \A t \in T : IsToken(t)
    BY DEF Forms, Sent
  <2> HIDE DEF forms
  <2>3. w \in Seq(T)
    BY <1>1, <1>2, <2>1, WindowsArgsSent
  <2> HIDE DEF T
  <2> QED
    BY <1>2, <1>7, <2>2, <2>3, FetchesAreHarmless
<1>8. HandedIs(c)
  BY <1>3, <1>4, <1>5, <1>6, <1>7 DEF HandedIs, args, vault, w, a
<1> QED
  BY <1>8

LEMMA SecretsCross ==
  ASSUME NEW c \in Calls, NEW r, Passed(c, r), r.side = "windows",
         "WCM_LAUNCHED_FROM_WSL" \notin c.env.wslenv
  PROVE  r.env.secrets = c.env.secrets
           \cap (c.env.wslenv \cup {"WCM_PASSPHRASE", "WCM_EXPORT_PASSPHRASE"})
<1>1. r.env.secrets = c.env.secrets \cap ExtendWslenv(c.env.wslenv)
  BY DEF Passed
<1>2. ExtendWslenv(c.env.wslenv) =
        c.env.wslenv \cup {"WCM_LAUNCHED_FROM_WSL", "WCM_WSL_KIND", "WCM_WSL_EXE",
                           "WCM_PASSPHRASE", "WCM_EXPORT_PASSPHRASE"}
  BY DEF ExtendWslenv
<1>3. c.env.secrets \subseteq SecretVars
  BY CallIs
<1>4. \A n \in SecretVars : n \notin {"WCM_LAUNCHED_FROM_WSL", "WCM_WSL_KIND", "WCM_WSL_EXE"}
  BY DEF SecretVars
<1> QED
  BY <1>1, <1>2, <1>3, <1>4

(* The globals of a fetch, as ShimKeepsTheCommand has them.                 *)
LEMMA GlobalsAreKept ==
  ASSUME NEW gopts, NEW mopts, SameGlobals(gopts, mopts), NEW o \in GlobalOpts \cup {"--no-input"}
  PROVE  /\ o \in DOMAIN gopts <=> o \in DOMAIN mopts
         /\ o \in DOMAIN gopts => gopts[o] = mopts[o]
  BY DEF SameGlobals, Forwards

IsFetchOf(got, meant) ==
  /\ got.ok /\ got.pos = meant.pos
  /\ got.cmd = IF Asked.cmd = "ssh add" THEN "get" ELSE "ssh pubkey"
  /\ \A o \in GlobalOpts \cup {"--no-input"} :
       /\ o \in DOMAIN got.opts <=> o \in DOMAIN meant.opts
       /\ o \in DOMAIN got.opts => got.opts[o] = meant.opts[o]

LEMMA FetchIsKept ==
  ASSUME Running, shim.pc # "none", p.side = "windows", Asked.ok, Documented(call.args),
         NEW meant, meant = Meant(call.args, call.env.vault), NEW got, got = Parse(p.args)
  PROVE  IsSsh /\ (~Repeats(call.args) => IsFetchOf(got, meant))
<1> DEFINE a == Recognised(call)
<1>1. call \in Calls /\ InPhase(call, p, shim)
  BY DEF Running
<1>2. Fetching(call, p, shim)
  BY <1>1 DEF InPhase, Alone, Looking, AsCalled
<1>3. a # NoAction /\ p.args = ExeArgs(a)
  BY <1>2 DEF Fetching
<1>4. HandedIs(call)
  BY <1>1, HandedAsMeant
<1>5. KeyKept(call.args, a, meant, got)
  BY <1>3, <1>4 DEF HandedIs, Asked
<1>6. meant.cmd = Asked.cmd
  <2>1. Parse(Handed(call)) = meant
    BY <1>4 DEF HandedIs, Asked
  <2>2. SameCommand(call.args, Handed(call), Ahead(call.args, call.env.vault))
    BY <1>4 DEF HandedIs, Asked
  <2> QED
    BY <2>1, <2>2 DEF SameCommand, Asked
<1> HIDE DEF a
<1>7. meant.cmd = SshCommand[a.op] /\ a.op \in {"add", "remove"}
  BY <1>5 DEF KeyKept, KeyAsked
<1>8. SshCommand["add"] = "ssh add" /\ SshCommand["remove"] = "ssh remove"
  BY DEF SshCommand
<1>9. /\ a.op = "add" => Asked.cmd = "ssh add"
      /\ a.op = "remove" => Asked.cmd = "ssh remove"
  BY <1>6, <1>7, <1>8
<1>10. IsSsh
  BY <1>7, <1>9 DEF IsSsh
<1>11. ASSUME ~Repeats(call.args) PROVE IsFetchOf(got, meant)
  <2>1. /\ got.ok /\ got.cmd = FetchCmd(a.op) /\ got.pos = meant.pos
        /\ SameGlobals(got.opts, meant.opts)
    BY <1>5, <1>11 DEF KeyKept, FetchesTheKey
  <2>2. got.cmd = IF Asked.cmd = "ssh add" THEN "get" ELSE "ssh pubkey"
    BY <1>7, <1>9, <2>1 DEF FetchCmd
  <2> QED
    BY <2>1, <2>2, GlobalsAreKept, ZenonT(60) DEF IsFetchOf
<1> QED
  BY <1>10, <1>11

LEMMA CommandStays ==
  ASSUME Running PROVE ShimKeepsTheCommand
<1> SUFFICES ASSUME p.side = "windows", Asked.ok, Documented(call.args)
             PROVE  LET meant == Meant(call.args, call.env.vault)
                        got == Parse(p.args)
                    IN  /\ IF shim.pc = "none" THEN got = meant
                           ELSE IsSsh /\ (~Repeats(call.args) => IsFetchOf(got, meant))
                        /\ "WCM_LAUNCHED_FROM_WSL" \notin call.env.wslenv =>
                             p.env.secrets = call.env.secrets
                               \cap (call.env.wslenv \cup {"WCM_PASSPHRASE", "WCM_EXPORT_PASSPHRASE"})
  BY DEF ShimKeepsTheCommand, IsFetchOf
<1> DEFINE meant == Meant(call.args, call.env.vault)
           got == Parse(p.args)
<1>1. call \in Calls /\ InPhase(call, p, shim)
  BY DEF Running
<1>2. Passed(call, p) /\ (shim.pc = "none" => p.args = Handed(call))
  BY <1>1 DEF InPhase, Alone, Looking, Fetching, AsCalled
<1>3. CASE shim.pc = "none"
  <2>1. got = meant
    BY <1>1, <1>2, <1>3, HandedAsMeant DEF HandedIs, Asked
  <2> QED
    BY <1>1, <1>2, <1>3, <2>1, SecretsCross
<1>4. CASE shim.pc # "none"
  <2>1. IsSsh /\ (~Repeats(call.args) => IsFetchOf(got, meant))
    BY <1>4, FetchIsKept
  <2> HIDE DEF got, meant
  <2> QED
    BY <1>1, <1>2, <1>4, <2>1, SecretsCross DEF got, meant
<1> QED
  BY <1>3, <1>4

(* Whatever is typed in a WSL, in a documented spelling: wcm.exe is asked   *)
(* for what was typed, from the vault and by the slot that were meant, or,  *)
(* unless an option to forward was repeated, for the key that ssh-add is to *)
(* be given, and gets the passphrases that are to reach it.                 *)
THEOREM CommandReachesWindows == Spec => []ShimKeepsTheCommand
<1>1. Running => ShimKeepsTheCommand
  BY CommandStays
<1> QED
  BY <1>1, RunsOn, PTL

-----------------------------------------------------------------------------
(* What a process is doing *)

Parsing(r, e) ==
  /\ r.pc = "main" /\ e.req = Parse(r.args) /\ Parse(r.args).ok
  /\ e.pc = CASE Parse(r.args).cmd = "run" -> "collect"
              [] Parse(r.args).cmd \in {"ssh add", "ssh remove", "ssh pubkey"} -> "load"
              [] OTHER -> "other"

Collecting(r, e) ==
  /\ r.pc = "collect" /\ e.pc = "resolve" /\ e.req = r.req
  /\ ReadableIn(r.req.opts) /\ BadMapping \notin Range(SpecsOf(r.req.opts))
  /\ e.specs = Deduped(SpecsOf(r.req.opts))

Resolving(r, e) ==
  /\ r.pc = "resolve" /\ e.pc = "start" /\ e.req = r.req
  /\ Faulty(r.specs) = {} /\ e.vals = ValsOf(r.specs)

Starting(r, e) == r.pc = "start" /\ e.pc = "wait" /\ e.req = r.req

Loading(r, e) ==
  r.pc = "load" /\ e.pc = "ssh-add" /\ e.req = r.req /\ r.req.cmd # "ssh pubkey"

(* The steps of a process that does not end with them.                      *)
GoesOn(r, e) ==
  /\ e.args = r.args
  /\ Parsing(r, e) \/ Collecting(r, e) \/ Resolving(r, e) \/ Starting(r, e) \/ Loading(r, e)

LEMMA EndedEnds ==
  ASSUME NEW r, DOMAIN r = ProcessFields, NEW code
  PROVE  Ended(r, code).pc = "ended" /\ Ended(r, code).code = code
  BY EndedIs

LEMMA PrintedEnds ==
  ASSUME NEW r, DOMAIN r = ProcessFields, NEW out
  PROVE  /\ [Ended(r, 0) EXCEPT !.out = out].pc = "ended"
         /\ [Ended(r, 0) EXCEPT !.out = out].code = 0
<1> DEFINE m == Ended(r, 0)
<1>1. DOMAIN m = ProcessFields /\ m.pc = "ended" /\ m.code = 0
  BY EndedIs
<1> HIDE DEF m
<1>2. [m EXCEPT !.out = out].pc = "ended" /\ [m EXCEPT !.out = out].code = 0
  BY <1>1 DEF ProcessFields
<1> QED
  BY <1>2 DEF m

LEMMA SpecsOfProcess ==
  /\ Specs = SpecsOf(p.req.opts)
  /\ Readable => ReadableIn(p.req.opts)
  BY DEF Specs, EnvFile, Texts, SpecsOf, FileOf, LineOf, TextsOf, Readable, ReadableIn

LEMMA RunGoesOn ==
  ASSUME Shaped(p), Collect \/ Resolve \/ StartCommand \/ CommandEnds
  PROVE  p'.pc = "ended" \/ GoesOn(p, p')
<1>0. DOMAIN p = ProcessFields
  BY DEF Shaped
<1>1. CASE Collect
  <2> DEFINE d == Deduped(Specs)
             m == [p EXCEPT !.specs = d]
             e == [m EXCEPT !.pc = "resolve"]
  <2>1. p.pc = "collect" /\ (p' \in {Ended(p, 10), Ended(p, 2)} \/ p' = e)
    BY <1>1 DEF Collect, At, Become
  <2>2. p' = e => p' \in {Ended(p, 10), Ended(p, 2)} \/ (Readable /\ BadMapping \notin Range(Specs))
    BY <1>1 DEF Collect, Become
  <2> HIDE DEF d
  <2>3. e.pc = "resolve" /\ e.req = p.req /\ e.specs = d /\ e.args = p.args
    BY <1>0, SpecsIs
  <2>4. \A code : Ended(p, code).pc = "ended"
    BY <1>0, EndedEnds
  <2> HIDE DEF e
  <2>5. CASE p' \in {Ended(p, 10), Ended(p, 2)}
    BY <2>4, <2>5
  <2>6. CASE p' = e /\ Readable /\ BadMapping \notin Range(Specs)
    <3>1. Collecting(p, e)
      BY <2>1, <2>3, <2>6, SpecsOfProcess DEF Collecting, d
    <3> QED
      BY <2>3, <2>6, <3>1 DEF GoesOn
  <2> QED
    BY <2>1, <2>2, <2>5, <2>6
<1>2. CASE Resolve
  <2> DEFINE v == ValsOf(p.specs)
             m == [p EXCEPT !.pc = "start"]
             e == [m EXCEPT !.vals = v]
  <2>1. p.pc = "resolve"
    BY <1>2 DEF Resolve, At
  <2>2. CASE Faulty(p.specs) = {}
    <3>1. p' = e
      BY <1>2, <2>2 DEF Resolve, Become, ValsOf
    <3> HIDE DEF v
    <3>2. e.pc = "start" /\ e.req = p.req /\ e.vals = v /\ e.args = p.args
      BY <1>0, ValsIs
    <3> HIDE DEF e
    <3>3. Resolving(p, e)
      BY <2>1, <2>2, <3>2 DEF Resolving, v
    <3> QED
      BY <3>1, <3>2, <3>3 DEF GoesOn
  <2>3. CASE Faulty(p.specs) # {}
    BY <1>0, <1>2, <2>3, EndedEnds DEF Resolve, Become
  <2> QED
    BY <2>2, <2>3
<1>3. CASE StartCommand
  <2> DEFINE e == [p EXCEPT !.pc = "wait"]
  <2>1. p.pc = "start" /\ p' \in {e, Ended(p, 11)}
    BY <1>3 DEF StartCommand, At, Become
  <2>2. e.pc = "wait" /\ e.req = p.req /\ e.args = p.args
    BY <1>0, PcIs
  <2> HIDE DEF e
  <2> QED
    BY <1>0, <2>1, <2>2, EndedEnds DEF GoesOn, Starting
<1>4. CASE CommandEnds
  BY <1>0, <1>4, EndedEnds DEF CommandEnds, Become
<1> QED
  BY <1>1, <1>2, <1>3, <1>4

LEMMA NativeGoesOn ==
  ASSUME Shaped(p), Native
  PROVE  p'.pc = "ended" \/ GoesOn(p, p')
<1>0. DOMAIN p = ProcessFields
  BY DEF Shaped
<1>1. CASE Main
  <2> DEFINE r == Parse(p.args)
             pc == CASE r.cmd = "run" -> "collect"
                     [] r.cmd \in {"ssh add", "ssh remove", "ssh pubkey"} -> "load"
                     [] OTHER -> "other"
             m == [p EXCEPT !.req = r]
             e == [m EXCEPT !.pc = pc]
  <2>1. p.pc = "main" /\ p' = IF ~r.ok THEN Ended(p, 2) ELSE e
    BY <1>1 DEF Main, Become
  <2> HIDE DEF pc, r
  <2>2. e.pc = pc /\ e.req = r /\ e.args = p.args
    BY <1>0, ReqIs
  <2> HIDE DEF e
  <2>3. CASE ~r.ok
    BY <1>0, <2>1, <2>3, EndedEnds
  <2>4. CASE r.ok
    <3>1. p' = e
      BY <2>1, <2>4
    <3>2. Parsing(p, e)
      BY <2>1, <2>2, <2>4 DEF Parsing, r, pc
    <3> QED
      BY <2>2, <3>1, <3>2 DEF GoesOn
  <2> QED
    BY <2>3, <2>4
<1>2. CASE Other
  <2>1. p' \in {Ended(p, 0), Ended(p, 3)} \/ p' = [Ended(p, 0) EXCEPT !.out = item.key]
    BY <1>2 DEF Other, Become
  <2> DEFINE e == [Ended(p, 0) EXCEPT !.out = item.key]
  <2>2. e.pc = "ended" /\ Ended(p, 0).pc = "ended" /\ Ended(p, 3).pc = "ended"
    BY <1>0, EndedEnds, PrintedEnds
  <2> HIDE DEF e
  <2>3. p' \in {Ended(p, 0), Ended(p, 3)} \/ p' = e
    BY <2>1 DEF e
  <2> QED
    BY <2>2, <2>3
<1>3. ASSUME NEW pc, UnlockFails(pc) PROVE p'.pc = "ended"
  BY <1>0, <1>3, EndedEnds DEF UnlockFails, Become
<1>4. CASE Collect \/ Resolve \/ StartCommand \/ CommandEnds
  BY <1>4, RunGoesOn
<1>5. CASE LoadKey
  <2> DEFINE fault == KeyFault(p.req.cmd)
             e == [p EXCEPT !.pc = "ssh-add"]
  <2>1. p.pc = "load"
    BY <1>5 DEF LoadKey
  <2>2. CASE fault # 0
    BY <1>0, <1>5, <2>2, EndedEnds DEF LoadKey, Become
  <2>3. CASE fault = 0 /\ p.req.cmd = "ssh pubkey"
    <3>1. p' = [Ended(p, 0) EXCEPT !.out = "public"]
      BY <1>5, <2>3 DEF LoadKey, Become
    <3> QED
      BY <1>0, <3>1, PrintedEnds
  <2>4. CASE fault = 0 /\ p.req.cmd # "ssh pubkey"
    <3>1. p' = e
      BY <1>5, <2>4 DEF LoadKey, Become
    <3>2. e.pc = "ssh-add" /\ e.req = p.req /\ e.args = p.args
      BY <1>0, PcIs
    <3> HIDE DEF e
    <3> QED
      BY <2>1, <2>4, <3>1, <3>2 DEF GoesOn, Loading
  <2> HIDE DEF fault
  <2> QED
    BY <2>2, <2>3, <2>4
<1>6. CASE SshAdd
  <2>1. \E code \in {0, 11} \cup LateFaults : p' = Ended(p, code)
    BY <1>6 DEF SshAdd, Become
  <2> QED
    BY <1>0, <2>1, EndedEnds
<1>7. CASE UnlockFails("other") \/ UnlockFailsForRun \/ UnlockFails("load")
  BY <1>3, <1>7 DEF UnlockFailsForRun
<1>8. \/ Main \/ Other \/ LoadKey \/ SshAdd
      \/ UnlockFails("other") \/ UnlockFailsForRun \/ UnlockFails("load")
      \/ Collect \/ Resolve \/ StartCommand \/ CommandEnds
  BY DEF Native
<1> QED
  BY <1>1, <1>2, <1>4, <1>5, <1>6, <1>7, <1>8

Working == {"other", "collect", "resolve", "start", "wait", "load", "ssh-add"}

(* What the process is at fits what it was asked.                           *)
Requested(r) ==
  r.pc \in Working =>
    /\ r.req = Parse(r.args) /\ Parse(r.args).ok
    /\ r.pc \in {"collect", "resolve", "start", "wait"} <=> Parse(r.args).cmd = "run"
    /\ r.pc \in {"load", "ssh-add"} <=> Parse(r.args).cmd \in SshNames
    /\ r.pc = "ssh-add" => Parse(r.args).cmd # "ssh pubkey"

LEMMA RequestedOn ==
  ASSUME NEW r, NEW e, Requested(r), GoesOn(r, e)
  PROVE  Requested(e)
<1> DEFINE q == Parse(r.args)
<1>1. e.args = r.args
  BY DEF GoesOn
<1>2. CASE Parsing(r, e)
  <2>1. /\ e.req = q /\ q.ok
        /\ e.pc = CASE q.cmd = "run" -> "collect"
                    [] q.cmd \in {"ssh add", "ssh remove", "ssh pubkey"} -> "load"
                    [] OTHER -> "other"
    BY <1>2 DEF Parsing
  <2> HIDE DEF q
  <2>2. Parse(e.args) = q
    BY <1>1 DEF q
  <2> QED
    BY <2>1, <2>2 DEF Requested, SshNames
<1>3. CASE Collecting(r, e) \/ Resolving(r, e) \/ Starting(r, e)
  <2>1. /\ r.pc \in {"collect", "resolve", "start"} /\ e.pc \in {"resolve", "start", "wait"}
        /\ e.req = r.req
    BY <1>3 DEF Collecting, Resolving, Starting
  <2>2. r.req = q /\ q.ok /\ q.cmd = "run"
    BY <2>1 DEF Requested, Working
  <2> HIDE DEF q
  <2>3. Parse(e.args) = q
    BY <1>1 DEF q
  <2> QED
    BY <2>1, <2>2, <2>3 DEF Requested, SshNames
<1>4. CASE Loading(r, e)
  <2>1. r.pc = "load" /\ e.pc = "ssh-add" /\ e.req = r.req /\ r.req.cmd # "ssh pubkey"
    BY <1>4 DEF Loading
  <2>2. r.req = q /\ q.ok /\ q.cmd \in SshNames
    BY <2>1 DEF Requested, Working
  <2> HIDE DEF q
  <2>3. Parse(e.args) = q
    BY <1>1 DEF q
  <2> QED
    BY <2>1, <2>2, <2>3 DEF Requested, SshNames
<1> QED
  BY <1>2, <1>3, <1>4 DEF GoesOn

LEMMA StartedIdle ==
  ASSUME Running, HandOver PROVE p'.pc \notin Working
<1>1. InPhase(call, p, shim) /\ shim.pc = "hand over" /\ call \in Calls
  BY DEF Running, HandOver
<1>2. AsCalled(call, p)
  BY <1>1 DEF InPhase, Alone, Fetching, Looking
<1>3. CASE ShimEnds(126)
  BY <1>3, ShimEndsAlone DEF Codes, Working
<1>4. ASSUME NEW args, p' = Child(args) PROVE p'.pc \notin Working
  <2>1. Started(call, Child(args), args)
    BY <1>1, <1>2, ChildIs
  <2> QED
    BY <1>4, <2>1 DEF Started, Working
<1> QED
  BY <1>3, <1>4 DEF HandOver, CannotRun, Become

LEMMA GivenUpIdle ==
  ASSUME NEW code \in Codes, ShimEnds(code)
  PROVE  p'.pc \notin Working
  BY ShimEndsAlone DEF Working

(* A step of the system is one of the process that is running, or leaves it *)
(* as it is, or is the begin or the end of one.                             *)
LEMMA StepsOfCall ==
  ASSUME Running, [Next]_vars
  PROVE  call' = call /\ (p' = p \/ p'.pc \notin Working \/ GoesOn(p, p'))
<1>1. Shaped(p) /\ item \in KeyItems /\ DOMAIN p = ProcessFields
  BY DEF Running, Shaped
<1>2. CASE UNCHANGED vars
  BY <1>2 DEF vars
<1>3. CASE Enter
  <2>1. CASE p' = [p EXCEPT !.pc = "shim"]
    <3>1. p'.pc = "shim"
      BY <1>1, <2>1, PcIs
    <3> QED
      BY <1>3, <3>1 DEF Enter, Working
  <2>2. CASE p' = [p EXCEPT !.pc = "main"]
    <3>1. p'.pc = "main"
      BY <1>1, <2>2, PcIs
    <3> QED
      BY <1>3, <3>1 DEF Enter, Working
  <2> QED
    BY <1>3, <2>1, <2>2 DEF Enter, Become
<1>4. CASE Locate \/ Preflight
  BY <1>4, GivenUpIdle DEF Locate, Preflight, Codes
<1>5. CASE HandOver
  BY <1>5, StartedIdle DEF HandOver
<1>6. CASE Interrupted
  BY <1>1, <1>6, EndedEnds DEF Interrupted, Become, Working
<1>7. CASE Fetched
  <2>1. FetchCode # 0 => FetchCode \in Codes
    BY <1>1 DEF FetchCode, Shaped, Codes
  <2> QED
    BY <1>7, <2>1, GivenUpIdle DEF Fetched
<1>8. CASE Pipe
  BY <1>8, GivenUpIdle DEF Pipe, PipeFailed, Codes
<1>9. CASE Native /\ UNCHANGED <<host, shim>>
  <2>1. call' = call
    BY <1>1, <1>9, NativeMoves
  <2>2. p'.pc = "ended" \/ GoesOn(p, p')
    BY <1>1, <1>9, NativeGoesOn
  <2> QED
    BY <2>1, <2>2 DEF Working
<1> QED
  BY <1>2, <1>3, <1>4, <1>5, <1>6, <1>7, <1>8, <1>9 DEF Next

LEMMA RequestedStays ==
  ASSUME Running, Requested(p), [Next]_vars PROVE Requested(p')
<1>1. CASE p' = p
  BY <1>1
<1>2. CASE p'.pc \notin Working
  BY <1>2 DEF Requested
<1>3. CASE GoesOn(p, p')
  BY <1>3, RequestedOn
<1> QED
  BY <1>1, <1>2, <1>3, StepsOfCall

LEMMA RequestedAtFirst ==
  ASSUME Init PROVE Requested(p)
<1>1. p = [Process("linux", call.args, call.env) EXCEPT !.pc = "begin"]
  BY DEF Init
<1>2. p.pc = "begin"
  BY <1>1, FirstIs
<1> QED
  BY <1>2 DEF Requested, Working

-----------------------------------------------------------------------------
(* The mappings of run *)

(* The process does what was typed, or what was typed in Windows terms.     *)
LEMMA SameAsked ==
  ASSUME NEW c \in Calls, Parse(c.args).ok, NEW w, w = c.args \/ w = Handed(c)
  PROVE  \E vs : SameCommand(c.args, w, vs)
<1>1. CASE w = c.args
  <2> DEFINE q == Parse(c.args)
  <2>1. OptsAlike(q.opts, q.opts, <<>>)
    <3>1. \A a : SameTexts(a, a)
      BY DEF SameTexts
    <3> QED
      BY <3>1 DEF OptsAlike
  <2>2. SameTexts(q.pos, q.pos)
    BY DEF SameTexts
  <2>3. Parse(w) = q
    BY <1>1
  <2>4. SameCommand(c.args, w, <<>>)
    BY <2>1, <2>2, <2>3 DEF SameCommand
  <2> QED
    BY <2>4
<1>2. CASE w = Handed(c)
  BY <1>2, HandedAsMeant DEF HandedIs
<1> QED
  BY <1>1, <1>2

LEMMA OptsAreTyped ==
  ASSUME NEW c \in Calls, Parse(c.args).ok
  PROVE  \E V : \A o \in DOMAIN Parse(c.args).opts : Parse(c.args).opts[o] \in Seq(V)
<1> DEFINE r == Reading(c.args)
           S == Range(c.args)
<1>1. Complete(r) /\ Parse(c.args).opts = r.opts
  BY ParsedIs
<1>2. c.args \in Seq(S) /\ \A t \in S : IsToken(t)
  BY CallIs
<1>3. ~IsBad(r)
  BY <1>1 DEF Complete, IsBad
<1>4. Typed(r, S)
  BY <1>2, <1>3, Reads
<1> QED
  BY <1>1, <1>4 DEF Typed

LEMMA RunsAlone ==
  ASSUME Running, Requested(p), p.pc \in {"collect", "resolve", "start", "wait", "ssh-add"}
  PROVE  Alone(call, p, shim)
<1>1. InPhase(call, p, shim) /\ call \in Calls
  BY DEF Running
<1>2. ~Looking(call, p, shim)
  BY DEF Looking
<1>3. ~Fetching(call, p, shim)
  <2> SUFFICES ASSUME Fetching(call, p, shim) PROVE FALSE
    OBVIOUS
  <2>1. FetchIsHarmless(Parse(p.args))
    BY <1>1, HandedAsMeant DEF HandedIs, Fetching
  <2>2. Parse(p.args).ok
    BY DEF Requested, Working
  <2>3. Parse(p.args).cmd \in {"run", "ssh add", "ssh remove"}
    BY DEF Requested, Working, SshNames
  <2> QED
    BY <2>1, <2>2, <2>3 DEF FetchIsHarmless
<1> QED
  BY <1>1, <1>2, <1>3 DEF InPhase

(* The mappings that were found in the command line, once each, and then    *)
(* what their variables hold.                                               *)
Mapped(all, r) ==
  /\ r.pc = "resolve" =>
       \E M : all \in Seq(M) /\ r.specs \in Seq(M) /\ LastWins(all, r.specs)
  /\ r.pc = "start" => Shown(all, r.vals)

LEMMA CollectMaps ==
  ASSUME Running, Requested(p), Asked.ok, Collecting(p, p')
  PROVE  Mapped(MappingsIn(Asked.opts), p')
<1> DEFINE ropts == Asked.opts
           qopts == p.req.opts
           specs == SpecsOf(qopts)
           w == p.args
<1>1. call \in Calls /\ p.pc = "collect"
  BY DEF Running, Collecting
<1>2. Alone(call, p, shim)
  BY <1>1, RunsAlone
<1>3. w = call.args \/ w = Handed(call)
  BY <1>2 DEF Alone, AsCalled
<1>4. p.req = Parse(w)
  BY <1>1 DEF Requested, Working
<1>5. PICK vs : SameCommand(call.args, w, vs)
  BY <1>1, <1>3, SameAsked DEF Asked
<1>6. OptsAlike(ropts, qopts, vs)
  BY <1>4, <1>5 DEF SameCommand, Asked
<1>7. PICK V : \A o \in DOMAIN ropts : ropts[o] \in Seq(V)
  BY <1>1, OptsAreTyped DEF Asked
<1>8. ReadableIn(qopts) /\ BadMapping \notin Range(specs) /\ p'.specs = Deduped(specs)
  BY DEF Collecting
<1> HIDE DEF ropts, qopts
<1>9. specs = MappingsIn(ropts) /\ \E M : specs \in Seq(M)
  BY <1>6, <1>7, <1>8, SpecsAreGiven
<1> HIDE DEF specs
<1>10. PICK M : specs \in Seq(M)
  BY <1>9
<1>11. LastWins(specs, Deduped(specs)) /\ Deduped(specs) \in Seq(M)
  BY <1>10, LastOnesWin
<1>12. p'.pc = "resolve"
  BY DEF Collecting
<1> QED
  BY <1>8, <1>9, <1>10, <1>11, <1>12 DEF Mapped, ropts

LEMMA ResolveMaps ==
  ASSUME NEW all, NEW r, NEW e, Mapped(all, r), Resolving(r, e)
  PROVE  Mapped(all, e)
<1>1. r.pc = "resolve" /\ e.pc = "start" /\ Faulty(r.specs) = {} /\ e.vals = ValsOf(r.specs)
  BY DEF Resolving
<1>2. PICK M : all \in Seq(M) /\ r.specs \in Seq(M) /\ LastWins(all, r.specs)
  BY <1>1 DEF Mapped
<1>3. Shown(all, ValsOf(r.specs))
  BY <1>1, <1>2, ValsAreShown
<1> QED
  BY <1>1, <1>3 DEF Mapped

LEMMA MappedStays ==
  ASSUME Running, Requested(p), Asked.ok, Mapped(MappingsIn(Asked.opts), p), [Next]_vars
  PROVE  Mapped(MappingsIn(Asked.opts), p')
<1> DEFINE all == MappingsIn(Asked.opts)
<1>1. CASE p' = p
  BY <1>1
<1>2. CASE p'.pc \notin Working
  BY <1>2 DEF Mapped, Working
<1>3. CASE GoesOn(p, p')
  <2>1. CASE Collecting(p, p')
    BY <2>1, CollectMaps
  <2>2. CASE Resolving(p, p')
    <3> HIDE DEF all
    <3>1. Mapped(all, p) => Mapped(all, p')
      BY <2>2, ResolveMaps
    <3> QED
      BY <3>1 DEF all
  <2>3. CASE Parsing(p, p') \/ Starting(p, p') \/ Loading(p, p')
    <3>1. p'.pc \notin {"resolve", "start"}
      BY <2>3 DEF Parsing, Starting, Loading
    <3> QED
      BY <3>1 DEF Mapped
  <2> QED
    BY <1>3, <2>1, <2>2, <2>3 DEF GoesOn
<1> QED
  BY <1>1, <1>2, <1>3, StepsOfCall

-----------------------------------------------------------------------------
(* What the programs see that wcm starts *)

(* Nothing is started twice, nor by a process that is not the last.         *)
Untouched(r, s, k) == k # <<>> => s.pc = "none" /\ r.pc \in {"wait", "ended"}

KidShows(all, asked, k) ==
  /\ k.prog = "ssh-add" => k.vars = <<>>
  /\ k.prog # "ssh-add" /\ asked.ok => Shown(all, k.vars)

AllShow(all, asked, ks) ==
  \/ ks = <<>>
  \/ \E k : ks = <<k>> /\ KidShows(all, asked, k)

LEMMA NoneIsScrubbed ==
  ASSUME NEW env, env.secrets \subseteq SecretVars, NEW vals
  PROVE  /\ DOMAIN KidVars(env, vals) = DOMAIN vals
         /\ \A v \in DOMAIN vals : KidVars(env, vals)[v] = vals[v]
         /\ KidVars(env, vals) = [v \in DOMAIN KidVars(env, vals) |-> KidVars(env, vals)[v]]
<1>1. Scrubbed(env) = {}
  BY DEF Scrubbed
<1> QED
  BY <1>1 DEF KidVars

LEMMA OneIsStarted ==
  ASSUME kids = <<>>, NEW prog, NEW env, NEW vals, Start(prog, env, vals)
  PROVE  kids' = <<[prog |-> prog, vars |-> KidVars(env, vals)]>>
<1> DEFINE k == [prog |-> prog, vars |-> KidVars(env, vals)]
<1>1. kids' = Append(<<>>, k)
  BY DEF Start
<1> HIDE DEF k
<1>2. Append(<<>>, k) = <<k>>
  OBVIOUS
<1> QED
  BY <1>1, <1>2 DEF k

LEMMA SshAddShows ==
  ASSUME kids = <<>>, NEW env, env.secrets \subseteq SecretVars, Start("ssh-add", env, <<>>),
         NEW all, NEW asked
  PROVE  AllShow(all, asked, kids')
<1> DEFINE none == <<>>
           seen == KidVars(env, none)
           k == [prog |-> "ssh-add", vars |-> seen]
<1>1. kids' = <<k>>
  BY OneIsStarted
<1>2. DOMAIN none = {}
  BY NoDomain
<1> HIDE DEF none
<1>3. DOMAIN seen = {} /\ seen = [v \in DOMAIN seen |-> seen[v]]
  BY <1>2, NoneIsScrubbed
<1> HIDE DEF seen
<1>4. seen = <<>>
  BY <1>3, EmptyFunction
<1>5. KidShows(all, asked, k)
  BY <1>4 DEF KidShows
<1> QED
  BY <1>1, <1>5 DEF AllShow

LEMMA CommandShows ==
  ASSUME kids = <<>>, NEW env, env.secrets \subseteq SecretVars, NEW vals,
         Start("command", env, vals), NEW all, NEW asked, asked.ok => Shown(all, vals)
  PROVE  AllShow(all, asked, kids')
<1> DEFINE seen == KidVars(env, vals)
           k == [prog |-> "command", vars |-> seen]
<1>1. kids' = <<k>>
  BY OneIsStarted
<1>2. DOMAIN seen = DOMAIN vals /\ \A v \in DOMAIN vals : seen[v] = vals[v]
  BY NoneIsScrubbed
<1> HIDE DEF seen
<1>3. Shown(all, vals) => Shown(all, seen)
  <2> SUFFICES ASSUME Shown(all, vals) PROVE Shown(all, seen)
    OBVIOUS
  <2>1. \A j \in DOMAIN all : all[j].var \in DOMAIN vals
    BY DEF Shown
  <2> QED
    BY <1>2, <2>1 DEF Shown
<1>4. KidShows(all, asked, k)
  BY <1>3 DEF KidShows
<1> QED
  BY <1>1, <1>4 DEF AllShow

LEMMA OwnSecrets ==
  ASSUME Running
  PROVE  /\ Alone(call, p, shim) => p.env.secrets \subseteq SecretVars
         /\ call.env.secrets \subseteq SecretVars
<1>1. call \in Calls
  BY DEF Running
<1>2. call.env.secrets \subseteq SecretVars
  BY <1>1, CallIs
<1> QED
  BY <1>2 DEF Alone, AsCalled, Passed

LEMMA KidsShow ==
  ASSUME Running, Requested(p), Asked.ok => Mapped(MappingsIn(Asked.opts), p),
         Untouched(p, shim, kids), StartCommand \/ SshAdd \/ Pipe, kids' # kids
  PROVE  AllShow(MappingsIn(Asked.opts), Asked, kids')
<1> DEFINE all == MappingsIn(Asked.opts)
<1>1. CASE StartCommand
  <2>1. p.pc = "start" /\ Start("command", p.env, p.vals)
    BY <1>1 DEF StartCommand, At
  <2>2. Alone(call, p, shim) /\ kids = <<>>
    BY <2>1, RunsAlone DEF Untouched
  <2>3. p.env.secrets \subseteq SecretVars
    BY <2>2, OwnSecrets
  <2>4. Asked.ok => Shown(all, p.vals)
    BY <2>1 DEF Mapped
  <2> DEFINE asked == Asked
  <2> HIDE DEF all, asked
  <2>5. asked.ok => Shown(all, p.vals)
    BY <2>4 DEF asked
  <2>6. AllShow(all, asked, kids')
    BY <2>1, <2>2, <2>3, <2>5, CommandShows
  <2> QED
    BY <2>6 DEF all, asked
<1>2. CASE SshAdd
  <2>1. p.pc = "ssh-add" /\ Start("ssh-add", p.env, <<>>)
    BY <1>2 DEF SshAdd
  <2>2. Alone(call, p, shim) /\ kids = <<>>
    BY <2>1, RunsAlone DEF Untouched
  <2>3. p.env.secrets \subseteq SecretVars
    BY <2>2, OwnSecrets
  <2> HIDE DEF all
  <2>4. AllShow(all, Asked, kids')
    BY <2>1, <2>2, <2>3, SshAddShows
  <2> QED
    BY <2>4 DEF all
<1>3. CASE Pipe
  <2>1. shim.pc = "ssh-add" /\ Start("ssh-add", call.env, <<>>)
    BY <1>3 DEF Pipe
  <2>2. kids = <<>> /\ call.env.secrets \subseteq SecretVars
    BY <2>1, OwnSecrets DEF Untouched
  <2> HIDE DEF all
  <2>3. AllShow(all, Asked, kids')
    BY <2>1, <2>2, SshAddShows
  <2> QED
    BY <2>3, SMTT(30) DEF all
<1> QED
  BY <1>1, <1>2, <1>3

LEMMA WhoStarts ==
  ASSUME [Next]_vars
  PROVE  \/ kids' = kids
         \/ (StartCommand \/ SshAdd) /\ shim' = shim
         \/ Pipe
<1>1. ASSUME Native PROVE kids' = kids \/ StartCommand \/ SshAdd
  BY <1>1 DEF Native, Main, Other, UnlockFails, Collect, Resolve, UnlockFailsForRun, CommandEnds,
              LoadKey
<1> QED
  BY <1>1 DEF Next, vars, Enter, Locate, Preflight, HandOver, Interrupted, Fetched

LEMMA LastStays ==
  ASSUME Running, [Next]_vars, shim.pc = "none", p.pc \in {"wait", "ended"}
  PROVE  (p' = p \/ p'.pc = "ended") /\ shim' = shim
<1>1. DOMAIN p = ProcessFields
  BY DEF Running, Shaped
<1>2. CASE Native /\ UNCHANGED <<host, shim>>
  <2>1. CommandEnds
    BY <1>2 DEF Native, Main, Other, UnlockFails, Collect, Resolve, UnlockFailsForRun,
                StartCommand, LoadKey, SshAdd, At
  <2> QED
    BY <1>1, <1>2, <2>1, EndedEnds DEF CommandEnds, Become
<1>3. ~Enter /\ ~Locate /\ ~Preflight /\ ~HandOver /\ ~Interrupted /\ ~Fetched /\ ~Pipe
  BY DEF Enter, Locate, Preflight, HandOver, Interrupted, Fetched, Pipe
<1> QED
  BY <1>2, <1>3 DEF Next, vars

LEMMA UntouchedStays ==
  ASSUME Running, Requested(p), Untouched(p, shim, kids), [Next]_vars
  PROVE  Untouched(p', shim', kids')
<1>1. CASE kids' = kids
  <2> SUFFICES ASSUME kids # <<>> PROVE Untouched(p', shim', kids)
    BY <1>1 DEF Untouched
  <2>1. shim.pc = "none" /\ p.pc \in {"wait", "ended"}
    BY DEF Untouched
  <2> QED
    BY <2>1, LastStays DEF Untouched
<1>2. CASE (StartCommand \/ SshAdd) /\ shim' = shim
  <2>1. p.pc \in {"start", "ssh-add"} /\ DOMAIN p = ProcessFields /\ Shaped(p)
    BY <1>2 DEF StartCommand, SshAdd, At, Running, Shaped
  <2>2. Alone(call, p, shim)
    BY <2>1, RunsAlone
  <2>3. p'.pc \in {"wait", "ended"}
    <3>1. CASE StartCommand
      <4>1. p' = [p EXCEPT !.pc = "wait"] \/ p' = Ended(p, 11)
        BY <3>1 DEF StartCommand, Become
      <4>2. [p EXCEPT !.pc = "wait"].pc = "wait" /\ Ended(p, 11).pc = "ended"
        BY <2>1, EndedEnds, PcIs
      <4> QED
        BY <4>1, <4>2
    <3>2. CASE SshAdd
      <4>1. \E code \in {0, 11} \cup LateFaults : p' = Ended(p, code)
        BY <3>2 DEF SshAdd, Become
      <4> QED
        BY <2>1, <4>1, EndedEnds
    <3> QED
      BY <1>2, <3>1, <3>2
  <2> QED
    BY <1>2, <2>2, <2>3 DEF Untouched, Alone
<1>3. CASE Pipe
  <2>1. \E code \in {0, 11, 134} : ShimEnds(code)
    BY <1>3 DEF Pipe, PipeFailed
  <2>2. {0, 11, 134} \subseteq Codes
    BY DEF Codes
  <2>3. p'.pc = "ended" /\ shim'.pc = "none"
    BY <2>1, <2>2, ShimEndsAlone
  <2> QED
    BY <2>3 DEF Untouched
<1> QED
  BY <1>1, <1>2, <1>3, WhoStarts

(* The process of a call, what it is at, and what has been started for it.  *)
Serving ==
  /\ Requested(p)
  /\ Asked.ok => Mapped(MappingsIn(Asked.opts), p)
  /\ Untouched(p, shim, kids)
  /\ AllShow(MappingsIn(Asked.opts), Asked, kids)

LEMMA ServingAtFirst ==
  ASSUME Init PROVE Serving
<1>1. p = [Process("linux", call.args, call.env) EXCEPT !.pc = "begin"] /\ kids = <<>>
  BY DEF Init
<1>2. p.pc = "begin"
  BY <1>1, FirstIs
<1>3. Requested(p)
  BY RequestedAtFirst
<1> QED
  BY <1>1, <1>2, <1>3 DEF Serving, Mapped, Untouched, AllShow

LEMMA ServingStays ==
  ASSUME Running, Serving, [Next]_vars PROVE Serving'
<1> DEFINE all == MappingsIn(Asked.opts)
<1>1. /\ Requested(p) /\ Untouched(p, shim, kids)
      /\ Asked.ok => Mapped(all, p)
      /\ AllShow(all, Asked, kids)
  BY DEF Serving
<1>2. call' = call
  BY StepsOfCall
<1>3. Requested(p') /\ Untouched(p', shim', kids')
  BY <1>1, RequestedStays, UntouchedStays
<1>4. Asked.ok => Mapped(all, p')
  BY <1>1, MappedStays
<1>5. AllShow(all, Asked, kids')
  <2>1. CASE kids' = kids
    BY <1>1, <2>1
  <2>2. CASE kids' # kids
    BY <1>1, <2>2, WhoStarts, KidsShow
  <2> QED
    BY <2>1, <2>2
<1>6. Asked' = Asked
  BY <1>2 DEF Asked
<1> HIDE DEF all
<1>7. MappingsIn(Asked.opts)' = all
  BY <1>6 DEF all, MappingsIn, FileGiven, LineGiven, GivenTo
<1> QED
  BY <1>3, <1>4, <1>5, <1>6, <1>7 DEF Serving

LEMMA ServingShows ==
  ASSUME Serving PROVE StartedSeeWhatWasAsked
<1>1. MappingsOf(Asked) = MappingsIn(Asked.opts)
  BY DEF MappingsOf, MappingsIn, FileGiven, LineGiven, GivenTo
<1> DEFINE all == MappingsOf(Asked)
<1>2. AllShow(all, Asked, kids)
  BY <1>1 DEF Serving
<1> HIDE DEF all
<1>3. CASE kids = <<>>
  BY <1>3, NoDomain DEF StartedSeeWhatWasAsked
<1>4. CASE kids # <<>>
  <2>1. PICK k : kids = <<k>> /\ KidShows(all, Asked, k)
    BY <1>2, <1>4 DEF AllShow
  <2>2. Len(kids) = 1 /\ DOMAIN kids = {1} /\ kids[1] = k
    BY <2>1
  <2>3. \A i \in DOMAIN kids : kids[i] = k
    BY <2>2
  <2>4. k.prog = "ssh-add" => k.vars = <<>>
    BY <2>1 DEF KidShows
  <2>5. ASSUME k.prog # "ssh-add", Asked.ok
        PROVE  LET last(j) == \A m \in DOMAIN all : all[m].var = all[j].var => m <= j
               IN  /\ DOMAIN k.vars = {all[j].var : j \in DOMAIN all}
                   /\ \A j \in DOMAIN all :
                        last(j) => /\ k.vars[all[j].var] = SpecValue(all[j])
                                   /\ all[j].kind = "secret" => RefFault(all[j].value) = 0
    BY <2>1, <2>5 DEF KidShows, Shown, IsLast
  <2> QED
    BY <2>2, <2>3, <2>4, <2>5 DEF StartedSeeWhatWasAsked, all
<1> QED
  BY <1>3, <1>4

(* The second half of the inductive invariant.                              *)
THEOREM ServesOn == Spec => []Serving
<1>1. Init => Serving
  BY ServingAtFirst
<1>2. Running /\ Serving /\ [Next]_vars => Serving'
  BY ServingStays
<1> QED
  BY <1>1, <1>2, RunsOn, PTL DEF Spec

(* Whatever is typed and whatever the vault holds: `run` starts its command *)
(* once at most, which sees the value of the last mapping of every variable *)
(* and none of wcm's passphrases; ssh-add sees nothing of either.           *)
THEOREM CommandsSeeWhatWasAsked == Spec => []StartedSeeWhatWasAsked
<1>1. Serving => StartedSeeWhatWasAsked
  BY ServingShows
<1> QED
  BY <1>1, ServesOn, PTL

-----------------------------------------------------------------------------
(* What the code of ssh add and ssh remove tells *)

(* A command on a key, documented, is not run on Windows.                   *)
LEMMA SshStays ==
  ASSUME NEW c \in Calls, NEW r, NEW s, Alone(c, r, s), Documented(c.args),
         \/ Parse(c.args).ok /\ Parse(c.args).cmd \in {"ssh add", "ssh remove"}
         \/ Parse(r.args).ok /\ Parse(r.args).cmd \in {"ssh add", "ssh remove"}
  PROVE  AsCalled(c, r)
<1> SUFFICES ASSUME r.args = Handed(c), Recognised(c) = NoAction PROVE FALSE
  BY DEF Alone
<1>1. HandedIs(c)
  BY HandedAsMeant
<1>2. KeysAreFetched(Handed(c), Recognised(c))
  BY <1>1 DEF HandedIs
<1>3. Parse(c.args).ok => SameCommand(c.args, Handed(c), Ahead(c.args, c.env.vault))
  BY <1>1 DEF HandedIs
<1>4. Parse(Handed(c)).ok /\ Parse(Handed(c)).cmd \in {"ssh add", "ssh remove"}
  BY <1>3 DEF SameCommand
<1> QED
  BY <1>2, <1>4 DEF KeysAreFetched

(* The steps that end a process with 0.                                     *)
LEMMA ZeroEnds ==
  ASSUME Shaped(p), Native, p'.code = 0, p'.pc = "ended"
  PROVE  p.pc \in {"other", "wait"} \/ (p.pc = "load" /\ p.req.cmd = "ssh pubkey") \/ SshAdd
<1>0. DOMAIN p = ProcessFields
  BY DEF Shaped
<1>1. \A code : p' = Ended(p, code) => code = 0
  <2> SUFFICES ASSUME NEW code, p' = Ended(p, code) PROVE code = 0
    OBVIOUS
  <2>1. Ended(p, code).code = code
    BY <1>0, EndedEnds
  <2> QED
    BY <2>1
<1>2. CASE Main
  <2>1. CASE ~Parse(p.args).ok
    BY <1>1, <1>2, <2>1 DEF Main, Become
  <2>2. CASE Parse(p.args).ok
    <3> DEFINE r == Parse(p.args)
               pc == CASE r.cmd = "run" -> "collect"
                       [] r.cmd \in {"ssh add", "ssh remove", "ssh pubkey"} -> "load"
                       [] OTHER -> "other"
               m == [p EXCEPT !.req = r]
               e == [m EXCEPT !.pc = pc]
    <3>1. p' = e
      BY <1>2, <2>2 DEF Main, Become
    <3>2. pc # "ended"
      OBVIOUS
    <3> HIDE DEF pc, r
    <3>3. e.pc = pc
      BY <1>0, ReqIs
    <3> HIDE DEF e
    <3> QED
      BY <3>1, <3>2, <3>3
  <2> QED
    BY <2>1, <2>2
<1>3. ASSUME NEW pc, UnlockFails(pc) PROVE FALSE
  BY <1>1, <1>3 DEF UnlockFails, Become
<1>4. CASE Collect
  <2>1. p.pc = "collect"
    BY <1>4 DEF Collect, At
  <2>2. p' = Ended(p, 10) \/ p' = Ended(p, 2) \/ p' = [p EXCEPT !.specs = Deduped(Specs), !.pc = "resolve"]
    BY <1>4 DEF Collect, Become
  <2>3. p' = [p EXCEPT !.specs = Deduped(Specs), !.pc = "resolve"]
    BY <1>1, <2>2
  <2> DEFINE d == Deduped(Specs)
             m == [p EXCEPT !.specs = d]
             e == [m EXCEPT !.pc = "resolve"]
  <2>4. p' = e
    BY <2>3
  <2> HIDE DEF d
  <2>5. e.pc = "resolve"
    BY <1>0, SpecsIs
  <2> HIDE DEF e
  <2> QED
    BY <2>4, <2>5
<1>5. CASE Resolve
  <2>1. CASE Faulty(p.specs) = {}
    <3> DEFINE v == ValsOf(p.specs)
               m == [p EXCEPT !.pc = "start"]
               e == [m EXCEPT !.vals = v]
    <3>1. p' = e
      BY <1>5, <2>1 DEF Resolve, Become, ValsOf
    <3> HIDE DEF v
    <3>2. e.pc = "start"
      BY <1>0, ValsIs
    <3> HIDE DEF e
    <3> QED
      BY <3>1, <3>2
  <2>2. CASE Faulty(p.specs) # {}
    <3>1. PICK i \in Faulty(p.specs) : p' = Ended(p, Fault(p.specs[i]))
      BY <1>5, <2>2 DEF Resolve, Become
    <3>2. Fault(p.specs[i]) # 0
      BY DEF Faulty
    <3> QED
      BY <1>1, <3>1, <3>2
  <2> QED
    BY <2>1, <2>2
<1>6. CASE StartCommand
  <2>1. p' = [p EXCEPT !.pc = "wait"] \/ p' = Ended(p, 11)
    BY <1>6 DEF StartCommand, Become
  <2>2. [p EXCEPT !.pc = "wait"].pc = "wait"
    BY <1>0, PcIs
  <2>3. p' # Ended(p, 11)
    BY <1>1
  <2>4. p'.pc = "wait"
    BY <2>1, <2>2, <2>3
  <2> QED
    BY <2>4
<1>7. CASE LoadKey
  <2>1. p.pc = "load"
    BY <1>7 DEF LoadKey
  <2>2. CASE KeyFault(p.req.cmd) # 0
    <3>1. p' = Ended(p, KeyFault(p.req.cmd))
      BY <1>7, <2>2 DEF LoadKey, Become
    <3> QED
      BY <1>1, <2>2, <3>1
  <2>3. CASE KeyFault(p.req.cmd) = 0 /\ p.req.cmd # "ssh pubkey"
    <3>1. p' = [p EXCEPT !.pc = "ssh-add"]
      BY <1>7, <2>3 DEF LoadKey, Become
    <3>2. p'.pc = "ssh-add"
      BY <1>0, <3>1, PcIs
    <3> QED
      BY <3>2
  <2> QED
    BY <2>1, <2>2, <2>3
<1>8. CASE Other \/ CommandEnds
  BY <1>8 DEF Other, CommandEnds
<1>9. ~UnlockFails("other") /\ ~UnlockFailsForRun /\ ~UnlockFails("load")
  BY <1>3 DEF UnlockFailsForRun
<1>10. \/ Main \/ Collect \/ Resolve \/ StartCommand \/ LoadKey \/ SshAdd
       \/ Other \/ CommandEnds
  BY <1>9 DEF Native
<1> QED
  BY <1>2, <1>4, <1>5, <1>6, <1>7, <1>8, <1>10

LEMMA HandOverEnds ==
  ASSUME Running, HandOver, p'.pc = "ended" PROVE p'.code # 0
<1>1. InPhase(call, p, shim) /\ shim.pc = "hand over" /\ call \in Calls
  BY DEF Running, HandOver
<1>2. AsCalled(call, p)
  BY <1>1 DEF InPhase, Alone, Fetching, Looking
<1>3. CASE ShimEnds(126)
  <2>1. p'.code = 126
    BY <1>3, ShimEndsAlone DEF Codes
  <2> QED
    BY <2>1
<1>4. ASSUME NEW args, p' = Child(args) PROVE p'.pc # "ended"
  <2>1. Started(call, Child(args), args)
    BY <1>1, <1>2, ChildIs
  <2> QED
    BY <1>4, <2>1 DEF Started
<1> QED
  BY <1>3, <1>4 DEF HandOver, CannotRun, Become

(* No ssh-agent has changed before the end, none on Windows at all, and the *)
(* code at the end tells whether that of the WSL has.                       *)
LateCodes == {10, 11, 134}

Told ==
  /\ ~Over => (agent["linux"] <=> call.held)
  /\ Documented(call.args) => ~agent["windows"]
  /\ Documented(call.args) /\ Over /\ IsSsh =>
       /\ p.code = 0 => (agent["linux"] <=> Asked.cmd = "ssh add")
       /\ p.code # 0 =>
            \/ agent["linux"] <=> call.held
            \/ (agent["linux"] <=> Asked.cmd = "ssh add") /\ kids # <<>> /\ p.code \in LateCodes

LEMMA ToldAtFirst ==
  ASSUME Init PROVE Told
<1>1. p = [Process("linux", call.args, call.env) EXCEPT !.pc = "begin"]
  BY DEF Init
<1>2. p.pc = "begin"
  BY <1>1, FirstIs
<1>3. call.held \in BOOLEAN
  BY DEF Init
<1>4. agent = [s \in Sides |-> s = "linux" /\ call.held]
  BY DEF Init
<1>5. agent["linux"] = ("linux" = "linux" /\ call.held) /\ agent["windows"] = ("windows" = "linux" /\ call.held)
  BY <1>4 DEF Sides
<1>6. (agent["linux"] <=> call.held) /\ ~agent["windows"]
  BY <1>3, <1>5
<1> QED
  BY <1>2, <1>6 DEF Told, Over

(* Without ssh-add no command on a key succeeds.                            *)
LEMMA NothingDone ==
  ASSUME Running, Requested(p), Documented(call.args), IsSsh, ~Over, [Next]_vars, ~SshAdd, ~Pipe,
         p'.pc = "ended", shim'.pc = "none"
  PROVE  p'.code # 0
<1>1. /\ Shaped(p) /\ DOMAIN p = ProcessFields /\ InPhase(call, p, shim) /\ call \in Calls
      /\ InPhase(call', p', shim')
  <2>1. Running'
    BY RunningStays
  <2> QED
    BY <2>1 DEF Running, Shaped
<1>2. CASE UNCHANGED vars
  BY <1>2 DEF vars, Over
<1>3. CASE Enter
  <2>1. p' = [p EXCEPT !.pc = "shim"] \/ p' = [p EXCEPT !.pc = "main"]
    BY <1>3 DEF Enter, Become
  <2>2. [p EXCEPT !.pc = "shim"].pc = "shim" /\ [p EXCEPT !.pc = "main"].pc = "main"
    BY <1>1, PcIs
  <2> QED
    BY <2>1, <2>2
<1>4. ASSUME NEW code \in Codes \ {0}, ShimEnds(code) PROVE p'.code # 0
  BY <1>4, ShimEndsAlone
<1>5. CASE Locate \/ Preflight
  <2>1. p.pc = "shim"
    BY <1>1, <1>5 DEF InPhase, Alone, Looking, Fetching, Locate, Preflight
  <2>2. p' = p \/ ShimEnds(126) \/ ShimEnds(127)
    BY <1>5 DEF Locate, Preflight
  <2>3. 126 \in Codes \ {0} /\ 127 \in Codes \ {0}
    BY DEF Codes
  <2> QED
    BY <1>4, <2>1, <2>2, <2>3
<1>6. CASE HandOver
  BY <1>6, HandOverEnds
<1>7. CASE Interrupted
  BY <1>7 DEF Interrupted
<1>8. CASE Fetched
  <2>1. FetchCode # 0 => FetchCode \in Codes \ {0}
    BY <1>1 DEF FetchCode, Shaped, Codes
  <2>2. CASE FetchCode # 0
    BY <1>4, <1>8, <2>1, <2>2 DEF Fetched
  <2>3. CASE FetchCode = 0
    <3>1. shim' = [shim EXCEPT !.pc = "ssh-add"]
      BY <1>8, <2>3 DEF Fetched
    <3>2. DOMAIN shim = ShimFields
      BY <1>1 DEF InPhase
    <3>3. shim'.pc = "ssh-add"
      BY <3>1, <3>2, ShimGoesOn
    <3> QED
      BY <3>3
  <2> QED
    BY <2>2, <2>3
<1>9. CASE Native /\ UNCHANGED <<host, shim>>
  <2> SUFFICES ASSUME p'.code = 0 PROVE FALSE
    OBVIOUS
  <2>1. p.pc \in {"other", "wait"} \/ (p.pc = "load" /\ p.req.cmd = "ssh pubkey")
    BY <1>1, <1>9, ZeroEnds
  <2>2. Alone(call, p, shim)
    BY <1>1, <1>9 DEF InPhase, Looking, Fetching
  <2>3. p.args = call.args
    BY <1>1, <2>2, SshStays DEF IsSsh, Asked, AsCalled
  <2>4. p.req = Asked /\ Asked.cmd \in {"ssh add", "ssh remove"} /\ Asked.cmd \in SshNames
    BY <2>1, <2>3 DEF Requested, Working, Asked, IsSsh, SshNames
  <2>5. p.pc = "load"
    BY <2>1, <2>3, <2>4 DEF Requested, Working, Asked
  <2> QED
    BY <2>1, <2>4, <2>5
<1> QED
  BY <1>2, <1>3, <1>5, <1>6, <1>7, <1>8, <1>9 DEF Next

(* What the end of ssh-add tells, of the WSL's wcm or of the shim.          *)
Tells ==
  /\ agent'["windows"] <=> agent["windows"]
  /\ p'.code = 0 /\ IsSsh => (agent'["linux"] <=> Asked.cmd = "ssh add")
  /\ p'.code # 0 =>
       \/ agent' = agent
       \/ /\ IsSsh => (agent'["linux"] <=> Asked.cmd = "ssh add")
          /\ kids' # <<>> /\ p'.code \in LateCodes

LEMMA SomeIsStarted ==
  ASSUME kids = <<>>, NEW prog, NEW env, NEW vals, Start(prog, env, vals)
  PROVE  kids' # <<>>
<1> DEFINE k == [prog |-> prog, vars |-> KidVars(env, vals)]
<1>1. kids' = <<k>>
  BY OneIsStarted
<1> HIDE DEF k
<1>2. <<k>> # <<>>
  OBVIOUS
<1> QED
  BY <1>1, <1>2

LEMMA SshAddTells ==
  ASSUME Running, Requested(p), Untouched(p, shim, kids), agent \in Agents, SshAdd,
         Documented(call.args)
  PROVE  Tells
<1>1. p.pc = "ssh-add" /\ DOMAIN p = ProcessFields /\ call \in Calls
  BY DEF SshAdd, Running, Shaped
<1>2. Alone(call, p, shim) /\ kids = <<>>
  BY <1>1, RunsAlone DEF Untouched
<1>3. /\ p.req = Parse(p.args) /\ Parse(p.args).ok /\ Parse(p.args).cmd \in {"ssh add", "ssh remove"}
  BY <1>1 DEF Requested, Working, SshNames
<1>4. AsCalled(call, p)
  BY <1>1, <1>2, <1>3, SshStays
<1>5. p.side = "linux" /\ p.req = Asked
  BY <1>3, <1>4 DEF AsCalled, Asked
<1> DEFINE op == IF p.req.cmd = "ssh add" THEN "add" ELSE "remove"
<1>6. op = "add" <=> Asked.cmd = "ssh add"
  BY <1>5
<1>7. \/ p' = Ended(p, 11) /\ agent' = agent
      \/ /\ Start("ssh-add", p.env, <<>>)
         /\ Changed(op, p.side)
         /\ \E code \in {0} \cup LateFaults : p' = Ended(p, code)
  BY DEF SshAdd, Become
<1> HIDE DEF op
<1>8. CASE p' = Ended(p, 11) /\ agent' = agent
  <2>1. Ended(p, 11).code = 11
    BY <1>1, EndedEnds
  <2>2. p'.code = 11
    BY <1>8, <2>1
  <2>3. p'.code # 0
    BY <2>2
  <2> QED
    BY <1>8, <2>3, Zenon DEF Tells
<1>9. ASSUME Start("ssh-add", p.env, <<>>), Changed(op, p.side),
             NEW code \in {0} \cup LateFaults, p' = Ended(p, code)
      PROVE  Tells
  <2>1. p'.code = code
    BY <1>1, <1>9, EndedEnds
  <2>2. Changed(op, "linux") /\ "linux" \in Sides /\ "windows" \in Sides /\ "linux" # "windows"
    BY <1>5, <1>9 DEF Sides
  <2>3. (agent'["linux"] <=> op = "add") /\ (agent'["windows"] <=> agent["windows"])
    BY <2>2, AgentIsChanged
  <2>4. kids' # <<>>
    BY <1>2, <1>9, SomeIsStarted
  <2>5. code # 0 => code \in LateCodes
    BY DEF LateFaults, LateCodes
  <2> QED
    BY <1>6, <2>1, <2>3, <2>4, <2>5 DEF Tells
<1> QED
  BY <1>7, <1>8, <1>9

LEMMA PipeTells ==
  ASSUME Running, Untouched(p, shim, kids), agent \in Agents, Pipe, Documented(call.args)
  PROVE  Tells
<1>1. shim.pc = "ssh-add" /\ call \in Calls /\ InPhase(call, p, shim) /\ kids = <<>>
  BY DEF Pipe, Running, Untouched
<1>2. Fetching(call, p, shim)
  BY <1>1 DEF InPhase, Alone, Looking
<1> DEFINE op == shim.act.op
<1>3. IsSsh => (op = "add" <=> Asked.cmd = "ssh add")
  <2> SUFFICES ASSUME IsSsh PROVE op = "add" <=> Asked.cmd = "ssh add"
    OBVIOUS
  <2> DEFINE a == Recognised(call)
             meant == Meant(call.args, call.env.vault)
  <2>1. a # NoAction /\ shim.act = a /\ Asked.ok
    BY <1>2 DEF Fetching, IsSsh
  <2>2. HandedIs(call)
    BY <1>1, HandedAsMeant
  <2>3. KeyKept(call.args, a, meant, Parse(ExeArgs(a)))
    BY <2>1, <2>2 DEF HandedIs, Asked
  <2>4. Parse(Handed(call)) = meant /\ SameCommand(call.args, Handed(call), Ahead(call.args, call.env.vault))
    BY <2>1, <2>2 DEF HandedIs, Asked
  <2>5. meant.cmd = Asked.cmd
    BY <2>4 DEF SameCommand, Asked
  <2> HIDE DEF a, meant
  <2>6. meant.cmd = SshCommand[a.op] /\ a.op \in {"add", "remove"}
    BY <2>3 DEF KeyKept, KeyAsked
  <2>7. SshCommand["add"] = "ssh add" /\ SshCommand["remove"] = "ssh remove"
    BY DEF SshCommand
  <2> QED
    BY <2>1, <2>5, <2>6, <2>7
<1>4. \/ ShimEnds(11) /\ agent' = agent
      \/ /\ Start("ssh-add", call.env, <<>>)
         /\ Changed(op, "linux")
         /\ \E code \in {0, 134} : ShimEnds(code)
  BY DEF Pipe, PipeFailed
<1> HIDE DEF op
<1>5. CASE ShimEnds(11) /\ agent' = agent
  <2>1. p'.code = 11
    BY <1>5, ShimEndsAlone DEF Codes
  <2>2. p'.code # 0
    BY <2>1
  <2> QED
    BY <1>5, <2>2, Zenon DEF Tells
<1>6. ASSUME Start("ssh-add", call.env, <<>>), Changed(op, "linux"),
             NEW code \in {0, 134}, ShimEnds(code)
      PROVE  Tells
  <2>1. code \in Codes
    BY DEF Codes
  <2>2. p'.code = code
    BY <1>6, <2>1, ShimEndsAlone
  <2>3. "linux" \in Sides /\ "windows" \in Sides /\ "linux" # "windows"
    BY DEF Sides
  <2>4. (agent'["linux"] <=> op = "add") /\ (agent'["windows"] <=> agent["windows"])
    BY <1>6, <2>3, AgentIsChanged
  <2>5. kids' # <<>>
    BY <1>1, <1>6, SomeIsStarted
  <2>6. code # 0 => code \in LateCodes
    BY DEF LateCodes
  <2> QED
    BY <1>3, <2>2, <2>4, <2>5, <2>6 DEF Tells
<1> QED
  BY <1>4, <1>5, <1>6

LEMMA WhoTells ==
  ASSUME [Next]_vars
  PROVE  agent' = agent \/ SshAdd \/ Pipe
  BY OnlySshAddChanges DEF Next, Enter, Locate, Preflight, HandOver, Interrupted, Fetched, vars

LEMMA OverStays ==
  ASSUME Over, [Next]_vars
  PROVE  UNCHANGED vars
<1>1. p.pc = "ended" /\ shim.pc = "none"
  BY DEF Over
<1>2. ~Enter /\ ~Locate /\ ~Preflight /\ ~HandOver /\ ~Interrupted /\ ~Fetched /\ ~Pipe
  BY <1>1 DEF Enter, Locate, Preflight, HandOver, Interrupted, Fetched, Pipe
<1>3. ~Native
  BY <1>1 DEF Native, Main, Other, UnlockFails, Collect, Resolve, UnlockFailsForRun, CommandEnds,
              StartCommand, LoadKey, SshAdd, At
<1> QED
  BY <1>2, <1>3 DEF Next

LEMMA SshAddEnds ==
  ASSUME Running, Requested(p), [Next]_vars, SshAdd \/ Pipe
  PROVE  Over'
<1>1. CASE SshAdd
  <2>1. p.pc = "ssh-add" /\ DOMAIN p = ProcessFields
    BY <1>1 DEF SshAdd, Running, Shaped
  <2>2. Alone(call, p, shim)
    BY <2>1, RunsAlone
  <2>3. \E code \in {0, 11} \cup LateFaults : p' = Ended(p, code)
    BY <1>1 DEF SshAdd, Become
  <2>4. p'.pc = "ended"
    BY <2>1, <2>3, EndedEnds
  <2>5. shim' = shim
    BY <2>1, <2>2, <2>4 DEF Next, vars, Enter, Locate, Preflight, HandOver, Interrupted, Fetched, Pipe,
                            Alone
  <2> QED
    BY <2>2, <2>4, <2>5 DEF Over, Alone
<1>2. CASE Pipe
  <2>1. \E code \in {0, 11, 134} : ShimEnds(code)
    BY <1>2 DEF Pipe, PipeFailed
  <2>2. {0, 11, 134} \subseteq Codes
    BY DEF Codes
  <2> QED
    BY <2>1, <2>2, ShimEndsAlone DEF Over
<1> QED
  BY <1>1, <1>2

LEMMA ToldStays ==
  ASSUME Running, Requested(p), Untouched(p, shim, kids), agent \in Agents, Told, [Next]_vars
  PROVE  Told'
<1>1. call' = call
  BY StepsOfCall
<1>2. CASE Over
  BY <1>2, OverStays DEF vars, Told, Over, IsSsh, Asked
<1>3. CASE ~Over
  <2>1. agent["linux"] <=> call.held
    BY <1>3 DEF Told
  <2>2. Documented(call.args) => ~agent["windows"]
    BY DEF Told
  <2>3. CASE SshAdd \/ Pipe
    <3>1. Over'
      BY <2>3, SshAddEnds
    <3>2. Documented(call.args) => Tells
      BY <2>3, SshAddTells, PipeTells
    <3>3. Documented(call.args) =>
            /\ ~agent'["windows"]
            /\ IsSsh =>
                 /\ p'.code = 0 => (agent'["linux"] <=> Asked.cmd = "ssh add")
                 /\ p'.code # 0 =>
                      \/ agent'["linux"] <=> call.held
                      \/ (agent'["linux"] <=> Asked.cmd = "ssh add") /\ kids' # <<>>
                         /\ p'.code \in LateCodes
      BY <2>1, <2>2, <3>2 DEF Tells
    <3> QED
      BY <1>1, <3>1, <3>3 DEF Told, IsSsh, Asked
  <2>4. CASE ~SshAdd /\ ~Pipe
    <3>1. agent' = agent
      BY <2>4, WhoTells
    <3>2. Over' => p'.pc = "ended" /\ shim'.pc = "none"
      BY DEF Over
    <3>3. Documented(call.args) /\ IsSsh /\ Over' => p'.code # 0
      BY <1>3, <2>4, <3>2, NothingDone
    <3> QED
      BY <1>1, <2>1, <2>2, <3>1, <3>3 DEF Told, IsSsh, Asked
  <2> QED
    BY <2>3, <2>4
<1> QED
  BY <1>2, <1>3

LEMMA ToldIsTrue ==
  ASSUME Running, agent \in Agents, Told PROVE SshExitIsTrue
<1>1. call.held \in BOOLEAN
  BY DEF Running, Calls
<1>2. agent["linux"] \in BOOLEAN
  BY DEF Agents, Sides
<1>3. AsAsked <=> (agent["linux"] <=> Asked.cmd = "ssh add")
  <2> DEFINE added == (Asked.cmd = "ssh add")
  <2>1. added \in BOOLEAN
    OBVIOUS
  <2> HIDE DEF added
  <2>2. agent["linux"] = added <=> (agent["linux"] <=> added)
    BY <1>2, <2>1
  <2> QED
    BY <2>2 DEF added, AsAsked
<1>4. AsBefore <=> (agent["linux"] <=> call.held)
  BY <1>1, <1>2 DEF AsBefore
<1> QED
  BY <1>3, <1>4 DEF SshExitIsTrue, Told, KeysStayInWsl, LateCodes

(* Whatever is typed in a WSL, in a documented spelling, and however its    *)
(* steps fail: no key reaches the ssh-agent of Windows, and `ssh add` and   *)
(* `ssh remove` end with 0 only if that of the WSL then holds, or no longer *)
(* holds, the key. Else it is as it was, or ssh-add did its work and only   *)
(* the report after it failed.                                              *)
THEOREM ExitTellsTheAgent == Spec => []SshExitIsTrue
<1>1. Init => Told
  BY ToldAtFirst
<1> DEFINE Base == Running /\ agent \in Agents
<1>2. Base /\ Serving /\ Told /\ [Next]_vars => Told'
  BY ToldStays DEF Serving
<1>3. Base /\ Told => SshExitIsTrue
  BY ToldIsTrue
<1>4. Spec => []Base
  BY RunsOn
<1> HIDE DEF Base
<1> QED
  BY <1>1, <1>2, <1>3, <1>4, ServesOn, PTL DEF Spec
=============================================================================
