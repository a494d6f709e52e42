-------------------------- MODULE SessionTraceProofs --------------------------
(***************************************************************************)
(* Theorems about what a trace of Session writes: which calls are counted  *)
(* and shown, in which order, with which arguments and which errors, for   *)
(* every command line, machine and target.                                 *)
(***************************************************************************)
EXTENDS SessionProofs, RenderingProofs, FiniteSetTheorems

-----------------------------------------------------------------------------
\* A filter that is not refused lets through what Selected says: a name is in
\* one category, the last that lists it, and no category has the name of a
\* function.
LEMMA FilterSelects ==
    ASSUME NEW symbol, filter = ParseFilter(cmd.filter), filter # BadFilter
    PROVE  Traced(symbol) <=> Selected(symbol)
  <1> DEFINE n == Stripped(symbol)
             e == cmd.filter
  <1>1. n = Name(symbol.stem, 0) /\ n.stem = symbol.stem
    BY DEF Stripped, Name
  <1>2. n \in KnownNames <=> \E c \in Categories : n \in NamesOf[c]
    BY TableAssumption
  <1>3. ASSUME n \in KnownNames
        PROVE  /\ symbol.stem \in ArmedStems
               /\ GetCategory(n) = Section(n) /\ Section(n) \in Categories
               /\ \A c \in Categories : n # Name(c, 0)
    BY <1>1, <1>3, TableAssumption
  <1>4. \A c, d : Name(c, 0) = Name(d, 0) => c = d
    BY DEF Name
  <1>5. \A x, y : {x} = {y} => x = y
    OBVIOUS
  <1> DEFINE Wanted == \/ e = NoExpression
                       \/ n \in e.words
                       \/ e.words = {Name(Section(n), 0)}
  <1>6. Selected(symbol) <=> n \in KnownNames /\ Wanted
    BY <1>1, <1>2 DEF Selected
  <1>7. Traced(symbol) <=> n \in KnownNames /\ ShouldTrace(filter, n)
    BY <1>3 DEF Traced
  <1>8. ASSUME n \in KnownNames
        PROVE  ShouldTrace(filter, n) <=> Wanted
    <2>1. CASE e = NoExpression
      BY <2>1 DEF ParseFilter, NoFilter, ShouldTrace
    <2>2. CASE e # NoExpression /\ \E c \in Categories : e.words = {Name(c, 0)}
      <3>1. e.prefixed
        BY <2>2 DEF ParseFilter
      <3> DEFINE c == CHOOSE c \in Categories : e.words = {Name(c, 0)}
      <3>2. c \in Categories /\ e.words = {Name(c, 0)}
        BY <2>2
      <3>3. filter = ByCategory(c)
        BY <2>2, <3>1 DEF ParseFilter
      <3> HIDE DEF c
      <3>4. ShouldTrace(filter, n) <=> Section(n) = c
        BY <1>3, <1>8, <3>3 DEF ShouldTrace, ByCategory
      <3>5. n \notin e.words
        BY <1>3, <1>8, <3>2
      <3>6. e.words = {Name(Section(n), 0)} <=> Section(n) = c
        BY <1>4, <1>5, <3>2
      <3> QED
        BY <2>2, <3>4, <3>5, <3>6
    <2>3. CASE e # NoExpression /\ ~\E c \in Categories : e.words = {Name(c, 0)}
      <3>1. filter = ByNames(e.words)
        BY <2>3 DEF ParseFilter
      <3>2. ShouldTrace(filter, n) <=> n \in e.words
        BY <3>1 DEF ShouldTrace, ByNames
      <3>3. e.words # {Name(Section(n), 0)}
        BY <1>3, <1>8, <2>3
      <3> QED
        BY <2>3, <3>2, <3>3
    <2> QED
      BY <2>1, <2>2, <2>3
  <1> QED
    BY <1>6, <1>7, <1>8

-----------------------------------------------------------------------------
\* What is decoded.

\* No argument has a name that its class cannot show, and under --no-abbrev none
\* has one, nor names inside unless its parameter keeps them; the text of a
\* buffer is that of the bytes in memory.
ArgSound(keeps, r, data, a) ==
    /\ a.symbol \in {"none", "name", "hex", "inside"}
    /\ a.symbol = "name" => a.class \in Named
    /\ a.symbol = "inside" => a.class \notin Named \cup {"SkipArg"}
    /\ r => a.symbol # "name"
    /\ r /\ a.symbol = "inside" => keeps
    /\ a.class = "BufferArg" => a.text = QuoteString(data, MaxDisplay)

LEMMA DecodedSound ==
    ASSUME NEW p, NEW null, NEW memory, NEW r, NEW keeps, Showable(p), p.inner = "always" => keeps
    PROVE  ArgSound(keeps, r, memory.data, Decoded(p, null, memory, r, MaxDisplay))
  <1> DEFINE text == QuoteString(memory.data, MaxDisplay)
             a    == Decoded(p, null, memory, r, MaxDisplay)
  <1>1. \A c, s : Arg(c, s).class = c /\ Arg(c, s).symbol = s
    BY DEF Arg
  <1>2. BufferText(memory.data, MaxDisplay).symbol = "none"
        /\ BufferText(memory.data, MaxDisplay).text = text
    BY DEF BufferText, Arg
  <1> HIDE DEF text
  <1>3. CASE p.label # "memory"
    <2>1. a = Arg(p.arg, Symbol(p, r))
      BY <1>3 DEF Decoded
    <2>2. Symbol(p, r) \in {"none", "name", "hex"}
      BY DEF Symbol
    <2>3. Symbol(p, r) = "name" => p.arg \in Named /\ ~r
      BY DEF Symbol, Showable
    <2>4. p.arg # "BufferArg"
      BY <1>3 DEF Showable
    <2> QED
      BY <1>1, <2>1, <2>2, <2>3, <2>4 DEF ArgSound
  <1>4. CASE p.label = "memory"
    <2>1. a \in {Arg(p.null, "none"), Arg(p.other, "none"), BufferText(memory.data, MaxDisplay)}
          \/ (a = Arg(p.arg, Inside(p, r)) /\ p.arg # "BufferArg")
      BY <1>4 DEF Decoded
    <2>2. p.null # "BufferArg" /\ p.other # "BufferArg"
      BY DEF Showable
    <2>3. a.class = "BufferArg" => a.text = text
      BY <1>1, <1>2, <2>1, <2>2
    <2>4. Inside(p, r) \in {"none", "inside"}
      BY DEF Inside
    <2>5. Inside(p, r) = "inside" => p.arg \notin Named \cup {"SkipArg"}
      BY DEF Inside, Showable, Named
    <2>6. r /\ Inside(p, r) = "inside" => keeps
      BY DEF Inside
    <2>7. a.symbol = "none" \/ (a.symbol = Inside(p, r) /\ a.class = p.arg)
      BY <1>1, <1>2, <2>1
    <2> QED
      BY <2>3, <2>4, <2>5, <2>6, <2>7 DEF ArgSound, text
  <1> QED
    BY <1>3, <1>4

LEMMA EntrySoundly ==
    ASSUME NEW p, NEW null, NEW memory, NEW r, NEW keeps, Showable(p), p.inner = "always" => keeps
    PROVE  ArgSound(keeps, r, memory.data, AtEntry(p, null, memory, r, MaxDisplay))
  BY DecodedSound DEF AtEntry

LEMMA ExitSoundly ==
    ASSUME NEW p, NEW a, NEW null, NEW memory, NEW r, NEW keeps, Showable(p),
           p.inner = "always" => keeps, ArgSound(keeps, r, memory.data, a)
    PROVE  ArgSound(keeps, r, memory.data, AtExit(p, a, null, memory, r, MaxDisplay))
  BY DecodedSound DEF AtExit

\* Whether an argument can be read does not change what memory holds.
LEMMA MemoryData == ASSUME NEW c, NEW raw, NEW i PROVE MemoryAt(c, raw, i).data = c.memory.data
  BY DEF MemoryAt

\* The parameters that decode a call are those of its definition, but for the
\* one that varies, what they show a name with can show it, and one that keeps
\* names is among the alternatives of the definition.
ParamsSound(d, ps) ==
    /\ DOMAIN ps = DOMAIN d.params
    /\ \A i \in DOMAIN ps : /\ Showable(ps[i])
                            /\ ps[i].inner = "always" => KeepsNames(d, i)
                            /\ d.params[i].label # "variant" => ps[i] = d.params[i]

LEMMA ResolvedSound ==
    ASSUME NEW n \in KnownNames, NEW c, c.variant \in {"skip", "variant", "default"},
           NEW raw, NEW ps \in Resolved(LookupByName(n), c, raw)
    PROVE  ParamsSound(LookupByName(n), ps)
  <1> DEFINE d == LookupByName(n)
             varying == {i \in DOMAIN d.params : d.params[i].label = "variant"}
  <1>1. \A i \in DOMAIN d.params :
            /\ Showable(d.params[i])
            /\ d.params[i].label = "variant" =>
                  Showable(d.params[i].default) /\ \A q \in d.params[i].params : Showable(q)
    BY TableAssumption
  <1>0. \A i \in DOMAIN d.params : d.params[i].inner = "always" => KeepsNames(d, i)
    <2> SUFFICES ASSUME NEW i \in DOMAIN d.params, d.params[i].inner = "always"
                 PROVE  KeepsNames(d, i)
      OBVIOUS
    <2>1. d.params[i].label = "memory"
      BY <1>1 DEF Showable
    <2>2. d.params[i] \in Alternatives(d.params[i])
      BY <2>1 DEF Alternatives
    <2> QED
      BY <2>2 DEF KeepsNames
  <1>2. CASE varying = {}
    <2>1. ps = d.params
      BY <1>2 DEF Resolved
    <2> QED
      BY <1>0, <1>1, <2>1 DEF ParamsSound
  <1>3. CASE varying # {}
    <2> DEFINE i == CHOOSE i \in varying : TRUE
    <2>1. i \in DOMAIN d.params /\ d.params[i].label = "variant"
      BY <1>3
    <2>2. PICK q \in Variants(d.params[i], c, raw) : ps = [d.params EXCEPT ![i] = q]
      BY <1>3 DEF Resolved
    <2> HIDE DEF i, d
    <2>3. Showable(Register("SkipArg", "plain")) /\ Register("SkipArg", "plain").inner = "none"
      BY DEF Showable, Register
    <2>4. q \in {Register("SkipArg", "plain")} \cup {d.params[i].default} \cup d.params[i].params
      BY DEF Variants
    <2>5. Showable(q)
      BY <1>1, <2>1, <2>3, <2>4
    <2>6. DOMAIN ps = DOMAIN d.params
          /\ \A k \in DOMAIN d.params : ps[k] = IF k = i THEN q ELSE d.params[k]
      BY <2>2
    <2>7. q.inner = "always" => KeepsNames(d, i)
      <3>1. q.inner = "always" => q \in Alternatives(d.params[i])
        BY <2>1, <2>3, <2>4 DEF Alternatives
      <3> QED
        BY <3>1 DEF KeepsNames
    <2>8. ParamsSound(d, ps)
      BY <1>0, <1>1, <2>1, <2>5, <2>6, <2>7 DEF ParamsSound
    <2> QED
      BY <2>8 DEF d
  <1> QED
    BY <1>2, <1>3

\* What a return value says of the call that returned v.
RetSound(r, read, v, ret) ==
    /\ IsError(ret) => v < 0
    /\ r /\ read => (IsError(ret) <=> v < 0)
    /\ r => ret.symbol # "name"

LEMMA ReturnSound ==
    ASSUME NEW v \in Int, NEW worded, NEW r, NEW read, NEW ret \in ReturnValues(v, worded, r)
    PROVE  RetSound(r, read, v, ret)
  <1>1. \A s : Text(v, s).kind = "text" /\ Text(v, s).symbol = s
    BY DEF Text
  <1>2. Number(v).kind = "int" /\ Number(v).symbol = "none" /\ Number(v).value = v
    BY DEF Number
  <1>3. CASE v >= 0 /\ worded
    <2>1. ret \in {Number(v), Text(v, IF r THEN "hex" ELSE "name")}
      BY <1>3 DEF ReturnValues
    <2>2. ~IsError(ret)
      BY <1>1, <1>2, <1>3, <2>1 DEF IsError
    <2>3. r => ret.symbol # "name"
      BY <1>1, <1>2, <2>1
    <2>4. ~(v < 0)
      BY <1>3
    <2> QED
      BY <2>2, <2>3, <2>4 DEF RetSound
  <1>4. CASE ~(v >= 0 /\ worded) /\ v = -1 /\ ~r
    <2>1. ret = Text(v, "name")
      BY <1>4 DEF ReturnValues
    <2>2. ~IsError(ret)
      BY <1>1, <2>1 DEF IsError
    <2> QED
      BY <1>4, <2>2 DEF RetSound
  <1>5. CASE ~(v >= 0 /\ worded) /\ ~(v = -1 /\ ~r)
    <2>1. ret = Number(v)
      BY <1>5 DEF ReturnValues
    <2>2. IsError(ret) <=> v < 0
      BY <1>2, <2>1 DEF IsError
    <2> QED
      BY <1>2, <2>1, <2>2 DEF RetSound
  <1> QED
    BY <1>3, <1>4, <1>5

\* A return value that could not be read.
LEMMA NoValueSound ==
    ASSUME NEW v, NEW r, NEW read, ~read
    PROVE  RetSound(r, read, v, NoValue)
  BY DEF RetSound, NoValue, IsError

-----------------------------------------------------------------------------
\* What is counted, of a job of which the first p calls are over.

\* Selected, MadeOf and Failures, for any number of calls: those of the job.
Chosen(j, symbol) ==
    LET name == Name(symbol.stem, 0)
    IN /\ \E c \in Categories : name \in NamesOf[c]
       /\ \/ j.cmd.filter = NoExpression
          \/ name \in j.cmd.filter.words
          \/ j.cmd.filter.words = {Name(Section(name), 0)}
CallsOf(j, n)   == {i \in Nat : Chosen(j, j.calls[i].symbol) /\ Stripped(j.calls[i].symbol) = n}
FailingOf(j, n) == {i \in CallsOf(j, n) : j.calls[i].result < 0}
Upto(p, S)      == (1..p) \cap S

LEMMA MadeOfIs ==
    ASSUME past \in Nat
    PROVE  \A n : MadeOf(n) = Upto(past, CallsOf(job, n))
                  /\ Failures(n) = Upto(past, FailingOf(job, n))
  <1>1. \A symbol : Selected(symbol) <=> Chosen(job, symbol)
    BY DEF Selected, Chosen, cmd
  <1>2. \A i \in 1..past : i \in Nat
    OBVIOUS
  <1>3. \A n : MadeOf(n) = Upto(past, CallsOf(job, n))
    BY <1>1, <1>2 DEF MadeOf, CallsOf, Upto
  <1>4. \A n : Failures(n) = Upto(past, FailingOf(job, n))
    BY <1>3 DEF Failures, FailingOf, Upto
  <1> QED
    BY <1>3, <1>4

\* One more call.
LEMMA OneMore ==
    ASSUME NEW p \in Nat, NEW S
    PROVE  /\ IsFiniteSet(Upto(p, S)) /\ Cardinality(Upto(p, S)) \in Nat
           /\ Cardinality(Upto(p + 1, S)) =
                 Cardinality(Upto(p, S)) + IF p + 1 \in S THEN 1 ELSE 0
  <1>1. IsFiniteSet(1..p)
    BY FS_Interval
  <1>2. IsFiniteSet(Upto(p, S))
    BY <1>1, FS_Subset DEF Upto
  <1>3. Cardinality(Upto(p, S)) \in Nat
    BY <1>2, FS_CardinalityType
  <1>4. CASE p + 1 \in S
    <2>1. Upto(p + 1, S) = Upto(p, S) \cup {p + 1}
      BY <1>4 DEF Upto
    <2>2. p + 1 \notin Upto(p, S)
      BY DEF Upto
    <2> QED
      BY <1>2, <1>3, <1>4, <2>1, <2>2, FS_AddElement
  <1>5. CASE p + 1 \notin S
    <2>1. Upto(p + 1, S) = Upto(p, S)
      BY <1>5 DEF Upto
    <2> QED
      BY <1>2, <1>3, <1>5, <2>1
  <1> QED
    BY <1>2, <1>3, <1>4, <1>5

\* The statistics st count the first p calls of j; read says whether returns
\* are seen at all.
Counted(j, read, p, st) ==
    /\ \A n : n \in DOMAIN st <=> Upto(p, CallsOf(j, n)) # {}
    /\ \A n \in DOMAIN st :
          /\ st[n].count = Cardinality(Upto(p, CallsOf(j, n)))
          /\ st[n].errors \in Nat
          /\ st[n].errors <= Cardinality(Upto(p, FailingOf(j, n)))
          /\ j.cmd.raw /\ read => st[n].errors = Cardinality(Upto(p, FailingOf(j, n)))

\* The lines ls show them, in their order.
Listed(j, p, ls) ==
    /\ \A k \in DOMAIN ls : ls[k].call \in 1..p /\ \E n : ls[k].call \in CallsOf(j, n)
    /\ \A n : \A i \in 1..p : i \in CallsOf(j, n) => \E k \in DOMAIN ls : ls[k].call = i
    /\ \A k, l \in DOMAIN ls : k < l => ls[k].call < ls[l].call

\* A call that is none of the tracer's is not counted.
LEMMA PassedOver ==
    ASSUME NEW j, NEW read, NEW p \in Nat, NEW st, NEW ls, \A n : p + 1 \notin CallsOf(j, n)
    PROVE  /\ Counted(j, read, p, st) => Counted(j, read, p + 1, st)
           /\ Listed(j, p, ls) => Listed(j, p + 1, ls)
  <1>1. \A n : Upto(p + 1, CallsOf(j, n)) = Upto(p, CallsOf(j, n))
    BY DEF Upto
  <1>2. \A n : Upto(p + 1, FailingOf(j, n)) = Upto(p, FailingOf(j, n))
    BY DEF Upto, FailingOf
  <1>3. Counted(j, read, p, st) => Counted(j, read, p + 1, st)
    BY <1>1, <1>2 DEF Counted
  <1>4. \A i \in 1..p + 1 : i \in 1..p \/ i = p + 1
    OBVIOUS
  <1>5. \A i \in 1..p : i \in 1..p + 1
    OBVIOUS
  <1>6. Listed(j, p, ls) => Listed(j, p + 1, ls)
    BY <1>4, <1>5 DEF Listed
  <1> QED
    BY <1>3, <1>6

\* What add_event makes of st: s, with one error more or none.
AddedTo(st, n, one, s) ==
    /\ DOMAIN s = DOMAIN st \cup {n}
    /\ \A m \in DOMAIN st : m # n => s[m] = st[m]
    /\ s[n].count = (IF n \in DOMAIN st THEN st[n].count ELSE 0) + 1
    /\ s[n].errors = (IF n \in DOMAIN st THEN st[n].errors ELSE 0) + one

LEMMA Added ==
    ASSUME NEW st, NEW n, NEW ret
    PROVE  AddedTo(st, n, IF IsError(ret) THEN 1 ELSE 0, AddEvent(st, n, ret))
  <1> DEFINE old == IF n \in DOMAIN st THEN st[n] ELSE [count |-> 0, errors |-> 0]
             one == IF IsError(ret) THEN 1 ELSE 0
             new == [count |-> old.count + 1, errors |-> old.errors + one]
  <1>1. AddEvent(st, n, ret) = [m \in DOMAIN st \cup {n} |-> IF m = n THEN new ELSE st[m]]
    BY DEF AddEvent
  <1>2. /\ new.count = (IF n \in DOMAIN st THEN st[n].count ELSE 0) + 1
        /\ new.errors = (IF n \in DOMAIN st THEN st[n].errors ELSE 0) + one
    OBVIOUS
  <1> HIDE DEF new, one
  <1>3. AddedTo(st, n, one, AddEvent(st, n, ret))
    BY <1>1, <1>2 DEF AddedTo
  <1> QED
    BY <1>3 DEF one

\* A call that is written is counted, under its name, and as an error if it is one.
LEMMA WrittenCounts ==
    ASSUME NEW j, NEW read \in BOOLEAN, NEW p \in Nat, NEW st, NEW n, NEW ret,
           Counted(j, read, p, st),
           p + 1 \in CallsOf(j, n),
           RetSound(j.cmd.raw, read, j.calls[p + 1].result, ret)
    PROVE  Counted(j, read, p + 1, AddEvent(st, n, ret))
  <1> DEFINE s == AddEvent(st, n, ret)
             more(m) == Upto(p + 1, CallsOf(j, m))
             made(m) == Upto(p, CallsOf(j, m))
             fail(m) == Upto(p, FailingOf(j, m))
             failing(m) == Upto(p + 1, FailingOf(j, m))
             one == IF IsError(ret) THEN 1 ELSE 0
  <1>1. \A m : m # n => p + 1 \notin CallsOf(j, m)
    BY DEF CallsOf
  <1>2. \A m : m # n => more(m) = made(m) /\ failing(m) = fail(m)
    BY <1>1 DEF Upto, FailingOf
  <1>3. p + 1 \in more(n)
    BY DEF Upto
  <1>4. /\ Cardinality(made(n)) \in Nat /\ Cardinality(more(n)) = Cardinality(made(n)) + 1
    BY OneMore
  <1>5. p + 1 \in FailingOf(j, n) <=> j.calls[p + 1].result < 0
    BY DEF FailingOf
  <1>6. /\ Cardinality(fail(n)) \in Nat
        /\ Cardinality(failing(n)) =
              Cardinality(fail(n)) + IF j.calls[p + 1].result < 0 THEN 1 ELSE 0
    BY <1>5, OneMore
  <1>7. n \notin DOMAIN st => Cardinality(made(n)) = 0 /\ Cardinality(fail(n)) = 0
    <2>1. fail(n) \subseteq made(n)
      BY DEF Upto, FailingOf
    <2>2. n \notin DOMAIN st => made(n) = {}
      BY DEF Counted
    <2> QED
      BY <2>1, <2>2, FS_EmptySet
  <1>8. n \in DOMAIN st => /\ st[n].count = Cardinality(made(n))
                           /\ st[n].errors \in Nat
                           /\ st[n].errors <= Cardinality(fail(n))
                           /\ j.cmd.raw /\ read => st[n].errors = Cardinality(fail(n))
    BY DEF Counted
  <1>9. /\ DOMAIN s = DOMAIN st \cup {n}
        /\ \A m \in DOMAIN st : m # n => s[m] = st[m]
        /\ s[n].count = (IF n \in DOMAIN st THEN st[n].count ELSE 0) + 1
        /\ s[n].errors = (IF n \in DOMAIN st THEN st[n].errors ELSE 0) + one
    <2>1. AddedTo(st, n, one, s)
      BY Added
    <2> HIDE DEF s, one
    <2> QED
      BY <2>1 DEF AddedTo
  <1>10. /\ one = 1 => j.calls[p + 1].result < 0
         /\ j.cmd.raw /\ read => (one = 1 <=> j.calls[p + 1].result < 0)
         /\ one \in {0, 1}
    BY DEF RetSound
  <1>11. \A m : m \in DOMAIN st <=> made(m) # {}
    BY DEF Counted
  <1>12. \A m \in DOMAIN st : m # n =>
            /\ st[m].count = Cardinality(more(m))
            /\ st[m].errors \in Nat
            /\ st[m].errors <= Cardinality(failing(m))
            /\ j.cmd.raw /\ read => st[m].errors = Cardinality(failing(m))
    BY <1>2 DEF Counted
  <1> HIDE DEF s, more, made, fail, failing, one
  <1>13. \A m : m \in DOMAIN s <=> more(m) # {}
    BY <1>2, <1>3, <1>9, <1>11
  <1>14. s[n].count = Cardinality(more(n))
    BY <1>4, <1>7, <1>8, <1>9
  <1>15. s[n].errors \in Nat /\ s[n].errors <= Cardinality(failing(n))
    <2>1. CASE n \in DOMAIN st
      BY <1>6, <1>8, <1>9, <1>10, <2>1
    <2>2. CASE n \notin DOMAIN st
      BY <1>6, <1>7, <1>9, <1>10, <2>2
    <2> QED
      BY <2>1, <2>2
  <1>16. ASSUME j.cmd.raw, read
         PROVE  s[n].errors = Cardinality(failing(n))
    <2>1. one = IF j.calls[p + 1].result < 0 THEN 1 ELSE 0
      BY <1>10, <1>16
    <2> QED
      BY <1>6, <1>7, <1>8, <1>9, <1>16, <2>1
  <1>17. ASSUME NEW m \in DOMAIN s
         PROVE  /\ s[m].count = Cardinality(more(m))
                /\ s[m].errors \in Nat
                /\ s[m].errors <= Cardinality(failing(m))
                /\ j.cmd.raw /\ read => s[m].errors = Cardinality(failing(m))
    <2>1. CASE m = n
      BY <1>14, <1>15, <1>16, <2>1
    <2>2. CASE m # n
      BY <1>9, <1>12, <2>2
    <2> QED
      BY <2>1, <2>2
  <1> QED
    BY <1>13, <1>17 DEF Counted, s, more, failing

\* A line that is added for the call after the first p is the last one.
LEMMA WrittenListed ==
    ASSUME NEW j, NEW p \in Nat, NEW S, NEW ls \in Seq(S), NEW x, NEW n,
           Listed(j, p, ls), x.call = p + 1, p + 1 \in CallsOf(j, n)
    PROVE  Listed(j, p + 1, Append(ls, x))
  <1> DEFINE s == Append(ls, x)
             l == Len(ls)
  <1>1. ls \in Seq(S \cup {x}) /\ x \in S \cup {x}
    OBVIOUS
  <1>2. l \in Nat /\ DOMAIN ls = 1..l
    BY LenProperties
  <1>3. s \in Seq(S \cup {x}) /\ Len(s) = l + 1
        /\ \A k \in 1..l + 1 : s[k] = IF k <= l THEN ls[k] ELSE x
    BY <1>1, AppendProperties
  <1>4. DOMAIN s = 1..l + 1
    BY <1>3, LenProperties
  <1> HIDE DEF s, l
  <1>5. \A k \in 1..l : s[k] = ls[k]
    BY <1>2, <1>3
  <1>6. s[l + 1] = x
    BY <1>2, <1>3
  <1>7. \A k \in 1..l + 1 : k \in 1..l \/ k = l + 1
    BY <1>2
  <1>8. \A k \in 1..l : ls[k].call \in 1..p /\ \E m : ls[k].call \in CallsOf(j, m)
    BY <1>2 DEF Listed
  <1>9. ASSUME NEW k \in DOMAIN s
        PROVE  s[k].call \in 1..p + 1 /\ \E m : s[k].call \in CallsOf(j, m)
    <2>1. CASE k \in 1..l
      BY <1>5, <1>8, <2>1
    <2>2. CASE k = l + 1
      BY <1>6, <2>2
    <2> QED
      BY <1>4, <1>7, <2>1, <2>2
  <1>10. ASSUME NEW i \in 1..p + 1, NEW m, i \in CallsOf(j, m)
         PROVE  \E k \in DOMAIN s : s[k].call = i
    <2>1. CASE i = p + 1
      BY <1>2, <1>4, <1>6, <2>1
    <2>2. CASE i # p + 1
      <3>1. PICK k \in DOMAIN ls : ls[k].call = i
        BY <1>10, <2>2 DEF Listed
      <3>2. k \in DOMAIN s /\ s[k].call = i
        BY <1>2, <1>4, <1>5, <3>1
      <3> QED
        BY <3>2
    <2> QED
      BY <2>1, <2>2
  <1>11. ASSUME NEW k \in DOMAIN s, NEW m \in DOMAIN s, k < m
         PROVE  s[k].call < s[m].call
    <2>1. k \in 1..l
      BY <1>2, <1>4, <1>11
    <2>2. CASE m \in 1..l
      BY <1>2, <1>5, <1>11, <2>1, <2>2 DEF Listed
    <2>3. CASE m = l + 1
      BY <1>5, <1>6, <1>8, <2>1, <2>3
    <2> QED
      BY <1>4, <1>7, <2>2, <2>3
  <1> QED
    BY <1>9, <1>10, <1>11 DEF Listed, s

-----------------------------------------------------------------------------
\* The invariant of the trace.

\* e is of the call after the first p of j, read on architecture a.
EventOf(j, a, p, e) ==
    LET d == LookupByName(e.name)
        c == j.calls[p + 1]
    IN /\ p < Len(j.calls)
       /\ "args" \in DOMAIN e
       /\ e.call = p + 1
       /\ e.name = Stripped(c.symbol) /\ e.name \in KnownNames /\ Chosen(j, c.symbol)
       /\ e.raw = RawArgs(a, d, j.machine.frame)
       /\ ParamsSound(d, e.params)
       /\ DOMAIN e.args = DOMAIN d.params
       /\ \A i \in DOMAIN e.args : ArgSound(KeepsNames(d, i), j.cmd.raw, c.memory.data, e.args[i])

LineOf(j, l) ==
    /\ l.call \in 1..Len(j.calls)
    /\ \A i \in DOMAIN l.args : ArgSound(KeepsNames(LookupByName(l.name), i), j.cmd.raw,
                                        j.calls[l.call].memory.data, l.args[i])
    /\ \E f \in Formatters : l.named = NamesIn(f, l.args)
    /\ j.cmd.raw => l.ret.symbol # "name"

\* Whether a call is seen to return.
Seen(j, a) == ReturnAddressRead(a, j.machine.frame)

\* Each line is the summary, or that of an event of a function that is counted.
LinesTyped ==
    \A k \in DOMAIN lines : \/ lines[k] = Summary
                            \/ LineOf(job, lines[k]) /\ lines[k].name \in DOMAIN stats

TraceSound ==
    /\ past \in 0..Len(job.calls)
    /\ pc \in {"parse", "create", "start", "setup"} => past = 0
    /\ pc \in {"start", "setup", "loop"} => filter = ParseFilter(cmd.filter) /\ filter # BadFilter
    /\ pending # NoEvent => EventOf(job, arch, past, pending)
    /\ Counted(job, Seen(job, arch), past, stats)
    /\ machine.disk /\ ~cmd.summary => Listed(job, past, lines)
    /\ LinesTyped

TInv == SInv /\ PendingSound /\ PendingNamed /\ LinesSound /\ TraceSound

-----------------------------------------------------------------------------
\* What handling a call may do.

Skips ==
    /\ pending = NoEvent /\ past < Len(job.calls) /\ ~Chosen(job, Here.symbol)
    /\ past' = past + 1
    /\ UNCHANGED <<pending, stats, lines>>

Files == EventOf(job, arch, past, pending') /\ UNCHANGED <<past, stats, lines>>

Drops == pending' \in {pending, NoEvent} /\ UNCHANGED <<past, stats, lines>>

Prints(x) == ~cmd.summary /\ machine.disk /\ lines' = Append(lines, x)

Writes(e, ret) ==
    /\ EventOf(job, arch, past, e)
    /\ RetSound(cmd.raw, Seen(job, arch), Here.result, ret)
    /\ pending' = NoEvent
    /\ past' = past + 1
    /\ stats' = AddEvent(stats, e.name, ret)
    /\ \/ (cmd.summary \/ ~machine.disk) /\ UNCHANGED lines
       \/ \E x : Prints(x) /\ x.call = e.call /\ x.name = e.name /\ LineOf(job, x)

LEMMA FormatterFacts == \A json, tty : Formatter(json, tty) \in Formatters
  BY DEF Formatter, Formatters

\* _write_event, of an event that is sound.
LEMMA WriteEffect ==
    ASSUME NEW e, NEW ret, WriteEvent(e, ret), pending' = NoEvent, past \in Nat,
           EventOf(job, arch, past, e),
           RetSound(cmd.raw, Seen(job, arch), Here.result, ret)
    PROVE  Writes(e, ret)
  <1> DEFINE f == Formatter(cmd.json, machine.tty /\ ~cmd.output)
             x == [name |-> e.name, call |-> e.call, args |-> e.args, ret |-> ret,
                   shown |-> Positions(f, e.args), named |-> NamesIn(f, e.args)]
  <1>1. past' = past + 1 /\ stats' = AddEvent(stats, e.name, ret)
    BY DEF WriteEvent
  <1>2. \/ (cmd.summary \/ ~machine.disk) /\ UNCHANGED lines
        \/ ~cmd.summary /\ machine.disk /\ lines' = Append(lines, x)
    BY DEF WriteEvent
  <1>3. x.call = e.call /\ x.name = e.name /\ x.args = e.args /\ x.ret = ret
        /\ x.named = NamesIn(f, e.args)
    OBVIOUS
  <1>4. f \in Formatters
    BY FormatterFacts
  <1> HIDE DEF x, f
  <1>5. e.call \in 1..Len(job.calls)
        /\ \A i \in DOMAIN e.args :
              ArgSound(KeepsNames(LookupByName(e.name), i), job.cmd.raw,
                       job.calls[e.call].memory.data, e.args[i])
    BY DEF EventOf
  <1>6. job.cmd.raw => ret.symbol # "name"
    BY DEF RetSound, cmd
  <1>7. LineOf(job, x)
    BY <1>3, <1>4, <1>5, <1>6 DEF LineOf
  <1> QED
    BY <1>1, <1>2, <1>3, <1>7 DEF Writes, Prints

\* The call that is being handled.
LEMMA HereFacts ==
    ASSUME SInv, TraceSound, past < Len(job.calls)
    PROVE  /\ past \in Nat /\ past + 1 \in 1..Len(job.calls)
           /\ Here.result \in Int
           /\ Here.variant \in {"skip", "variant", "default"}
  <1>1. job \in Jobs /\ Len(job.calls) \in Nat
    BY SessionAssumption DEF SInv, Typed
  <1>2. past \in Nat /\ past + 1 \in 1..Len(job.calls)
    BY <1>1 DEF TraceSound
  <1> QED
    BY <1>1, <1>2, SessionAssumption DEF Here

LEMMA TracedHere ==
    ASSUME TraceSound, pc = "loop"
    PROVE  Traced(Here.symbol) <=> Chosen(job, Here.symbol)
  <1>1. filter = ParseFilter(cmd.filter) /\ filter # BadFilter
    BY DEF TraceSound
  <1>2. Traced(Here.symbol) <=> Selected(Here.symbol)
    BY <1>1, FilterSelects
  <1> QED
    BY <1>2 DEF Selected, Chosen, cmd

LEMMA PassEffect ==
    ASSUME TInv, Pass
    PROVE  Skips
  <1>1. pc = "loop" /\ ~Traced(Here.symbol)
    BY DEF Pass, Stopped
  <1>2. ~Chosen(job, Here.symbol)
    BY <1>1, TracedHere DEF TInv
  <1> QED
    BY <1>2 DEF Pass, Skips

LEMMA EnterEffect ==
    ASSUME TInv, Enter
    PROVE  Files \/ Drops \/ \E e, ret : Writes(e, ret)
  <1> DEFINE c   == Here
             n   == Stripped(c.symbol)
             d   == LookupByName(n)
             raw == RawArgs(arch, d, machine.frame)
             args(ps) == [i \in DOMAIN ps |->
                AtEntry(ps[i], NullAt(c, raw, i), MemoryAt(c, raw, i), cmd.raw, MaxDisplay)]
             ev(ps) == [name |-> n, call |-> past + 1, raw |-> raw, params |-> ps, args |-> args(ps)]
  <1>1. pc = "loop" /\ pending = NoEvent /\ past < Len(job.calls) /\ Traced(c.symbol)
    BY DEF Enter, Stopped
  <1>2. n \in KnownNames /\ Chosen(job, c.symbol)
    BY <1>1, TracedHere DEF TInv, Traced
  <1>3. past \in Nat /\ c.result \in Int /\ c.variant \in {"skip", "variant", "default"}
    BY <1>1, HereFacts DEF TInv
  <1>4. PICK ps \in Resolved(d, c, raw) :
            IF c.raises = "entry"
            THEN LoopRaise("error") /\ UNCHANGED trace
            ELSE IF ReturnAddressRead(arch, machine.frame)
            THEN /\ pending' = ev(ps)
                 /\ UNCHANGED <<past, stats, lines, pc, code, raised, handler>>
            ELSE WriteEvent(ev(ps), NoValue) /\ UNCHANGED pending
    BY DEF Enter
  <1>5. ParamsSound(d, ps)
    BY <1>2, <1>3, ResolvedSound
  <1>6. /\ DOMAIN args(ps) = DOMAIN ps
        /\ \A i \in DOMAIN ps : ArgSound(KeepsNames(d, i), cmd.raw, c.memory.data, args(ps)[i])
    <2> SUFFICES ASSUME NEW i \in DOMAIN ps
                 PROVE  ArgSound(KeepsNames(d, i), cmd.raw, c.memory.data,
                                 AtEntry(ps[i], NullAt(c, raw, i), MemoryAt(c, raw, i), cmd.raw,
                                         MaxDisplay))
      OBVIOUS
    <2>1. Showable(ps[i]) /\ (ps[i].inner = "always" => KeepsNames(d, i))
      BY <1>5 DEF ParamsSound
    <2> HIDE DEF d, raw, c
    <2> DEFINE keeps == KeepsNames(d, i)
               m     == MemoryAt(c, raw, i)
    <2>2. ps[i].inner = "always" => keeps
      BY <2>1
    <2>3. m.data = c.memory.data
      BY MemoryData
    <2> HIDE DEF keeps, m
    <2>4. ArgSound(keeps, cmd.raw, m.data, AtEntry(ps[i], NullAt(c, raw, i), m, cmd.raw, MaxDisplay))
      BY <2>1, <2>2, EntrySoundly
    <2> QED
      BY <2>3, <2>4 DEF keeps, m
  <1>7. /\ ev(ps).name = n /\ ev(ps).call = past + 1 /\ ev(ps).raw = raw
        /\ ev(ps).params = ps /\ ev(ps).args = args(ps) /\ "args" \in DOMAIN ev(ps)
    OBVIOUS
  <1> HIDE DEF ev, args
  <1>8. EventOf(job, arch, past, ev(ps))
    <2>1. DOMAIN ev(ps).args = DOMAIN d.params
      BY <1>5, <1>6, <1>7 DEF ParamsSound
    <2>2. \A i \in DOMAIN ev(ps).args :
              ArgSound(KeepsNames(d, i), job.cmd.raw, job.calls[past + 1].memory.data, ev(ps).args[i])
      BY <1>6, <1>7 DEF cmd, Here
    <2>3. ev(ps).raw = RawArgs(arch, LookupByName(ev(ps).name), job.machine.frame)
      BY <1>7 DEF machine
    <2> QED
      BY <1>1, <1>2, <1>5, <1>7, <2>1, <2>2, <2>3 DEF EventOf, Here
  <1>9. CASE c.raises = "entry"
    BY <1>4, <1>9 DEF Drops, trace
  <1>10. CASE c.raises # "entry" /\ ReturnAddressRead(arch, machine.frame)
    BY <1>4, <1>8, <1>10 DEF Files
  <1>11. CASE c.raises # "entry" /\ ~ReturnAddressRead(arch, machine.frame)
    <2>1. WriteEvent(ev(ps), NoValue) /\ pending' = NoEvent
      BY <1>1, <1>4, <1>11
    <2>2. RetSound(cmd.raw, Seen(job, arch), Here.result, NoValue)
      BY <1>11, NoValueSound DEF Seen, machine
    <2>3. Writes(ev(ps), NoValue)
      BY <1>3, <1>8, <2>1, <2>2, WriteEffect
    <2> QED
      BY <2>3
  <1> QED
    BY <1>9, <1>10, <1>11

LEMMA LeaveEffect ==
    ASSUME TInv, Leave
    PROVE  Drops \/ \E e, ret : Writes(e, ret)
  <1> DEFINE c == Here
             e == pending
             d == LookupByName(e.name)
             args == [i \in DOMAIN e.params |->
                AtExit(e.params[i], e.args[i], NullAt(c, e.raw, i), MemoryAt(c, e.raw, i),
                       cmd.raw, MaxDisplay)]
             again == [e EXCEPT !.args = args]
  <1>1. EventOf(job, arch, past, e)
    BY DEF Leave, TInv, TraceSound
  <1>2. c.result \in Int /\ past \in Nat
    BY <1>1, HereFacts DEF TInv, EventOf
  <1>3. PICK ret \in IF machine.frame.registers
                     THEN ReturnValues(c.result, d.decoder /\ c.variant = "skip", cmd.raw)
                     ELSE {NoValue} :
            IF ~Succeeded(ret) THEN Complete(e, ret)
            ELSE IF c.raises = "exit"
            THEN pending' = NoEvent /\ LoopRaise("error") /\ UNCHANGED <<past, stats, lines>>
            ELSE Complete(again, ret)
    BY DEF Leave
  <1>4. RetSound(cmd.raw, Seen(job, arch), Here.result, ret)
    <2>1. CASE machine.frame.registers
      BY <1>2, <1>3, <2>1, ReturnSound
    <2>2. CASE ~machine.frame.registers
      <3>1. ret = NoValue /\ ~Seen(job, arch)
        BY <1>3, <2>2 DEF Seen, ReturnAddressRead, machine
      <3> QED
        BY <3>1, NoValueSound
    <2> QED
      BY <2>1, <2>2
  <1>5. ASSUME Complete(e, ret)
        PROVE  Writes(e, ret)
    BY <1>1, <1>2, <1>4, <1>5, WriteEffect DEF Complete
  <1>6. EventOf(job, arch, past, again)
    <2>1. /\ again.args = args /\ "args" \in DOMAIN again
          /\ again.name = e.name /\ again.call = e.call /\ again.raw = e.raw
          /\ again.params = e.params
      BY <1>1 DEF EventOf
    <2>2. ParamsSound(d, e.params) /\ DOMAIN e.args = DOMAIN d.params
          /\ \A i \in DOMAIN e.args :
                ArgSound(KeepsNames(d, i), cmd.raw, c.memory.data, e.args[i])
      BY <1>1 DEF EventOf, cmd, Here
    <2>3. DOMAIN args = DOMAIN d.params
      BY <2>2 DEF ParamsSound
    <2>4. \A i \in DOMAIN args : ArgSound(KeepsNames(d, i), cmd.raw, c.memory.data, args[i])
      <3> SUFFICES ASSUME NEW i \in DOMAIN e.params
                   PROVE  ArgSound(KeepsNames(d, i), cmd.raw, c.memory.data,
                                   AtExit(e.params[i], e.args[i], NullAt(c, e.raw, i),
                                          MemoryAt(c, e.raw, i), cmd.raw, MaxDisplay))
        OBVIOUS
      <3>1. /\ Showable(e.params[i])
            /\ e.params[i].inner = "always" => KeepsNames(d, i)
            /\ ArgSound(KeepsNames(d, i), cmd.raw, c.memory.data, e.args[i])
        BY <2>2 DEF ParamsSound
      <3> HIDE DEF c, d, e
      <3> DEFINE keeps == KeepsNames(d, i)
                 m     == MemoryAt(c, e.raw, i)
      <3>2. m.data = c.memory.data
        BY MemoryData
      <3>3. (e.params[i].inner = "always" => keeps) /\ ArgSound(keeps, cmd.raw, m.data, e.args[i])
        BY <3>1, <3>2
      <3> HIDE DEF keeps, m
      <3>4. ArgSound(keeps, cmd.raw, m.data,
                     AtExit(e.params[i], e.args[i], NullAt(c, e.raw, i), m, cmd.raw, MaxDisplay))
        BY <3>1, <3>3, ExitSoundly
      <3> QED
        BY <3>2, <3>4 DEF keeps, m
    <2> HIDE DEF again, args, e
    <2> QED
      BY <1>1, <2>1, <2>3, <2>4 DEF EventOf, cmd, Here
  <1> HIDE DEF again
  <1>7. ASSUME Complete(again, ret)
        PROVE  Writes(again, ret)
    BY <1>2, <1>4, <1>6, <1>7, WriteEffect DEF Complete
  <1>8. CASE ~Succeeded(ret)
    BY <1>3, <1>5, <1>8
  <1>9. CASE Succeeded(ret) /\ c.raises = "exit"
    BY <1>3, <1>9 DEF Drops
  <1>10. CASE Succeeded(ret) /\ c.raises # "exit"
    BY <1>3, <1>7, <1>10
  <1> QED
    BY <1>8, <1>9, <1>10

-----------------------------------------------------------------------------
\* The invariant is kept.

\* Besides the handlers of a call, only PrintSummary writes; the architecture
\* is found before the first call, and the filter when the tracer is created.
LEMMA OtherSteps ==
    ASSUME SInv, [Next]_vars
    PROVE  \/ Pass \/ Enter \/ Leave
           \/ /\ UNCHANGED <<job, past, pending, stats>>
              /\ UNCHANGED lines \/ (cmd.summary /\ lines' = Append(lines, Summary))
              /\ UNCHANGED arch \/ pc = "setup"
              /\ \/ UNCHANGED filter /\ (pc' \in {"start", "setup", "loop"} =>
                                            pc \in {"start", "setup", "loop"})
                 \/ filter' = ParseFilter(cmd.filter) /\ filter' # BadFilter
                 \/ pc' = "report"
              /\ pc' \in {"parse", "create", "start", "setup"} =>
                    pc \in {"parse", "create", "start", "setup"}
  <1> USE DEF trace, world, Return, Escape
  <1>1. CASE Parse
    BY <1>1 DEF Parse
  <1>2. CASE Create
    BY <1>2 DEF Create
  <1>3. CASE Start
    BY <1>3 DEF Start, OpenOutput
  <1>4. CASE Launch
    BY <1>4, Unwinding DEF Launch, SInv
  <1>5. CASE Attach
    BY <1>5 DEF Attach
  <1>6. CASE TargetEnds
    BY <1>6 DEF TargetEnds
  <1>7. CASE LeaveLoop
    BY <1>7 DEF LeaveLoop, WhereTo
  <1>8. CASE Detach
    BY <1>8 DEF Detach
  <1>9. CASE PrintSummary
    BY <1>9, Unwinding DEF PrintSummary, SInv
  <1>10. CASE Close
    BY <1>10 DEF Close
  <1>11. CASE Report
    BY <1>11 DEF Report
  <1>12. CASE Interrupt
    BY <1>12, Unwinding DEF Interrupt, LoopRaise, SInv
  <1>13. CASE UNCHANGED vars
    BY <1>13 DEF vars
  <1> QED
    BY <1>1, <1>2, <1>3, <1>4, <1>5, <1>6, <1>7, <1>8, <1>9, <1>10, <1>11, <1>12, <1>13
       DEF Next, Work

\* Before the first call, nothing is counted, whatever can be read.
LEMMA NothingCounted ==
    ASSUME NEW j, NEW r, NEW q, NEW st, Counted(j, r, 0, st)
    PROVE  Counted(j, q, 0, st)
  <1>1. \A S : Upto(0, S) = {}
    BY DEF Upto
  <1>2. DOMAIN st = {}
    BY <1>1 DEF Counted
  <1> QED
    BY <1>1, <1>2 DEF Counted

LEMMA OtherKeeps ==
    ASSUME TInv,
           UNCHANGED <<job, past, pending, stats>>,
           UNCHANGED lines \/ (cmd.summary /\ lines' = Append(lines, Summary)),
           UNCHANGED arch \/ pc = "setup",
           \/ UNCHANGED filter /\ (pc' \in {"start", "setup", "loop"} =>
                                      pc \in {"start", "setup", "loop"})
           \/ filter' = ParseFilter(cmd.filter) /\ filter' # BadFilter
           \/ pc' = "report",
           pc' \in {"parse", "create", "start", "setup"} =>
              pc \in {"parse", "create", "start", "setup"}
    PROVE  TraceSound'
  <1>1. /\ TraceSound /\ PendingSound
        /\ cmd' = cmd /\ machine' = machine
    BY DEF TInv, cmd, machine
  <1>2. past' \in 0..Len(job'.calls)
    BY <1>1 DEF TraceSound
  <1>3. pc' \in {"parse", "create", "start", "setup"} => past' = 0
    BY <1>1 DEF TraceSound
  <1>4. pc' \in {"start", "setup", "loop"} => filter' = ParseFilter(cmd'.filter) /\ filter' # BadFilter
    BY <1>1 DEF TraceSound
  <1>5. pending' # NoEvent => EventOf(job', arch', past', pending')
    BY <1>1 DEF TraceSound, PendingSound
  <1>6. Counted(job', Seen(job', arch'), past', stats')
    <2>1. CASE UNCHANGED arch
      BY <1>1, <2>1 DEF TraceSound
    <2>2. CASE pc = "setup"
      BY <1>1, <2>2, NothingCounted DEF TraceSound
    <2> QED
      BY <2>1, <2>2
  <1>7. machine'.disk /\ ~cmd'.summary => Listed(job', past', lines')
    BY <1>1 DEF TraceSound
  <1>8. LinesTyped'
    <2>1. CASE UNCHANGED lines
      BY <1>1, <2>1 DEF TraceSound, LinesTyped
    <2>2. CASE lines' = Append(lines, Summary)
      <3>1. PICK S : lines \in Seq(S)
        BY DEF TInv, LinesSound
      <3>2. \A k \in DOMAIN lines' : lines'[k] = Summary
                                     \/ (k \in DOMAIN lines /\ lines'[k] = lines[k])
        BY <2>2, <3>1, LineAdded
      <3> QED
        BY <1>1, <3>2 DEF TraceSound, LinesTyped
    <2> QED
      BY <2>1, <2>2
  <1> QED
    BY <1>2, <1>3, <1>4, <1>5, <1>6, <1>7, <1>8 DEF TraceSound

\* What the handlers of a call leave alone.
HandlerFrame ==
    /\ pc = "loop" /\ past < Len(job.calls)
    /\ UNCHANGED <<job, filter, arch>>
    /\ pc' \in {"loop", "close"}

LEMMA SkipKeeps ==
    ASSUME TInv, HandlerFrame, Skips
    PROVE  TraceSound'
  <1>1. TraceSound /\ cmd' = cmd /\ machine' = machine
    BY DEF TInv, HandlerFrame, cmd, machine
  <1>2. past \in Nat /\ past + 1 \in 1..Len(job.calls)
    BY HereFacts DEF TInv, HandlerFrame
  <1>3. \A n : past + 1 \notin CallsOf(job, n)
    BY DEF CallsOf, Skips, Here
  <1>4. past' = past + 1 /\ pending' = NoEvent /\ UNCHANGED <<job, arch, filter, stats, lines>>
    BY DEF Skips, HandlerFrame
  <1>5. Counted(job, Seen(job, arch), past + 1, stats)
    BY <1>1, <1>2, <1>3, PassedOver DEF TraceSound
  <1>6. machine.disk /\ ~cmd.summary => Listed(job, past + 1, lines)
    BY <1>1, <1>2, <1>3, PassedOver DEF TraceSound
  <1>7. past + 1 \in 0..Len(job.calls)
    BY <1>2
  <1>8. filter = ParseFilter(cmd.filter) /\ filter # BadFilter
        /\ pc' \in {"loop", "close"}
    BY <1>1 DEF TraceSound, HandlerFrame
  <1>9. LinesTyped
    BY <1>1 DEF TraceSound
  <1> QED
    BY <1>1, <1>4, <1>5, <1>6, <1>7, <1>8, <1>9 DEF TraceSound, LinesTyped

LEMMA FileKeeps ==
    ASSUME TInv, HandlerFrame, Files \/ Drops
    PROVE  TraceSound'
  <1>1. TraceSound /\ cmd' = cmd /\ machine' = machine
    BY DEF TInv, HandlerFrame, cmd, machine
  <1>2. UNCHANGED <<job, filter, arch, past, stats, lines>> /\ pc = "loop" /\ pc' \in {"loop", "close"}
    BY DEF HandlerFrame, Files, Drops
  <1>3. pending' # NoEvent => EventOf(job, arch, past, pending')
    BY <1>1 DEF TraceSound, Files, Drops
  <1> QED
    BY <1>1, <1>2, <1>3 DEF TraceSound, LinesTyped

LEMMA WriteKeeps ==
    ASSUME TInv, HandlerFrame, NEW e, NEW ret, Writes(e, ret)
    PROVE  TraceSound'
  <1>1. TraceSound /\ cmd' = cmd /\ machine' = machine
    BY DEF TInv, HandlerFrame, cmd, machine
  <1>2. past \in Nat /\ past + 1 \in 1..Len(job.calls)
    BY HereFacts DEF TInv, HandlerFrame
  <1>3. /\ past' = past + 1 /\ pending' = NoEvent
        /\ UNCHANGED <<job, arch, filter>>
        /\ stats' = AddEvent(stats, e.name, ret)
        /\ pc = "loop" /\ pc' \in {"loop", "close"}
    BY DEF Writes, HandlerFrame
  <1>4. past + 1 \in CallsOf(job, e.name) /\ e.call = past + 1
    BY <1>2 DEF Writes, EventOf, CallsOf
  <1>5. RetSound(job.cmd.raw, Seen(job, arch), job.calls[past + 1].result, ret)
    BY DEF Writes, cmd, Here
  <1>6. Seen(job, arch) \in BOOLEAN
    BY DEF Seen, ReturnAddressRead
  <1>7. Counted(job, Seen(job, arch), past + 1, stats')
    BY <1>1, <1>2, <1>3, <1>4, <1>5, <1>6, WrittenCounts DEF TraceSound
  <1>8. PICK S : lines \in Seq(S)
    BY DEF TInv, LinesSound
  <1>9. DOMAIN stats' = DOMAIN stats \cup {e.name}
    <2>1. AddedTo(stats, e.name, IF IsError(ret) THEN 1 ELSE 0, stats')
      BY <1>3, Added
    <2> QED
      BY <2>1 DEF AddedTo
  <1>10. LinesTyped
    BY <1>1 DEF TraceSound
  <1>11. CASE (cmd.summary \/ ~machine.disk) /\ UNCHANGED lines
    <2>1. ~(machine.disk /\ ~cmd.summary)
      BY <1>11
    <2>2. LinesTyped'
      BY <1>3, <1>9, <1>10, <1>11 DEF LinesTyped
    <2> QED
      BY <1>1, <1>2, <1>3, <1>7, <2>1, <2>2 DEF TraceSound
  <1>12. ASSUME NEW x, Prints(x), x.call = e.call, x.name = e.name, LineOf(job, x)
         PROVE  TraceSound'
    <2>1. lines' = Append(lines, x)
      BY <1>12 DEF Prints
    <2>2. machine.disk /\ ~cmd.summary => Listed(job, past + 1, lines')
      BY <1>1, <1>2, <1>4, <1>8, <1>12, <2>1, WrittenListed DEF TraceSound
    <2>3. \A k \in DOMAIN lines' : lines'[k] = x \/ (k \in DOMAIN lines /\ lines'[k] = lines[k])
      BY <1>8, <2>1, LineAdded
    <2>4. LinesTyped'
      BY <1>3, <1>9, <1>10, <1>12, <2>3 DEF LinesTyped
    <2> QED
      BY <1>1, <1>2, <1>3, <1>7, <2>2, <2>4 DEF TraceSound
  <1> QED
    BY <1>11, <1>12 DEF Writes

LEMMA TraceNext == TInv /\ [Next]_vars => TraceSound'
  <1> SUFFICES ASSUME TInv, [Next]_vars
               PROVE  TraceSound'
    OBVIOUS
  <1>1. SInv
    BY DEF TInv
  <1>2. ASSUME Pass \/ Enter \/ Leave
        PROVE  HandlerFrame
    <2>1. pc = "loop" /\ UNCHANGED <<job, filter, arch>>
      BY <1>2, HandlingSteps
    <2>2. pc' \in {"loop", "close"}
      BY <1>1, <1>2, <2>1, HandlingSteps, Unwinding DEF LoopRaise, SInv
    <2>3. past < Len(job.calls)
      BY <1>2 DEF Pass, Enter, Leave, TInv, TraceSound, EventOf
    <2> QED
      BY <2>1, <2>2, <2>3 DEF HandlerFrame
  <1>3. CASE Pass
    BY <1>2, <1>3, PassEffect, SkipKeeps
  <1>4. CASE Enter
    BY <1>2, <1>4, EnterEffect, FileKeeps, WriteKeeps
  <1>5. CASE Leave
    BY <1>2, <1>5, LeaveEffect, FileKeeps, WriteKeeps
  <1>6. CASE ~(Pass \/ Enter \/ Leave)
    BY <1>1, <1>6, OtherSteps, OtherKeeps
  <1> QED
    BY <1>3, <1>4, <1>5, <1>6

LEMMA TInvAlways == Spec => []TInv
  <1>1. Init => TInv
    <2> SUFFICES ASSUME Init
                 PROVE  TInv
      OBVIOUS
    <2>1. SInv /\ PendingSound /\ PendingNamed
      BY SoundInit DEF Init, PendingSound, PendingNamed
    <2>2. LinesSound
      BY EmptySeq, <<Summary>> # << >> DEF Init, LinesSound
    <2>3. Len(job.calls) \in Nat
      BY SessionAssumption DEF Init
    <2>4. Counted(job, Seen(job, arch), past, stats)
      BY DEF Init, Counted, Upto
    <2>5. Listed(job, past, lines)
      BY DEF Init, Listed
    <2>6. TraceSound
      BY <2>3, <2>4, <2>5 DEF Init, TraceSound, LinesTyped
    <2> QED
      BY <2>1, <2>2, <2>6 DEF TInv
  <1>2. TInv /\ [Next]_vars => TInv'
    BY SoundNext, PendingNext, NamedNext, LinesNext, TraceNext DEF TInv
  <1> QED
    BY <1>1, <1>2, PTL DEF Spec

-----------------------------------------------------------------------------
\* The summary counts, and the lines show in their order, exactly the calls
\* that were selected: for every registry row, filter and program of the target.
THEOREM SummaryIsExact == Spec => []SummaryCounts
  <1>1. ASSUME TInv
        PROVE  SummaryCounts
    <2>1. past \in Nat
      BY <1>1, SessionAssumption DEF TInv, TraceSound, SInv, Typed
    <2>2. \A n : MadeOf(n) = Upto(past, CallsOf(job, n))
      BY <2>1, MadeOfIs
    <2>3. Counted(job, Seen(job, arch), past, stats)
      BY <1>1 DEF TInv, TraceSound
    <2>4. /\ DOMAIN stats = {Stripped(job.calls[i].symbol) :
                                i \in {k \in 1..past : Selected(job.calls[k].symbol)}}
          /\ Unbarred = DOMAIN stats
      <3>1. \A n : n \in DOMAIN stats <=> MadeOf(n) # {}
        BY <2>2, <2>3 DEF Counted
      <3>2. \A s : Stripped(s).bars = 0
        BY DEF Stripped, Name
      <3>3. DOMAIN stats = {Stripped(job.calls[i].symbol) :
                               i \in {k \in 1..past : Selected(job.calls[k].symbol)}}
        BY <3>1 DEF MadeOf
      <3>4. \A n \in DOMAIN stats : n.bars = 0
        BY <3>2, <3>3
      <3> QED
        BY <3>3, <3>4 DEF Unbarred
    <2>5. \A n \in DOMAIN stats : stats[n].count = Cardinality(MadeOf(n))
      BY <2>2, <2>3 DEF Counted
    <2>6. ASSUME machine.disk, ~cmd.summary
          PROVE  /\ {lines[k].call : k \in DOMAIN lines} = UNION {MadeOf(n) : n \in DOMAIN stats}
                 /\ \A k, l \in DOMAIN lines : k < l => lines[k].call < lines[l].call
      <3>1. Listed(job, past, lines)
        BY <1>1, <2>6 DEF TInv, TraceSound
      <3>2. \A k \in DOMAIN lines : \E n \in DOMAIN stats : lines[k].call \in MadeOf(n)
        <4> SUFFICES ASSUME NEW k \in DOMAIN lines
                     PROVE  \E n \in DOMAIN stats : lines[k].call \in MadeOf(n)
          OBVIOUS
        <4>1. PICK n : lines[k].call \in 1..past /\ lines[k].call \in CallsOf(job, n)
          BY <3>1 DEF Listed
        <4>2. lines[k].call \in MadeOf(n)
          BY <2>2, <4>1 DEF Upto
        <4>3. n \in DOMAIN stats
          BY <2>2, <2>3, <4>2 DEF Counted
        <4> QED
          BY <4>2, <4>3
      <3>3. \A n \in DOMAIN stats : \A i \in MadeOf(n) : \E k \in DOMAIN lines : lines[k].call = i
        BY <2>2, <3>1 DEF Listed, Upto
      <3>4. {lines[k].call : k \in DOMAIN lines} = UNION {MadeOf(n) : n \in DOMAIN stats}
        BY <3>2, <3>3
      <3> QED
        BY <3>1, <3>4 DEF Listed
    <2>7. ~cmd.summary => \A k \in DOMAIN lines : lines[k].name.bars = 0
      <3>1. ~cmd.summary => \A k \in DOMAIN lines : lines[k].name \in DOMAIN stats
        BY <1>1 DEF TInv, LinesSound, TraceSound, LinesTyped
      <3> QED
        BY <2>4, <3>1 DEF Unbarred
    <2>8. ~cmd.summary => {k \in DOMAIN lines : lines[k].name.bars = 0} = DOMAIN lines
      BY <2>7
    <2> QED
      BY <2>4, <2>5, <2>6, <2>8 DEF SummaryCounts
  <1> QED
    BY <1>1, TInvAlways, PTL

\* The errors that are counted are failures, and under --no-abbrev, where -1 is
\* no text, they are all of them.
THEOREM ErrorsAreReal == Spec => []ErrorsAreFailures
  <1>1. ASSUME TInv
        PROVE  ErrorsAreFailures
    <2>1. past \in Nat
      BY <1>1, SessionAssumption DEF TInv, TraceSound, SInv, Typed
    <2>2. \A n : Failures(n) = Upto(past, FailingOf(job, n))
      BY <2>1, MadeOfIs
    <2>3. Counted(job, Seen(job, arch), past, stats)
      BY <1>1 DEF TInv, TraceSound
    <2>4. Seen(job, arch) <=> ReturnAddressRead(arch, machine.frame)
      BY DEF Seen, machine
    <2> QED
      BY <2>2, <2>3, <2>4 DEF Counted, ErrorsAreFailures, cmd
  <1> QED
    BY <1>1, TInvAlways, PTL

\* What each formatter makes of one argument.
LEMMA FormattersAgreeOn ==
    ASSUME NEW f \in Formatters, NEW a, a.symbol \in {"none", "name", "hex", "inside"},
           a.symbol = "name" => a.class \in Named,
           a.symbol = "inside" => a.class \notin Named \cup {"SkipArg"}
    PROVE  /\ Shows(f, a) # "skip" <=> a.class # "SkipArg"
           /\ Shows(f, a) = "name" <=> a.symbol \in {"name", "inside"}
  <1>1. CASE a.class = "SkipArg"
    <2>1. a.symbol \in {"none", "hex"}
      BY <1>1 DEF Named
    <2>2. JsonShows(a) = "skip" /\ TextShows(a) = "skip" /\ ColorShows(a) = "skip"
      BY <1>1 DEF JsonShows, TextShows, ColorShows, Named, JsonForms, Coloured
    <2> QED
      BY <1>1, <2>1, <2>2 DEF Shows, Formatters
  <1>2. CASE a.class \in Named
    <2>1. a.symbol # "inside"
      BY <1>2
    <2>2. JsonShows(a) = SymbolOr(a, "value")
      BY <1>2 DEF JsonShows, Named, JsonForms
    <2>3. Written(a) \in {SymbolOr(a, "hex"), SymbolOr(a, "value")}
      BY <1>2 DEF Written, Named
    <2>4. TextShows(a) = Written(a) /\ ColorShows(a) = Written(a)
      BY <1>2 DEF TextShows, ColorShows, Named, Coloured
    <2> QED
      BY <1>2, <2>1, <2>2, <2>3, <2>4 DEF Shows, Formatters, SymbolOr, Named
  <1>3. CASE a.class \notin Named \cup {"SkipArg"}
    <2>1. Written(a) = Contents(a)
      BY <1>3 DEF Written, Named
    <2>2. JsonShows(a) = Contents(a)
      BY <1>3, <2>1 DEF JsonShows
    <2>3. TextShows(a) = Contents(a) /\ ColorShows(a) = Contents(a)
      BY <1>3, <2>1 DEF TextShows, ColorShows
    <2>4. a.symbol # "name"
      BY <1>3
    <2> QED
      BY <1>3, <2>2, <2>3, <2>4 DEF Shows, Formatters, Contents
  <1> QED
    BY <1>1, <1>2, <1>3

\* The three formatters show the same arguments, and agree on which show a name.
THEOREM FormatsDoAgree == Spec => []FormatsAgree
  <1>1. ASSUME NEW f \in Formatters, NEW keeps, NEW r, NEW data, NEW a,
               ArgSound(keeps, r, data, a)
        PROVE  /\ Shows(f, a) # "skip" <=> a.class # "SkipArg"
               /\ Shows(f, a) = "name" <=> a.symbol \in {"name", "inside"}
    BY <1>1, FormattersAgreeOn DEF ArgSound
  <1>2. ASSUME TInv
        PROVE  FormatsAgree
    <2> SUFFICES ASSUME NEW k \in DOMAIN lines, lines[k] # Summary, NEW f \in Formatters
                 PROVE  LET args == lines[k].args IN
                        /\ Positions(f, args) = {i \in DOMAIN args : args[i].class # "SkipArg"}
                        /\ NamesIn(f, args) = {i \in DOMAIN args : args[i].symbol \in {"name", "inside"}}
      BY DEF FormatsAgree
    <2>1. \A i \in DOMAIN lines[k].args :
              ArgSound(KeepsNames(LookupByName(lines[k].name), i), job.cmd.raw,
                       job.calls[lines[k].call].memory.data, lines[k].args[i])
      BY <1>2 DEF TInv, TraceSound, LinesTyped, LineOf
    <2> QED
      BY <1>1, <2>1 DEF Positions, NamesIn
  <1> QED
    BY <1>2, TInvAlways, PTL

\* Under --no-abbrev no return value has a name, no constant has one in any of the
\* three formats, and names inside what was decoded from memory are shown by the
\* parameters only that the registry lists with a class that never looks at
\* no_abbrev, whichever alternative of a parameter that varies is taken.
THEOREM NoAbbrevIsKept == Spec => []NoAbbrevShowsNoNames
  <1>1. ASSUME NEW f \in Formatters, NEW keeps, NEW r, NEW data, NEW a,
               ArgSound(keeps, r, data, a), Shows(f, a) = "name"
        PROVE  a.symbol = "name" \/ a.symbol = "inside"
    BY <1>1, FormattersAgreeOn DEF ArgSound
  <1>2. ASSUME TInv
        PROVE  NoAbbrevShowsNoNames
    <2> SUFFICES ASSUME NEW k \in DOMAIN lines, lines[k] # Summary, cmd.raw
                 PROVE  /\ \A i \in lines[k].named : KeepsNames(LookupByName(lines[k].name), i)
                        /\ lines[k].ret.symbol # "name"
      BY DEF NoAbbrevShowsNoNames
    <2>1. LineOf(job, lines[k]) /\ job.cmd.raw
      BY <1>2 DEF TInv, TraceSound, LinesTyped, cmd
    <2>2. PICK f \in Formatters : lines[k].named = NamesIn(f, lines[k].args)
      BY <2>1 DEF LineOf
    <2>3. ASSUME NEW i \in lines[k].named
          PROVE  KeepsNames(LookupByName(lines[k].name), i)
      <3> DEFINE keeps == KeepsNames(LookupByName(lines[k].name), i)
                 data  == job.calls[lines[k].call].memory.data
                 a     == lines[k].args[i]
                 r     == job.cmd.raw
      <3>1. i \in DOMAIN lines[k].args /\ Shows(f, a) = "name"
        BY <2>2, <2>3 DEF NamesIn
      <3>2. ArgSound(keeps, r, data, a)
        BY <2>1, <3>1 DEF LineOf
      <3>3. f \in Formatters /\ r
        BY <2>1, <2>2
      <3> HIDE DEF keeps, data, a, r
      <3>4. a.symbol = "name" \/ a.symbol = "inside"
        BY <1>1, <3>1, <3>2, <3>3
      <3>5. (r => a.symbol # "name") /\ (r /\ a.symbol = "inside" => keeps)
        BY <3>2, Zenon DEF ArgSound
      <3>6. keeps
        BY <3>3, <3>4, <3>5, Zenon
      <3> QED
        BY <3>6 DEF keeps
    <2> QED
      BY <2>1, <2>3 DEF LineOf
  <1> QED
    BY <1>2, TInvAlways, PTL

\* The text of every buffer is printable, and a reader of C strings reads in it
\* the bytes that memory held, for every buffer and every MaxDisplay.
THEOREM BuffersAreReadable == Spec => []QuotedIsReadable
  <1>1. ASSUME TInv
        PROVE  QuotedIsReadable
    <2> SUFFICES ASSUME NEW k \in DOMAIN lines, lines[k] # Summary,
                        NEW i \in DOMAIN lines[k].args, lines[k].args[i].class = "BufferArg"
                 PROVE  LET data == job.calls[lines[k].call].memory.data
                            more == IF Len(data) > MaxDisplay THEN Ellipsis ELSE << >>
                            text == lines[k].args[i].text
                        IN /\ \A c \in Range(text) : IsPrintable(c)
                           /\ Unquoted(text) = Displayed(data, MaxDisplay) \o more
      BY DEF QuotedIsReadable
    <2> DEFINE data == job.calls[lines[k].call].memory.data
               text == lines[k].args[i].text
    <2>1. LineOf(job, lines[k]) /\ job \in Jobs
      BY <1>1 DEF TInv, TraceSound, LinesTyped, SInv, Typed
    <2>2. data \in Seq(0..255) /\ MaxDisplay \in Nat
      BY <2>1, SessionAssumption DEF LineOf
    <2>3. text = QuoteString(data, MaxDisplay)
      BY <2>1 DEF LineOf, ArgSound
    <2> HIDE DEF data, text
    <2>4. /\ text \in Seq(Char)
          /\ Unquoted(text) = Displayed(data, MaxDisplay)
                                \o (IF Len(data) > MaxDisplay THEN Ellipsis ELSE << >>)
      BY <2>2, <2>3, QuotingLosesNothing DEF Byte
    <2>5. \A c \in Range(text) : c \in Char
      BY <2>4, RangeOfSeq
    <2>6. \A c \in Char : IsPrintable(c)
      BY DEF Char, IsPrintable
    <2> QED
      BY <2>4, <2>5, <2>6 DEF data, text
  <1> QED
    BY <1>1, TInvAlways, PTL

\* What measures a parameter is a number that was read where it was passed, for
\* every function of the registry.
THEOREM SizesAreRead == Spec => []SizesAsPassed
  <1>1. ASSUME TInv
        PROVE  SizesAsPassed
    <2> SUFFICES ASSUME pending # NoEvent, Legible, NEW i \in DOMAIN pending.params,
                        LookupByName(pending.name).params[i].count > 0
                 PROVE  LET k == LookupByName(pending.name).params[i].count IN
                        /\ pending.raw[k] = k
                        /\ pending.params[k].label \in {"plain", "named", "hexed"}
                        /\ pending.params[k].arg # "PointerArg"
      BY DEF SizesAsPassed
    <2> DEFINE d == LookupByName(pending.name)
               k == d.params[i].count
    <2>1. EventOf(job, arch, past, pending) /\ arch \in {"ARM64", "X8664"}
      BY <1>1 DEF TInv, TraceSound, PendingSound
    <2>2. pending.name \in KnownNames /\ ParamsSound(d, pending.params)
      BY <2>1 DEF EventOf
    <2>3. /\ Measuring(d, k) /\ DOMAIN d.params = 1..Len(d.params) /\ Len(d.params) \in Nat
          /\ d.variadic \in 0..8
      BY <2>2, TableAssumption DEF ParamsSound
    <2>4. pending.raw = RawArgs(arch, d, machine.frame)
      BY <2>1 DEF EventOf, machine
    <2>5. k \in DOMAIN RawArgs(arch, d, machine.frame)
      BY <2>3 DEF Measuring, RawArgs
    <2> HIDE DEF k
    <2>6. RawArgs(arch, d, machine.frame)[k] = k
      <3>1. k \in Nat /\ k <= d.variadic /\ k <= FirstVariable(d) /\ k <= 6
        BY <2>3 DEF Measuring
      <3>2. d.variadic \in Nat /\ FirstVariable(d) \in Nat
        BY <2>3 DEF FirstVariable
      <3>3. ~(k > d.variadic) /\ ~(k > FirstVariable(d))
        BY <3>1, <3>2
      <3>4. arch = "X8664" => ~(k > ArgRegisters(arch))
        BY <3>1 DEF ArgRegisters
      <3> QED
        BY <2>1, <2>2, <2>5, <3>3, <3>4, RawAsPassed DEF Legible
    <2>7. k \in DOMAIN pending.params /\ pending.params[k] = d.params[k]
      BY <2>2, <2>3 DEF Measuring, ParamsSound
    <2> QED
      BY <2>3, <2>4, <2>6, <2>7 DEF Measuring, k
  <1> QED
    BY <1>1, TInvAlways, PTL

-----------------------------------------------------------------------------
\* The types of what no other invariant speaks of.
Shaped ==
    /\ filter.kind \in {"none", "category", "names"}
    /\ arch \in {"none", "ARM64", "X8664"}
    /\ interrupted \in BOOLEAN
    /\ target \in Targets
    /\ code \in Nat

LEMMA ArchitectureFacts == \A triple : DetectArchitecture(triple) \in {"none", "ARM64", "X8664"}
  BY DEF DetectArchitecture

LEMMA FilterShape ==
    ASSUME NEW e, ParseFilter(e) # BadFilter
    PROVE  ParseFilter(e).kind \in {"none", "category", "names"}
  BY DEF ParseFilter, NoFilter, ByCategory, ByNames

\* An exception on its way out leaves a natural number as the code.
LEMMA UnwindingCode ==
    ASSUME NEW kind, Unwind(kind), code \in Nat
    PROVE  code' \in Nat
  BY DEF Unwind

LEMMA ShapedNext == SInv /\ Shaped /\ [Next]_vars => Shaped'
  <1> SUFFICES ASSUME SInv, Shaped, [Next]_vars
               PROVE  Shaped'
    OBVIOUS
  <1> USE DEF Shaped, Targets, trace, world, Return, Escape
  <1>1. CASE Parse
    BY <1>1 DEF Parse
  <1>2. CASE Create
    BY <1>2, FilterShape DEF Create
  <1>3. CASE Start
    BY <1>3 DEF Start, OpenOutput
  <1>4. CASE Launch
    BY <1>4, UnwindingCode, ArchitectureFacts DEF Launch
  <1>5. CASE Attach
    BY <1>5, ArchitectureFacts DEF Attach
  <1>6. CASE Pass \/ Enter \/ Leave
    BY <1>6, HandlingSteps, UnwindingCode DEF LoopRaise
  <1>7. CASE TargetEnds
    <2>1. target' \in {"exited", "failed", "crashed"}
      BY <1>7, SessionAssumption DEF TargetEnds, SInv, Typed
    <2> QED
      BY <1>7, <2>1 DEF TargetEnds
  <1>8. CASE LeaveLoop
    <2>1. target \in Alive /\ (interrupted \/ target # "held") /\ code' = ExitCode
      BY <1>8 DEF LeaveLoop, SInv, EndSound
    <2>2. ExitCode \in Nat
      BY <2>1 DEF ExitCode, Alive
    <2> QED
      BY <1>8, <2>1, <2>2 DEF LeaveLoop
  <1>9. CASE Detach
    BY <1>9 DEF Detach
  <1>10. CASE PrintSummary
    BY <1>10, UnwindingCode DEF PrintSummary
  <1>11. CASE Close
    BY <1>11 DEF Close
  <1>12. CASE Report
    BY <1>12 DEF Report, SInv, Typed, Exceptions
  <1>13. CASE Interrupt
    BY <1>13, UnwindingCode DEF Interrupt, LoopRaise
  <1>14. CASE UNCHANGED vars
    BY <1>14 DEF vars
  <1> QED
    BY <1>1, <1>2, <1>3, <1>4, <1>5, <1>6, <1>7, <1>8, <1>9, <1>10, <1>11, <1>12, <1>13,
       <1>14 DEF Next, Work

\* A sequence is as long as its domain says.
LEMMA LengthOf == ASSUME NEW n \in Nat, NEW s, DOMAIN s = 1..n PROVE Len(s) = n
  OBVIOUS

\* Every variable keeps its type: what is pending is of the call the target is
\* in, with as many arguments as were read, and every line is of a function that
\* is counted.
THEOREM SessionTypeCorrect == Spec => []TypeOK
  <1>1. Init => Shaped
    <2>1. NoFilter.kind = "none"
      BY DEF NoFilter
    <2>2. Init => /\ filter = NoFilter /\ arch = "none" /\ target = "none"
                  /\ interrupted \in BOOLEAN /\ code = 0
      BY DEF Init
    <2> QED
      BY <2>1, <2>2 DEF Shaped, Targets
  <1>2. Spec => []Shaped
    BY <1>1, SoundInit, SoundNext, ShapedNext, PTL DEF Spec
  <1>3. ASSUME TInv, Shaped
        PROVE  TypeOK
    <2>1. /\ pc \in Places /\ file \in {"none", "open", "closed"}
          /\ handler \in {"python", "tracer"} /\ raised \in Exceptions
          /\ past \in 0..Len(job.calls) /\ past \in Nat
      BY <1>3, SessionAssumption DEF TInv, TraceSound, SInv, Typed
    <2>2. ASSUME pending # NoEvent
          PROVE  /\ pending.name \in KnownNames
                 /\ pending.call = past + 1
                 /\ Len(pending.args) = Len(pending.raw)
      <3> DEFINE d == LookupByName(pending.name)
      <3>1. EventOf(job, arch, past, pending)
        BY <1>3, <2>2 DEF TInv, TraceSound
      <3>2. pending.name \in KnownNames /\ pending.call = past + 1
        BY <3>1 DEF EventOf
      <3>3. Len(d.params) \in Nat /\ DOMAIN d.params = 1..Len(d.params)
        BY <3>2, TableAssumption
      <3>4. DOMAIN pending.args = 1..Len(d.params) /\ DOMAIN pending.raw = 1..Len(d.params)
        BY <3>1, <3>3 DEF EventOf, RawArgs
      <3> QED
        BY <3>2, <3>3, <3>4, LengthOf
    <2>3. ASSUME NEW n \in DOMAIN stats
          PROVE  stats[n].errors <= stats[n].count
      <3>1. /\ stats[n].errors \in Nat
            /\ stats[n].errors <= Cardinality(Upto(past, FailingOf(job, n)))
            /\ stats[n].count = Cardinality(Upto(past, CallsOf(job, n)))
        BY <1>3 DEF TInv, TraceSound, Counted
      <3>2. Upto(past, FailingOf(job, n)) \subseteq Upto(past, CallsOf(job, n))
        BY DEF Upto, FailingOf
      <3>3. IsFiniteSet(Upto(past, CallsOf(job, n)))
        BY <2>1, OneMore
      <3>4. Cardinality(Upto(past, FailingOf(job, n))) <= Cardinality(Upto(past, CallsOf(job, n)))
        BY <3>2, <3>3, FS_Subset
      <3>5. /\ Cardinality(Upto(past, FailingOf(job, n))) \in Nat
            /\ Cardinality(Upto(past, CallsOf(job, n))) \in Nat
        BY <2>1, OneMore
      <3> QED
        BY <3>1, <3>4, <3>5
    <2>4. \A i \in DOMAIN lines : lines[i] = Summary \/ lines[i].name \in DOMAIN stats
      BY <1>3 DEF TInv, TraceSound, LinesTyped
    <2> QED
      BY <1>3, <2>1, <2>2, <2>3, <2>4 DEF TypeOK, Shaped
  <1> QED
    BY <1>2, <1>3, TInvAlways, PTL
=============================================================================
