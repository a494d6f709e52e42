---------------------------- MODULE DecodeProofs ----------------------------
(***************************************************************************)
(* Theorems about Decode, for any number of calls under way, any parameter *)
(* lists made of the Param classes, and any limits.                        *)
(***************************************************************************)
EXTENDS Decode, TLAPS

\* What decode() yields without having read memory.
Plains == {Value, Pointer, Skip, Keep, Raise}

-----------------------------------------------------------------------------
\* Lemmas about the decoders.

\* Of what is shown, only Data has the form "data".
LEMMA Forms ==
    /\ \A e \in Plains : e.form # "data"
    /\ \A m, n : /\ Data(m, n).form = "data"
                 /\ Data(m, n).len = n
                 /\ Data(m, n).changed = m.changed
                 /\ Data(m, n).written = IF n < m.written THEN n ELSE m.written
                 /\ Data(m, n) # Keep /\ Data(m, n) # Raise
    /\ Unknown.form # "data"
    /\ Keep \notin {Unknown, Value, Pointer, Skip}
    /\ Raise \notin {Keep, Unknown, Value, Pointer, Skip}
  BY DEF Plains, Plain, Value, Pointer, Unknown, Skip, Keep, Raise, Data

\* What is read of a region is a thing that can be shown.
LEMMA DataShown ==
    ASSUME NEW m \in Regions, NEW n \in 0..MaxRaw
    PROVE  Data(m, n) \in Shown
  BY DecodeAssumption DEF Shown, Regions, Data

\* The return value only ever lowers the size that was asked for.
LEMMA FilledFacts ==
    ASSUME NEW p, NEW x, Asked(p, x) \in 0..MaxRaw, x.ret \in -1..MaxRaw
    PROVE  /\ Filled(p, x) \in 0..MaxRaw
           /\ Filled(p, x) <= Asked(p, x)
           /\ Asked(p, x) > 0 => Filled(p, x) > 0
           /\ ~x.atEntry /\ 0 < x.ret => Filled(p, x) <= x.ret
  BY DecodeAssumption DEF Filled

\* Whatever a decoder reads, it reads in its own time, and no more than it is
\* measured to.
ReadsSoundly(p, x, m, e) ==
    \E n \in 0..MaxRaw :
        /\ e = Data(m, n)
        /\ n <= Measure(p, x.args)
        /\ x.atEntry => p.dir # "OUT"
        /\ ~x.atEntry => p.dir # "IN"
        /\ ~x.atEntry /\ 0 < x.ret /\ p.class \in Bounded => n <= x.ret

LEMMA SimpleDecodes ==
    ASSUME NEW s, NEW p, Simple(p, s), NEW x, NEW k \in 0..MaxRaw, NEW m \in Regions,
           x.args \in [DOMAIN s.params -> 0..MaxRaw], x.ret \in -1..MaxRaw, x.atEntry \in BOOLEAN
    PROVE  SimpleDecode(p, x, k, m) \in Plains \/ ReadsSoundly(p, x, m, SimpleDecode(p, x, k, m))
  <1> DEFINE e == SimpleDecode(p, x, k, m)
  <1>1. 1 \in 0..MaxRaw
    BY DecodeAssumption
  <1>2. Counted(p) => /\ Asked(p, x) \in 0..MaxRaw
                      /\ Measure(p, x.args) = Asked(p, x)
    BY DEF Simple, Asked, Measure
  <1>3. ~Counted(p) => Measure(p, x.args) = 1
    BY DEF Measure
  <1>4. Pointer \in Plains /\ Keep \in Plains /\ Value \in Plains /\ Raise \in Plains
    BY DEF Plains
  <1>5. \A n : Read(m, n) = Pointer \/ Read(m, n) = Data(m, n)
    BY DEF Read
  <1>6. NotNow(x) \in Plains
    BY <1>4 DEF NotNow
  <1>7. Now(p, x) => (x.atEntry => p.dir # "OUT") /\ (~x.atEntry => p.dir # "IN")
    BY DEF Now
  <1>8. CASE p.class \in {"scalar", "pointer"}
    BY <1>8, <1>4 DEF SimpleDecode, ScalarDecode, PointerDecode
  <1>9. CASE p.class \in {"string", "strings"}
    <2>1. e = Value \/ e = Pointer \/ e = Data(m, 1)
      BY <1>9, <1>5 DEF SimpleDecode, StringDecode, StringsDecode
    <2>2. p.dir = "ANY" /\ ~Counted(p) /\ p.class \notin Bounded
      BY <1>9 DEF Simple, Moment, Counted, Bounded
    <2> QED
      BY <2>1, <2>2, <1>1, <1>3, <1>4 DEF ReadsSoundly
  <1>16. CASE p.class = "mib"
    <2>1. e \in Plains \/ e = Data(m, Asked(p, x))
      BY <1>16, <1>4 DEF SimpleDecode, MibDecode
    <2>2. p.dir = "ANY" /\ Counted(p) /\ p.class \notin Bounded
      BY <1>16 DEF Simple, Moment, Counted, Bounded
    <2> QED
      BY <2>1, <2>2, <1>2 DEF ReadsSoundly
  <1>17. CASE p.class = "uuid"
    <2>1. e \in Plains \/ (e = Data(m, 1) /\ ~x.atEntry)
      BY <1>17, <1>4 DEF SimpleDecode, UuidDecode
    <2>2. p.dir = "OUT" /\ ~Counted(p) /\ p.class \notin Bounded
      BY <1>17 DEF Simple, Moment, Counted, Bounded
    <2> QED
      BY <2>1, <2>2, <1>1, <1>3 DEF ReadsSoundly
  <1>10. CASE p.class = "struct"
    <2>1. e \in Plains \/ (e = Data(m, 1) /\ Now(p, x))
      BY <1>10, <1>4, <1>5, <1>6 DEF SimpleDecode, StructDecode
    <2>2. ~Counted(p) /\ p.class \notin Bounded
      BY <1>10 DEF Counted, Bounded
    <2> QED
      BY <2>1, <2>2, <1>1, <1>3, <1>7 DEF ReadsSoundly
  <1>11. CASE p.class = "msghdr"
    <2>1. e \in Plains \/ (e = Data(m, 1) /\ Now(p, x))
      BY <1>11, <1>4, <1>5, <1>6 DEF SimpleDecode, MsghdrDecode, StructDecode
    <2>2. ~Counted(p) /\ p.class \notin Bounded
      BY <1>11 DEF Counted, Bounded
    <2> QED
      BY <2>1, <2>2, <1>1, <1>3, <1>7 DEF ReadsSoundly
  <1>12. CASE p.class = "fdset"
    <2>1. e \in Plains \/ (e = Data(m, 1) /\ x.atEntry)
      BY <1>12, <1>4, <1>5 DEF SimpleDecode, FdSetDecode
    <2>2. ~Counted(p) /\ p.dir = "IN"
      BY <1>12 DEF Counted, Simple, Moment
    <2> QED
      BY <2>1, <2>2, <1>1, <1>3 DEF ReadsSoundly
  <1>13. CASE p.class = "pollfd"
    <2>1. e \in Plains \/ (e = Data(m, Asked(p, x)) /\ x.atEntry)
      BY <1>13, <1>4, <1>5 DEF SimpleDecode, PollfdDecode
    <2>2. Counted(p) /\ p.dir = "IN"
      BY <1>13 DEF Counted, Simple, Moment
    <2> QED
      BY <2>1, <2>2, <1>2 DEF ReadsSoundly
  <1>14. CASE p.class \in {"iovec", "aiocb"}
    <2>1. e \in Plains \/ (e = Data(m, Asked(p, x)) /\ Now(p, x))
      <3>1. CASE p.class = "iovec"
        BY <3>1, <1>4, <1>5, <1>6 DEF SimpleDecode, IovecDecode
      <3>2. CASE p.class = "aiocb"
        BY <3>2, <1>4 DEF SimpleDecode, AiocbArrayDecode
      <3> QED
        BY <1>14, <3>1, <3>2
    <2>2. Counted(p) /\ p.class \notin Bounded
      BY <1>14 DEF Counted, Bounded
    <2> QED
      BY <2>1, <2>2, <1>2, <1>7 DEF ReadsSoundly
  <1>15. CASE p.class \in Bounded
    <2>1. Counted(p)
      BY <1>15 DEF Counted, Bounded
    <2>2. /\ Filled(p, x) \in 0..MaxRaw
          /\ Filled(p, x) <= Asked(p, x)
          /\ ~x.atEntry /\ 0 < x.ret => Filled(p, x) <= x.ret
      BY <2>1, <1>2, FilledFacts
    <2>3. e \in Plains \/ (\E n \in 0..MaxRaw : e = Data(m, n) /\ n <= Filled(p, x) /\ Now(p, x))
      <3>1. CASE p.class = "buffer"
        BY <3>1, <2>2, <1>4, <1>5, <1>6, DecodeAssumption DEF SimpleDecode, BufferDecode
      <3>2. CASE p.class = "kevent"
        BY <3>2, <2>2, <1>4, <1>5, <1>6, DecodeAssumption DEF SimpleDecode, KeventDecode
      <3>3. CASE p.class = "ints"
        BY <3>3, <2>2, <1>4, <1>5, <1>6, DecodeAssumption DEF SimpleDecode, IntArrayDecode
      <3> QED
        BY <1>15, <3>1, <3>2, <3>3 DEF Bounded
    <2>4. CASE e \in Plains
      BY <2>4
    <2>5. ASSUME NEW n \in 0..MaxRaw, e = Data(m, n), n <= Filled(p, x), Now(p, x)
          PROVE  ReadsSoundly(p, x, m, e)
      <3>1. n <= Measure(p, x.args)
        BY <2>1, <2>2, <2>5, <1>2
      <3>2. ~x.atEntry /\ 0 < x.ret => n <= x.ret
        BY <2>2, <2>5
      <3> QED
        BY <3>1, <3>2, <2>5, <1>7 DEF ReadsSoundly
    <2> QED
      BY <2>3, <2>4, <2>5
  <1> QED
    BY <1>8, <1>9, <1>10, <1>11, <1>12, <1>13, <1>14, <1>15, <1>16, <1>17
    DEF Simple, Moment, Bounded

\* What decodes a parameter is a simple one.
LEMMA PickedFacts ==
    ASSUME NEW s, NEW p, Simple(p, s) \/ Varying(p, s), NEW v
    PROVE  Simple(Picked(p, v), s)
  <1>1. Simple(NoParam, s)
    BY DEF Simple, Moment, Counted, NoParam
  <1>2. CASE Varying(p, s)
    <2>1. Simple(Variant(p, v[p.count]), s)
      BY <1>2 DEF Varying, Variant
    <2>2. Picked(p, v) = IF Absent(p, v[p.count]) THEN NoParam ELSE Variant(p, v[p.count])
      BY <1>2 DEF Picked, Varying
    <2>3. Picked(p, v) = NoParam \/ Picked(p, v) = Variant(p, v[p.count])
      BY <2>2
    <2> QED
      BY <1>1, <2>1, <2>3
  <1>3. CASE Simple(p, s)
    <2>1. p.class # "variant"
      BY <1>3 DEF Simple, Moment
    <2> QED
      BY <1>3, <2>1 DEF Picked
  <1> QED
    BY <1>2, <1>3

LEMMA ParamDecodes ==
    ASSUME NEW s, NEW p, Simple(p, s) \/ Varying(p, s), NEW x, NEW k \in 0..MaxRaw,
           NEW m \in Regions, x.args \in [DOMAIN s.params -> 0..MaxRaw], x.ret \in -1..MaxRaw,
           x.atEntry \in BOOLEAN
    PROVE  \/ ParamDecode(p, x, k, m) \in Plains
           \/ ReadsSoundly(Picked(p, x.args), x, m, ParamDecode(p, x, k, m))
  <1>1. CASE Simple(p, s)
    <2>1. p.class # "variant"
      BY <1>1 DEF Simple, Moment
    <2>2. ParamDecode(p, x, k, m) = SimpleDecode(p, x, k, m) /\ Picked(p, x.args) = p
      BY <2>1 DEF ParamDecode, Picked
    <2> QED
      BY <1>1, <2>2, SimpleDecodes
  <1>2. CASE Varying(p, s)
    <2> DEFINE d == x.args[p.count]
    <2>1. ParamDecode(p, x, k, m) = VariantDecode(p, x, k, m)
      BY <1>2 DEF ParamDecode, Varying
    <2>2. CASE Absent(p, d)
      BY <2>1, <2>2 DEF VariantDecode, Asked, Plains
    <2>3. CASE ~Absent(p, d)
      <3> DEFINE q == Variant(p, d)
      <3>1. ParamDecode(p, x, k, m) = SimpleDecode(q, x, k, m)
        BY <2>1, <2>3 DEF VariantDecode, Asked
      <3>2. Picked(p, x.args) = q
        BY <1>2, <2>3 DEF Varying, Picked
      <3>3. Simple(q, s)
        BY <3>2, PickedFacts
      <3> HIDE DEF q, d
      <3>4. \/ SimpleDecode(q, x, k, m) \in Plains
            \/ ReadsSoundly(q, x, m, SimpleDecode(q, x, k, m))
        BY <3>3, SimpleDecodes
      <3> QED
        BY <3>1, <3>2, <3>4
    <2> QED
      BY <2>2, <2>3
  <1> QED
    BY <1>1, <1>2

\* A DecodeContext for the parameters of s.
ContextTyped(x, s) ==
    /\ x.args \in [DOMAIN s.params -> 0..MaxRaw]
    /\ x.ret \in -1..MaxRaw
    /\ x.atEntry \in BOOLEAN

\* Output that can be read is read when the call has succeeded.
LEMMA OutputReads ==
    ASSUME NEW s, NEW p, Simple(p, s) \/ Varying(p, s), NEW x, ContextTyped(x, s), ~x.atEntry,
           NEW k, k # 0, NEW m, m.status = "ok",
           Picked(p, x.args).dir = "OUT", Measure(Picked(p, x.args), x.args) \in 1..CountCap
    PROVE  ParamDecode(p, x, k, m).form = "data"
  <1> DEFINE q == Picked(p, x.args)
  <1>1. Simple(q, s) /\ ParamDecode(p, x, k, m) = SimpleDecode(q, x, k, m)
    <2>1. CASE Simple(p, s)
      <3>1. p.class # "variant"
        BY <2>1 DEF Simple, Moment
      <3> QED
        BY <2>1, <3>1 DEF ParamDecode, Picked
    <2>2. CASE Varying(p, s)
      <3>1. ~Absent(p, x.args[p.count])
        BY <2>2 DEF Varying, Picked, NoParam
      <3>2. q = Variant(p, x.args[p.count])
        BY <2>2, <3>1 DEF Varying, Picked
      <3>3. ParamDecode(p, x, k, m) = SimpleDecode(q, x, k, m)
        BY <2>2, <3>1, <3>2 DEF ParamDecode, VariantDecode, Asked, Varying
      <3> QED
        BY <2>2, <3>3, PickedFacts
    <2> QED
      BY <2>1, <2>2
  <1>2. Now(q, x) /\ q.class \in {"uuid", "struct", "buffer", "kevent", "ints", "iovec", "msghdr"}
    BY <1>1 DEF Now, Simple, Moment
  <1>3. \A n : Read(m, n).form = "data"
    BY Forms DEF Read
  <1>4. CASE q.class = "struct"
    BY <1>1, <1>2, <1>3, <1>4 DEF SimpleDecode, StructDecode
  <1>5. CASE q.class = "msghdr"
    BY <1>1, <1>2, <1>3, <1>5 DEF SimpleDecode, MsghdrDecode, StructDecode
  <1>8. CASE q.class = "uuid"
    BY <1>1, <1>8, Forms DEF SimpleDecode, UuidDecode
  <1>6. CASE q.class = "iovec"
    <2>1. Asked(q, x) \in 1..CountCap
      BY <1>6 DEF Measure, Counted, Asked
    <2>2. Asked(q, x) # 0 /\ ~(Asked(q, x) > CountCap)
      BY <2>1, DecodeAssumption
    <2> QED
      BY <1>1, <1>2, <1>3, <1>6, <2>2 DEF SimpleDecode, IovecDecode
  <1>7. CASE q.class \in Bounded
    <2>1. Asked(q, x) \in 1..CountCap /\ Asked(q, x) \in 0..MaxRaw
      BY <1>1, <1>7 DEF Measure, Counted, Asked, Bounded, Simple, ContextTyped
    <2>2. Filled(q, x) # 0 /\ ~(Filled(q, x) > CountCap)
      <3>1. x.ret \in -1..MaxRaw
        BY DEF ContextTyped
      <3> QED
        BY <2>1, <3>1, FilledFacts, DecodeAssumption
    <2>3. CASE q.class = "buffer"
      BY <1>1, <1>2, <1>3, <2>2, <2>3 DEF SimpleDecode, BufferDecode
    <2>4. CASE q.class = "kevent"
      BY <1>1, <1>2, <1>3, <2>2, <2>4 DEF SimpleDecode, KeventDecode
    <2>5. CASE q.class = "ints"
      BY <1>1, <1>2, <1>3, <2>2, <2>5 DEF SimpleDecode, IntArrayDecode
    <2> QED
      BY <1>7, <2>3, <2>4, <2>5 DEF Bounded
  <1> QED
    BY <1>2, <1>4, <1>5, <1>6, <1>7, <1>8 DEF Bounded

-----------------------------------------------------------------------------
\* The invariant, call by call and argument by argument.

\* What is shown of argument i, before and after the kernel and the second
\* decoding: the four safety properties and what they rest on.
EntrySound(c, i) ==
    /\ ShowsData(c, i) => args[c][i].len <= Units(c, i)
    /\ Chosen(c, i).dir = "IN" /\ ShowsData(c, i) => ~args[c][i].changed
    /\ stage[c] # "written" /\ IsOut(c, i) => ~ShowsData(c, i)

KernelSound(c, i) ==
    /\ stage[c] # "entered" /\ IsOut(c, i) /\ result[c] # -1
    /\ shape[c].counting /\ Chosen(c, i).class \in Bounded
    => memory[c][i].written = result[c]

ExitSound(c, i) ==
    stage[c] = "written" /\ IsOut(c, i) =>
        /\ ShowsData(c, i) => result[c] # -1
        /\ /\ ShowsData(c, i)
           /\ shape[c].counting /\ result[c] # 0 /\ Chosen(c, i).class \in Bounded
           => args[c][i].len <= args[c][i].written
        /\ /\ ret[c].kind = "int" /\ result[c] >= 0
           /\ raw[c][i] # 0 /\ memory[c][i].status = "ok" /\ Units(c, i) \in 1..CountCap
           => ShowsData(c, i)

CallTyped(c) ==
    /\ shape[c] \in Shapes[c]
    /\ raw[c] \in [DOMAIN shape[c].params -> 0..MaxRaw]
    /\ memory[c] \in [DOMAIN shape[c].params -> Regions]
    /\ args[c] \in [DOMAIN shape[c].params -> Shown]

CallSound(c) ==
    stage[c] # "idle" =>
        /\ CallTyped(c)
        /\ \A i \in DOMAIN shape[c].params : EntrySound(c, i) /\ KernelSound(c, i) /\ ExitSound(c, i)

\* The variables that hold something for every call.
Maps ==
    /\ stage \in [Calls -> Stages]
    /\ result \in [Calls -> -1..MaxRaw]
    /\ ret \in [Calls -> Returns]
    /\ ctx.atEntry \in BOOLEAN
    /\ raised \in BOOLEAN
    /\ DOMAIN shape = Calls /\ DOMAIN raw = Calls /\ DOMAIN memory = Calls /\ DOMAIN args = Calls

DInv == Maps /\ \A c \in Calls : CallSound(c)

\* What a step leaves alone about a call.
Same(c) ==
    /\ stage'[c] = stage[c] /\ shape'[c] = shape[c] /\ raw'[c] = raw[c] /\ memory'[c] = memory[c]
    /\ result'[c] = result[c] /\ args'[c] = args[c] /\ ret'[c] = ret[c]

LEMMA SameSound ==
    ASSUME NEW c, CallSound(c), Same(c)
    PROVE  CallSound(c)'
  <1>1. \A i : /\ Chosen(c, i)' = Chosen(c, i)
               /\ Units(c, i)' = Units(c, i)
               /\ IsOut(c, i)' = IsOut(c, i)
               /\ ShowsData(c, i)' = ShowsData(c, i)
    BY DEF Same, Chosen, Units, IsOut, ShowsData
  <1> QED
    BY <1>1 DEF Same, CallSound, CallTyped, EntrySound, KernelSound, ExitSound

LEMMA DInvInit == Init => DInv
  <1> SUFFICES ASSUME Init PROVE DInv
    OBVIOUS
  <1>1. Maps
    <2>1. 0 \in -1..MaxRaw
      BY DecodeAssumption
    <2>2. NoReturn \in Returns
      BY <2>1 DEF Returns, NoReturn
    <2>3. stage \in [Calls -> Stages] /\ result \in [Calls -> -1..MaxRaw] /\ ret \in [Calls -> Returns]
      BY <2>1, <2>2 DEF Init, Stages
    <2>4. ctx.atEntry \in BOOLEAN /\ raised \in BOOLEAN
      BY DEF Init
    <2>5. DOMAIN shape = Calls /\ DOMAIN raw = Calls /\ DOMAIN memory = Calls /\ DOMAIN args = Calls
      BY DEF Init
    <2> QED
      BY <2>3, <2>4, <2>5 DEF Maps
  <1>2. \A c \in Calls : CallSound(c)
    BY DEF Init, CallSound
  <1> QED
    BY <1>1, <1>2 DEF DInv

\* The parameters of a definition are as DecodeAssumption has them, and Chosen
\* and Units are Picked and Measure.
LEMMA ChosenFacts ==
    ASSUME NEW c \in Calls, NEW i \in DOMAIN shape[c].params, shape[c] \in Shapes[c],
           raw[c] \in [DOMAIN shape[c].params -> 0..MaxRaw]
    PROVE  /\ Simple(shape[c].params[i], shape[c]) \/ Varying(shape[c].params[i], shape[c])
           /\ Chosen(c, i) = Picked(shape[c].params[i], raw[c])
           /\ Units(c, i) = Measure(Chosen(c, i), raw[c])
           /\ Units(c, i) \in 0..MaxRaw
           /\ Simple(Chosen(c, i), shape[c])
  <1>1. Simple(shape[c].params[i], shape[c]) \/ Varying(shape[c].params[i], shape[c])
    BY DecodeAssumption
  <1>2. Chosen(c, i) = Picked(shape[c].params[i], raw[c])
    BY DEF Chosen
  <1>3. Units(c, i) = Measure(Chosen(c, i), raw[c])
    BY DEF Units
  <1>4. Simple(Chosen(c, i), shape[c])
    BY <1>1, <1>2, PickedFacts
  <1>5. Units(c, i) \in 0..MaxRaw
    BY <1>3, <1>4, DecodeAssumption DEF Measure, Simple
  <1> QED
    BY <1>1, <1>2, <1>3, <1>4, <1>5

-----------------------------------------------------------------------------
\* One lemma for each action: the call that takes the step, and the others.

\* Calls other than c are left alone by a step of c.
LEMMA OthersSound ==
    ASSUME DInv, NEW c \in Calls, \A d \in Calls \ {c} : Same(d), CallSound(c)'
    PROVE  \A d \in Calls : CallSound(d)'
  BY SameSound DEF DInv

LEMMA EnterNext ==
    ASSUME DInv, NEW c \in Calls, NEW s \in Shapes[c],
           NEW v \in [DOMAIN s.params -> 0..MaxRaw],
           NEW m, m \in [DOMAIN s.params -> Regions], \A i \in DOMAIN s.params : ~m[i].changed,
           Enter(c, s, v, m)
    PROVE  DInv'
  <1>1. Maps
    BY DEF DInv
  <1>2. /\ shape'[c] = s /\ raw'[c] = v /\ memory'[c] = m
        /\ DOMAIN shape' = Calls /\ DOMAIN raw' = Calls /\ DOMAIN memory' = Calls
        /\ UNCHANGED <<result, ret>>
    BY <1>1 DEF Enter, Maps
  <1>3. \A d \in Calls \ {c} : shape'[d] = shape[d] /\ raw'[d] = raw[d] /\ memory'[d] = memory[d]
    BY <1>1 DEF Enter, Maps
  <1> DEFINE x == [args |-> v, atEntry |-> TRUE, ret |-> 0]
             g == [i \in DOMAIN s.params |-> ParamDecode(s.params[i], x, v[i], m[i])]
  <1>4. ctx' = x /\ Decoded(c, ctx') = g
    BY <1>2 DEF Enter, Decoded
  <1> HIDE DEF g
  <1>5. CASE Raise \in Range(g)
    <2>1. raised' = TRUE /\ UNCHANGED <<stage, args>>
      BY <1>4, <1>5 DEF Enter
    <2>2. Maps'
      BY <1>1, <1>2, <1>4, <2>1 DEF Maps
    <2>3. stage'[c] = "idle"
      BY <2>1 DEF Enter
    <2>4. CallSound(c)'
      BY <2>3 DEF CallSound
    <2>5. \A d \in Calls \ {c} : Same(d)
      BY <1>2, <1>3, <2>1 DEF Same
    <2> QED
      BY <2>2, <2>4, <2>5, OthersSound DEF DInv
  <1>6. CASE Raise \notin Range(g)
    <2>1. /\ stage' = [stage EXCEPT ![c] = "entered"]
          /\ args' = [args EXCEPT ![c] = [i \in DOMAIN g |-> IF g[i] = Keep THEN Unknown ELSE g[i]]]
          /\ raised' = raised
      BY <1>4, <1>6 DEF Enter
    <2>2. /\ stage'[c] = "entered" /\ stage' \in [Calls -> Stages]
          /\ DOMAIN args' = Calls
          /\ args'[c] = [i \in DOMAIN g |-> IF g[i] = Keep THEN Unknown ELSE g[i]]
      BY <1>1, <2>1 DEF Maps, Stages
    <2>3. \A d \in Calls \ {c} : Same(d)
      BY <1>1, <1>2, <1>3, <2>1 DEF Same, Maps
    <2>4. Maps'
      BY <1>1, <1>2, <1>4, <2>1, <2>2 DEF Maps
    <2>5. DOMAIN g = DOMAIN s.params
      BY DEF g
    <2>6. ASSUME NEW i \in DOMAIN s.params
          PROVE  args'[c][i] \in Shown /\ EntrySound(c, i)'
      <3> DEFINE p == s.params[i]
                 q == Picked(p, v)
      <3>1. /\ Simple(p, s) \/ Varying(p, s)
            /\ Chosen(c, i)' = q
            /\ Units(c, i)' = Measure(q, v)
        <4>1. Simple(p, s) \/ Varying(p, s)
          BY DecodeAssumption
        <4>2. Chosen(c, i)' = q
          BY <1>2 DEF Chosen
        <4>3. Units(c, i)' = Measure(q, v)
          BY <1>2, <4>2 DEF Units
        <4> QED
          BY <4>1, <4>2, <4>3
      <3>2. /\ x.args = v /\ x.ret \in -1..MaxRaw /\ x.atEntry = TRUE
            /\ x.args \in [DOMAIN s.params -> 0..MaxRaw] /\ x.atEntry \in BOOLEAN
            /\ v[i] \in 0..MaxRaw /\ m[i] \in Regions
        BY DecodeAssumption
      <3>3. g[i] = ParamDecode(p, x, v[i], m[i])
        BY DEF g
      <3>4. g[i] # Raise
        BY <1>6, <2>5 DEF Range
      <3>5. g[i] \in Plains \/ ReadsSoundly(q, x, m[i], g[i])
        <4> HIDE DEF x, p
        <4>1. \/ ParamDecode(p, x, v[i], m[i]) \in Plains
              \/ ReadsSoundly(Picked(p, x.args), x, m[i], ParamDecode(p, x, v[i], m[i]))
          BY <3>1, <3>2, ParamDecodes
        <4> QED
          BY <3>2, <3>3, <4>1
      <3>6. args'[c][i] = IF g[i] = Keep THEN Unknown ELSE g[i]
        BY <2>2, <2>5
      <3>7. CASE g[i] \in Plains
        <4>1. args'[c][i] \in {Value, Pointer, Skip, Unknown}
          BY <3>4, <3>6, <3>7 DEF Plains
        <4>2. args'[c][i].form # "data" /\ args'[c][i] \in Shown
          BY <4>1, Forms DEF Shown, Plains
        <4> QED
          BY <4>2 DEF EntrySound, ShowsData
      <3>8. ASSUME NEW n \in 0..MaxRaw, g[i] = Data(m[i], n), n <= Measure(q, v), q.dir # "OUT"
            PROVE  args'[c][i] \in Shown /\ EntrySound(c, i)'
        <4>1. args'[c][i] = Data(m[i], n)
          BY <3>6, <3>8, Forms
        <4>2. args'[c][i].len = n /\ ~args'[c][i].changed
          BY <4>1, Forms
        <4>3. args'[c][i] \in Shown
          BY <4>1, <3>2, DataShown
        <4>4. ~IsOut(c, i)'
          BY <3>1, <3>8 DEF IsOut
        <4> QED
          BY <3>1, <3>8, <4>2, <4>3, <4>4 DEF EntrySound
      <3> QED
        BY <3>2, <3>5, <3>7, <3>8 DEF ReadsSoundly
    <2>7. CallTyped(c)'
      BY <1>2, <2>2, <2>5, <2>6 DEF CallTyped
    <2>8. \A i \in DOMAIN s.params : KernelSound(c, i)' /\ ExitSound(c, i)'
      BY <2>2 DEF KernelSound, ExitSound
    <2>9. CallSound(c)'
      BY <1>2, <2>6, <2>7, <2>8 DEF CallSound
    <2> QED
      BY <2>3, <2>4, <2>9, OthersSound DEF DInv
  <1> QED
    BY <1>5, <1>6

LEMMA KernelNext ==
    ASSUME DInv, NEW c \in Calls, NEW r \in -1..MaxRaw,
           NEW w, w \in [{i \in DOMAIN memory[c] : IsOut(c, i)} -> 0..MaxRaw], Kernel(c, r, w)
    PROVE  DInv'
  <1> DEFINE Written(i) == IF i \in DOMAIN w THEN [memory[c][i] EXCEPT !.written = w[i]]
                           ELSE memory[c][i]
  <1>1. Maps /\ CallSound(c) /\ stage[c] = "entered"
    BY DEF DInv, Kernel
  <1>2. CallTyped(c) /\ DOMAIN memory[c] = DOMAIN shape[c].params
    BY <1>1 DEF CallSound, CallTyped
  <1>3. /\ stage' = [stage EXCEPT ![c] = "returned"]
        /\ result' = [result EXCEPT ![c] = r]
        /\ memory' = [memory EXCEPT ![c] = [i \in DOMAIN memory[c] |-> Written(i)]]
        /\ UNCHANGED <<shape, raw, args, ret, ctx, raised>>
        /\ \A i \in DOMAIN w : Fills(c, i, r, w[i])
    BY DEF Kernel
  <1>4. /\ stage'[c] = "returned" /\ result'[c] = r
        /\ DOMAIN memory' = Calls
        /\ memory'[c] = [i \in DOMAIN memory[c] |-> Written(i)]
    BY <1>1, <1>3 DEF Maps
  <1>5. Maps'
    BY <1>1, <1>3, <1>4 DEF Maps, Stages
  <1>6. \A d \in Calls \ {c} : Same(d)
    BY <1>1, <1>3 DEF Same, Maps
  <1>7. ASSUME NEW i \in DOMAIN shape[c].params
        PROVE  /\ memory'[c][i] \in Regions
               /\ IsOut(c, i) => i \in DOMAIN w /\ memory'[c][i].written = w[i]
    <2>1. memory[c][i] \in Regions /\ memory'[c][i] = Written(i)
      BY <1>2, <1>4 DEF CallTyped
    <2>2. IsOut(c, i) <=> i \in DOMAIN w
      BY <1>2
    <2>3. CASE i \in DOMAIN w
      BY <2>1, <2>2, <2>3 DEF Regions
    <2>4. CASE i \notin DOMAIN w
      BY <2>1, <2>2, <2>4
    <2> QED
      BY <2>3, <2>4
  <1>8. \A i : /\ Chosen(c, i)' = Chosen(c, i)
               /\ Units(c, i)' = Units(c, i)
               /\ IsOut(c, i)' = IsOut(c, i)
               /\ ShowsData(c, i)' = ShowsData(c, i)
    BY <1>3 DEF Chosen, Units, IsOut, ShowsData
  <1>9. CallTyped(c)'
    BY <1>2, <1>3, <1>4, <1>7 DEF CallTyped
  <1>10. ASSUME NEW i \in DOMAIN shape[c].params
         PROVE  EntrySound(c, i)' /\ KernelSound(c, i)' /\ ExitSound(c, i)'
    <2>1. EntrySound(c, i)
      BY <1>1 DEF CallSound
    <2>2. EntrySound(c, i)'
      BY <2>1, <1>1, <1>3, <1>4, <1>8 DEF EntrySound
    <2>3. KernelSound(c, i)'
      <3> SUFFICES ASSUME IsOut(c, i), r # -1, shape[c].counting, Chosen(c, i).class \in Bounded
                   PROVE  memory'[c][i].written = r
        BY <1>3, <1>4, <1>8 DEF KernelSound
      <3>1. shape[c].fails = "minus"
        BY <1>2, DecodeAssumption DEF CallTyped
      <3>2. Fills(c, i, r, w[i]) /\ memory'[c][i].written = w[i]
        BY <1>3, <1>7
      <3> QED
        BY <3>1, <3>2 DEF Fills, Fails
    <2>4. ExitSound(c, i)'
      BY <1>4 DEF ExitSound
    <2> QED
      BY <2>2, <2>3, <2>4
  <1>11. CallSound(c)'
    BY <1>3, <1>9, <1>10 DEF CallSound
  <1> QED
    BY <1>5, <1>6, <1>11, OthersSound DEF DInv

LEMMA MeddleNext ==
    ASSUME DInv, NEW c \in Calls, NEW j \in DOMAIN memory[c], Meddle(c, j)
    PROVE  DInv'
  <1>1. Maps /\ CallSound(c) /\ stage[c] \in {"entered", "returned"}
    BY DEF DInv, Meddle
  <1>2. CallTyped(c) /\ DOMAIN memory[c] = DOMAIN shape[c].params
    BY <1>1 DEF CallSound, CallTyped
  <1>3. UNCHANGED <<stage, shape, raw, result, args, ret, ctx, raised>>
    BY DEF Meddle
  <1>4. \/ memory' = [memory EXCEPT ![c] = [memory[c] EXCEPT ![j] = [memory[c][j] EXCEPT !.changed = TRUE]]]
        \/ memory' = [memory EXCEPT ![c] = [memory[c] EXCEPT ![j] = [memory[c][j] EXCEPT !.status = "unmapped"]]]
    BY DEF Meddle
  <1>5. /\ DOMAIN memory' = Calls
        /\ \A d \in Calls \ {c} : memory'[d] = memory[d]
    BY <1>1, <1>4 DEF Maps
  <1>6. /\ memory'[c] \in [DOMAIN shape[c].params -> Regions]
        /\ \A i \in DOMAIN shape[c].params : memory'[c][i].written = memory[c][i].written
    <2>1. /\ [memory[c][j] EXCEPT !.changed = TRUE] \in Regions
          /\ [memory[c][j] EXCEPT !.changed = TRUE].written = memory[c][j].written
          /\ [memory[c][j] EXCEPT !.status = "unmapped"] \in Regions
          /\ [memory[c][j] EXCEPT !.status = "unmapped"].written = memory[c][j].written
      BY <1>2 DEF CallTyped, Regions
    <2>2. PICK q \in Regions : /\ memory' = [memory EXCEPT ![c] = [memory[c] EXCEPT ![j] = q]]
                               /\ q.written = memory[c][j].written
      BY <1>4, <2>1
    <2>3. memory'[c] = [memory[c] EXCEPT ![j] = q]
      BY <1>1, <2>2 DEF Maps
    <2> QED
      BY <1>2, <2>2, <2>3 DEF CallTyped
  <1>7. Maps'
    BY <1>1, <1>3, <1>5 DEF Maps
  <1>8. \A d \in Calls \ {c} : Same(d)
    BY <1>3, <1>5 DEF Same
  <1>9. \A i : /\ Chosen(c, i)' = Chosen(c, i)
               /\ Units(c, i)' = Units(c, i)
               /\ IsOut(c, i)' = IsOut(c, i)
               /\ ShowsData(c, i)' = ShowsData(c, i)
    BY <1>3 DEF Chosen, Units, IsOut, ShowsData
  <1>10. CallTyped(c)'
    BY <1>2, <1>3, <1>6 DEF CallTyped
  <1>11. ASSUME NEW i \in DOMAIN shape[c].params
         PROVE  EntrySound(c, i)' /\ KernelSound(c, i)' /\ ExitSound(c, i)'
    <2>1. EntrySound(c, i) /\ KernelSound(c, i)
      BY <1>1 DEF CallSound
    <2>2. EntrySound(c, i)'
      BY <2>1, <1>3, <1>9 DEF EntrySound
    <2>3. KernelSound(c, i)'
      BY <2>1, <1>3, <1>6, <1>9 DEF KernelSound
    <2>4. ExitSound(c, i)'
      BY <1>1, <1>3 DEF ExitSound
    <2> QED
      BY <2>2, <2>3, <2>4
  <1>12. CallSound(c)'
    BY <1>3, <1>10, <1>11 DEF CallSound
  <1> QED
    BY <1>7, <1>8, <1>12, OthersSound DEF DInv

\* A call is seen to have succeeded only if it has, and with its own result.
LEMMA SucceededFacts ==
    ASSUME NEW c, NEW r \in ReturnValues(c)
    PROVE  /\ Succeeded(r) => r.value = result[c] /\ result[c] # -1 /\ result[c] >= 0
           /\ r.kind = "int" /\ result[c] >= 0 => Succeeded(r)
  BY DEF ReturnValues, Succeeded, NoReturn

\* What argument i may be shown as once c has returned successfully.
ShownSoundly(c, i, a) ==
    /\ a \in Shown
    /\ a.form = "data" =>
          /\ a.len <= Units(c, i)
          /\ Chosen(c, i).dir = "IN" => ~a.changed
          /\ /\ IsOut(c, i)
             /\ shape[c].counting /\ result[c] # 0 /\ Chosen(c, i).class \in Bounded
             => a.len <= a.written
    /\ /\ IsOut(c, i) /\ raw[c][i] # 0 /\ memory[c][i].status = "ok"
       /\ Units(c, i) \in 1..CountCap
       => a.form = "data"

\* What the second decoding makes of an argument of a call that succeeded.
LEMMA ExitArgument ==
    ASSUME DInv, NEW c \in Calls, stage[c] = "returned", NEW i \in DOMAIN shape[c].params,
           NEW x, x.args = raw[c], x.atEntry = FALSE, x.ret = result[c], result[c] \in 0..MaxRaw,
           NEW g, g = ParamDecode(shape[c].params[i], x, raw[c][i], memory[c][i]), g # Raise
    PROVE  ShownSoundly(c, i, IF g = Keep THEN args[c][i] ELSE g)
  <1> DEFINE a == IF g = Keep THEN args[c][i] ELSE g
  <1> DEFINE s == shape[c]
             p == s.params[i]
             q == Chosen(c, i)
             m == memory[c][i]
  <1>1. CallTyped(c) /\ EntrySound(c, i) /\ KernelSound(c, i)
    BY DEF DInv, CallSound
  <1>2. /\ Simple(p, s) \/ Varying(p, s)
        /\ q = Picked(p, raw[c])
        /\ Units(c, i) = Measure(q, raw[c])
        /\ Units(c, i) \in 0..MaxRaw
    BY <1>1, ChosenFacts DEF CallTyped
  <1>3. /\ raw[c][i] \in 0..MaxRaw /\ m \in Regions
        /\ x.args \in [DOMAIN s.params -> 0..MaxRaw]
        /\ x.ret \in -1..MaxRaw /\ x.ret \in 0..MaxRaw /\ x.atEntry \in BOOLEAN
        /\ args[c][i] \in Shown
    <2>1. raw[c][i] \in 0..MaxRaw /\ m \in Regions /\ args[c][i] \in Shown
      BY <1>1 DEF CallTyped
    <2>2. x.args \in [DOMAIN s.params -> 0..MaxRaw]
      BY <1>1 DEF CallTyped
    <2>3. x.ret \in 0..MaxRaw
      OBVIOUS
    <2>4. x.ret \in -1..MaxRaw
      BY <2>3, DecodeAssumption
    <2>5. x.atEntry \in BOOLEAN
      OBVIOUS
    <2> HIDE DEF m, s
    <2> QED
      BY <2>1, <2>2, <2>3, <2>4, <2>5
  <1>4. g \in Plains \/ ReadsSoundly(q, x, m, g)
    <2> HIDE DEF p, q, m, s
    <2> QED
      BY <1>2, <1>3, ParamDecodes DEF p, m, s
  <1>5. /\ IsOut(c, i) /\ raw[c][i] # 0 /\ m.status = "ok" /\ Units(c, i) \in 1..CountCap
        => g.form = "data"
    <2> SUFFICES ASSUME IsOut(c, i), raw[c][i] # 0, m.status = "ok", Units(c, i) \in 1..CountCap
                 PROVE  g.form = "data"
      OBVIOUS
    <2>1. Picked(p, x.args).dir = "OUT" /\ Measure(Picked(p, x.args), x.args) \in 1..CountCap
      BY <1>2 DEF IsOut
    <2> HIDE DEF p, q, m, s
    <2>2. ContextTyped(x, s) /\ ~x.atEntry
      BY <1>3 DEF ContextTyped
    <2>3. ParamDecode(p, x, raw[c][i], m).form = "data"
      BY <1>2, <2>1, <2>2, OutputReads
    <2> QED
      BY <2>3 DEF p, m, s
  <1>6. CASE g = Keep
    <2>1. a = args[c][i] /\ g.form # "data"
      BY <1>6, Forms DEF Plains
    <2>2. a.form = "data" => /\ a.len <= Units(c, i)
                             /\ ~IsOut(c, i)
                             /\ Chosen(c, i).dir = "IN" => ~a.changed
      BY <1>1, <2>1 DEF EntrySound, ShowsData
    <2> QED
      BY <1>3, <1>5, <2>1, <2>2 DEF ShownSoundly
  <1>7. CASE g \in Plains /\ g # Keep
    <2>1. a = g /\ a.form # "data" /\ a \in Shown
      BY <1>7, Forms DEF Plains, Shown
    <2> QED
      BY <1>5, <2>1 DEF ShownSoundly
  <1>8. ASSUME NEW n \in 0..MaxRaw, g = Data(m, n), n <= Measure(q, x.args),
               q.dir # "IN",
               0 < x.ret /\ q.class \in Bounded => n <= x.ret
        PROVE  /\ a \in Shown
               /\ a.form = "data"
               /\ a.len <= Units(c, i)
               /\ Chosen(c, i).dir = "IN" => ~a.changed
               /\ /\ IsOut(c, i)
                  /\ shape[c].counting /\ result[c] # 0 /\ Chosen(c, i).class \in Bounded
                  => a.len <= a.written
    <2>1. a = Data(m, n)
      BY <1>8, Forms
    <2>2. /\ a.form = "data" /\ a.len = n
          /\ a.written = IF n < m.written THEN n ELSE m.written
      BY <2>1, Forms
    <2>3. a \in Shown /\ n <= Units(c, i)
      BY <1>2, <1>3, <1>8, <2>1, DataShown
    <2>5. ASSUME IsOut(c, i), s.counting, result[c] # 0, q.class \in Bounded
          PROVE  n <= m.written
      <3>1. m.written = result[c] /\ 0 < x.ret /\ x.ret = result[c]
        BY <1>1, <2>5 DEF KernelSound
      <3> QED
        BY <1>8, <2>5, <3>1
    <2>6. m.written \in 0..MaxRaw
      BY <1>3 DEF Regions
    <2> QED
      BY <1>8, <2>2, <2>3, <2>5, <2>6
  <1>9. CASE ReadsSoundly(q, x, m, g)
    <2>1. PICK n \in 0..MaxRaw : /\ g = Data(m, n)
                                 /\ n <= Measure(q, x.args)
                                 /\ q.dir # "IN"
                                 /\ 0 < x.ret /\ q.class \in Bounded => n <= x.ret
      BY <1>9 DEF ReadsSoundly
    <2> QED
      BY <1>8, <2>1 DEF ShownSoundly
  <1> QED
    BY <1>4, <1>6, <1>7, <1>9

LEMMA ExitNext ==
    ASSUME DInv, NEW c \in Calls, NEW r \in Returns, Exit(c, r)
    PROVE  DInv'
  <1>1. Maps /\ CallSound(c) /\ stage[c] = "returned" /\ r \in ReturnValues(c)
    BY DEF DInv, Exit
  <1>2. CallTyped(c)
    BY <1>1 DEF CallSound
  <1>3. UNCHANGED <<shape, raw, memory, result>> /\ ret' = [ret EXCEPT ![c] = r]
    BY DEF Exit
  <1>4. ret' \in [Calls -> Returns] /\ ret'[c] = r /\ \A d \in Calls \ {c} : ret'[d] = ret[d]
    BY <1>1, <1>3 DEF Maps
  <1>5. \A i : /\ Chosen(c, i)' = Chosen(c, i)
               /\ Units(c, i)' = Units(c, i)
               /\ IsOut(c, i)' = IsOut(c, i)
    BY <1>3 DEF Chosen, Units, IsOut
  <1>6. \A i \in DOMAIN shape[c].params : EntrySound(c, i) /\ KernelSound(c, i)
    BY <1>1 DEF CallSound
  <1>7. ASSUME stage' = [stage EXCEPT ![c] = "written"]
        PROVE  /\ stage' \in [Calls -> Stages] /\ stage'[c] = "written"
               /\ \A d \in Calls \ {c} : stage'[d] = stage[d]
    BY <1>1, <1>7 DEF Maps, Stages
  <1>8. ASSUME stage'[c] \in {"returned", "written"}
        PROVE  \A i \in DOMAIN shape[c].params : KernelSound(c, i)'
    BY <1>1, <1>3, <1>5, <1>6, <1>8 DEF KernelSound
  <1>9. CASE ~Succeeded(r)
    <2>1. stage' = [stage EXCEPT ![c] = "written"] /\ UNCHANGED <<args, ctx, raised>>
      BY <1>9 DEF Exit
    <2>2. Maps'
      BY <1>1, <1>3, <1>4, <1>7, <2>1 DEF Maps
    <2>3. \A d \in Calls \ {c} : Same(d)
      BY <1>3, <1>4, <1>7, <2>1 DEF Same
    <2>4. CallTyped(c)'
      BY <1>2, <1>3, <2>1 DEF CallTyped
    <2>5. ASSUME NEW i \in DOMAIN shape[c].params
          PROVE  EntrySound(c, i)' /\ ExitSound(c, i)'
      <3>1. ShowsData(c, i)' = ShowsData(c, i)
        BY <2>1 DEF ShowsData
      <3>2. EntrySound(c, i)'
        BY <1>5, <1>6, <1>7, <2>1, <3>1 DEF EntrySound
      <3>3. IsOut(c, i)' => ~ShowsData(c, i)'
        BY <1>1, <1>5, <1>6, <3>1 DEF EntrySound
      <3>4. ~(ret'[c].kind = "int" /\ result'[c] >= 0)
        BY <1>1, <1>3, <1>4, <1>9, SucceededFacts
      <3>5. ExitSound(c, i)'
        BY <3>3, <3>4 DEF ExitSound
      <3> QED
        BY <3>2, <3>5
    <2>6. CallSound(c)'
      BY <1>3, <1>7, <1>8, <2>1, <2>4, <2>5 DEF CallSound
    <2> QED
      BY <2>2, <2>3, <2>6, OthersSound DEF DInv
  <1> DEFINE x == [args |-> raw[c], atEntry |-> FALSE, ret |-> r.value]
             g == [i \in DOMAIN shape[c].params |->
                      ParamDecode(shape[c].params[i], x, raw[c][i], memory[c][i])]
  <1>10. ASSUME Succeeded(r)
         PROVE  ctx' = x /\ Decoded(c, ctx') = g
    <2>1. ctx' = x
      BY <1>10 DEF Exit, ExitContext
    <2>2. Decoded(c, x) = g
      BY <1>3 DEF Decoded
    <2> QED
      BY <2>1, <2>2
  <1>11. ctx' = x => ctx'.atEntry \in BOOLEAN
    OBVIOUS
  <1>12. /\ x.args = raw[c] /\ x.atEntry = FALSE /\ x.ret = r.value
         /\ DOMAIN g = DOMAIN shape[c].params
         /\ \A i \in DOMAIN shape[c].params :
               g[i] = ParamDecode(shape[c].params[i], x, raw[c][i], memory[c][i])
    OBVIOUS
  <1> HIDE DEF g, x
  <1>13. CASE Succeeded(r) /\ Raise \in Range(g)
    <2>1. raised' = TRUE /\ UNCHANGED <<stage, args>>
      BY <1>10, <1>13 DEF Exit
    <2>2. Maps'
      BY <1>1, <1>3, <1>4, <1>10, <1>11, <1>13, <2>1 DEF Maps
    <2>3. \A d \in Calls \ {c} : Same(d)
      BY <1>3, <1>4, <2>1 DEF Same
    <2>4. CallTyped(c)'
      BY <1>2, <1>3, <2>1 DEF CallTyped
    <2>5. ASSUME NEW i \in DOMAIN shape[c].params
          PROVE  EntrySound(c, i)' /\ ExitSound(c, i)'
      <3>1. ShowsData(c, i)' = ShowsData(c, i)
        BY <2>1 DEF ShowsData
      <3>2. EntrySound(c, i)'
        BY <1>5, <1>6, <2>1, <3>1 DEF EntrySound
      <3>3. ExitSound(c, i)'
        BY <1>1, <2>1 DEF ExitSound
      <3> QED
        BY <3>2, <3>3
    <2>6. CallSound(c)'
      BY <1>1, <1>3, <1>8, <2>1, <2>4, <2>5 DEF CallSound
    <2> QED
      BY <2>2, <2>3, <2>6, OthersSound DEF DInv
  <1>14. CASE Succeeded(r) /\ Raise \notin Range(g)
    <2>1. /\ stage' = [stage EXCEPT ![c] = "written"]
          /\ args' = [args EXCEPT ![c] =
                [i \in DOMAIN g |-> IF g[i] = Keep THEN args[c][i] ELSE g[i]]]
          /\ UNCHANGED raised
      BY <1>10, <1>14 DEF Exit
    <2>2. /\ DOMAIN args' = Calls
          /\ args'[c] = [i \in DOMAIN shape[c].params |-> IF g[i] = Keep THEN args[c][i] ELSE g[i]]
          /\ \A d \in Calls \ {c} : args'[d] = args[d]
      BY <1>1, <1>12, <2>1 DEF Maps
    <2>3. Maps'
      BY <1>1, <1>3, <1>4, <1>7, <1>10, <1>11, <1>14, <2>1, <2>2 DEF Maps
    <2>4. \A d \in Calls \ {c} : Same(d)
      BY <1>3, <1>4, <1>7, <2>1, <2>2 DEF Same
    <2>5. r.value = result[c] /\ result[c] # -1 /\ result[c] \in 0..MaxRaw
      BY <1>1, <1>14, SucceededFacts, DecodeAssumption DEF Maps
    <2>6. ASSUME NEW i \in DOMAIN shape[c].params
          PROVE  args'[c][i] \in Shown /\ EntrySound(c, i)' /\ ExitSound(c, i)'
      <3> DEFINE a == args'[c][i]
      <3>1. a = IF g[i] = Keep THEN args[c][i] ELSE g[i]
        BY <2>2
      <3>2. g[i] # Raise
        BY <1>12, <1>14 DEF Range
      <3>3. g[i] = ParamDecode(shape[c].params[i], x, raw[c][i], memory[c][i])
        BY <1>12
      <3>4. x.args = raw[c] /\ x.atEntry = FALSE /\ x.ret = result[c]
        BY <1>12, <2>5
      <3> HIDE DEF a
      <3>5. ShownSoundly(c, i, a)
        BY <1>1, <2>5, <3>1, <3>2, <3>3, <3>4, ExitArgument
      <3>6. a = args'[c][i] /\ ShowsData(c, i)' = (a.form = "data")
        BY DEF a, ShowsData
      <3>7. EntrySound(c, i)'
        BY <1>5, <1>7, <2>1, <3>5, <3>6 DEF EntrySound, ShownSoundly
      <3>8. ExitSound(c, i)'
        BY <1>3, <1>5, <2>5, <3>5, <3>6 DEF ExitSound, ShownSoundly
      <3> QED
        BY <3>5, <3>6, <3>7, <3>8 DEF ShownSoundly
    <2>7. CallTyped(c)'
      BY <1>2, <1>3, <2>2, <2>6 DEF CallTyped
    <2>8. CallSound(c)'
      BY <1>3, <1>7, <1>8, <2>1, <2>6, <2>7 DEF CallSound
    <2> QED
      BY <2>3, <2>4, <2>8, OthersSound DEF DInv
  <1> QED
    BY <1>9, <1>13, <1>14

LEMMA DInvNext == DInv /\ [Next]_vars => DInv'
  <1> SUFFICES ASSUME DInv, [Next]_vars PROVE DInv'
    OBVIOUS
  <1>1. ASSUME NEW c \in Calls, NEW s \in Shapes[c], NEW k \in Statuses(s),
               NEW v \in [DOMAIN s.params -> 0..MaxRaw],
               Enter(c, s, v, [i \in DOMAIN s.params |-> Untouched(k)])
        PROVE  DInv'
    <2> DEFINE m == [i \in DOMAIN s.params |-> Untouched(k)]
    <2>1. 0 \in 0..MaxRaw
      BY DecodeAssumption
    <2>2. Untouched(k) \in Regions /\ ~Untouched(k).changed
      BY <2>1 DEF Untouched, Regions, Statuses
    <2>3. m \in [DOMAIN s.params -> Regions] /\ \A i \in DOMAIN s.params : ~m[i].changed
      BY <2>2
    <2> HIDE DEF m
    <2>4. Enter(c, s, v, m)
      BY <1>1 DEF m
    <2> QED
      BY <2>3, <2>4, EnterNext
  <1>2. ASSUME NEW c \in Calls, NEW r \in -1..MaxRaw,
               NEW w \in [{i \in DOMAIN memory[c] : IsOut(c, i)} -> 0..MaxRaw], Kernel(c, r, w)
        PROVE  DInv'
    BY <1>2, KernelNext
  <1>3. ASSUME NEW c \in Calls, NEW i \in DOMAIN memory[c], Meddle(c, i)
        PROVE  DInv'
    BY <1>3, MeddleNext
  <1>4. ASSUME NEW c \in Calls, NEW r \in Returns, Exit(c, r)
        PROVE  DInv'
    BY <1>4, ExitNext
  <1>5. CASE UNCHANGED vars
    <2>1. \A c \in Calls : Same(c)
      BY <1>5 DEF vars, Same
    <2>2. \A c \in Calls : CallSound(c)'
      BY <2>1, SameSound DEF DInv
    <2>3. Maps'
      BY <1>5 DEF vars, DInv, Maps
    <2> QED
      BY <2>2, <2>3 DEF DInv
  <1>6. CASE Next
    BY <1>1, <1>2, <1>3, <1>4, <1>6 DEF Next
  <1> QED
    BY <1>5, <1>6

LEMMA DInvAlways == Spec => []DInv
  BY DInvInit, DInvNext, PTL DEF Spec

-----------------------------------------------------------------------------
\* What the invariant gives for each property.
LEMMA DInvImplies ==
    ASSUME DInv
    PROVE  /\ TypeOK /\ OutputIsWritten /\ NothingOnFailure
           /\ InputAsPassed /\ SizeIsOwn /\ OutputIsShown
  <1>1. Maps /\ \A c \in Calls : CallSound(c)
    BY DEF DInv
  <1>2. ASSUME NEW c \in Calls, stage[c] # "idle"
        PROVE  /\ CallTyped(c) /\ DOMAIN args[c] = DOMAIN shape[c].params
               /\ \A i \in DOMAIN args[c] : EntrySound(c, i) /\ ExitSound(c, i)
    BY <1>1, <1>2 DEF CallSound, CallTyped
  <1>3. TypeOK
    BY <1>1, <1>2 DEF TypeOK, CallTyped, Maps
  <1>4. OutputIsWritten
    BY <1>2 DEF OutputIsWritten, Finished, ExitSound
  <1>5. NothingOnFailure
    BY <1>2 DEF NothingOnFailure, Finished, ExitSound
  <1>6. InputAsPassed
    BY <1>2 DEF InputAsPassed, EntrySound
  <1>7. SizeIsOwn
    BY <1>2 DEF SizeIsOwn, EntrySound
  <1>8. OutputIsShown
    BY <1>2 DEF OutputIsShown, Finished, ExitSound
  <1> QED
    BY <1>3, <1>4, <1>5, <1>6, <1>7, <1>8

\* What an event holds of a call is a member of its type: an argument for every
\* parameter of the definition (tracer.py 669-713).
THEOREM DecodeTypeCorrect == Spec => []TypeOK
  BY DInvAlways, DInvImplies, PTL

\* The output of a call that returns how much it wrote is not shown longer than
\* that, whatever the number of calls under way and the sizes they ask for
\* (definitions/__init__.py 578-586).
THEOREM OutputWritten == Spec => []OutputIsWritten
  BY DInvAlways, DInvImplies, PTL

\* A call that returns -1 shows none of its output, whatever it is of and
\* whatever else is under way (tracer.py 550-554).
THEOREM FailureShowsNothing == Spec => []NothingOnFailure
  BY DInvAlways, DInvImplies, PTL

\* What has a direction filter and is input is decoded once, at the entry, so
\* that what another thread does to it later is not shown
\* (definitions/__init__.py 442-445).  What has none may be read again.
THEOREM InputPassed == Spec => []InputAsPassed
  BY DInvAlways, DInvImplies, PTL

\* The shared context holds the arguments of the call that is being decoded
\* (tracer.py 704-708, 729-733).
THEOREM SizesOwn == Spec => []SizeIsOwn
  BY DInvAlways, DInvImplies, PTL

\* A call that is seen to succeed shows every output that can be read
\* (tracer.py 550-554).
THEOREM OutputShown == Spec => []OutputIsShown
  BY DInvAlways, DInvImplies, PTL
=============================================================================
