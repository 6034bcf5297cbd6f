--------------------------- MODULE ChatTurn_proofs ---------------------------
(***************************************************************************)
(* Proofs about the stream of a turn and the page that reads it, for any   *)
(* number of nodes, events and prompts.                                    *)
(*                                                                         *)
(* The argument: the events that the graph streamed and nobody took are    *)
(* numbered without a gap from the one the runtime expects (Numbered in    *)
(* RunInv), so it drops none of them; what was sent and the item in hand   *)
(* are together what was expected so far (WireInv); and a stream that      *)
(* ended with its client there ended with an answer or without an output   *)
(* (DoneInv).  For the page, the question of a turn in progress is the     *)
(* newest message until its answer is (PageInv).                           *)
(***************************************************************************)
EXTENDS ChatTurn, SequenceTheorems, TLAPS

IsTerminal(p) == p.kind = "event" /\ p.type # "activity"

\* The events in ps have the numbers from m up to n - 1, in order.
Numbered(ps, m, n) ==
    /\ m <= n
    /\ \A i \in DOMAIN ps : ps[i].kind = "event" => ps[i].number \in m .. n - 1
    /\ \A i, j \in DOMAIN ps :
          i < j /\ ps[i].kind = "event" /\ ps[j].kind = "event"
             => ps[i].number < ps[j].number
    /\ \A k \in m .. n - 1 :
          \E i \in DOMAIN ps : ps[i].kind = "event" /\ ps[i].number = k

\* The number of the next event.
Streamed == IF node = "guarded" /\ busy THEN journal ELSE history

FinalType == IF failing THEN "response.failed" ELSE "response.completed"

\* While the generator goes on: the run, and what it streamed.
RunInv ==
    /\ node \in {"start", "initialize", "guarded"} => path > 0
    /\ phase \in {"new", "loop"} /\ pending \notin {"stop", "error"} =>
        /\ node \in {"start", "over", "raised"} \cup InProgress
        /\ node \in {"start", "initialize"} => history = 0
        /\ node = "start" => ~busy /\ parts = <<>>
        /\ busy => node \in InProgress
        /\ busy /\ node # "guarded" => parts = <<>>
        /\ node \in {"start"} \cup InProgress =>
             /\ ~ended
             /\ Numbered(parts, expected, Streamed)
             /\ \A i \in DOMAIN parts : ~IsTerminal(parts[i])
        /\ node = "raised" =>
             /\ ended => parts = <<>>
             /\ \A i \in DOMAIN parts :
                  IsTerminal(parts[i]) => Len(parts) = 1 /\ parts[i].type = FinalType
        /\ node = "over" =>
             \/ /\ ~ended /\ history = expected + 1
                /\ parts = <<Event(FinalType, expected), Values(This)>>
             \/ ended /\ history = expected /\ parts = <<Values(This)>>
             \/ /\ ended /\ history = expected /\ parts = <<>>
                /\ pending = "item" /\ item = Values(This)
        /\ asked = 0 => node = "start" /\ pending = "none"
        /\ asked = 1 /\ pending = "asked" =>
             /\ node \in {"start", "initialize", "guarded", "raised"}
             /\ node = "guarded" => ~busy /\ history = 2 /\ expected = 0

\* What was sent so far, and what is in hand.
WireInv ==
    /\ phase = "new" =>
         /\ wire = <<>> /\ pending = "none" /\ held = "none" /\ node = "start"
         /\ expected = 0 /\ ~ended
    /\ phase # "loop" => pending \in {"none", "item"}
    /\ \A i \in DOMAIN wire : wire[i].sequence = i - 1
    /\ phase = "loop" =>
         /\ wire # <<>> /\ wire[1].type = "stream.started"
         /\ \A i \in 2 .. Len(wire) : wire[i].type = "activity"
         /\ pending \in {"stop", "error"} => node \in {"refused", "closed", "raised"}
         /\ held \in {"none", FinalType}
         /\ (held # "none") = (ended /\ ~(pending = "item" /\ item.kind = "event"))
         /\ ended => node \in {"over", "raised", "closed"}
         /\ Len(wire) = IF ended \/ pending = "item" THEN expected ELSE expected + 1
         /\ pending = "item" /\ item.kind = "event" =>
              /\ ended = IsTerminal(item)
              /\ IsTerminal(item) => item.type = FinalType
         /\ pending = "item" /\ item.kind = "values" =>
              node = "over" /\ ended /\ item = Values(This) /\ history = expected

\* What a stream that is over was.
DoneInv ==
    phase \in {"closing", "closed"} =>
        /\ Answered =>
             /\ node = "over" /\ Len(wire) = history + 1
             /\ \A i \in 2 .. Len(wire) - 1 : wire[i].type = "activity"
        /\ client = "here" =>
             /\ node \in {"refused", "closed", "raised", "over"}
             /\ node = "over" => Answered

StreamInv == TypeOK /\ RunInv /\ WireInv /\ DoneInv

-----------------------------------------------------------------------------
(* Sequences of parts.                                                     *)

LEMMA NumberedEmpty ==
    ASSUME NEW m \in Nat, NEW n \in Nat
    PROVE  Numbered(<<>>, m, n) <=> m = n
  BY DEF Numbered

LEMMA NumberedEvent ==
    ASSUME NEW ps \in Seq(Parts), NEW m \in Nat, NEW n \in Nat, NEW p \in Parts,
           Numbered(ps, m, n), p.kind = "event", p.number = n
    PROVE  Numbered(Append(ps, p), m, n + 1)
<1> DEFINE qs == Append(ps, p)
<1>1. /\ Len(qs) = Len(ps) + 1 /\ DOMAIN qs = 1 .. Len(ps) + 1
      /\ \A i \in 1 .. Len(ps) : qs[i] = ps[i]
      /\ qs[Len(ps) + 1] = p /\ DOMAIN ps = 1 .. Len(ps) /\ Len(ps) \in Nat
  BY AppendProperties
<1> HIDE DEF qs
<1>2. \A i \in DOMAIN qs : qs[i].kind = "event" => qs[i].number \in m .. (n + 1) - 1
  BY <1>1 DEF Numbered
<1>3. \A i, j \in DOMAIN qs :
          i < j /\ qs[i].kind = "event" /\ qs[j].kind = "event"
             => qs[i].number < qs[j].number
  BY <1>1 DEF Numbered
<1>4. \A k \in m .. (n + 1) - 1 :
          \E i \in DOMAIN qs : qs[i].kind = "event" /\ qs[i].number = k
  <2> TAKE k \in m .. (n + 1) - 1
  <2>1. CASE k = n
    BY <1>1, <2>1
  <2>2. CASE k # n
    <3>1. PICK i \in DOMAIN ps : ps[i].kind = "event" /\ ps[i].number = k
      BY <2>2 DEF Numbered
    <3>2. i \in DOMAIN qs /\ qs[i] = ps[i]
      BY <1>1
    <3> QED BY <3>1, <3>2, Zenon
  <2> QED BY <2>1, <2>2
<1>5. Numbered(qs, m, n + 1)
  BY <1>2, <1>3, <1>4 DEF Numbered
<1> QED BY <1>5 DEF qs

LEMMA NumberedValues ==
    ASSUME NEW ps \in Seq(Parts), NEW m \in Nat, NEW n \in Nat, NEW p \in Parts,
           Numbered(ps, m, n), p.kind = "values"
    PROVE  Numbered(Append(ps, p), m, n)
<1> DEFINE qs == Append(ps, p)
<1>1. /\ Len(qs) = Len(ps) + 1 /\ DOMAIN qs = 1 .. Len(ps) + 1
      /\ \A i \in 1 .. Len(ps) : qs[i] = ps[i]
      /\ qs[Len(ps) + 1] = p /\ DOMAIN ps = 1 .. Len(ps) /\ Len(ps) \in Nat
  BY AppendProperties
<1> HIDE DEF qs
<1>2. \A i \in DOMAIN qs : qs[i].kind = "event" => i \in DOMAIN ps /\ qs[i] = ps[i]
  <2> SUFFICES ASSUME NEW i \in DOMAIN qs, qs[i].kind = "event"
               PROVE  i \in DOMAIN ps /\ qs[i] = ps[i]
    OBVIOUS
  <2>1. i # Len(ps) + 1 /\ i \in 1 .. Len(ps) + 1
    BY <1>1
  <2>2. i \in 1 .. Len(ps)
    BY <1>1, <2>1
  <2> QED BY <1>1, <2>2
<1>3. /\ \A i \in DOMAIN qs : qs[i].kind = "event" => qs[i].number \in m .. n - 1
      /\ \A i, j \in DOMAIN qs :
            i < j /\ qs[i].kind = "event" /\ qs[j].kind = "event"
               => qs[i].number < qs[j].number
  BY <1>2 DEF Numbered
<1>4. \A k \in m .. n - 1 :
          \E i \in DOMAIN qs : qs[i].kind = "event" /\ qs[i].number = k
  <2> TAKE k \in m .. n - 1
  <2>1. PICK i \in DOMAIN ps : ps[i].kind = "event" /\ ps[i].number = k
    BY DEF Numbered
  <2>2. i \in DOMAIN qs /\ qs[i] = ps[i]
    BY <1>1
  <2> QED BY <2>1, <2>2
<1>5. Numbered(qs, m, n)
  BY <1>3, <1>4 DEF Numbered
<1> QED BY <1>5 DEF qs

\* The first event is the one expected.
LEMMA NumberedHead ==
    ASSUME NEW ps \in Seq(Parts), NEW m \in Nat, NEW n \in Nat,
           Numbered(ps, m, n), ps # <<>>
    PROVE  /\ Head(ps).kind = "event" =>
                Head(ps).number = m /\ Numbered(Tail(ps), m + 1, n)
           /\ Head(ps).kind # "event" => Numbered(Tail(ps), m, n)
<1> DEFINE qs == Tail(ps)
<1>1. /\ Len(qs) = Len(ps) - 1 /\ DOMAIN qs = 1 .. Len(ps) - 1
      /\ \A i \in 1 .. Len(qs) : qs[i] = ps[i + 1]
      /\ DOMAIN ps = 1 .. Len(ps) /\ Len(ps) \in Nat /\ Len(ps) > 0
      /\ Head(ps) = ps[1] /\ ps[1] \in Parts
  BY HeadTailProperties, EmptySeq
<1> HIDE DEF qs
<1>2. \A i \in DOMAIN qs : i + 1 \in DOMAIN ps /\ qs[i] = ps[i + 1]
  BY <1>1
<1>3. \A i, j \in DOMAIN qs :
          i < j /\ qs[i].kind = "event" /\ qs[j].kind = "event"
             => qs[i].number < qs[j].number
  <2> TAKE i, j \in DOMAIN qs
  <2> HAVE i < j /\ qs[i].kind = "event" /\ qs[j].kind = "event"
  <2>1. i + 1 \in DOMAIN ps /\ j + 1 \in DOMAIN ps /\ i + 1 < j + 1
    BY <1>1, <1>2
  <2> QED BY <2>1, <1>2 DEF Numbered
<1>4. ASSUME Head(ps).kind = "event"
      PROVE  Head(ps).number = m /\ Numbered(qs, m + 1, n)
  <2>1. ps[1].number \in m .. n - 1
    BY <1>1, <1>4 DEF Numbered
  <2>2. PICK j \in DOMAIN ps : ps[j].kind = "event" /\ ps[j].number = m
    BY <2>1 DEF Numbered
  <2>3. ps[1].number = m
    <3>1. CASE j = 1
      BY <2>2, <3>1
    <3>2. CASE j # 1
      <4>1. 1 \in DOMAIN ps /\ 1 < j /\ ps[1].kind = "event"
        BY <1>1, <1>4, <2>2, <3>2
      <4>2. ps[1].number < ps[j].number
        BY <2>2, <4>1 DEF Numbered
      <4> QED BY <2>1, <2>2, <4>2
    <3> QED BY <3>1, <3>2
  <2>4. \A i \in DOMAIN qs :
           qs[i].kind = "event" => qs[i].number \in m + 1 .. n - 1
    <3> TAKE i \in DOMAIN qs
    <3> HAVE qs[i].kind = "event"
    <3>1. ps[i + 1].number \in m .. n - 1
      BY <1>2 DEF Numbered
    <3>2. /\ 1 \in DOMAIN ps /\ i + 1 \in DOMAIN ps /\ 1 < i + 1
          /\ ps[1].kind = "event" /\ ps[i + 1].kind = "event"
      BY <1>1, <1>2, <1>4
    <3>3. ps[1].number < ps[i + 1].number
      BY <3>2 DEF Numbered
    <3> QED BY <1>2, <2>3, <3>1, <3>3
  <2>5. \A k \in m + 1 .. n - 1 :
           \E i \in DOMAIN qs : qs[i].kind = "event" /\ qs[i].number = k
    <3> TAKE k \in m + 1 .. n - 1
    <3>1. PICK h \in DOMAIN ps : ps[h].kind = "event" /\ ps[h].number = k
      BY DEF Numbered
    <3>2. h # 1 /\ h - 1 \in DOMAIN qs /\ qs[h - 1] = ps[h]
      BY <1>1, <2>3, <3>1
    <3> QED BY <3>1, <3>2
  <2>6. m + 1 <= n
    BY <2>1
  <2> QED BY <1>1, <1>3, <2>3, <2>4, <2>5, <2>6 DEF Numbered
<1>5. ASSUME Head(ps).kind # "event"
      PROVE  Numbered(qs, m, n)
  <2>1. \A i \in DOMAIN qs : qs[i].kind = "event" => qs[i].number \in m .. n - 1
    BY <1>2 DEF Numbered
  <2>2. \A k \in m .. n - 1 :
           \E i \in DOMAIN qs : qs[i].kind = "event" /\ qs[i].number = k
    <3> TAKE k \in m .. n - 1
    <3>1. PICK j \in DOMAIN ps : ps[j].kind = "event" /\ ps[j].number = k
      BY DEF Numbered
    <3>2. j # 1 /\ j - 1 \in DOMAIN qs /\ qs[j - 1] = ps[j]
      BY <1>1, <1>5, <3>1
    <3> QED BY <3>1, <3>2
  <2> QED BY <1>3, <2>1, <2>2 DEF Numbered
<1> QED BY <1>4, <1>5 DEF qs

\* What a superstep adds at its end.
LEMMA Concatenated ==
    ASSUME NEW ps \in Seq(Parts), NEW a \in Parts, NEW b \in Parts, NEW v \in Parts
    PROVE  /\ ps \o <<>> \o <<v>> = Append(ps, v)
           /\ ps \o <<a>> \o <<v>> = Append(Append(ps, a), v)
           /\ ps \o <<a, b>> \o <<v>> = Append(Append(Append(ps, a), b), v)
  OBVIOUS

LEMMA Pair ==
    ASSUME NEW a \in Parts, NEW v \in Parts
    PROVE  <<>> \o <<a>> \o <<v>> = <<a, v>>
<1>1. <<a>> \o <<v>> \in Seq(Parts) /\ <<a, v>> \in Seq(Parts)
  OBVIOUS
<1>2. Len(<<a>> \o <<v>>) = 2 /\ Len(<<a, v>>) = 2
  OBVIOUS
<1>3. \A i \in 1 .. 2 : (<<a>> \o <<v>>)[i] = <<a, v>>[i]
  OBVIOUS
<1>4. <<>> \o <<a>> = <<a>>
  OBVIOUS
<1> QED BY <1>1, <1>2, <1>3, <1>4, SeqEqual

LEMMA PlainAppend ==
    ASSUME NEW ps \in Seq(Parts), NEW p \in Parts, ~IsTerminal(p),
           \A i \in DOMAIN ps : ~IsTerminal(ps[i])
    PROVE  /\ Append(ps, p) \in Seq(Parts)
           /\ \A i \in DOMAIN Append(ps, p) : ~IsTerminal(Append(ps, p)[i])
  BY AppendProperties

LEMMA TwoEvents ==
    ASSUME NEW ps \in Seq(Parts), NEW m \in Nat, NEW n \in Nat,
           NEW a \in Parts, NEW b \in Parts, NEW v \in Parts,
           Numbered(ps, m, n), \A i \in DOMAIN ps : ~IsTerminal(ps[i]),
           a.kind = "event", a.type = "activity", a.number = n,
           b.kind = "event", b.type = "activity", b.number = n + 1,
           v.kind = "values"
    PROVE  LET qs == Append(Append(Append(ps, a), b), v)
           IN  /\ Numbered(qs, m, n + 2)
               /\ \A i \in DOMAIN qs : ~IsTerminal(qs[i])
<1> DEFINE one == Append(ps, a)
           two == Append(one, b)
<1>1. ~IsTerminal(a) /\ ~IsTerminal(b) /\ ~IsTerminal(v)
  BY DEF IsTerminal
<1>2. /\ one \in Seq(Parts) /\ Numbered(one, m, n + 1)
      /\ \A i \in DOMAIN one : ~IsTerminal(one[i])
  BY <1>1, PlainAppend, NumberedEvent
<1> HIDE DEF one
<1>3. n + 1 \in Nat /\ (n + 1) + 1 = n + 2 /\ n + 2 \in Nat
  OBVIOUS
<1>4. Numbered(two, m, (n + 1) + 1)
  BY <1>2, <1>3, NumberedEvent
<1>5. two \in Seq(Parts) /\ \A i \in DOMAIN two : ~IsTerminal(two[i])
  BY <1>1, <1>2, PlainAppend
<1> HIDE DEF two
<1>6. /\ Numbered(Append(two, v), m, n + 2)
      /\ \A i \in DOMAIN Append(two, v) : ~IsTerminal(Append(two, v)[i])
  BY <1>1, <1>3, <1>4, <1>5, PlainAppend, NumberedValues
<1> QED BY <1>6 DEF one, two

LEMMA PartTypes ==
    /\ \A type \in Kinds, n \in Nat :
          /\ Event(type, n) \in Parts
          /\ Event(type, n).kind = "event" /\ Event(type, n).type = type
          /\ Event(type, n).number = n
    /\ \A r \in Responses :
          /\ Values(r) \in Parts /\ Values(r).kind = "values" /\ Values(r).output = r
          /\ Values(r).type = "activity"
    /\ "activity" \in Kinds
    /\ NoResponse \in Responses
    /\ failing \in BOOLEAN => This \in Responses /\ FinalType \in Kinds
    /\ FinalType # "activity"
  BY DEF Event, Values, Parts, Kinds, Responses, NoResponse, This, FinalType
-----------------------------------------------------------------------------
(* The run.                                                                *)

LEMMA EarlierTyped ==
    {NoResponse} \cup [of : {"earlier"}, failed : BOOLEAN] \subseteq Responses
<1>1. NoResponse \in Responses
  BY PartTypes
<1>2. \A r \in [of : {"earlier"}, failed : BOOLEAN] : r \in Responses
  BY DEF Responses
<1> QED BY <1>1, <1>2

LEMMA StreamStarts == Init => StreamInv
<1> SUFFICES ASSUME Init PROVE StreamInv
  OBVIOUS
<1>1. TypeOK
  <2>1. item \in Parts
    BY PartTypes DEF NoItem, Init
  <2>2. earlier \in Responses
    BY EarlierTyped DEF Init
  <2>3. parts \in Seq(Parts) /\ wire \in Seq(Envelopes)
    BY EmptySeq DEF Init
  <2>4. path \in 0 .. MaxNodes
    BY StreamAssumption DEF Init
  <2>5. /\ node = "start" /\ busy = FALSE /\ failing = FALSE
        /\ history = 0 /\ journal = 0 /\ expected = 0 /\ ended = FALSE
        /\ pending = "none" /\ asked = 0 /\ expired = FALSE
        /\ phase = "new" /\ held = "none" /\ client = "here"
        /\ span \in {"none", "off"}
    BY DEF Init
  <2>6. busy \in BOOLEAN /\ failing \in BOOLEAN /\ ended \in BOOLEAN /\ expired \in BOOLEAN
    BY <2>5, Zenon
  <2>7. /\ node \in InProgress \cup {"start", "refused", "over", "raised", "closed"}
        /\ held \in Kinds \cup {"none"}
    BY <2>5
  <2>8. /\ pending \in {"none", "asked", "item", "stop", "error"}
        /\ span \in {"none", "off", "open", "completed", "failed", "cancelled", "running"}
        /\ phase \in {"new", "loop", "closing", "closed"} /\ client \in {"here", "gone"}
    BY <2>5
  <2>9. history \in Nat /\ journal \in Nat /\ expected \in Nat /\ asked \in 0..2
    BY <2>5
  <2> QED BY <2>1, <2>2, <2>3, <2>4, <2>6, <2>7, <2>8, <2>9, Zenon DEF TypeOK
<1>2. RunInv
  BY StreamAssumption, NumberedEmpty DEF RunInv, InProgress, Streamed, Init
<1>3. WireInv
  BY DEF WireInv, Init
<1>4. DoneInv
  BY DEF DoneInv, Init
<1> QED BY <1>1, <1>2, <1>3, <1>4 DEF StreamInv

\* What the run does is seen by the adapter only through parts.
LEMMA RunLeavesAdapter ==
    ASSUME StreamInv, node \in InProgress \/ (node = "start" /\ pending = "asked"),
           UNCHANGED <<runtime, adapter, client>>
    PROVE  WireInv' /\ DoneInv'
<1>1. phase = "loop" => /\ ~ended /\ held = "none" /\ pending \notin {"stop", "error"}
                        /\ pending = "item" => item.kind = "event"
  BY DEF StreamInv, RunInv, WireInv, InProgress, TypeOK, Parts
<1>2. phase \in {"closing", "closed"} => ~Answered /\ client # "here"
  BY DEF StreamInv, DoneInv, WireInv, InProgress, TypeOK
<1>3. phase # "new"
  BY DEF StreamInv, WireInv, InProgress
<1>4. WireInv'
  BY <1>1, <1>3 DEF StreamInv, WireInv, runtime, adapter, IsTerminal
<1>5. DoneInv'
  BY <1>2 DEF DoneInv, adapter, Answered, Last
<1> QED BY <1>4, <1>5

LEMMA BeginKeeps == StreamInv /\ Begin => StreamInv'
<1> SUFFICES ASSUME StreamInv, Begin PROVE StreamInv'
  OBVIOUS
<1> USE DEF Begin
<1>1. TypeOK'
  BY PartTypes DEF StreamInv, TypeOK, runtime, adapter, InProgress
<1>2. RunInv'
  <2>1. phase = "loop" /\ pending = "asked" /\ path > 0 /\ history = 0
        /\ ~busy /\ ~ended /\ parts = <<>> /\ asked # 0
        /\ Numbered(parts, expected, 0)
    BY DEF StreamInv, WireInv, RunInv, TypeOK, Streamed
  <2>2. parts' = Append(<<>>, Values(earlier)) /\ earlier \in Responses
    BY DEF StreamInv, TypeOK
  <2>3. expected \in Nat
    BY DEF StreamInv, TypeOK
  <2>4. Numbered(parts', expected, 0)
    <3>1. Numbered(<<>>, expected, 0) /\ <<>> \in Seq(Parts)
      BY <2>1, EmptySeq
    <3>2. Values(earlier) \in Parts /\ Values(earlier).kind = "values"
      BY <2>2, PartTypes
    <3> HIDE DEF Begin
    <3> QED BY <2>2, <2>3, <3>1, <3>2, NumberedValues
  <2>5. \A i \in DOMAIN parts' : ~IsTerminal(parts'[i])
    BY <2>2, PartTypes DEF IsTerminal
  <2> QED
    BY <2>1, <2>4, <2>5 DEF RunInv, InProgress, Streamed, runtime, adapter
<1>3. WireInv' /\ DoneInv'
  BY RunLeavesAdapter
<1> QED BY <1>1, <1>2, <1>3 DEF StreamInv

LEMMA EnterKeeps == StreamInv /\ Enter => StreamInv'
<1> SUFFICES ASSUME StreamInv, Enter PROVE StreamInv'
  OBVIOUS
<1> USE DEF Enter
<1>1. TypeOK'
  BY DEF StreamInv, TypeOK, runtime, adapter, InProgress
<1>2. RunInv'
  <2>1. phase = "loop" /\ ~ended /\ parts = <<>> /\ Numbered(<<>>, expected, history)
        /\ expected \in Nat /\ history \in Nat
    BY DEF StreamInv, WireInv, RunInv, TypeOK, Streamed, InProgress
  <2>2. expected = history
    BY <2>1, NumberedEmpty
  <2>3. ~(asked = 1 /\ node = "guarded")
    BY <2>1, <2>2 DEF StreamInv, RunInv
  <2>4. Numbered(parts', expected', Streamed')
    BY <2>1 DEF Streamed, runtime
  <2> QED
    BY <2>1, <2>3, <2>4 DEF StreamInv, RunInv, InProgress, runtime, adapter
<1>3. WireInv' /\ DoneInv'
  BY RunLeavesAdapter
<1> QED BY <1>1, <1>2, <1>3 DEF StreamInv

\* While a superstep is in progress.
LEMMA Busy ==
    ASSUME StreamInv, busy, node \in InProgress
    PROVE  /\ parts \in Seq(Parts) /\ expected \in Nat /\ history \in Nat /\ journal \in Nat
           /\ earlier \in Responses /\ failing \in BOOLEAN
           /\ node \in {"initialize", "guarded"} => path > 0
           /\ phase \in {"new", "loop"} /\ pending \notin {"stop", "error"} =>
                /\ ~ended /\ Numbered(parts, expected, Streamed)
                /\ \A i \in DOMAIN parts : ~IsTerminal(parts[i])
                /\ asked # 0 /\ node # "initialize" => ~(asked = 1 /\ pending = "asked")
                /\ asked # 0
                /\ node = "initialize" => history = 0
                /\ node # "guarded" => parts = <<>>
  BY DEF StreamInv, TypeOK, RunInv, InProgress

\* A step of the graph changes its own variables only, and they keep their types.
LEMMA GraphTyped ==
    ASSUME TypeOK, UNCHANGED <<earlier, runtime, adapter, expired, span, client>>,
           node' \in InProgress \cup {"over", "raised"}, busy' \in BOOLEAN,
           failing' \in BOOLEAN, path' \in 0 .. MaxNodes, history' \in Nat,
           journal' \in Nat, parts' \in Seq(Parts)
    PROVE  TypeOK'
<1>1. /\ earlier' = earlier /\ expected' = expected /\ ended' = ended
      /\ pending' = pending /\ item' = item /\ asked' = asked /\ phase' = phase
      /\ held' = held /\ wire' = wire /\ expired' = expired /\ span' = span
      /\ client' = client
  BY DEF runtime, adapter
<1>2. /\ earlier' \in Responses /\ expected' \in Nat /\ ended' \in BOOLEAN
      /\ pending' \in {"none", "asked", "item", "stop", "error"} /\ item' \in Parts
      /\ asked' \in 0 .. 2 /\ expired' \in BOOLEAN
      /\ span' \in {"none", "off", "open", "completed", "failed", "cancelled", "running"}
      /\ phase' \in {"new", "loop", "closing", "closed"}
      /\ held' \in Kinds \cup {"none"} /\ wire' \in Seq(Envelopes)
      /\ client' \in {"here", "gone"}
  BY <1>1 DEF TypeOK
<1>3. node' \in InProgress \cup {"start", "refused", "over", "raised", "closed"}
  OBVIOUS
<1> QED BY <1>2, <1>3, Zenon DEF TypeOK

\* What TypeOK says of the variables of the graph.
LEMMA GraphTypes ==
    ASSUME StreamInv
    PROVE  /\ TypeOK /\ path \in 0 .. MaxNodes /\ history \in Nat /\ journal \in Nat
           /\ failing \in BOOLEAN /\ parts \in Seq(Parts)
  BY DEF StreamInv, TypeOK

LEMMA InitializeKeeps == StreamInv /\ Initialize => StreamInv'
<1> SUFFICES ASSUME StreamInv, Initialize PROVE StreamInv'
  OBVIOUS
<1> DEFINE a == Event("activity", 0)
           b == Event("activity", 1)
           v == Values(earlier)
<1>0. node \in InProgress /\ busy /\ node = "initialize"
  BY DEF InProgress, Initialize
<1>1. /\ a \in Parts /\ b \in Parts /\ v \in Parts
      /\ a.kind = "event" /\ b.kind = "event" /\ v.kind = "values"
      /\ a.number = 0 /\ b.number = 1 /\ a.type = "activity" /\ b.type = "activity"
  BY <1>0, Busy, PartTypes
<1>2. parts' = Append(Append(Append(parts, a), b), v)
  BY <1>0, <1>1, Busy, Concatenated DEF Initialize, Ends
<1> HIDE DEF a, b, v
<1>3. parts' \in Seq(Parts)
  BY <1>0, <1>1, <1>2, Busy
<1>4. TypeOK'
  <2>1. /\ node' \in InProgress \cup {"over", "raised"} /\ busy' \in BOOLEAN
        /\ failing' \in BOOLEAN /\ path' \in 0 .. MaxNodes /\ history' \in Nat
        /\ journal' \in Nat
        /\ UNCHANGED <<earlier, runtime, adapter, expired, span, client>>
    BY GraphTypes DEF Initialize, Ends, InProgress
  <2> QED BY <1>3, <2>1, GraphTypes, GraphTyped
<1>5. RunInv'
  <2> SUFFICES ASSUME phase \in {"new", "loop"}, pending \notin {"stop", "error"}
               PROVE  RunInv'
    BY <1>0, Busy DEF RunInv, adapter, InProgress, Initialize, Ends
  <2>1. parts = <<>> /\ Numbered(<<>>, expected, 0) /\ expected \in Nat /\ ~ended
    BY <1>0, Busy DEF Streamed
  <2>2. expected = 0
    BY <2>1, NumberedEmpty
  <2>3. /\ Numbered(parts', 0, 2)
        /\ \A i \in DOMAIN parts' : ~IsTerminal(parts'[i])
    <3>1. parts \in Seq(Parts) /\ Numbered(parts, 0, 0)
          /\ \A i \in DOMAIN parts : ~IsTerminal(parts[i])
      BY <1>0, <2>1, <2>2, Busy
    <3>2. 0 \in Nat /\ b.number = 0 + 1 /\ 0 + 2 = 2
      BY <1>1
    <3>3. /\ Numbered(parts', 0, 0 + 2)
          /\ \A i \in DOMAIN parts' : ~IsTerminal(parts'[i])
      BY <1>1, <1>2, <3>1, <3>2, TwoEvents, Zenon
    <3> QED BY <3>2, <3>3, Zenon
  <2> QED
    BY <1>0, <2>1, <2>2, <2>3, Busy
       DEF RunInv, InProgress, runtime, adapter, Streamed, Initialize, Ends
<1>6. WireInv' /\ DoneInv'
  BY <1>0, RunLeavesAdapter DEF Initialize, Ends
<1> QED BY <1>4, <1>5, <1>6 DEF StreamInv

LEMMA EmitKeeps == StreamInv /\ Emit => StreamInv'
<1> SUFFICES ASSUME StreamInv, Emit PROVE StreamInv'
  OBVIOUS
<1> USE DEF Emit
<1> DEFINE a == Event("activity", journal)
<1>0. node \in InProgress
  BY DEF InProgress
<1>1. /\ a \in Parts /\ a.kind = "event" /\ a.number = journal /\ a.type = "activity"
  BY <1>0, Busy, PartTypes
<1>2. parts' = Append(parts, a)
  OBVIOUS
<1> HIDE DEF a
<1>3. TypeOK'
  BY <1>1, <1>2 DEF StreamInv, TypeOK, runtime, adapter, InProgress
<1>4. RunInv'
  <2> SUFFICES ASSUME phase \in {"new", "loop"}, pending \notin {"stop", "error"}
               PROVE  RunInv'
    BY <1>0, Busy DEF RunInv, adapter, InProgress
  <2>1. Numbered(parts', expected, journal + 1)
    BY <1>0, <1>1, <1>2, Busy, NumberedEvent DEF Streamed
  <2>2. \A i \in DOMAIN parts' : ~IsTerminal(parts'[i])
    BY <1>0, <1>1, <1>2, Busy DEF IsTerminal
  <2> QED
    BY <1>0, <2>1, <2>2, Busy DEF RunInv, InProgress, runtime, adapter, Streamed
<1>5. WireInv' /\ DoneInv'
  BY <1>0, RunLeavesAdapter
<1> QED BY <1>3, <1>4, <1>5 DEF StreamInv
\* A superstep that fails or returns adds its values, after one more event of
\* a node that raised.
LEMMA NodeReturnsKeeps ==
    ASSUME StreamInv, NEW failed \in BOOLEAN, NodeReturns(failed)
    PROVE  StreamInv'
<1> DEFINE v == Values(earlier)
<1>0. node \in InProgress /\ busy /\ node = "guarded" /\ path > 0 /\ path \in 0 .. MaxNodes
  BY DEF InProgress, NodeReturns, StreamInv, TypeOK, RunInv
<1>1. v \in Parts /\ v.kind = "values" /\ ~IsTerminal(v)
  BY <1>0, Busy, PartTypes DEF IsTerminal
<1>2. parts' = Append(parts, v)
  BY <1>0, <1>1, Busy, Concatenated DEF NodeReturns, Ends
<1> HIDE DEF v
<1>3. parts' \in Seq(Parts)
  BY <1>0, <1>1, <1>2, Busy
<1>4. TypeOK'
  <2>1. path' \in 0 .. MaxNodes
    BY <1>0, StreamAssumption DEF NodeReturns
  <2>2. node' \in InProgress
    BY DEF NodeReturns, Ends, InProgress
  <2>3. /\ failing' \in BOOLEAN /\ busy' = FALSE /\ history' \in Nat /\ journal' \in Nat
        /\ UNCHANGED <<earlier, runtime, adapter, expired, span, client>>
    BY <1>0, Busy DEF NodeReturns, Ends
  <2> QED BY <1>3, <2>1, <2>2, <2>3, GraphTypes, GraphTyped
<1>5. RunInv'
  <2>1. node' \in InProgress /\ (node' = "guarded" => path' > 0) /\ node' # "initialize"
        /\ node' # "start" /\ ~busy'
    BY <1>0, StreamAssumption DEF NodeReturns, Ends, InProgress
  <2> SUFFICES ASSUME phase \in {"new", "loop"}, pending \notin {"stop", "error"}
               PROVE  RunInv'
    BY <2>1 DEF RunInv, adapter, NodeReturns, Ends
  <2>2. Numbered(parts', expected, journal)
    BY <1>0, <1>1, <1>2, Busy, NumberedValues DEF Streamed
  <2>3. \A i \in DOMAIN parts' : ~IsTerminal(parts'[i])
    BY <1>0, <1>1, <1>2, Busy, PlainAppend
  <2>4. history' = journal /\ expected' = expected /\ ended' = ended
        /\ asked' = asked /\ pending' = pending /\ phase' = phase
    BY DEF NodeReturns, Ends, runtime, adapter
  <2>5. Streamed' = journal
    BY <2>1, <2>4 DEF Streamed
  <2> HIDE DEF NodeReturns
  <2>6. ~ended /\ asked # 0 /\ ~(asked = 1 /\ pending = "asked")
    BY <1>0, Busy
  <2> QED BY <2>1, <2>2, <2>3, <2>4, <2>5, <2>6 DEF RunInv, InProgress
<1>6. WireInv' /\ DoneInv'
  BY <1>0, RunLeavesAdapter DEF NodeReturns, Ends
<1> QED BY <1>4, <1>5, <1>6 DEF StreamInv

LEMMA NodeRaisesKeeps ==
    ASSUME StreamInv, NEW reported \in BOOLEAN, NodeRaises(reported)
    PROVE  StreamInv'
<1> DEFINE a == Event("activity", journal)
           v == Values(earlier)
           one == IF reported THEN parts ELSE Append(parts, a)
           n == IF reported THEN journal ELSE journal + 1
<1>0. node \in InProgress /\ busy /\ node = "guarded"
  BY DEF InProgress, NodeRaises
<1>1. /\ v \in Parts /\ v.kind = "values" /\ ~IsTerminal(v)
      /\ a \in Parts /\ a.kind = "event" /\ a.number = journal /\ ~IsTerminal(a)
  BY <1>0, Busy, PartTypes DEF IsTerminal
<1>2. parts' = Append(one, v)
  <2>1. CASE reported
    BY <1>0, <1>1, <2>1, Busy, Concatenated DEF NodeRaises, Ends
  <2>2. CASE ~reported
    <3>1. parts' = parts \o <<a>> \o <<v>>
      BY <2>2 DEF NodeRaises, Ends
    <3> QED BY <1>0, <1>1, <2>2, <3>1, Busy, Concatenated
  <2> QED BY <2>1, <2>2
<1>3. /\ n \in Nat /\ history' = n /\ node' = "handler" /\ ~busy' /\ failing' = TRUE
      /\ UNCHANGED <<path, journal, earlier, runtime, adapter, expired, span, client>>
  BY <1>0, Busy DEF NodeRaises, Ends
<1> HIDE DEF a, v
<1>4. one \in Seq(Parts)
  BY <1>0, <1>1, Busy
<1>5. TypeOK'
  <2>1. parts' \in Seq(Parts)
    BY <1>1, <1>2, <1>4
  <2>2. busy' = FALSE
    BY DEF NodeRaises, Ends
  <2>3. /\ path' \in 0 .. MaxNodes /\ history' \in Nat /\ journal' \in Nat
        /\ failing' \in BOOLEAN
    BY <1>3, GraphTypes
  <2> HIDE DEF one, n
  <2>4. node' \in InProgress
    BY <1>3 DEF InProgress
  <2> QED BY <1>3, <2>1, <2>2, <2>3, <2>4, GraphTypes, GraphTyped
<1>6. RunInv'
  <2> SUFFICES ASSUME phase \in {"new", "loop"}, pending \notin {"stop", "error"}
               PROVE  RunInv'
    BY <1>3 DEF RunInv, adapter, InProgress
  <2>1. Numbered(parts, expected, journal) /\ (\A i \in DOMAIN parts : ~IsTerminal(parts[i]))
        /\ parts \in Seq(Parts) /\ expected \in Nat /\ journal \in Nat
    BY <1>0, Busy DEF Streamed
  <2>2. Numbered(one, expected, n) /\ \A i \in DOMAIN one : ~IsTerminal(one[i])
    <3>1. CASE reported
      BY <2>1, <3>1
    <3>2. CASE ~reported
      BY <1>1, <2>1, <3>2, NumberedEvent, PlainAppend
    <3> QED BY <3>1, <3>2
  <2> HIDE DEF one, n
  <2>3. Numbered(parts', expected, n) /\ \A i \in DOMAIN parts' : ~IsTerminal(parts'[i])
    BY <1>1, <1>2, <1>3, <1>4, <2>1, <2>2, NumberedValues, PlainAppend
  <2>4. Streamed' = n
    BY <1>3 DEF Streamed
  <2>5. expected' = expected /\ ended' = ended
        /\ asked' = asked /\ pending' = pending /\ phase' = phase
    BY <1>3 DEF runtime, adapter
  <2>6. ~ended /\ asked # 0 /\ ~(asked = 1 /\ pending = "asked")
    BY <1>0, Busy
  <2> QED BY <1>3, <2>3, <2>4, <2>5, <2>6 DEF RunInv, InProgress
<1>7. WireInv' /\ DoneInv'
  BY <1>0, <1>3, RunLeavesAdapter
<1> QED BY <1>5, <1>6, <1>7 DEF StreamInv

LEMMA OverBudgetKeeps == StreamInv /\ OverBudget => StreamInv'
<1> SUFFICES ASSUME StreamInv, OverBudget PROVE StreamInv'
  OBVIOUS
<1> DEFINE v == Values(earlier)
<1>0. node \in InProgress /\ busy /\ node = "guarded" /\ journal = history
  BY DEF InProgress, OverBudget
<1>1. v \in Parts /\ v.kind = "values" /\ ~IsTerminal(v)
  BY <1>0, Busy, PartTypes DEF IsTerminal
<1>2. parts' = Append(parts, v)
  BY <1>0, <1>1, Busy, Concatenated DEF OverBudget, Ends
<1>3. /\ history' = history /\ node' = "handler" /\ busy' = FALSE /\ failing' = TRUE
      /\ UNCHANGED <<path, journal, earlier, runtime, adapter, expired, span, client>>
  BY DEF OverBudget, Ends
<1> HIDE DEF v
<1>4. parts' \in Seq(Parts)
  BY <1>0, <1>1, <1>2, Busy
<1>5. TypeOK'
  <2>1. /\ node' \in InProgress \cup {"over", "raised"} /\ busy' \in BOOLEAN
        /\ failing' \in BOOLEAN /\ path' \in 0 .. MaxNodes /\ history' \in Nat
        /\ journal' \in Nat
    BY <1>3, GraphTypes DEF InProgress
  <2> QED BY <1>3, <1>4, <2>1, GraphTypes, GraphTyped
<1>6. RunInv'
  <2> SUFFICES ASSUME phase \in {"new", "loop"}, pending \notin {"stop", "error"}
               PROVE  RunInv'
    BY <1>3 DEF RunInv, adapter, InProgress
  <2>1. Numbered(parts', expected, history)
    BY <1>0, <1>1, <1>2, Busy, NumberedValues DEF Streamed
  <2>2. \A i \in DOMAIN parts' : ~IsTerminal(parts'[i])
    BY <1>0, <1>1, <1>2, Busy, PlainAppend
  <2>3. expected' = expected /\ ended' = ended /\ Streamed' = history
        /\ asked' = asked /\ pending' = pending /\ phase' = phase
    BY <1>3 DEF Streamed, runtime, adapter
  <2>4. ~ended /\ asked # 0 /\ ~(asked = 1 /\ pending = "asked")
    BY <1>0, Busy
  <2> QED BY <1>3, <2>1, <2>2, <2>3, <2>4 DEF RunInv, InProgress
<1>7. WireInv' /\ DoneInv'
  BY <1>0, <1>3, RunLeavesAdapter
<1> QED BY <1>5, <1>6, <1>7 DEF StreamInv

LEMMA HandleFailureKeeps == StreamInv /\ HandleFailure => StreamInv'
<1> SUFFICES ASSUME StreamInv, HandleFailure PROVE StreamInv'
  OBVIOUS
<1> DEFINE a == Event("activity", history)
           b == Event("activity", history + 1)
           v == Values(earlier)
<1>0. node \in InProgress /\ busy /\ node = "handler" /\ history \in Nat /\ history + 1 \in Nat
  BY DEF InProgress, HandleFailure, StreamInv, TypeOK
<1>1. /\ a \in Parts /\ b \in Parts /\ v \in Parts
      /\ a.kind = "event" /\ b.kind = "event" /\ v.kind = "values"
      /\ a.number = history /\ b.number = history + 1
      /\ a.type = "activity" /\ b.type = "activity"
  BY <1>0, Busy, PartTypes
<1>2. parts' = Append(Append(Append(parts, a), b), v)
  BY <1>0, <1>1, Busy, Concatenated DEF HandleFailure, Ends
<1>3. /\ history' = history + 2 /\ node' = "final" /\ busy' = FALSE
      /\ UNCHANGED <<path, failing, journal, earlier, runtime, adapter, expired, span, client>>
  BY DEF HandleFailure, Ends
<1> HIDE DEF a, b, v
<1>4. parts' \in Seq(Parts)
  BY <1>0, <1>1, <1>2, Busy
<1>5. TypeOK'
  <2>1. history' \in Nat
    BY <1>0, <1>3
  <2>2. node' \in InProgress \cup {"over", "raised"} /\ busy' \in BOOLEAN
    BY <1>3 DEF InProgress
  <2>3. failing' \in BOOLEAN /\ path' \in 0 .. MaxNodes /\ journal' \in Nat
    BY <1>3, GraphTypes, Zenon
  <2> QED BY <1>3, <1>4, <2>1, <2>2, <2>3, GraphTypes, GraphTyped
<1>6. RunInv'
  <2> SUFFICES ASSUME phase \in {"new", "loop"}, pending \notin {"stop", "error"}
               PROVE  RunInv'
    BY <1>3 DEF RunInv, adapter, InProgress
  <2>1. /\ Numbered(parts', expected, history + 2)
        /\ \A i \in DOMAIN parts' : ~IsTerminal(parts'[i])
    <3>1. parts \in Seq(Parts) /\ Numbered(parts, expected, history) /\ expected \in Nat
          /\ \A i \in DOMAIN parts : ~IsTerminal(parts[i])
      BY <1>0, Busy DEF Streamed
    <3> QED BY <1>0, <1>1, <1>2, <3>1, TwoEvents, Zenon
  <2>2. expected' = expected /\ ended' = ended /\ Streamed' = history + 2
        /\ asked' = asked /\ pending' = pending /\ phase' = phase
    BY <1>3 DEF Streamed, runtime, adapter
  <2>3. ~ended /\ asked # 0 /\ ~(asked = 1 /\ pending = "asked")
    BY <1>0, Busy
  <2> QED BY <1>3, <2>1, <2>2, <2>3 DEF RunInv, InProgress
<1>7. WireInv' /\ DoneInv'
  BY <1>0, <1>3, RunLeavesAdapter
<1> QED BY <1>5, <1>6, <1>7 DEF StreamInv

\* finalize_execution finds everything taken: its event is the one expected.
LEMMA FinalIsExpected ==
    ASSUME StreamInv, node = "final", busy
    PROVE  /\ FinalEvent = Event(FinalType, history) /\ FinalEvent \in Parts
           /\ FinalEvent.kind = "event" /\ FinalEvent.type = FinalType
           /\ phase \in {"new", "loop"} /\ pending \notin {"stop", "error"} =>
                parts = <<>> /\ expected = history
<1>1. FinalEvent = Event(FinalType, history)
  BY DEF FinalEvent, FinalType
<1>2. node \in InProgress
  BY DEF InProgress
<1>3. FinalEvent \in Parts /\ FinalEvent.kind = "event" /\ FinalEvent.type = FinalType
  BY <1>1, <1>2, Busy, PartTypes
<1>4. phase \in {"new", "loop"} /\ pending \notin {"stop", "error"} =>
                parts = <<>> /\ expected = history
  BY <1>2, Busy, NumberedEmpty DEF Streamed
<1> QED BY <1>1, <1>3, <1>4

LEMMA FinalizeKeeps == StreamInv /\ Finalize => StreamInv'
<1> SUFFICES ASSUME StreamInv, Finalize PROVE StreamInv'
  OBVIOUS
<1> DEFINE v == Values(This)
<1>0. node \in InProgress /\ busy /\ node = "final" /\ history \in Nat
  BY DEF InProgress, Finalize, StreamInv, TypeOK
<1>1. v \in Parts /\ FinalEvent \in Parts
  BY <1>0, Busy, PartTypes, FinalIsExpected
<1>2. parts' = Append(Append(parts, FinalEvent), v)
  BY <1>0, <1>1, Busy, Concatenated DEF Finalize, Ends
<1>3. /\ history' = history + 1 /\ node' = "over" /\ busy' = FALSE
      /\ UNCHANGED <<path, failing, journal, earlier, runtime, adapter, expired, span, client>>
  BY DEF Finalize, Ends
<1>4. parts' \in Seq(Parts)
  BY <1>0, <1>1, <1>2, Busy
<1>5. TypeOK'
  <2>1. history' \in Nat
    BY <1>0, <1>3
  <2>2. node' \in InProgress \cup {"over", "raised"} /\ busy' \in BOOLEAN
    BY <1>3 DEF InProgress
  <2>3. failing' \in BOOLEAN /\ path' \in 0 .. MaxNodes /\ journal' \in Nat
    BY <1>3, GraphTypes, Zenon
  <2> QED BY <1>3, <1>4, <2>1, <2>2, <2>3, GraphTypes, GraphTyped
<1>6. RunInv'
  <2> SUFFICES ASSUME phase \in {"new", "loop"}, pending \notin {"stop", "error"}
               PROVE  RunInv'
    BY <1>3 DEF RunInv, adapter, InProgress
  <2>1. parts = <<>> /\ expected = history /\ FinalEvent = Event(FinalType, history)
    BY <1>0, FinalIsExpected
  <2>2. parts' = <<Event(FinalType, expected), v>>
    <3>1. parts' = <<>> \o <<FinalEvent>> \o <<v>>
      BY <2>1 DEF Finalize, Ends
    <3> HIDE DEF v
    <3> QED BY <1>1, <2>1, <3>1, Pair
  <2>3. FinalType' = FinalType /\ This' = This
    BY <1>3 DEF FinalType, This
  <2>4. parts' = <<Event(FinalType, expected)', Values(This)'>>
    BY <1>3, <2>2, <2>3 DEF Event, Values, runtime
  <2>5. expected' = expected /\ ended' = ended
        /\ asked' = asked /\ pending' = pending /\ phase' = phase
    BY <1>3 DEF runtime, adapter
  <2>6. ~ended /\ asked # 0 /\ ~(asked = 1 /\ pending = "asked")
    BY <1>0, Busy
  <2> HIDE DEF v
  <2> QED
    BY <1>3, <2>1, <2>4, <2>5, <2>6 DEF RunInv, InProgress
<1>7. WireInv' /\ DoneInv'
  BY <1>0, <1>3, RunLeavesAdapter
<1> QED BY <1>5, <1>6, <1>7 DEF StreamInv

LEMMA FinalizeRaisesKeeps == StreamInv /\ FinalizeRaises => StreamInv'
<1> SUFFICES ASSUME StreamInv, FinalizeRaises PROVE StreamInv'
  OBVIOUS
<1>0. node \in InProgress /\ busy /\ node = "final" /\ history \in Nat
  BY DEF InProgress, FinalizeRaises, StreamInv, TypeOK
<1>1. FinalEvent \in Parts /\ FinalEvent.type = FinalType
  BY <1>0, FinalIsExpected
<1>2. /\ parts' = Append(parts, FinalEvent) /\ node' = "raised" /\ busy' = FALSE
      /\ UNCHANGED <<path, failing, history, journal, earlier, runtime, adapter, expired, span,
                     client>>
  BY DEF FinalizeRaises
<1>3. parts' \in Seq(Parts)
  BY <1>0, <1>1, <1>2, Busy
<1>4. TypeOK'
  <2>1. /\ node' \in InProgress \cup {"over", "raised"} /\ busy' \in BOOLEAN
        /\ failing' \in BOOLEAN /\ path' \in 0 .. MaxNodes /\ history' \in Nat
        /\ journal' \in Nat
    BY <1>2, GraphTypes
  <2> QED BY <1>2, <1>3, <2>1, GraphTypes, GraphTyped
<1>5. RunInv'
  <2> SUFFICES ASSUME phase \in {"new", "loop"}, pending \notin {"stop", "error"}
               PROVE  RunInv'
    BY <1>2 DEF RunInv, adapter, InProgress
  <2>1. parts = <<>> /\ FinalType' = FinalType
    BY <1>0, <1>2, FinalIsExpected DEF FinalType
  <2>2. Len(parts') = 1 /\ DOMAIN parts' = {1} /\ parts'[1] = FinalEvent
    BY <1>2, <2>1
  <2>3. expected' = expected /\ ended' = ended
        /\ asked' = asked /\ pending' = pending /\ phase' = phase
    BY <1>2 DEF runtime, adapter
  <2>4. ~ended /\ asked # 0 /\ ~(asked = 1 /\ pending = "asked")
    BY <1>0, Busy
  <2> QED BY <1>1, <1>2, <2>1, <2>2, <2>3, <2>4 DEF RunInv, InProgress
<1>6. WireInv' /\ DoneInv'
  BY <1>0, <1>2, RunLeavesAdapter
<1> QED BY <1>4, <1>5, <1>6 DEF StreamInv

LEMMA GraphRaisesKeeps == StreamInv /\ GraphRaises => StreamInv'
<1> SUFFICES ASSUME StreamInv, GraphRaises PROVE StreamInv'
  OBVIOUS
<1>1. /\ node \in InProgress /\ node' = "raised" /\ busy' = FALSE
      /\ UNCHANGED <<path, failing, history, journal, earlier, parts, runtime, adapter, expired,
                     span, client>>
  BY DEF GraphRaises
<1>2. TypeOK'
  <2>1. /\ node' \in InProgress \cup {"over", "raised"} /\ busy' \in BOOLEAN
        /\ failing' \in BOOLEAN /\ path' \in 0 .. MaxNodes /\ history' \in Nat
        /\ journal' \in Nat /\ parts' \in Seq(Parts)
    BY <1>1, GraphTypes
  <2> QED BY <1>1, <2>1, GraphTypes, GraphTyped
<1>3. RunInv'
  BY <1>1 DEF StreamInv, RunInv, InProgress, runtime, adapter
<1>4. WireInv' /\ DoneInv'
  BY <1>1, RunLeavesAdapter
<1> QED BY <1>2, <1>3, <1>4 DEF StreamInv

LEMMA RunKeeps == StreamInv /\ (Run \/ FinalizeRaises \/ GraphRaises) => StreamInv'
  BY BeginKeeps, EnterKeeps, InitializeKeeps, EmitKeeps, NodeReturnsKeeps, NodeRaisesKeeps,
     OverBudgetKeeps, HandleFailureKeeps, FinalizeKeeps, FinalizeRaisesKeeps, GraphRaisesKeeps
     DEF Run
-----------------------------------------------------------------------------
(* The runtime's generator.                                                *)

\* What Project finds and does, by the state of the run.
LEMMA ProjectFinds ==
    ASSUME StreamInv, Project
    PROVE  /\ phase = "loop" /\ parts \in Seq(Parts) /\ expected \in Nat
           /\ Head(parts) \in Parts /\ parts' = Tail(parts) /\ parts' \in Seq(Parts)
           /\ Len(parts) \in Nat \ {0} /\ Len(parts') = Len(parts) - 1
           /\ \A i \in DOMAIN parts' : i + 1 \in DOMAIN parts /\ parts'[i] = parts[i + 1]
           /\ 1 \in DOMAIN parts /\ Head(parts) = parts[1]
           /\ UNCHANGED <<graph, earlier, asked, expired, span, phase, held, wire, client>>
           /\ node \in {"over", "raised"} \cup InProgress
<1>1. pending = "asked" /\ parts # <<>> /\ parts \in Seq(Parts) /\ phase = "loop"
      /\ parts' = Tail(parts) /\ expected \in Nat
      /\ UNCHANGED <<graph, earlier, asked, expired, span, phase, held, wire, client>>
  BY DEF Project, StreamInv, WireInv, TypeOK
<1>2. /\ Head(parts) \in Parts /\ Tail(parts) \in Seq(Parts)
      /\ Len(parts) \in Nat \ {0} /\ Len(Tail(parts)) = Len(parts) - 1
      /\ 1 \in DOMAIN parts /\ Head(parts) = parts[1]
      /\ \A i \in DOMAIN Tail(parts) : i + 1 \in DOMAIN parts /\ Tail(parts)[i] = parts[i + 1]
  BY <1>1, HeadTailProperties, EmptySeq, LenProperties
<1>3. node \in {"over", "raised"} \cup InProgress
  BY <1>1 DEF StreamInv, RunInv
<1> QED BY <1>1, <1>2, <1>3

LEMMA ProjectDrops ==
    ASSUME StreamInv, Project, ~Deliverable(Head(parts))
    PROVE  StreamInv'
<1> DEFINE p == Head(parts)
<1>0. /\ phase = "loop" /\ parts \in Seq(Parts) /\ expected \in Nat /\ history \in Nat
      /\ p \in Parts /\ parts' = Tail(parts) /\ parts' \in Seq(Parts) /\ parts # <<>>
      /\ Len(parts) \in Nat \ {0} /\ Len(parts') = Len(parts) - 1
      /\ \A i \in DOMAIN parts' : i + 1 \in DOMAIN parts /\ parts'[i] = parts[i + 1]
      /\ UNCHANGED <<graph, earlier, runtime, adapter, expired, span, client>>
      /\ node \in {"over", "raised"} \cup InProgress /\ pending = "asked"
      /\ ~Deliverable(p) /\ p = parts[1]
  BY ProjectFinds DEF Project, adapter, StreamInv, TypeOK
<1>1. p.kind \in {"event", "values"}
  BY <1>0 DEF Parts
<1> HIDE DEF p
<1>2. TypeOK'
  BY <1>0 DEF StreamInv, TypeOK, graph, runtime, adapter
<1>3. node # "over"
  <2> SUFFICES ASSUME node = "over" PROVE FALSE
    OBVIOUS
  <2>1. CASE ~ended /\ history = expected + 1
             /\ parts = <<Event(FinalType, expected), Values(This)>>
    <3>1. p = Event(FinalType, expected)
      BY <1>0, <2>1
    <3>2. p.kind = "event" /\ p.number = expected
      BY <3>1 DEF Event
    <3> QED BY <1>0, <2>1, <3>2 DEF Deliverable
  <2>2. CASE ended /\ parts = <<Values(This)>>
    <3>1. p = Values(This)
      BY <1>0, <2>2
    <3>2. p.kind = "values" /\ p.output.of = "this"
      BY <3>1 DEF Values, This
    <3> QED BY <1>0, <2>2, <3>2 DEF Deliverable
  <2> QED BY <1>0, <2>1, <2>2 DEF StreamInv, RunInv
<1>4. CASE node \in InProgress
  <2>1. /\ ~ended /\ Numbered(parts, expected, Streamed)
        /\ \A i \in DOMAIN parts : ~IsTerminal(parts[i])
    BY <1>0, <1>4 DEF StreamInv, RunInv
  <2>2. Streamed \in Nat /\ Streamed' = Streamed
    BY <1>0 DEF Streamed, StreamInv, TypeOK, graph
  <2>3. p.kind # "event"
    BY <1>0, <2>1, <2>2, NumberedHead DEF Deliverable, p
  <2>4. Numbered(parts', expected, Streamed)
    BY <1>0, <2>1, <2>2, <2>3, NumberedHead DEF p
  <2>5. \A i \in DOMAIN parts' : ~IsTerminal(parts'[i])
    BY <1>0, <2>1
  <2>6. RunInv'
    BY <1>0, <1>4, <2>1, <2>2, <2>4, <2>5
       DEF StreamInv, RunInv, graph, runtime, adapter, InProgress
  <2>7. WireInv' /\ DoneInv'
    BY <1>0, <1>4, RunLeavesAdapter
  <2> QED BY <1>2, <2>6, <2>7 DEF StreamInv
<1>5. CASE node = "raised"
  <2>1. /\ ~ended
        /\ \A i \in DOMAIN parts :
             IsTerminal(parts[i]) => Len(parts) = 1 /\ parts[i].type = FinalType
    BY <1>0, <1>5 DEF StreamInv, RunInv
  <2>2. \A i \in DOMAIN parts' : ~IsTerminal(parts'[i])
    <3> SUFFICES ASSUME NEW i \in DOMAIN parts', IsTerminal(parts'[i]) PROVE FALSE
      OBVIOUS
    <3>1. Len(parts) = 1 /\ DOMAIN parts' = 1 .. Len(parts')
      BY <1>0, <2>1, LenProperties
    <3> QED BY <1>0, <3>1
  <2>3. RunInv'
    BY <1>0, <1>5, <2>1, <2>2 DEF StreamInv, RunInv, graph, runtime, adapter, InProgress
  <2>4. WireInv'
    BY <1>0 DEF StreamInv, WireInv, graph, runtime, adapter, FinalType, IsTerminal, This
  <2>5. DoneInv'
    BY <1>0 DEF DoneInv, adapter
  <2> QED BY <1>2, <2>3, <2>4, <2>5 DEF StreamInv
<1> QED BY <1>0, <1>3, <1>4, <1>5

LEMMA ProjectYieldsEvent ==
    ASSUME StreamInv, Project, Deliverable(Head(parts)), Head(parts).kind = "event"
    PROVE  StreamInv'
<1> DEFINE p == Head(parts)
<1>0. /\ phase = "loop" /\ parts \in Seq(Parts) /\ expected \in Nat /\ history \in Nat
      /\ p \in Parts /\ parts' = Tail(parts) /\ parts' \in Seq(Parts) /\ parts # <<>>
      /\ Len(parts) \in Nat \ {0} /\ Len(parts') = Len(parts) - 1
      /\ \A i \in DOMAIN parts' : i + 1 \in DOMAIN parts /\ parts'[i] = parts[i + 1]
      /\ UNCHANGED <<graph, earlier, asked, expired, span, phase, held, wire, client>>
      /\ node \in {"over", "raised"} \cup InProgress /\ pending = "asked"
      /\ p = parts[1] /\ 1 \in DOMAIN parts
  BY ProjectFinds DEF Project, StreamInv, TypeOK
<1>1. /\ ~ended /\ p.number = expected /\ p.kind = "event"
      /\ item' = p /\ pending' = "item"
      /\ expected' = expected + 1 /\ ended' = (p.type # "activity")
  BY DEF Project, Yields, Deliverable
<1>2. ended' = IsTerminal(p) /\ expected' \in Nat
  BY <1>0, <1>1 DEF IsTerminal
<1> HIDE DEF p
<1>3. TypeOK'
  <2>1. ended' \in BOOLEAN
    BY <1>1, Zenon
  <2> QED BY <1>0, <1>1, <1>2, <2>1 DEF StreamInv, TypeOK, graph
<1>4. UNCHANGED <<FinalType, This, Streamed>>
  BY <1>0 DEF FinalType, This, Streamed, graph
<1>5. /\ IsTerminal(p) => node \in {"over", "raised"} /\ p.type = FinalType
      /\ RunInv'
  <2>1. CASE node \in InProgress
    <3>1. /\ Numbered(parts, expected, Streamed) /\ Streamed \in Nat
          /\ \A i \in DOMAIN parts : ~IsTerminal(parts[i])
      BY <1>0, <2>1 DEF StreamInv, RunInv, Streamed, TypeOK
    <3>2. Numbered(parts', expected + 1, Streamed)
      BY <1>0, <1>1, <3>1, NumberedHead DEF p
    <3>3. \A i \in DOMAIN parts' : ~IsTerminal(parts'[i])
      BY <1>0, <3>1
    <3>4. ~IsTerminal(p)
      BY <1>0, <3>1
    <3>5. RunInv'
      BY <1>0, <1>1, <1>2, <1>4, <2>1, <3>2, <3>3, <3>4
         DEF StreamInv, RunInv, graph, InProgress
    <3> QED BY <3>4, <3>5
  <2>2. CASE node = "raised"
    <3>1. \A i \in DOMAIN parts :
             IsTerminal(parts[i]) => Len(parts) = 1 /\ parts[i].type = FinalType
      BY <1>0, <2>2 DEF StreamInv, RunInv
    <3>2. IsTerminal(p) => p.type = FinalType /\ Len(parts') = 0
      BY <1>0, <3>1
    <3>3. IsTerminal(p) => parts' = <<>>
      BY <1>0, <3>2, EmptySeq
    <3>4. \A i \in DOMAIN parts' : ~IsTerminal(parts'[i])
      <4> SUFFICES ASSUME NEW i \in DOMAIN parts', IsTerminal(parts'[i]) PROVE FALSE
        OBVIOUS
      <4>1. Len(parts) = 1 /\ DOMAIN parts' = 1 .. Len(parts')
        BY <1>0, <3>1, LenProperties
      <4> QED BY <1>0, <4>1
    <3>5. RunInv'
      BY <1>0, <1>1, <1>2, <2>2, <3>3, <3>4 DEF StreamInv, RunInv, graph, InProgress
    <3> QED BY <2>2, <3>2, <3>5
  <2>3. CASE node = "over"
    <3>1. history = expected + 1 /\ parts = <<Event(FinalType, expected), Values(This)>>
      BY <1>0, <1>1, <2>3 DEF StreamInv, RunInv
    <3>2. p = Event(FinalType, expected) /\ parts' = <<Values(This)>>
      BY <1>0, <3>1
    <3>3. p.type = FinalType /\ IsTerminal(p)
      BY <3>2 DEF Event, IsTerminal, FinalType
    <3>4. parts' = <<Values(This)'>>
      BY <1>4, <3>2 DEF Values
    <3>5. RunInv'
      BY <1>0, <1>1, <1>2, <2>3, <3>1, <3>3, <3>4 DEF StreamInv, RunInv, graph, InProgress
    <3> QED BY <2>3, <3>3, <3>5
  <2> QED BY <1>0, <2>1, <2>2, <2>3
<1>6. WireInv'
  <2>1. held = "none" /\ Len(wire) = expected + 1
    BY <1>0, <1>1 DEF StreamInv, WireInv
  <2> QED
    BY <1>0, <1>1, <1>2, <1>4, <1>5, <2>1 DEF StreamInv, WireInv, graph
<1>7. DoneInv'
  BY <1>0 DEF DoneInv
<1> QED BY <1>3, <1>5, <1>6, <1>7 DEF StreamInv

LEMMA ProjectYieldsOutput ==
    ASSUME StreamInv, Project, Deliverable(Head(parts)), Head(parts).kind # "event"
    PROVE  StreamInv'
<1>0. /\ phase = "loop" /\ parts \in Seq(Parts)
      /\ Head(parts) \in Parts /\ parts' = Tail(parts) /\ parts' \in Seq(Parts) /\ parts # <<>>
      /\ UNCHANGED <<graph, earlier, runtime, asked, expired, span, phase, held, wire, client>>
      /\ node \in {"over", "raised"} \cup InProgress /\ pending = "asked"
      /\ ended /\ item' = Head(parts) /\ pending' = "item"
  BY ProjectFinds DEF Project, Yields, Deliverable
<1>1. node = "over" /\ history = expected /\ parts = <<Values(This)>>
  BY <1>0 DEF StreamInv, RunInv, InProgress
<1>2. item' = Values(This) /\ parts' = <<>>
  BY <1>0, <1>1
<1>3. This' = This /\ FinalType' = FinalType
  BY <1>0 DEF This, FinalType, graph
<1>4. item' = Values(This)' /\ item'.kind = "values"
  BY <1>2, <1>3 DEF Values
<1>5. TypeOK'
  BY <1>0 DEF StreamInv, TypeOK, graph, runtime
<1>6. RunInv'
  BY <1>0, <1>1, <1>2, <1>4 DEF StreamInv, RunInv, graph, runtime, InProgress
<1>7. WireInv'
  BY <1>0, <1>1, <1>3, <1>4 DEF StreamInv, WireInv, graph, runtime, IsTerminal
<1>8. DoneInv'
  BY <1>0 DEF DoneInv
<1> QED BY <1>5, <1>6, <1>7, <1>8 DEF StreamInv

\* The generator finishes before the run has an output to give.
LEMMA LeavesKeeps ==
    ASSUME StreamInv, NEW status \in {"completed", "failed"}, NEW outcome \in {"stop", "error"},
           Leaves(status, outcome), phase = "loop", node \notin {"over", "start"},
           pending = "asked"
    PROVE  StreamInv'
<1>1. /\ pending' = outcome /\ node' = Stopped(node) /\ busy' = FALSE /\ parts' = <<>>
      /\ UNCHANGED <<path, failing, history, journal, earlier, runtime, item,
                     asked, expired, phase, held, wire, client>>
      /\ span' = IF span = "open" THEN status ELSE span
  BY DEF Leaves
<1>2. node \in {"raised"} \cup InProgress
  BY DEF StreamInv, RunInv
<1>3. node' \in {"closed", "raised"}
  BY <1>1, <1>2 DEF Stopped, InProgress
<1>4. FinalType' = FinalType
  BY <1>1 DEF FinalType
<1>5. TypeOK'
  <2>1. /\ span' \in {"none", "off", "open", "completed", "failed", "cancelled", "running"}
        /\ pending' \in {"none", "asked", "item", "stop", "error"}
    BY <1>1 DEF StreamInv, TypeOK
  <2>2. parts' \in Seq(Parts)
    BY <1>1, EmptySeq
  <2> QED BY <1>1, <1>3, <2>1, <2>2 DEF StreamInv, TypeOK, runtime
<1>6. RunInv'
  BY <1>1, <1>3 DEF RunInv
<1>7. WireInv'
  BY <1>1, <1>3, <1>4 DEF StreamInv, WireInv, runtime
<1>8. DoneInv'
  BY <1>1 DEF DoneInv
<1> QED BY <1>5, <1>6, <1>7, <1>8 DEF StreamInv

LEMMA GeneratorKeeps == StreamInv /\ Generator => StreamInv'
<1> SUFFICES ASSUME StreamInv, Generator PROVE StreamInv'
  OBVIOUS
<1>1. CASE Project
  BY <1>1, ProjectDrops, ProjectYieldsEvent, ProjectYieldsOutput
<1>2. CASE IteratorEnds
  <2>1. phase = "loop" /\ pending = "asked" /\ parts = <<>> /\ node \in {"over", "raised"}
    BY <1>2 DEF IteratorEnds, StreamInv, WireInv, TypeOK
  <2>2. node = "raised"
    <3>1. <<Event(FinalType, expected), Values(This)>> # <<>> /\ <<Values(This)>> # <<>>
      OBVIOUS
    <3> QED BY <2>1, <3>1 DEF StreamInv, RunInv
  <2> QED BY <1>2, <2>1, <2>2, LeavesKeeps DEF IteratorEnds
<1> QED BY <1>1, <1>2 DEF Generator

LEMMA ClaimRefusedKeeps == StreamInv /\ ClaimRefused => StreamInv'
<1> SUFFICES ASSUME StreamInv, ClaimRefused PROVE StreamInv'
  OBVIOUS
<1>1. /\ node = "start" /\ pending = "asked" /\ node' = "refused" /\ pending' = "error"
      /\ UNCHANGED <<busy, path, failing, history, journal, earlier, parts,
                     runtime, item, asked, expired, phase, held, wire, client>>
      /\ span' = IF span = "none" THEN "failed" ELSE span
  BY DEF ClaimRefused
<1>2. FinalType' = FinalType /\ phase = "loop"
  BY <1>1 DEF FinalType, StreamInv, TypeOK, WireInv
<1>3. TypeOK'
  BY <1>1 DEF StreamInv, TypeOK, runtime
<1>4. RunInv'
  BY <1>1 DEF RunInv
<1>5. WireInv'
  <2>1. ~ended
    BY <1>1, <1>2 DEF StreamInv, WireInv
  <2> QED BY <1>1, <1>2, <2>1 DEF StreamInv, WireInv, runtime
<1>6. DoneInv'
  BY <1>1, <1>2 DEF DoneInv
<1> QED BY <1>3, <1>4, <1>5, <1>6 DEF StreamInv

LEMMA TimeoutKeeps == StreamInv /\ Timeout => StreamInv'
<1> SUFFICES ASSUME StreamInv, Timeout PROVE StreamInv'
  OBVIOUS
<1>1. CASE pending = "asked" /\ asked = 1
  <2>1. phase = "loop" /\ node \notin {"over", "start"}
    BY <1>1 DEF Timeout, StreamInv, RunInv
  <2> QED BY <1>1, <2>1, LeavesKeeps DEF Timeout
<1>2. CASE ~(pending = "asked" /\ asked = 1)
  <2>1. /\ expired' = TRUE
        /\ UNCHANGED <<graph, earlier, parts, runtime, adapter, span, client>>
    BY <1>2 DEF Timeout
  <2>2. UNCHANGED <<FinalType, This, Streamed>>
    BY <2>1 DEF FinalType, This, Streamed, graph
  <2>3. TypeOK'
    BY <2>1 DEF StreamInv, TypeOK, graph, runtime, adapter
  <2>4. RunInv'
    BY <2>1, <2>2 DEF StreamInv, RunInv, graph, runtime, adapter, Event, Values
  <2>5. WireInv' /\ DoneInv'
    BY <2>1, <2>2
       DEF StreamInv, WireInv, DoneInv, graph, runtime, adapter, Answered, Last, Values
  <2> QED BY <2>3, <2>4, <2>5 DEF StreamInv
<1> QED BY <1>1, <1>2

-----------------------------------------------------------------------------
(* The adapter.                                                            *)

\* What sending does to the wire.
LEMMA Sends ==
    ASSUME StreamInv, NEW type, NEW response, Send(type, response),
           type \in Kinds \cup {"stream.started", "stream.error"}, response \in Responses
    PROVE  /\ wire' \in Seq(Envelopes) /\ Len(wire) \in Nat /\ Len(wire') = Len(wire) + 1
           /\ \A i \in 1 .. Len(wire) : wire'[i] = wire[i]
           /\ wire'[Len(wire) + 1] = Envelope(type, response)
           /\ wire' # <<>> /\ wire'[Len(wire')] = Envelope(type, response)
           /\ Envelope(type, response).type = type
           /\ \A i \in DOMAIN wire' : wire'[i].sequence = i - 1
<1>1. wire \in Seq(Envelopes) /\ \A i \in DOMAIN wire : wire[i].sequence = i - 1
  BY DEF StreamInv, TypeOK, WireInv
<1>2. Len(wire) \in Nat /\ DOMAIN wire = 1 .. Len(wire)
  BY <1>1, LenProperties
<1> DEFINE e == Envelope(type, response)
<1>3. e \in Envelopes /\ e.sequence = Len(wire) /\ e.type = type
  BY <1>2 DEF Envelope, Envelopes
<1>4. wire' = Append(wire, e)
  BY DEF Send
<1> HIDE DEF e
<1>5. /\ wire' \in Seq(Envelopes) /\ Len(wire') = Len(wire) + 1
      /\ \A i \in 1 .. Len(wire) : wire'[i] = wire[i]
      /\ wire'[Len(wire) + 1] = e
  BY <1>1, <1>2, <1>3, <1>4, AppendProperties
<1>6. DOMAIN wire' = 1 .. Len(wire) + 1
  BY <1>5, LenProperties
<1>7. \A i \in DOMAIN wire' : wire'[i].sequence = i - 1
  BY <1>1, <1>2, <1>3, <1>5, <1>6
<1>8. wire' # <<>>
  BY <1>2, <1>5, EmptySeq
<1> QED BY <1>2, <1>3, <1>5, <1>7, <1>8 DEF e

LEMMA OpenKeeps == StreamInv /\ Open => StreamInv'
<1> SUFFICES ASSUME StreamInv, Open PROVE StreamInv'
  OBVIOUS
<1>1. /\ phase = "new" /\ Send("stream.started", NoResponse) /\ phase' = "loop"
      /\ UNCHANGED <<graph, parts, span, pending, item, asked, held, Others>>
  BY DEF Open
<1>2. /\ wire = <<>> /\ pending = "none" /\ held = "none" /\ expected = 0 /\ ~ended
      /\ node = "start"
  BY <1>1 DEF StreamInv, WireInv
<1>3. /\ wire' \in Seq(Envelopes) /\ Len(wire') = 1 /\ wire'[1].type = "stream.started"
      /\ wire' # <<>> /\ \A i \in DOMAIN wire' : wire'[i].sequence = i - 1
  BY <1>1, <1>2, Sends, PartTypes, EmptySeq
<1>4. TypeOK'
  BY <1>1, <1>3 DEF StreamInv, TypeOK, graph, runtime, Others
<1>5. UNCHANGED <<FinalType, This, Streamed>>
  BY <1>1 DEF FinalType, This, Streamed, graph
<1>6. RunInv'
  BY <1>1, <1>2, <1>5 DEF StreamInv, RunInv, graph, runtime, Others, InProgress
<1>7. WireInv'
  BY <1>1, <1>2, <1>3 DEF WireInv, graph, runtime, Others
<1>8. DoneInv'
  BY <1>1 DEF DoneInv
<1> QED BY <1>4, <1>6, <1>7, <1>8 DEF StreamInv

LEMMA AskKeeps == StreamInv /\ Ask => StreamInv'
<1> SUFFICES ASSUME StreamInv, Ask PROVE StreamInv'
  OBVIOUS
<1>1. /\ phase = "loop" /\ pending = "none" /\ pending' = "asked"
      /\ asked' = (IF asked = 0 THEN 1 ELSE 2)
      /\ UNCHANGED <<graph, parts, span, item, phase, held, wire, Others>>
  BY DEF Ask
<1>2. asked \in 0 .. 2
  BY DEF StreamInv, TypeOK
<1>3. TypeOK'
  BY <1>1, <1>2 DEF StreamInv, TypeOK, graph, runtime, Others
<1>4. UNCHANGED <<FinalType, This, Streamed>>
  BY <1>1 DEF FinalType, This, Streamed, graph
<1>5. RunInv'
  BY <1>1, <1>2, <1>4
     DEF StreamInv, RunInv, graph, runtime, Others, InProgress, Event, Values
<1>6. WireInv'
  BY <1>1, <1>4 DEF StreamInv, WireInv, graph, runtime, Others
<1>7. DoneInv'
  BY <1>1 DEF DoneInv
<1> QED BY <1>3, <1>5, <1>6, <1>7 DEF StreamInv

LEMMA ForwardKeeps == StreamInv /\ Forward => StreamInv'
<1> SUFFICES ASSUME StreamInv, Forward PROVE StreamInv'
  OBVIOUS
<1>1. /\ phase = "loop" /\ pending = "item" /\ item.kind = "event" /\ item.type = "activity"
      /\ Send("activity", NoResponse) /\ pending' = "none"
      /\ UNCHANGED <<graph, parts, span, item, asked, phase, held, Others>>
  BY DEF Forward
<1>2. /\ ~ended /\ held = "none" /\ Len(wire) = expected /\ wire # <<>>
      /\ wire[1].type = "stream.started"
      /\ \A i \in 2 .. Len(wire) : wire[i].type = "activity"
  BY <1>1 DEF StreamInv, WireInv, IsTerminal
<1>3. /\ wire' \in Seq(Envelopes) /\ Len(wire) \in Nat /\ Len(wire') = Len(wire) + 1
      /\ \A i \in 1 .. Len(wire) : wire'[i] = wire[i]
      /\ wire'[Len(wire) + 1].type = "activity"
      /\ wire' # <<>> /\ \A i \in DOMAIN wire' : wire'[i].sequence = i - 1
  BY <1>1, Sends, PartTypes
<1>4. Len(wire) > 0
  BY <1>2, <1>3, EmptySeq DEF StreamInv, TypeOK
<1>5. wire'[1].type = "stream.started" /\ \A i \in 2 .. Len(wire') : wire'[i].type = "activity"
  BY <1>2, <1>3, <1>4
<1>6. TypeOK'
  BY <1>1, <1>3 DEF StreamInv, TypeOK, graph, runtime, Others
<1>7. UNCHANGED <<FinalType, This, Streamed>>
  BY <1>1 DEF FinalType, This, Streamed, graph
<1>8. RunInv'
  <2>1. item # Values(This)
    BY <1>1 DEF Values
  <2> QED
    BY <1>1, <1>7, <2>1
       DEF StreamInv, RunInv, graph, runtime, Others, InProgress, Event, Values
<1>9. WireInv'
  BY <1>1, <1>2, <1>3, <1>5, <1>7 DEF StreamInv, WireInv, graph, runtime, Others
<1>10. DoneInv'
  BY <1>1 DEF DoneInv
<1> QED BY <1>6, <1>8, <1>9, <1>10 DEF StreamInv

LEMMA HoldKeeps == StreamInv /\ Hold => StreamInv'
<1> SUFFICES ASSUME StreamInv, Hold PROVE StreamInv'
  OBVIOUS
<1>1. /\ phase = "loop" /\ pending = "item" /\ item.kind = "event" /\ item.type # "activity"
      /\ held' = item.type /\ pending' = "none"
      /\ UNCHANGED <<graph, parts, span, item, asked, phase, wire, Others>>
  BY DEF Hold
<1>2. ended /\ item.type = FinalType /\ Len(wire) = expected
  BY <1>1 DEF StreamInv, WireInv, IsTerminal
<1>3. item.type \in Kinds
  BY DEF StreamInv, TypeOK, Parts
<1>4. TypeOK'
  BY <1>1, <1>3 DEF StreamInv, TypeOK, graph, runtime, Others
<1>5. UNCHANGED <<FinalType, This, Streamed>> /\ FinalType # "none"
  BY <1>1 DEF FinalType, This, Streamed, graph
<1>6. RunInv'
  <2>1. item # Values(This)
    BY <1>1 DEF Values
  <2> QED
    BY <1>1, <1>5, <2>1
       DEF StreamInv, RunInv, graph, runtime, Others, InProgress, Event, Values
<1>7. WireInv'
  BY <1>1, <1>2, <1>5 DEF StreamInv, WireInv, graph, runtime, Others
<1>8. DoneInv'
  BY <1>1 DEF DoneInv
<1> QED BY <1>4, <1>6, <1>7, <1>8 DEF StreamInv

\* In the loop the wire holds no terminal envelope.
LEMMA NothingTerminalYet ==
    ASSUME StreamInv, phase = "loop"
    PROVE  /\ wire \in Seq(Envelopes) /\ Len(wire) \in Nat \ {0}
           /\ Last = wire[Len(wire)] /\ Last.type \in {"stream.started", "activity"}
           /\ ~Answered
<1>1. /\ wire \in Seq(Envelopes) /\ wire # <<>> /\ wire[1].type = "stream.started"
      /\ \A i \in 2 .. Len(wire) : wire[i].type = "activity"
  BY DEF StreamInv, TypeOK, WireInv
<1>2. Len(wire) \in Nat \ {0}
  BY <1>1, EmptySeq, LenProperties
<1>3. Last = wire[Len(wire)] /\ Last.type \in {"stream.started", "activity"}
  BY <1>1, <1>2 DEF Last
<1> QED BY <1>1, <1>2, <1>3 DEF Answered

LEMMA AnswerKeeps == StreamInv /\ Answer => StreamInv'
<1> SUFFICES ASSUME StreamInv, Answer PROVE StreamInv'
  OBVIOUS
<1> DEFINE type == IF held = "none" THEN "response.completed" ELSE held
<1>1. /\ phase = "loop" /\ pending = "item" /\ item.kind = "values"
      /\ Send(type, item.output) /\ pending' = "none" /\ phase' = "closing"
      /\ UNCHANGED <<graph, parts, span, item, asked, held, Others>>
  BY DEF Answer
<1>2. /\ node = "over" /\ ended /\ item = Values(This) /\ history = expected
      /\ Len(wire) = expected /\ held = FinalType
      /\ \A i \in 2 .. Len(wire) : wire[i].type = "activity"
  BY <1>1 DEF StreamInv, WireInv, FinalType
<1>3. failing \in BOOLEAN /\ history \in Nat
  BY DEF StreamInv, TypeOK
<1>4. /\ item.output = This /\ This \in Responses /\ FinalType \in Kinds
      /\ FinalType \in {"response.completed", "response.failed"} /\ FinalType # "none"
      /\ type = FinalType
  BY <1>2, <1>3, PartTypes DEF FinalType
<1> HIDE DEF type
<1>5. /\ wire' \in Seq(Envelopes) /\ Len(wire) \in Nat /\ Len(wire') = Len(wire) + 1
      /\ \A i \in 1 .. Len(wire) : wire'[i] = wire[i]
      /\ wire' # <<>> /\ wire'[Len(wire')].type = FinalType
      /\ \A i \in DOMAIN wire' : wire'[i].sequence = i - 1
  BY <1>1, <1>4, Sends
<1>6. TypeOK'
  BY <1>1, <1>5 DEF StreamInv, TypeOK, graph, runtime, Others
<1>7. RunInv'
  BY <1>1, <1>2 DEF RunInv, graph
<1>8. WireInv'
  BY <1>1, <1>5 DEF WireInv
<1>9. DoneInv'
  <2>1. node' = "over" /\ history' = history
    BY <1>1, <1>2 DEF graph
  <2>2. Answered'
    BY <1>4, <1>5 DEF Answered, Last
  <2>3. \A i \in 2 .. Len(wire') - 1 : wire'[i].type = "activity"
    BY <1>2, <1>5
  <2> QED BY <1>2, <1>5, <2>1, <2>2, <2>3 DEF DoneInv
<1> QED BY <1>6, <1>7, <1>8, <1>9 DEF StreamInv

LEMMA ErrorKeeps == StreamInv /\ Error => StreamInv'
<1> SUFFICES ASSUME StreamInv, Error PROVE StreamInv'
  OBVIOUS
<1>1. /\ phase = "loop" /\ pending \in {"stop", "error"}
      /\ Send("stream.error", NoResponse) /\ pending' = "none" /\ phase' = "closing"
      /\ UNCHANGED <<graph, parts, span, item, asked, held, Others>>
  BY DEF Error
<1>2. node \in {"refused", "closed", "raised"}
  BY <1>1 DEF StreamInv, WireInv
<1>3. /\ wire' \in Seq(Envelopes) /\ wire' # <<>>
      /\ wire'[Len(wire')].type = "stream.error"
      /\ \A i \in DOMAIN wire' : wire'[i].sequence = i - 1
  BY <1>1, Sends, PartTypes
<1>4. TypeOK'
  BY <1>1, <1>3 DEF StreamInv, TypeOK, graph, runtime, Others
<1>5. RunInv'
  BY <1>1, <1>2 DEF RunInv, graph
<1>6. WireInv'
  BY <1>1, <1>3 DEF WireInv
<1>7. DoneInv'
  BY <1>1, <1>2, <1>3 DEF DoneInv, Answered, Last, graph
<1> QED BY <1>4, <1>5, <1>6, <1>7 DEF StreamInv

\* The iterator of the graph is closed: what the adapter does at its end.
LEMMA ClosingGraph ==
    ASSUME StreamInv,
           \/ node' = Stopped(node) /\ busy' = FALSE /\ parts' = <<>>
           \/ UNCHANGED <<node, busy, parts>>,
           UNCHANGED <<path, failing, history, journal>>
    PROVE  /\ node' \in InProgress \cup {"start", "refused", "over", "raised", "closed"}
           /\ busy' \in BOOLEAN /\ parts' \in Seq(Parts)
           /\ node' \in {"start", "initialize", "guarded"} => path' > 0
           /\ node \notin InProgress => node' = node
<1>1. <<>> \in Seq(Parts)
  BY EmptySeq
<1> QED BY <1>1 DEF StreamInv, TypeOK, RunInv, Stopped, InProgress

LEMMA CloseKeeps == StreamInv /\ Close => StreamInv'
<1> SUFFICES ASSUME StreamInv, Close PROVE StreamInv'
  OBVIOUS
<1>1. /\ phase = "closing" /\ phase' = "closed"
      /\ node' = Stopped(node) /\ busy' = FALSE /\ parts' = <<>>
      /\ span' = (IF span = "open" THEN "running" ELSE span)
      /\ UNCHANGED <<path, failing, history, journal, pending, item, asked, held,
                     wire, Others>>
  BY DEF Close
<1>2. /\ node' \in InProgress \cup {"start", "refused", "over", "raised", "closed"}
      /\ busy' \in BOOLEAN /\ parts' \in Seq(Parts)
      /\ node' \in {"start", "initialize", "guarded"} => path' > 0
      /\ node \notin InProgress => node' = node
  BY <1>1, ClosingGraph
<1>3. TypeOK'
  BY <1>1, <1>2 DEF StreamInv, TypeOK, runtime, Others
<1>4. RunInv'
  BY <1>1, <1>2 DEF RunInv
<1>5. WireInv'
  BY <1>1 DEF StreamInv, WireInv
<1>6. DoneInv'
  BY <1>1, <1>2 DEF StreamInv, DoneInv, Answered, Last, Others, InProgress
<1> QED BY <1>3, <1>4, <1>5, <1>6 DEF StreamInv

LEMMA PingKeeps == StreamInv /\ Ping => StreamInv'
<1> SUFFICES ASSUME StreamInv, Ping PROVE StreamInv'
  OBVIOUS
<1>1. /\ phase = "loop" /\ client = "gone"
      /\ node' = Stopped(node) /\ busy' = FALSE /\ parts' = <<>>
      /\ span' = (IF span # "open" THEN span
                  ELSE IF expired THEN "failed" ELSE "cancelled")
      /\ pending' = "none" /\ phase' = "closing"
      /\ Send("stream.error", NoResponse) \/ UNCHANGED wire
      /\ UNCHANGED <<path, failing, history, journal, item, asked, held, Others>>
  BY DEF Ping
<1>2. /\ node' \in InProgress \cup {"start", "refused", "over", "raised", "closed"}
      /\ busy' \in BOOLEAN /\ parts' \in Seq(Parts)
      /\ node' \in {"start", "initialize", "guarded"} => path' > 0
  BY <1>1, ClosingGraph
<1>3. /\ wire' \in Seq(Envelopes) /\ ~Answered'
      /\ \A i \in DOMAIN wire' : wire'[i].sequence = i - 1
  <2>1. CASE Send("stream.error", NoResponse)
    <3>1. /\ wire' \in Seq(Envelopes) /\ wire' # <<>>
          /\ wire'[Len(wire')].type = "stream.error"
          /\ \A i \in DOMAIN wire' : wire'[i].sequence = i - 1
      BY <2>1, Sends, PartTypes
    <3> QED BY <3>1 DEF Answered, Last
  <2>2. CASE UNCHANGED wire
    <3>1. ~Answered
      BY <1>1, NothingTerminalYet
    <3> QED BY <2>2, <3>1 DEF Answered, Last, StreamInv, TypeOK, WireInv
  <2> QED BY <1>1, <2>1, <2>2
<1>4. TypeOK'
  <2>1. span' \in {"none", "off", "open", "completed", "failed", "cancelled", "running"}
    BY <1>1 DEF StreamInv, TypeOK
  <2> QED BY <1>1, <1>2, <1>3, <2>1 DEF StreamInv, TypeOK, runtime, Others
<1>5. RunInv'
  BY <1>1, <1>2 DEF RunInv
<1>6. WireInv'
  BY <1>1, <1>3 DEF WireInv
<1>7. DoneInv'
  BY <1>1, <1>3 DEF DoneInv, Others
<1> QED BY <1>4, <1>5, <1>6, <1>7 DEF StreamInv

LEMMA CancelledKeeps == StreamInv /\ Cancelled => StreamInv'
<1> SUFFICES ASSUME StreamInv, Cancelled PROVE StreamInv'
  OBVIOUS
<1>1. /\ phase = "loop" /\ client = "gone" /\ phase' = "closing" /\ pending' = "none"
      /\ \/ node' = Stopped(node) /\ busy' = FALSE /\ parts' = <<>>
         \/ UNCHANGED <<node, busy, parts>>
      /\ span' \in {span, "failed", "cancelled"}
      /\ UNCHANGED <<path, failing, history, journal, item, asked, held, wire, Others>>
  BY DEF Cancelled
<1>2. /\ node' \in InProgress \cup {"start", "refused", "over", "raised", "closed"}
      /\ busy' \in BOOLEAN /\ parts' \in Seq(Parts)
      /\ node' \in {"start", "initialize", "guarded"} => path' > 0
  BY <1>1, ClosingGraph
<1>3. TypeOK'
  <2>1. span' \in {"none", "off", "open", "completed", "failed", "cancelled", "running"}
    BY <1>1 DEF StreamInv, TypeOK
  <2> QED BY <1>1, <1>2, <2>1 DEF StreamInv, TypeOK, runtime, Others
<1>4. RunInv'
  BY <1>1, <1>2 DEF RunInv
<1>5. WireInv'
  BY <1>1 DEF StreamInv, WireInv
<1>6. DoneInv'
  <2>1. ~Answered
    BY <1>1, NothingTerminalYet
  <2> QED BY <1>1, <2>1 DEF DoneInv, Answered, Last, Others
<1> QED BY <1>3, <1>4, <1>5, <1>6 DEF StreamInv

LEMMA AdapterKeeps == StreamInv /\ Adapter => StreamInv'
  BY OpenKeeps, AskKeeps, ForwardKeeps, HoldKeeps, AnswerKeeps, ErrorKeeps,
     CloseKeeps DEF Adapter

-----------------------------------------------------------------------------
(* The page.                                                               *)

\* What the script does to a stream other than posting a prompt: nothing, or
\* the client leaves it.
LEMMA ClientLeaves ==
    ASSUME StreamInv, UNCHANGED server, client' \in {client, "gone"}
    PROVE  StreamInv'
<1>1. UNCHANGED <<node, busy, path, failing, history, journal, earlier, parts,
                  expected, ended, pending, item, asked, phase, held, wire,
                  expired, span>>
  BY DEF server, graph, runtime, adapter
<1>2. UNCHANGED <<FinalType, This, Streamed>>
  BY <1>1 DEF FinalType, This, Streamed
<1>3. TypeOK'
  BY <1>1 DEF StreamInv, TypeOK
<1>4. RunInv'
  BY <1>1, <1>2 DEF StreamInv, RunInv, Event, Values
<1>5. WireInv' /\ DoneInv'
  BY <1>1, <1>2 DEF StreamInv, WireInv, DoneInv, Answered, Last, Values
<1> QED BY <1>3, <1>4, <1>5 DEF StreamInv

LEMMA PromptKeeps == StreamInv /\ Prompt => StreamInv'
<1> SUFFICES ASSUME StreamInv, Prompt PROVE StreamInv'
  OBVIOUS
<1>1. /\ node' = "start" /\ busy' = FALSE /\ failing' = FALSE
      /\ path' \in 1 .. MaxNodes
      /\ history' = 0 /\ journal' = 0 /\ parts' = <<>>
      /\ expected' = 0 /\ ended' = FALSE /\ expired' = FALSE
      /\ pending' = "none" /\ item' = NoItem /\ asked' = 0
      /\ phase' = "new" /\ held' = "none" /\ wire' = <<>>
      /\ span' = (IF span = "off" THEN "off" ELSE "none")
      /\ client' = "here"
  BY DEF Prompt
<1>2. TypeOK'
  <2>1. item' \in Parts
    BY <1>1, PartTypes DEF NoItem
  <2>2. earlier' \in Responses
    BY EarlierTyped DEF Prompt
  <2>3. parts' \in Seq(Parts) /\ wire' \in Seq(Envelopes)
    BY <1>1, EmptySeq
  <2>4. path' \in 0 .. MaxNodes
    BY <1>1, StreamAssumption
  <2>5. /\ busy' \in BOOLEAN /\ failing' \in BOOLEAN /\ ended' \in BOOLEAN
        /\ expired' \in BOOLEAN
    BY <1>1, Zenon
  <2>6. /\ node' \in InProgress \cup {"start", "refused", "over", "raised", "closed"}
        /\ held' \in Kinds \cup {"none"}
    BY <1>1
  <2>7. /\ pending' \in {"none", "asked", "item", "stop", "error"}
        /\ span' \in {"none", "off", "open", "completed", "failed", "cancelled", "running"}
        /\ phase' \in {"new", "loop", "closing", "closed"} /\ client' \in {"here", "gone"}
    BY <1>1
  <2>8. history' \in Nat /\ journal' \in Nat /\ expected' \in Nat /\ asked' \in 0 .. 2
    BY <1>1
  <2> QED BY <2>1, <2>2, <2>3, <2>4, <2>5, <2>6, <2>7, <2>8, Zenon DEF TypeOK
<1>3. RunInv'
  <2>1. Numbered(<<>>, 0, 0)
    BY NumberedEmpty
  <2> QED BY <1>1, <2>1, StreamAssumption DEF RunInv, InProgress, Streamed
<1>4. WireInv'
  BY <1>1 DEF WireInv
<1>5. DoneInv'
  BY <1>1 DEF DoneInv
<1> QED BY <1>2, <1>3, <1>4, <1>5 DEF StreamInv

LEMMA TurnedAwayKeeps == StreamInv /\ TurnedAway => StreamInv'
<1> SUFFICES ASSUME StreamInv, TurnedAway PROVE StreamInv'
  OBVIOUS
<1>1. /\ phase = "new" /\ phase' = "closed" /\ client' = "gone"
      /\ UNCHANGED <<graph, earlier, parts, runtime, pending, item, asked, held,
                     wire, expired, span>>
  BY DEF TurnedAway
<1>2. wire = <<>> /\ pending = "none" /\ node = "start"
  BY <1>1 DEF StreamInv, WireInv
<1>3. TypeOK'
  BY <1>1 DEF StreamInv, TypeOK, graph, runtime
<1>4. RunInv'
  BY <1>1 DEF StreamInv, RunInv, graph
<1>5. WireInv'
  BY <1>1, <1>2 DEF WireInv
<1>6. DoneInv'
  BY <1>1, <1>2 DEF DoneInv, Answered
<1> QED BY <1>3, <1>4, <1>5, <1>6 DEF StreamInv

\* The steps of the page that leave the server alone.
PageAlone ==
    NewConversation \/ LogOut \/ Rerun \/ LogIn \/ Take \/ TurnEnds \/ Breaks

LEMMA PageLeavesServer ==
    PageAlone => UNCHANGED server /\ client' \in {client, "gone"}
<1>1. Take => UNCHANGED server /\ client' \in {client, "gone"}
  BY DEF Take
<1>2. NewConversation \/ LogOut \/ Rerun => UNCHANGED server /\ client' \in {client, "gone"}
  BY DEF NewConversation, LogOut, Rerun, HangUp
<1>3. LogIn \/ TurnEnds \/ Breaks => UNCHANGED server /\ client' \in {client, "gone"}
  BY DEF LogIn, TurnEnds, Breaks
<1> QED BY <1>1, <1>2, <1>3 DEF PageAlone

LEMMA StreamSteps == StreamInv /\ [ChatNext]_allVars => StreamInv'
<1> SUFFICES ASSUME StreamInv, [ChatNext]_allVars PROVE StreamInv'
  OBVIOUS
<1>1. CASE Prompt
  BY <1>1, PromptKeeps
<1>2. CASE PageAlone
  BY <1>2, PageLeavesServer, ClientLeaves
<1>3. CASE TokenRefused \/ LimitReached
  BY <1>3, TurnedAwayKeeps DEF TokenRefused, LimitReached
<1>4. CASE Backend(Run) \/ Backend(FinalizeRaises) \/ Backend(GraphRaises)
  BY <1>4, RunKeeps DEF Backend
<1>5. CASE Backend(Generator) \/ Backend(ClaimRefused) \/ Backend(Timeout)
  BY <1>5, GeneratorKeeps, ClaimRefusedKeeps, TimeoutKeeps DEF Backend
<1>6. CASE Backend(Adapter) \/ Backend(Ping) \/ Backend(Cancelled)
  BY <1>6, AdapterKeeps, PingKeeps, CancelledKeeps DEF Backend
<1>7. CASE UNCHANGED allVars
  BY <1>7, ClientLeaves DEF allVars, vars, server
<1> QED
  BY <1>1, <1>2, <1>3, <1>4, <1>5, <1>6, <1>7 DEF ChatNext, PageAlone

THEOREM StreamIsSound == ChatSpec => []StreamInv
<1>1. ChatInit => StreamInv
  BY StreamStarts DEF ChatInit
<1>2. StreamInv /\ [ChatNext]_allVars => StreamInv'
  BY StreamSteps
<1> QED BY <1>1, <1>2, PTL DEF ChatSpec

\* Every variable of a stream keeps its type, whatever the page does with it.
THEOREM StreamTypeCorrect == ChatSpec => []TypeOK
<1>1. StreamInv => TypeOK
  BY DEF StreamInv
<1> QED BY <1>1, StreamIsSound, PTL

\* A turn that produced its output is answered with it if the client stays:
\* runtime.py and api/sse.py lose no terminal event and no output.
THEOREM NoAnswerIsLost == ChatSpec => []NoAnswerLost
<1>1. StreamInv => NoAnswerLost
  BY DEF StreamInv, DoneInv, NoAnswerLost
<1> QED BY <1>1, StreamIsSound, PTL

\* An answered client saw every event that the nodes emitted.
THEOREM NothingIsSkipped == ChatSpec => []NothingSkipped
<1>1. ASSUME StreamInv PROVE NothingSkipped
  <2>1. CASE phase = "new"
    BY <1>1, <2>1 DEF StreamInv, WireInv, NothingSkipped, Answered
  <2>2. CASE phase = "loop"
    BY <1>1, <2>2, NothingTerminalYet DEF NothingSkipped
  <2>3. CASE phase \in {"closing", "closed"}
    BY <1>1, <2>3 DEF StreamInv, DoneInv, NothingSkipped
  <2> QED BY <1>1, <2>1, <2>2, <2>3 DEF StreamInv, TypeOK
<1> QED BY <1>1, StreamIsSound, PTL

-----------------------------------------------------------------------------
(* What is sent is what the frontend's validator accepts.                  *)

\* Sending an envelope of this request while none is terminal.
LEMMA SendAccepted ==
    ASSUME StreamInv, phase \in {"new", "loop"}, NEW type, NEW response,
           Send(type, response), response \in Responses,
           type \in Kinds \cup {"stream.started", "stream.error"},
           response.of # "earlier",
           type = "response.completed" => response.of = "this",
           type = "response.failed" => response.of = "this" /\ response.failed
    PROVE  Client!ContractNext
<1>1. Last.type \notin Client!Terminal
  <2>1. CASE phase = "new"
    BY <2>1 DEF StreamInv, WireInv, Last, Unsent, Client!Terminal
  <2>2. CASE phase = "loop"
    BY <2>2, NothingTerminalYet DEF Client!Terminal
  <2> QED BY <2>1, <2>2
<1>2. /\ Len(wire) \in Nat /\ Len(wire') = Len(wire) + 1
      /\ Last' = Envelope(type, response)
  BY Sends DEF Last
<1>3. /\ Last'.sequence = Len(wire) /\ Last'.type = type /\ Last'.response = response
      /\ Last' \in Client!Envelopes
  BY <1>2 DEF Envelope, Client!Envelopes, Client!Terminal, Client!Responses, Responses,
              Kinds
<1>4. Client!Accept(Last')
  BY <1>1, <1>2, <1>3 DEF Client!Accept
<1> QED BY <1>3, <1>4 DEF Client!ContractNext

LEMMA ContractSteps ==
    StreamInv /\ [ChatNext]_allVars => [Client!ContractNext]_(Client!contractVars)
<1> SUFFICES ASSUME StreamInv, [ChatNext]_allVars
             PROVE  Client!ContractNext \/ UNCHANGED wire
  BY DEF Client!contractVars, Last
<1>1. NoResponse \in Responses /\ NoResponse.of # "earlier"
  BY PartTypes DEF NoResponse
<1>2. CASE Prompt
  <2>1. wire' = <<>>
    BY <1>2 DEF Prompt
  <2>2. Len(wire') = 0 /\ Last' = Unsent
    BY <2>1, EmptySeq DEF Last, Unsent
  <2>3. Client!Anew
    BY <2>2 DEF Client!Anew, Client!Nothing, Client!NoResponse, Unsent, NoResponse
  <2> QED BY <2>3 DEF Client!ContractNext
<1>3. CASE PageAlone
  BY <1>3, PageLeavesServer DEF server, adapter
<1>4. CASE TokenRefused \/ LimitReached
  BY <1>4 DEF TokenRefused, LimitReached, TurnedAway
<1>5. CASE Run \/ FinalizeRaises \/ GraphRaises
  BY <1>5
     DEF Run, Begin, Enter, Initialize, Emit, NodeReturns, NodeRaises, OverBudget,
         HandleFailure, Finalize, FinalizeRaises, GraphRaises, Ends, adapter
<1>6. CASE Generator \/ ClaimRefused \/ Timeout
  BY <1>6 DEF Generator, Project, IteratorEnds, Leaves, ClaimRefused, Timeout, adapter
<1>7. CASE Open
  BY <1>1, <1>7, SendAccepted DEF Open
<1>8. CASE Forward
  BY <1>1, <1>8, SendAccepted DEF Forward, Kinds
<1>9. CASE Answer
  <2>1. /\ phase = "loop" /\ pending = "item" /\ item.kind = "values"
        /\ Send(IF held = "none" THEN "response.completed" ELSE held, item.output)
    BY <1>9 DEF Answer
  <2>2. held = FinalType /\ held # "none" /\ item = Values(This) /\ failing \in BOOLEAN
    BY <2>1 DEF StreamInv, TypeOK, WireInv, FinalType
  <2>3. item.output = This /\ This \in Responses /\ FinalType \in Kinds
    BY <2>2, PartTypes
  <2>4. This.of = "this" /\ (FinalType = "response.failed" => This.failed)
    BY <2>2 DEF This, FinalType
  <2>5. Send(FinalType, This)
    BY <2>1, <2>2, <2>3
  <2> HIDE DEF Send
  <2> QED BY <2>1, <2>3, <2>4, <2>5, SendAccepted
<1>10. CASE Error
  BY <1>1, <1>10, SendAccepted DEF Error
<1>11. CASE Ask \/ Hold \/ Close \/ Cancelled
  BY <1>11 DEF Ask, Hold, Close, Cancelled
<1>12. CASE Ping
  <2>1. phase = "loop" /\ (Send("stream.error", NoResponse) \/ UNCHANGED wire)
    BY <1>12 DEF Ping
  <2> QED BY <1>1, <2>1, SendAccepted
<1>13. CASE UNCHANGED allVars
  BY <1>13 DEF allVars, vars, adapter
<1> QED
  BY <1>2, <1>3, <1>4, <1>5, <1>6, <1>7, <1>8, <1>9, <1>10, <1>11, <1>12, <1>13
     DEF ChatNext, PageAlone, Backend, Adapter

\* Whatever fails and whenever the client leaves, api/sse.py sends only what
\* the validator of the frontend accepts: the stream implements StreamContract.
THEOREM ContractIsKept == ChatSpec => KeepsContract
<1>1. ChatInit => Client!ContractInit
  BY EmptySeq
     DEF ChatInit, Init, Last, Unsent, NoResponse, Client!ContractInit,
         Client!Nothing, Client!NoResponse
<1>2. StreamInv /\ [ChatNext]_allVars => [Client!ContractNext]_(Client!contractVars)
  BY ContractSteps
<1> QED BY <1>1, <1>2, StreamIsSound, PTL DEF ChatSpec, KeepsContract, Client!Contract

-----------------------------------------------------------------------------
(* The conversation of the page.                                           *)

Messages == [role : {"user", "assistant"}, prompt : Nat, of : Nat]

Replies == {i \in DOMAIN messages : messages[i].role = "assistant"}

\* The question of the turn in progress is the newest message, until the
\* answer is, and its conversation is the one that is continued.
PageInv ==
    /\ prompts \in Nat /\ effective \in Nat /\ session \in Nat
    /\ messages \in Seq(Messages)
    /\ page = "reading" =>
         /\ effective # NoConversation
         /\ session \in {NoConversation, effective}
         /\ messages # <<>>
         /\ messages[Len(messages)] = Question(prompts) \/ Has(Reply)
    /\ OneConversation

LEMMA OneConversationSays ==
    OneConversation <=>
        /\ (session = NoConversation) = (Replies = {})
        /\ \A i \in Replies :
             /\ messages[i].of = session
             /\ i > 1 /\ messages[i - 1] = Question(messages[i].prompt)
             /\ \A j \in Replies : messages[j] = messages[i] => j = i
  BY DEF OneConversation, Replies

LEMMA PageStarts == ChatInit => PageInv
<1> SUFFICES ASSUME ChatInit PROVE PageInv
  OBVIOUS
<1>1. /\ page = "idle" /\ prompts = 0 /\ effective = 0 /\ session = 0 /\ messages = <<>>
  BY DEF ChatInit, NoConversation
<1>2. Replies = {} /\ messages \in Seq(Messages)
  BY <1>1, EmptySeq DEF Replies
<1> QED BY <1>1, <1>2, OneConversationSays DEF PageInv, NoConversation

\* Nothing is shown, and no conversation is continued.
LEMMA ClearedKeeps ==
    ASSUME PageInv, messages' = <<>>, session' = NoConversation, UNCHANGED turn,
           page' # "reading"
    PROVE  PageInv'
<1>1. messages' \in Seq(Messages) /\ Replies' = {}
  BY EmptySeq DEF Replies
<1>2. OneConversation'
  BY <1>1, OneConversationSays DEF OneConversation, Replies, NoConversation
<1> QED BY <1>1, <1>2 DEF PageInv, turn, NoConversation

\* The conversation and its turn stay, and the loop goes on or ends.
LEMMA UntouchedKeeps ==
    ASSUME PageInv, UNCHANGED <<messages, session, turn>>,
           page' = "reading" => page = "reading"
    PROVE  PageInv'
<1>1. UNCHANGED <<prompts, effective, messages, session>>
  BY DEF turn
<1>2. OneConversation' /\ Reply' = Reply
  BY <1>1 DEF PageInv, OneConversation, Question, Reply
<1> QED BY <1>1, <1>2 DEF PageInv, Question, Has

LEMMA PromptKeepsPage == PageInv /\ Prompt => PageInv'
<1> SUFFICES ASSUME PageInv, Prompt PROVE PageInv'
  OBVIOUS
<1> DEFINE q == Question(prompts + 1)
           n == Len(messages)
<1>1. /\ prompts' = prompts + 1 /\ session' = session
      /\ effective' = (IF session = NoConversation THEN prompts + 1 ELSE session)
      /\ messages' = Append(messages, q)
  BY DEF Prompt
<1>2. /\ prompts \in Nat /\ session \in Nat /\ messages \in Seq(Messages)
      /\ OneConversation
  BY DEF PageInv
<1>3. q \in Messages /\ q.role = "user"
  BY <1>2 DEF Question, Messages, NoConversation
<1>4. q = Question(prompts')
  BY <1>1
<1> HIDE DEF q
<1>5. /\ messages' \in Seq(Messages) /\ n \in Nat /\ Len(messages') = n + 1
      /\ DOMAIN messages = 1 .. n /\ DOMAIN messages' = 1 .. n + 1
      /\ \A i \in 1 .. n : messages'[i] = messages[i]
      /\ messages'[n + 1] = q /\ messages' # <<>>
  BY <1>1, <1>2, <1>3, AppendProperties, EmptySeq
<1> HIDE DEF n
<1>6. Replies' = Replies /\ \A i \in Replies : i \in 1 .. n /\ messages'[i] = messages[i]
  BY <1>3, <1>5 DEF Replies
<1>7. OneConversation'
  <2>1. /\ (session = NoConversation) = (Replies = {})
        /\ \A i \in Replies :
             /\ messages[i].of = session
             /\ i > 1 /\ messages[i - 1] = Question(messages[i].prompt)
             /\ \A j \in Replies : messages[j] = messages[i] => j = i
    BY <1>2, OneConversationSays
  <2>2. \A i \in Replies : i > 1 => messages'[i - 1] = messages[i - 1]
    BY <1>5, <1>6
  <2>3. /\ (session' = NoConversation) = (Replies' = {})
        /\ \A i \in Replies' :
             /\ messages'[i].of = session'
             /\ i > 1 /\ messages'[i - 1] = Question(messages'[i].prompt)
             /\ \A j \in Replies' : messages'[j] = messages'[i] => j = i
    <3>1. (session' = NoConversation) = (Replies' = {})
      BY <1>1, <1>6, <2>1
    <3>2. ASSUME NEW i \in Replies
          PROVE  /\ messages'[i].of = session
                 /\ i > 1 /\ messages'[i - 1] = Question(messages'[i].prompt)
                 /\ \A j \in Replies : messages'[j] = messages'[i] => j = i
      <4>1. messages'[i] = messages[i] /\ i > 1 /\ messages'[i - 1] = messages[i - 1]
        BY <1>6, <2>1, <2>2
      <4>2. messages[i].of = session /\ messages[i - 1] = Question(messages[i].prompt)
        BY <2>1
      <4>3. \A j \in Replies : messages'[j] = messages'[i] => j = i
        BY <1>6, <2>1, <4>1
      <4> QED BY <4>1, <4>2, <4>3
    <3> QED BY <1>1, <1>6, <3>1, <3>2
  <2> QED BY <2>3 DEF OneConversation, Replies, Question, NoConversation
<1>8. effective' \in Nat /\ effective' # 0 /\ session' \in {0, effective'}
  BY <1>1, <1>2 DEF NoConversation
<1>9. messages'[Len(messages')] = Question(prompts)'
  BY <1>4, <1>5 DEF Question, NoConversation
<1> QED BY <1>1, <1>2, <1>5, <1>7, <1>8, <1>9 DEF PageInv, NoConversation, Question

LEMMA CompletesKeeps ==
    ASSUME PageInv, page = "reading", Completes, UNCHANGED <<page, turn>>
    PROVE  PageInv'
<1> DEFINE n == Len(messages)
<1>0. prompts' = prompts /\ effective' = effective
  BY DEF turn
<1>1. CASE Has(Reply)
  BY <1>1, UntouchedKeeps DEF Completes, shown
<1>2. CASE ~Has(Reply)
  <2>1. messages' = Append(messages, Reply) /\ session' = effective
    BY <1>2 DEF Completes
  <2>2. /\ prompts \in Nat /\ effective \in Nat /\ effective # NoConversation
        /\ session \in {NoConversation, effective}
        /\ messages \in Seq(Messages) /\ messages # <<>>
        /\ messages[n] = Question(prompts) /\ OneConversation
    BY <1>2 DEF PageInv
  <2>3. /\ Reply \in Messages /\ Reply.role = "assistant" /\ Reply.of = effective
        /\ Reply.prompt = prompts /\ Reply' = Reply
    BY <1>0, <2>2 DEF Reply, Messages
  <2>4. /\ messages' \in Seq(Messages) /\ n \in Nat /\ n > 0 /\ Len(messages') = n + 1
        /\ DOMAIN messages = 1 .. n /\ DOMAIN messages' = 1 .. n + 1
        /\ \A i \in 1 .. n : messages'[i] = messages[i]
        /\ messages'[n + 1] = Reply /\ messages' # <<>>
    BY <2>1, <2>2, <2>3, AppendProperties, EmptySeq
  <2> HIDE DEF n
  <2>5. /\ Replies' = Replies \cup {n + 1}
        /\ \A i \in Replies : i \in 1 .. n /\ messages'[i] = messages[i]
    BY <2>3, <2>4 DEF Replies
  <2>6. /\ (session = NoConversation) = (Replies = {})
        /\ \A i \in Replies :
             /\ messages[i].of = session
             /\ i > 1 /\ messages[i - 1] = Question(messages[i].prompt)
             /\ \A j \in Replies : messages[j] = messages[i] => j = i
    BY <2>2, OneConversationSays
  <2>7. \A i \in Replies : messages[i] # Reply
    BY <1>2, <2>4, <2>5 DEF Has
  <2>8. \A i \in Replies' :
          /\ messages'[i].of = effective
          /\ i > 1 /\ messages'[i - 1] = Question(messages'[i].prompt)
          /\ \A j \in Replies' : messages'[j] = messages'[i] => j = i
    <3> TAKE i \in Replies'
    <3>1. CASE i \in Replies
      <4>1. /\ session = effective
            /\ messages'[i] = messages[i] /\ i \in 1 .. n /\ i > 1
            /\ messages'[i - 1] = messages[i - 1]
        BY <2>2, <2>4, <2>5, <2>6, <3>1
      <4> QED BY <2>4, <2>5, <2>6, <2>7, <3>1, <4>1
    <3>2. CASE i = n + 1
      <4>1. messages'[i] = Reply /\ i > 1 /\ messages'[i - 1] = messages[n]
        BY <2>4, <3>2
      <4>2. \A j \in Replies' : messages'[j] = messages'[i] => j = i
        BY <2>5, <2>7, <3>2, <4>1
      <4> QED BY <2>2, <2>3, <4>1, <4>2
    <3> QED BY <2>5, <3>1, <3>2
  <2>9. OneConversation'
    <3>1. Replies' # {}
      BY <2>5
    <3> QED
      BY <2>1, <2>2, <2>8, <3>1 DEF OneConversation, Replies, Question, NoConversation
  <2>10. Has(Reply)'
    BY <2>3, <2>4 DEF Has
  <2> QED BY <1>0, <2>1, <2>2, <2>4, <2>9, <2>10 DEF PageInv, NoConversation
<1> QED BY <1>1, <1>2

LEMMA PageSteps == PageInv /\ [ChatNext]_allVars => PageInv'
<1> SUFFICES ASSUME PageInv, [ChatNext]_allVars PROVE PageInv'
  OBVIOUS
<1>1. CASE Prompt
  BY <1>1, PromptKeepsPage
<1>2. CASE NewConversation \/ LogOut \/ LogIn
  BY <1>2, ClearedKeeps DEF NewConversation, LogOut, LogIn, Cleared
<1>3. CASE Rerun \/ TurnEnds \/ Breaks
  BY <1>3, UntouchedKeeps DEF Rerun, TurnEnds, Breaks, RecordError, shown
<1>4. CASE TokenRefused
  BY <1>4, ClearedKeeps DEF TokenRefused, TurnedAway, Cleared
<1>5. CASE LimitReached
  BY <1>5, UntouchedKeeps DEF LimitReached, TurnedAway, RecordError
<1>6. CASE Take
  <2>1. page = "reading" /\ UNCHANGED turn
    BY <1>6 DEF Take
  <2>2. \/ RecordError /\ page' = "idle"
        \/ Completes /\ UNCHANGED page
        \/ UNCHANGED <<page, shown>>
    BY <1>6 DEF Take
  <2>3. CASE RecordError /\ page' = "idle"
    BY <2>1, <2>3, UntouchedKeeps DEF RecordError
  <2>4. CASE Completes /\ UNCHANGED page
    BY <2>1, <2>4, CompletesKeeps
  <2>5. CASE UNCHANGED <<page, shown>>
    BY <2>1, <2>5, UntouchedKeeps DEF shown
  <2> QED BY <2>2, <2>3, <2>4, <2>5
<1>7. CASE UNCHANGED chat
  BY <1>7, UntouchedKeeps DEF chat, shown
<1> QED
  BY <1>1, <1>2, <1>3, <1>4, <1>5, <1>6, <1>7 DEF ChatNext, Backend, allVars

\* The page shows the answers of the one conversation that the next prompt
\* continues, each once and after its question, whatever was refused, broken
\* or interrupted in between (app.py, state.py, turns.py).
THEOREM ConversationIsOne == ChatSpec => []OneConversation
<1>1. ChatInit => PageInv
  BY PageStarts
<1>2. PageInv /\ [ChatNext]_allVars => PageInv'
  BY PageSteps
<1>3. PageInv => OneConversation
  BY DEF PageInv
<1> QED BY <1>1, <1>2, <1>3, PTL DEF ChatSpec
=============================================================================
