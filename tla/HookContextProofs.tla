-------------------------- MODULE HookContextProofs --------------------------
(***************************************************************************)
(* What the trace registry and the hook runtime keep, for any number of    *)
(* turns, activities, spans and traces.  The pins are as they should be    *)
(* under every interleaving.  The registry agrees with the base store, and *)
(* a sweep takes all of its turn and nothing else, when every callback     *)
(* runs on the event loop; the stages of a span agree when moreover no     *)
(* thread is out of the ContextVar's reach.  Otherwise they need not.      *)
(***************************************************************************)
EXTENDS HookContext, SequenceTheorems, TLAPS

-----------------------------------------------------------------------------
(* Pins *)

Between == {"pinned", "evaluating", "running", "lost"}

OnePerSpan(q) == \A i, j \in 1 .. Len(q) : q[i].span = q[j].span => i = j

\* r is q without its pin at i.
IsRest(q, i, r) ==
  /\ r \in Seq(Pinned) /\ Len(r) = Len(q) - 1 /\ OnePerSpan(r)
  /\ \A j \in 1 .. Len(r) : r[j].span # q[i].span
  /\ \A j \in 1 .. Len(r) : \E k \in 1 .. Len(q) : r[j] = q[k]
  /\ \A k \in 1 .. Len(q) : k # i => \E j \in 1 .. Len(r) : r[j] = q[k]

\* Taking one pin out keeps the others.
LEMMA TakeOut ==
  ASSUME NEW q \in Seq(Pinned), OnePerSpan(q), NEW i \in 1 .. Len(q),
         NEW r, r = RemoveAt(q, i)
  PROVE  IsRest(q, i, r)
<1> DEFINE n == Len(q) - 1
           f(j) == IF j < i THEN j ELSE j + 1
           front == SubSeq(q, 1, i - 1)
           back == SubSeq(q, i + 1, Len(q))
<1>1. n \in Nat
  OBVIOUS
<1>2. /\ front \in Seq(Pinned) /\ Len(front) = i - 1
      /\ \A j \in 1 .. i - 1 : front[j] = q[j]
  <2>1. \A j \in 1 .. (i - 1) : q[j] \in Pinned
    BY ElementOfSeq
  <2>2. /\ front \in Seq(Pinned)
        /\ Len(front) = IF 1 <= i - 1 THEN (i - 1) - 1 + 1 ELSE 0
        /\ \A j \in 1 .. (i - 1) - 1 + 1 : front[j] = q[1 + j - 1]
    BY <2>1, SubSeqProperties
  <2> QED
    BY <2>2
<1>3. /\ back \in Seq(Pinned) /\ Len(back) = Len(q) - i
      /\ \A j \in 1 .. Len(q) - i : back[j] = q[i + j]
  <2>1. \A j \in (i + 1) .. Len(q) : q[j] \in Pinned
    BY ElementOfSeq
  <2>2. /\ back \in Seq(Pinned)
        /\ Len(back) = IF i + 1 <= Len(q) THEN Len(q) - (i + 1) + 1 ELSE 0
        /\ \A j \in 1 .. Len(q) - (i + 1) + 1 : back[j] = q[(i + 1) + j - 1]
    BY <2>1, SubSeqProperties
  <2> QED
    BY <2>2
<1>4. /\ r \in Seq(Pinned) /\ Len(r) = n
      /\ \A j \in 1 .. n : r[j] = q[f(j)]
  <2> HIDE DEF front, back
  <2>1. r = front \o back
    BY DEF RemoveAt, front, back
  <2>2. /\ r \in Seq(Pinned) /\ Len(r) = Len(front) + Len(back)
        /\ \A j \in 1 .. Len(front) + Len(back) :
             r[j] = IF j <= Len(front) THEN front[j] ELSE back[j - Len(front)]
    <3>1. front \in Seq(Pinned) /\ back \in Seq(Pinned)
      BY <1>2, <1>3
    <3> QED
      BY <2>1, <3>1, ConcatProperties
  <2>3. \A j \in 1 .. n : r[j] = q[f(j)]
    <3> SUFFICES ASSUME NEW j \in 1 .. n PROVE r[j] = q[f(j)]
      OBVIOUS
    <3>1. r[j] = IF j <= i - 1 THEN front[j] ELSE back[j - (i - 1)]
      BY <1>2, <1>3, <2>2
    <3>2. CASE j < i
      BY <1>2, <3>1, <3>2
    <3>3. CASE ~(j < i)
      <4>1. j - (i - 1) \in 1 .. Len(q) - i /\ i + (j - (i - 1)) = j + 1
        BY <3>3
      <4>2. back[j - (i - 1)] = q[j + 1]
        BY <1>3, <4>1
      <4> QED
        BY <3>1, <3>3, <4>2
    <3> QED
      BY <3>2, <3>3
  <2> QED
    BY <1>2, <1>3, <2>2, <2>3
<1>5. \A j \in 1 .. n : f(j) \in 1 .. Len(q) /\ f(j) # i /\ r[j] = q[f(j)]
  BY <1>1, <1>4
<1>6. \A j, k \in 1 .. n : f(j) = f(k) => j = k
  BY <1>1
<1>7. OnePerSpan(r)
  <2> SUFFICES ASSUME NEW j \in 1 .. n, NEW k \in 1 .. n, r[j].span = r[k].span PROVE j = k
    BY <1>4 DEF OnePerSpan
  <2>1. f(j) = f(k)
    <3>1. /\ f(j) \in 1 .. Len(q) /\ f(k) \in 1 .. Len(q)
          /\ q[f(j)].span = q[f(k)].span
      BY <1>5, Zenon
    <3> HIDE DEF f
    <3>2. \A x, y \in 1 .. Len(q) : q[x].span = q[y].span => x = y
      BY DEF OnePerSpan
    <3> QED
      BY <3>1, <3>2, Zenon
  <2> QED
    BY <1>6, <2>1
<1>8. \A j \in 1 .. n : r[j].span # q[i].span
  BY <1>5 DEF OnePerSpan
<1>9. \A k \in 1 .. Len(q) : k # i => \E j \in 1 .. n : r[j] = q[k]
  <2> SUFFICES ASSUME NEW k \in 1 .. Len(q), k # i PROVE \E j \in 1 .. n : r[j] = q[k]
    OBVIOUS
  <2> DEFINE j == IF k < i THEN k ELSE k - 1
  <2>1. j \in 1 .. n /\ f(j) = k
    OBVIOUS
  <2> QED
    BY <1>5, <2>1
<1>10. \A j \in 1 .. n : \E k \in 1 .. Len(q) : r[j] = q[k]
  BY <1>5
<1> HIDE DEF n, f
<1>11. n = Len(q) - 1
  BY DEF n
<1> QED
  BY <1>4, <1>7, <1>8, <1>9, <1>10, <1>11 DEF IsRest

\* _unpin: the pin of the span is gone and every other one is still there.
LEMMA UnpinnedPins ==
  ASSUME pins \in Seq(Pinned), OnePerSpan(pins), NEW s \in Spans
  PROVE  /\ Unpinned(s) \in Seq(Pinned) /\ Len(Unpinned(s)) <= Len(pins)
         /\ OnePerSpan(Unpinned(s))
         /\ \A j \in 1 .. Len(Unpinned(s)) :
              Unpinned(s)[j].span # s /\ \E k \in 1 .. Len(pins) : Unpinned(s)[j] = pins[k]
         /\ \A k \in 1 .. Len(pins) :
              pins[k].span # s => \E j \in 1 .. Len(Unpinned(s)) : Unpinned(s)[j] = pins[k]
<1>1. CASE PlacesOf(s) = {}
  BY <1>1 DEF Unpinned, PlacesOf
<1>2. CASE PlacesOf(s) # {}
  <2>1. PICK i \in 1 .. Len(pins) :
          /\ pins[i].span = s
          /\ Unpinned(s) = RemoveAt(pins, i)
    <3>1. (CHOOSE i \in PlacesOf(s) : TRUE) \in PlacesOf(s)
      BY <1>2
    <3> QED
      BY <1>2, <3>1 DEF Unpinned, PlacesOf
  <2> DEFINE u == Unpinned(s)
  <2>2. /\ u \in Seq(Pinned) /\ Len(u) = Len(pins) - 1 /\ OnePerSpan(u)
        /\ \A j \in 1 .. Len(u) : u[j].span # pins[i].span
        /\ \A j \in 1 .. Len(u) : \E k \in 1 .. Len(pins) : u[j] = pins[k]
        /\ \A k \in 1 .. Len(pins) : k # i => \E j \in 1 .. Len(u) : u[j] = pins[k]
    <3>1. u = RemoveAt(pins, i)
      BY <2>1
    <3> HIDE DEF u
    <3>2. pins \in Seq(Pinned) /\ OnePerSpan(pins) /\ i \in 1 .. Len(pins)
      BY <2>1
    <3>3. IsRest(pins, i, u)
      BY <3>1, <3>2, TakeOut
    <3> QED
      BY <3>3 DEF IsRest
  <2> HIDE DEF u
  <2>3. Unpinned(s) = u
    BY DEF u
  <2>4. \A k \in 1 .. Len(pins) : pins[k].span # s => k # i
    BY <2>1
  <2>5. Len(u) <= Len(pins)
    BY <2>2
  <2> QED
    BY <2>1, <2>2, <2>3, <2>4, <2>5
<1> QED
  BY <1>1, <1>2

\* _pin: one pin more, of a span that had none, and the oldest makes room.
LEMMA PinnedPins ==
  ASSUME pins \in Seq(Pinned), OnePerSpan(pins), Len(pins) <= MaxPending,
         NEW s \in Spans, NEW a \in Acts, PlacesOf(s) = {}, Pin(s, a)
  PROVE  /\ pins' \in Seq(Pinned) /\ OnePerSpan(pins') /\ Len(pins') <= MaxPending
         /\ Len(pins') > 0 /\ pins'[Len(pins')] = [span |-> s, act |-> a]
         /\ \A j \in 1 .. Len(pins') :
              pins'[j].span = s \/ \E k \in 1 .. Len(pins) : pins'[j] = pins[k]
         /\ \A k \in 1 .. Len(pins) :
              pins[k].span \in evicted' \/ \E j \in 1 .. Len(pins') : pins'[j] = pins[k]
         /\ evicted \subseteq evicted'
         /\ \A v \in evicted' : v \in evicted \/ v \in Spans
<1> DEFINE p == [span |-> s, act |-> a]
           all == Append(pins, p)
<1>1. p \in Pinned
  BY DEF Pinned
<1>2. /\ all \in Seq(Pinned) /\ Len(all) = Len(pins) + 1
      /\ \A k \in 1 .. Len(pins) : all[k] = pins[k]
      /\ all[Len(pins) + 1] = p
  BY <1>1
<1>3. OnePerSpan(all)
  BY <1>2 DEF OnePerSpan, PlacesOf
<1>4. MaxPending \in Nat \ {0}
  BY SpanAssumption
<1>5. CASE Len(all) > MaxPending
  <2> HIDE DEF all, p
  <2>1. pins' = Tail(all) /\ evicted' = evicted \cup {Head(all).span}
    BY <1>5 DEF Pin, all, p
  <2>2. Len(pins) \in Nat /\ Len(pins) > 0 /\ Len(pins) = MaxPending
    BY <1>2, <1>4, <1>5
  <2>3. all # <<>>
    BY <1>2, <2>2
  <2>4. /\ pins' \in Seq(Pinned) /\ Len(pins') = Len(pins)
        /\ \A j \in 1 .. Len(pins) : pins'[j] = all[j + 1]
    <3>1. /\ pins' \in Seq(Pinned) /\ Len(pins') = Len(all) - 1
          /\ \A j \in 1 .. Len(pins') : pins'[j] = all[j + 1]
      BY <1>2, <2>1, <2>3, HeadTailProperties
    <3> QED
      BY <1>2, <2>2, <3>1
  <2>5. Head(all) = pins[1] /\ pins[1].span \in Spans
    <3>1. Head(all) = all[1] /\ all[1] = pins[1]
      BY <1>2, <2>2
    <3>2. pins[1] \in Pinned
      BY <2>2, ElementOfSeq
    <3> QED
      BY <3>1, <3>2 DEF Pinned
  <2>6. OnePerSpan(pins')
    <3> SUFFICES ASSUME NEW i \in 1 .. Len(pins), NEW j \in 1 .. Len(pins),
                        pins'[i].span = pins'[j].span
                 PROVE  i = j
      BY <2>4 DEF OnePerSpan
    <3>1. i + 1 \in 1 .. Len(all) /\ j + 1 \in 1 .. Len(all)
      BY <1>2, <2>2
    <3>2. all[i + 1].span = all[j + 1].span
      BY <2>4
    <3>3. i + 1 = j + 1
      BY <1>3, <3>1, <3>2 DEF OnePerSpan
    <3> QED
      BY <2>2, <3>3
  <2>7. \A j \in 1 .. Len(pins') :
          pins'[j].span = s \/ \E k \in 1 .. Len(pins) : pins'[j] = pins[k]
    <3> SUFFICES ASSUME NEW j \in 1 .. Len(pins)
                 PROVE  pins'[j].span = s \/ \E k \in 1 .. Len(pins) : pins'[j] = pins[k]
      BY <2>4
    <3>1. CASE j = Len(pins)
      BY <1>2, <2>4, <3>1 DEF p
    <3>2. CASE j # Len(pins)
      <4>1. j + 1 \in 1 .. Len(pins)
        BY <2>2, <3>2
      <4> QED
        BY <1>2, <2>4, <4>1
    <3> QED
      BY <3>1, <3>2
  <2>8. \A k \in 1 .. Len(pins) :
          pins[k].span \in evicted' \/ \E j \in 1 .. Len(pins') : pins'[j] = pins[k]
    <3> SUFFICES ASSUME NEW k \in 1 .. Len(pins)
                 PROVE  pins[k].span \in evicted' \/ \E j \in 1 .. Len(pins) : pins'[j] = pins[k]
      BY <2>4
    <3>1. CASE k = 1
      BY <2>1, <2>5, <3>1
    <3>2. CASE k # 1
      <4>1. k - 1 \in 1 .. Len(pins) /\ (k - 1) + 1 = k
        BY <2>2, <3>2
      <4>2. pins'[k - 1] = pins[k]
        BY <1>2, <2>4, <4>1
      <4> QED
        BY <4>1, <4>2
    <3> QED
      BY <3>1, <3>2
  <2>9. Len(pins') > 0 /\ pins'[Len(pins')] = [span |-> s, act |-> a]
    BY <1>2, <2>2, <2>4 DEF p
  <2>10. evicted \subseteq evicted' /\ \A v \in evicted' : v \in evicted \/ v \in Spans
    BY <2>1, <2>5
  <2>11. Len(pins') <= MaxPending
    BY <2>2, <2>4
  <2> QED
    BY <2>4, <2>6, <2>7, <2>8, <2>9, <2>10, <2>11
<1>6. CASE ~(Len(all) > MaxPending)
  <2>1. pins' = all /\ evicted' = evicted
    BY <1>6 DEF Pin
  <2> QED
    BY <1>2, <1>3, <1>4, <1>6, <2>1
<1> QED
  BY <1>5, <1>6

-----------------------------------------------------------------------------
(* Types, and pins that are live *)

\* What resolve_context finds is an activity or nothing,
LEMMA ResolvedType == ASSUME TypeOK, NEW s \in Spans PROVE Resolved(s) \in Acts \cup {None}
<1>1. ActOf[s] \in Acts /\ Trace(ActOf[s]) \in Traces
  BY SpanAssumption, ActivityAssumption DEF Trace
<1> QED
  BY <1>1 DEF Resolved, TypeOK

\* and so is what a completed stage is sent under.
LEMMA CompletedType ==
  ASSUME TypeOK, NEW s \in Spans PROVE CompletedUnder(s) \in Acts \cup {None}
<1>1. CASE PlacesOf(s) = {}
  BY <1>1, ResolvedType DEF CompletedUnder
<1>2. CASE PlacesOf(s) # {}
  <2>1. PICK i : i = (CHOOSE j \in PlacesOf(s) : TRUE)
    OBVIOUS
  <2>2. i \in 1 .. Len(pins)
    BY <1>2, <2>1 DEF PlacesOf
  <2>3. pins[i] \in Pinned
    BY <2>2, ElementOfSeq DEF TypeOK
  <2> QED
    BY <1>2, <2>1, <2>3 DEF CompletedUnder, Pinned
<1> QED
  BY <1>1, <1>2

\* The pins in their live form.
LEMMA PinFacts ==
  ASSUME TypeOK, PinsAreLive
  PROVE  /\ pins \in Seq(Pinned) /\ OnePerSpan(pins) /\ Len(pins) <= MaxPending
         /\ \A i \in 1 .. Len(pins) : pins[i].span \in Spans /\ span[pins[i].span] \in Between
<1>1. \A i \in 1 .. Len(pins) : pins[i] \in Pinned
  BY ElementOfSeq DEF TypeOK
<1> QED
  BY <1>1 DEF TypeOK, PinsAreLive, OnePerSpan, Between, Pinned

\* A hook is the only one to touch the pins, and leaves those of other spans
\* and its own only while it is between its stages.
LEMMA NextPins ==
  TypeOK /\ PinsAreLive /\ [Next]_vars => pins' \in Seq(Pinned) /\ PinsAreLive'
<1> SUFFICES ASSUME TypeOK, PinsAreLive, [Next]_vars
             PROVE  pins' \in Seq(Pinned) /\ PinsAreLive'
  OBVIOUS
<1> DEFINE Goal == pins' \in Seq(Pinned) /\ PinsAreLive'
<1>1. /\ pins \in Seq(Pinned) /\ OnePerSpan(pins) /\ Len(pins) <= MaxPending
      /\ \A i \in 1 .. Len(pins) : pins[i].span \in Spans /\ span[pins[i].span] \in Between
  BY PinFacts
<1>2. SUFFICES /\ pins' \in Seq(Pinned) /\ OnePerSpan(pins') /\ Len(pins') <= MaxPending
               /\ \A i \in 1 .. Len(pins') : span'[pins'[i].span] \in Between
  BY DEF PinsAreLive, OnePerSpan, Between
<1> DEFINE Live == /\ pins' \in Seq(Pinned) /\ OnePerSpan(pins') /\ Len(pins') <= MaxPending
                   /\ \A i \in 1 .. Len(pins') : span'[pins'[i].span] \in Between
<1>3. CASE pins' = pins /\ span' = span
  BY <1>1, <1>3
<1>4. ASSUME NEW s \in Spans, PinStarted(s) PROVE Live
  <2>1. PlacesOf(s) = {}
    BY <1>1, <1>4 DEF PinStarted, PlacesOf, Between
  <2>2. span' = [span EXCEPT ![s] = "pinned"] /\ span'[s] \in Between
    BY <1>4 DEF PinStarted, TypeOK, Between
  <2>3. CASE pins' = pins
    BY <1>1, <2>1, <2>2, <2>3 DEF PlacesOf
  <2>4. CASE Pin(s, Resolved(s)) /\ Resolved(s) # None
    <3>1. Resolved(s) \in Acts
      BY <2>4, ResolvedType
    <3>2. /\ pins' \in Seq(Pinned) /\ OnePerSpan(pins') /\ Len(pins') <= MaxPending
          /\ \A j \in 1 .. Len(pins') :
               pins'[j].span = s \/ \E k \in 1 .. Len(pins) : pins'[j] = pins[k]
      BY <1>1, <2>1, <2>4, <3>1, PinnedPins
    <3>3. \A j \in 1 .. Len(pins') : span'[pins'[j].span] \in Between
      BY <1>1, <2>2, <3>2 DEF TypeOK
    <3> QED
      BY <3>2, <3>3
  <2> QED
    BY <1>4, <2>3, <2>4 DEF PinStarted
<1>5. ASSUME NEW s \in Spans, EvaluateStarted(s) \/ Proceed(s) \/ Lose(s) PROVE Live
  <2>1. pins' = pins /\ \A r \in Spans : span[r] \in Between => span'[r] \in Between
    BY <1>5 DEF EvaluateStarted, Proceed, Lose, TypeOK, Between
  <2> QED
    BY <1>1, <2>1
<1>6. ASSUME NEW s \in Spans, Refuse(s) \/ Complete(s) PROVE Live
  <2>1. pins' = Unpinned(s) /\ \A r \in Spans \ {s} : span'[r] = span[r]
    BY <1>6 DEF Refuse, Complete, TypeOK
  <2>2. /\ pins' \in Seq(Pinned) /\ Len(pins') <= Len(pins) /\ OnePerSpan(pins')
        /\ \A j \in 1 .. Len(pins') :
             pins'[j].span # s /\ \E k \in 1 .. Len(pins) : pins'[j] = pins[k]
    BY <1>1, <2>1, UnpinnedPins
  <2>3. Len(pins') <= MaxPending
    <3>1. Len(pins') \in Nat /\ Len(pins) \in Nat /\ MaxPending \in Nat
      BY <1>1, <2>2, SpanAssumption
    <3> QED
      BY <1>1, <2>2, <3>1
  <2>4. \A j \in 1 .. Len(pins') : span'[pins'[j].span] \in Between
    BY <1>1, <2>1, <2>2
  <2> QED
    BY <2>2, <2>3, <2>4
<1> QED
  BY <1>3, <1>4, <1>5, <1>6
  DEF Next, vars, registry, hooks, Register, WriteStore, WriteOwner, DropStore, DropOwner,
      Sweep, SweepOwner, SweepStore, SweepMarks, Hook, Terminating

\* Every step keeps the types.
LEMMA NextTypes == TypeOK /\ PinsAreLive /\ [Next]_vars => TypeOK'
<1> SUFFICES ASSUME TypeOK, PinsAreLive, [Next]_vars PROVE TypeOK'
  OBVIOUS
<1>1. pins' \in Seq(Pinned)
  BY NextPins
<1>2. \A a \in Acts : Trace(a) \in Traces /\ TurnOf[a] \in Turns
  BY ActivityAssumption DEF Trace
<1>3. CASE UNCHANGED vars
  BY <1>3 DEF TypeOK, vars, registry, hooks, marks
<1>4. ASSUME NEW a \in Acts, WriteStore(a) PROVE TypeOK'
  BY <1>2, <1>4 DEF WriteStore, TypeOK, Hold, hooks, marks
<1>5. ASSUME NEW a \in Acts, WriteOwner(a) PROVE TypeOK'
  BY <1>2, <1>5 DEF WriteOwner, TypeOK, Release, hooks, marks
<1>6. ASSUME NEW a \in Acts, DropStore(a) PROVE TypeOK'
  BY <1>2, <1>6 DEF DropStore, TypeOK, Hold, hooks, marks
<1>7. ASSUME NEW a \in Acts, DropOwner(a) PROVE TypeOK'
  BY <1>2, <1>7 DEF DropOwner, TypeOK, Release, hooks, marks
<1>8. ASSUME NEW t \in Turns, SweepOwner(t) PROVE TypeOK'
  BY <1>8 DEF SweepOwner, SweptTraces, SweptMarks, TypeOK, hooks, marks
<1>9. ASSUME NEW t \in Turns, NEW k \in Traces, SweepStore(t, k) PROVE TypeOK'
  BY <1>9 DEF SweepStore, TypeOK, hooks, marks
<1>10. ASSUME NEW t \in Turns, SweepMarks(t) PROVE TypeOK'
  BY <1>10 DEF SweepMarks, TypeOK, hooks
<1>11. ASSUME NEW s \in Spans, PinStarted(s) PROVE TypeOK'
  <2>1. evicted' \subseteq Spans
    <3>1. CASE evicted' = evicted
      BY <3>1 DEF TypeOK
    <3>2. CASE Pin(s, Resolved(s)) /\ Resolved(s) # None
      <4>1. PlacesOf(s) = {}
        BY <1>11, PinFacts DEF PinStarted, PlacesOf, Between
      <4>2. Resolved(s) \in Acts
        BY <3>2, ResolvedType
      <4>3. \A v \in evicted' : v \in evicted \/ v \in Spans
        BY <3>2, <4>1, <4>2, PinFacts, PinnedPins
      <4> QED
        BY <4>3 DEF TypeOK
    <3> QED
      BY <1>11, <3>1, <3>2 DEF PinStarted
  <2>2. resolved' \in [Spans -> Acts \cup {None}]
    <3>1. resolved' = resolved \/ resolved' = [resolved EXCEPT ![s] = Resolved(s)]
      BY <1>11 DEF PinStarted
    <3> QED
      BY <3>1, ResolvedType DEF TypeOK
  <2> QED
    BY <1>1, <1>11, <2>1, <2>2 DEF PinStarted, TypeOK, Hold, registry, marks
<1>12. ASSUME NEW s \in Spans, EvaluateStarted(s) PROVE TypeOK'
  BY <1>12, ResolvedType DEF EvaluateStarted, TypeOK, Release, registry, marks
<1>13. ASSUME NEW s \in Spans, Proceed(s) \/ Lose(s) PROVE TypeOK'
  BY <1>13 DEF Proceed, Lose, TypeOK, registry, marks
<1>14. ASSUME NEW a \in Acts, MarkAborted(a) PROVE aborted' \subseteq Acts /\ remarked' \subseteq Acts
  BY <1>14 DEF MarkAborted, TypeOK
<1>15. ASSUME NEW s \in Spans, Refuse(s) PROVE TypeOK'
  <2>1. started[s] \in Acts
    BY <1>15 DEF Refuse, TypeOK
  <2>2. aborted' \subseteq Acts /\ remarked' \subseteq Acts
    BY <1>14, <1>15, <2>1 DEF Refuse, TypeOK, marks
  <2> QED
    BY <1>1, <1>15, <2>2 DEF Refuse, TypeOK, registry
<1>16. ASSUME NEW s \in Spans, Complete(s) PROVE TypeOK'
  <2>1. CompletedUnder(s) \in Acts \cup {None}
    BY CompletedType
  <2>2. aborted' \subseteq Acts /\ remarked' \subseteq Acts
    BY <1>14, <1>16, <2>1 DEF Complete, TypeOK, marks
  <2> QED
    BY <1>1, <1>16, <2>1, <2>2 DEF Complete, TypeOK, registry
<1> QED
  BY <1>3, <1>4, <1>5, <1>6, <1>7, <1>8, <1>9, <1>10, <1>11, <1>12, <1>13, <1>15, <1>16
  DEF Next, Register, Sweep, Hook, Terminating

\* Nothing is pinned at the start.
LEMMA InitPins == Init => TypeOK /\ PinsAreLive
  BY SpanAssumption DEF Init, TypeOK, PinsAreLive

\* Every state of every behaviour has the types of TypeOK.
THEOREM Types == Spec => []TypeOK
<1>1. TypeOK /\ PinsAreLive /\ [Next]_vars => (TypeOK /\ PinsAreLive)'
  BY NextPins, NextTypes
<1> QED
  BY <1>1, InitPins, PTL DEF Spec

\* However hooks, registrations and sweeps interleave, a pin belongs to one
\* operation that is between its stages or died there.
THEOREM PinsStayLive == Spec => []PinsAreLive
<1>1. TypeOK /\ PinsAreLive /\ [Next]_vars => (TypeOK /\ PinsAreLive)'
  BY NextPins, NextTypes
<1> QED
  BY <1>1, InitPins, PTL DEF Spec

-----------------------------------------------------------------------------
(* The registry and the store, when every callback is on the loop *)

OnLoop == Threaded = {}

\* The registry's own map names what the store is bound to.
Agree(k) == owner[k] = IF store[k] = None THEN None ELSE TurnOf[store[k]]

\* The loop holds at most one registration or one sweep at a time.
LoopHolds ==
  /\ \A a \in Acts : act[a] \in {"stored", "restored", "ending", "dropped"} <=> loop = a
  /\ \A t \in Turns : turn[t] = "sweeping" <=> loop = t
  /\ loop \notin Turns => doomed = {} /\ cleared = {}

\* The store and the registry differ only where the loop is between the two,
Halfway ==
  {k \in Traces : \E a \in Acts :
     loop = a /\ k = Trace(a) /\ act[a] \in {"stored", "restored", "dropped"}}

Bindings ==
  /\ \A k \in Traces : k \notin doomed /\ k \notin Halfway => Agree(k)
  /\ \A a \in Acts :
       /\ act[a] \in {"stored", "restored"} => store[Trace(a)] = a
       /\ act[a] = "dropped" => store[Trace(a)] = None

\* and a running sweep has taken all that is its turn's, and nothing else.
SweepHolds ==
  /\ \A k \in doomed :
       owner[k] = None /\ store[k] # None /\ TurnOf[store[k]] = loop
  /\ \A t \in Turns : loop = t =>
       /\ \A k \in Traces : owner[k] # t
       /\ \A a \in Acts : TurnOf[a] = t /\ act[a] # "idle" => a \in cleared
  /\ \A a \in Acts :
       act[a] \notin {"idle", "stored"} /\ turn[TurnOf[a]] = "active" => a \in keys

RegistryInv ==
  /\ TypeOK /\ LoopHolds /\ Bindings /\ SweepHolds
  /\ SweptTurnUnbound /\ AbortMarksSwept

\* Nothing is registered at the start.
LEMMA InitRegistry == Init => RegistryInv
<1> SUFFICES ASSUME Init PROVE RegistryInv
  OBVIOUS
<1>1. TypeOK
  BY InitPins
<1>2. LoopHolds
  BY LoopAssumption DEF Init, LoopHolds
<1>3. Bindings
  BY DEF Init, Bindings, Agree
<1>4. SweepHolds
  BY LoopAssumption DEF Init, SweepHolds
<1>5. SweptTurnUnbound /\ AbortMarksSwept
  BY DEF Init, SweptTurnUnbound, AbortMarksSwept
<1> QED
  BY <1>1, <1>2, <1>3, <1>4, <1>5 DEF RegistryInv

\* A hook leaves the registry alone, and takes the loop from no one.
LEMMA HookQuiet ==
  ASSUME NEW s \in Spans, Hook(s)
  PROVE  /\ UNCHANGED registry
         /\ loop' = loop \/ (loop \in {Free, s} /\ loop' \in {Free, s})
<1>1. UNCHANGED registry
  BY DEF Hook, PinStarted, EvaluateStarted, Proceed, Refuse, Complete, Lose
<1>2. loop' = loop \/ (MayStep(s) /\ (Hold(s) \/ Release(s)))
  BY DEF Hook, PinStarted, EvaluateStarted, Proceed, Refuse, Complete, Lose
<1> QED
  BY <1>1, <1>2 DEF MayStep, Hold, Release

\* What a hook does to the marks.
LEMMA HookMarks ==
  ASSUME NEW s \in Spans, Hook(s)
  PROVE  UNCHANGED marks \/ \E a : MarkAborted(a)
  BY DEF Hook, PinStarted, EvaluateStarted, Proceed, Refuse, Complete, Lose

\* The hook's stages leave registry and store in step,
LEMMA HookKeeps ==
  ASSUME RegistryInv, TypeOK', NEW s \in Spans, Hook(s)
  PROVE  RegistryInv'
<1>1. UNCHANGED registry
  BY HookQuiet
<1>2. \A p \in Acts \cup Turns : loop' = p <=> loop = p
  BY HookQuiet, LoopAssumption
<1>3. loop' \notin Turns => loop \notin Turns
  BY <1>2
<1>4. LoopHolds'
  BY <1>1, <1>2, <1>3 DEF RegistryInv, LoopHolds, registry
<1>5. Bindings'
  <2>1. Halfway' = Halfway
    BY <1>1, <1>2 DEF Halfway, registry, Trace
  <2> QED
    BY <1>1, <2>1 DEF RegistryInv, Bindings, Agree, registry, Trace
<1>6. SweepHolds'
  <2>1. ASSUME NEW k \in doomed' PROVE TurnOf[store'[k]] = loop'
    <3>1. k \in Traces /\ store[k] # None /\ TurnOf[store[k]] = loop
      BY <1>1, <2>1 DEF RegistryInv, TypeOK, SweepHolds, registry
    <3>2. loop \in Turns
      BY <3>1, ActivityAssumption DEF RegistryInv, TypeOK
    <3> QED
      BY <1>1, <1>2, <3>1, <3>2 DEF registry
  <2> QED
    BY <1>1, <1>2, <2>1 DEF RegistryInv, SweepHolds, registry
<1>7. SweptTurnUnbound'
  BY <1>1 DEF RegistryInv, SweptTurnUnbound, registry
<1>8. AbortMarksSwept'
  <2>1. CASE UNCHANGED marks
    BY <1>1, <2>1 DEF RegistryInv, AbortMarksSwept, registry, marks
  <2>2. CASE \E a : MarkAborted(a)
    BY <1>1, <2>2 DEF RegistryInv, AbortMarksSwept, registry, MarkAborted
  <2> QED
    BY <2>1, <2>2, HookMarks
<1> QED
  BY <1>4, <1>5, <1>6, <1>7, <1>8 DEF RegistryInv

\* Where a registration may step: nothing else holds the loop.
LEMMA RegisterLoop ==
  ASSUME OnLoop, RegistryInv, NEW a \in Acts, MayStep(a)
  PROVE  /\ loop \in {Free, a} /\ loop \notin Turns
         /\ doomed = {} /\ cleared = {}
         /\ Hold(a) => loop' = a
         /\ Trace(a) \in Traces /\ TurnOf[a] \in Turns
         /\ turn[TurnOf[a]] # "sweeping"
         /\ \A b \in Acts : b # a => act[b] \notin {"stored", "restored", "ending", "dropped"}
<1>1. a \notin Threaded \cup OffLoop
  BY SpanAssumption, LoopAssumption DEF OnLoop
<1>2. loop \in {Free, a}
  BY <1>1 DEF MayStep
<1>3. loop \notin Turns
  BY <1>2, LoopAssumption
<1>4. Trace(a) \in Traces /\ TurnOf[a] \in Turns
  BY ActivityAssumption DEF Trace
<1>5. doomed = {} /\ cleared = {} /\ turn[TurnOf[a]] # "sweeping"
  BY <1>3, <1>4 DEF RegistryInv, LoopHolds
<1>6. \A b \in Acts : b # a => act[b] \notin {"stored", "restored", "ending", "dropped"}
  BY <1>2, LoopAssumption DEF RegistryInv, LoopHolds
<1> QED
  BY <1>1, <1>2, <1>3, <1>4, <1>5, <1>6 DEF Hold

\* and so do the two halves of a registration,
LEMMA WriteStoreKeeps ==
  ASSUME OnLoop, RegistryInv, TypeOK', NEW a \in Acts, WriteStore(a)
  PROVE  RegistryInv'
<1>1. /\ loop \in {Free, a} /\ doomed = {} /\ cleared = {} /\ loop' = a
      /\ Trace(a) \in Traces /\ TurnOf[a] \in Turns /\ turn[TurnOf[a]] # "sweeping"
      /\ \A b \in Acts : b # a => act[b] \notin {"stored", "restored", "ending", "dropped"}
  BY RegisterLoop DEF WriteStore
<1>2. /\ act[a] \in {"idle", "live"} /\ act'[a] \in {"stored", "restored"}
      /\ act[a] = "idle" <=> act'[a] = "stored"
      /\ \A b \in Acts : b # a => act'[b] = act[b]
      /\ act[a] = "live" => turn[TurnOf[a]] = "active"
  BY ActivityAssumption DEF WriteStore, MayRegister, MayEnd, RegistryInv, TypeOK
<1>3. /\ store'[Trace(a)] = a
      /\ \A k \in Traces : k # Trace(a) => store'[k] = store[k]
      /\ UNCHANGED <<turn, owner, keys, doomed, cleared, marks>>
  BY <1>1 DEF WriteStore, RegistryInv, TypeOK
<1>4. late \subseteq late' /\ (act[a] = "idle" /\ turn[TurnOf[a]] = "over" => a \in late')
  BY <1>2 DEF WriteStore
<1>5. LoopHolds'
  BY <1>1, <1>2, <1>3, LoopAssumption DEF RegistryInv, LoopHolds
<1>6. Bindings'
  <2>1. Halfway' = {Trace(a)}
    BY <1>1, <1>2 DEF Halfway, Trace
  <2>2. Halfway = {}
    BY <1>1, <1>2, LoopAssumption DEF Halfway
  <2>3. \A k \in Traces : k \notin doomed' /\ k \notin Halfway' => Agree(k)'
    BY <1>1, <1>3, <2>1, <2>2 DEF RegistryInv, Bindings, Agree
  <2>4. \A b \in Acts : b # a => act'[b] \notin {"stored", "restored", "dropped"}
    BY <1>1, <1>2
  <2> QED
    BY <1>2, <1>3, <2>3, <2>4 DEF Bindings, Trace
<1>7. SweepHolds'
  BY <1>1, <1>2, <1>3, LoopAssumption DEF RegistryInv, SweepHolds
<1>8. SweptTurnUnbound'
  BY <1>1, <1>2, <1>3, <1>4 DEF RegistryInv, SweptTurnUnbound
<1>9. AbortMarksSwept'
  BY <1>2, <1>3, <1>4 DEF RegistryInv, TypeOK, AbortMarksSwept, marks
<1> QED
  BY <1>5, <1>6, <1>7, <1>8, <1>9 DEF RegistryInv

\* the second with the first,
LEMMA WriteOwnerKeeps ==
  ASSUME OnLoop, RegistryInv, TypeOK', NEW a \in Acts, WriteOwner(a)
  PROVE  RegistryInv'
<1>1. /\ doomed = {} /\ cleared = {}
      /\ Trace(a) \in Traces /\ TurnOf[a] \in Turns /\ turn[TurnOf[a]] # "sweeping"
      /\ \A b \in Acts : b # a => act[b] \notin {"stored", "restored", "ending", "dropped"}
  BY RegisterLoop DEF WriteOwner
<1>2. /\ act[a] \in {"stored", "restored"} /\ act'[a] \in {"live", "ending"}
      /\ act[a] = "stored" => loop' = Free /\ act'[a] = "live"
      /\ act[a] = "restored" => loop' = a /\ act'[a] = "ending"
      /\ \A b \in Acts : b # a => act'[b] = act[b]
      /\ loop = a
  BY DEF WriteOwner, Release, RegistryInv, TypeOK, LoopHolds
<1>3. /\ owner'[Trace(a)] = TurnOf[a] /\ store[Trace(a)] = a
      /\ \A k \in Traces : k # Trace(a) => owner'[k] = owner[k]
      /\ UNCHANGED <<turn, store, doomed, cleared, late, marks>>
      /\ keys' = keys \cup {a}
  BY <1>1, <1>2 DEF WriteOwner, RegistryInv, TypeOK, Bindings
<1>4. LoopHolds'
  BY <1>1, <1>2, <1>3, LoopAssumption DEF RegistryInv, LoopHolds
<1>5. Bindings'
  <2>1. Halfway' = {} /\ Halfway = {Trace(a)}
    BY <1>1, <1>2, LoopAssumption DEF Halfway, Trace
  <2>2. \A k \in Traces : Agree(k)'
    BY <1>1, <1>3, <2>1, ActivityAssumption DEF RegistryInv, Bindings, Agree
  <2>3. \A b \in Acts : act'[b] \notin {"stored", "restored", "dropped"}
    BY <1>1, <1>2
  <2> QED
    BY <2>2, <2>3 DEF Bindings
<1>6. SweepHolds'
  BY <1>1, <1>2, <1>3, LoopAssumption DEF RegistryInv, SweepHolds
<1>7. SweptTurnUnbound'
  BY <1>3 DEF RegistryInv, SweptTurnUnbound
<1>8. AbortMarksSwept'
  BY <1>2, <1>3 DEF RegistryInv, TypeOK, AbortMarksSwept, marks
<1> QED
  BY <1>4, <1>5, <1>6, <1>7, <1>8 DEF RegistryInv

\* the two halves of a removal,
LEMMA DropStoreKeeps ==
  ASSUME OnLoop, RegistryInv, TypeOK', NEW a \in Acts, DropStore(a)
  PROVE  RegistryInv'
<1>1. /\ loop \in {Free, a} /\ doomed = {} /\ cleared = {} /\ loop' = a
      /\ Trace(a) \in Traces /\ TurnOf[a] \in Turns
      /\ \A b \in Acts : b # a => act[b] \notin {"stored", "restored", "ending", "dropped"}
  BY RegisterLoop DEF DropStore
<1>2. /\ act[a] \in {"ending", "live"} /\ act'[a] = "dropped"
      /\ \A b \in Acts : b # a => act'[b] = act[b]
  BY DEF DropStore, RegistryInv, TypeOK
<1>3. /\ store'[Trace(a)] = None
      /\ \A k \in Traces : k # Trace(a) => store'[k] = store[k]
      /\ UNCHANGED <<turn, owner, keys, doomed, cleared, late, marks>>
  BY <1>1 DEF DropStore, RegistryInv, TypeOK
<1>4. LoopHolds'
  BY <1>1, <1>2, <1>3, LoopAssumption DEF RegistryInv, LoopHolds
<1>5. Bindings'
  <2>1. Halfway' = {Trace(a)} /\ Halfway = {}
    BY <1>1, <1>2, LoopAssumption DEF Halfway, Trace
  <2>2. \A k \in Traces : k \notin doomed' /\ k \notin Halfway' => Agree(k)'
    BY <1>1, <1>3, <2>1 DEF RegistryInv, Bindings, Agree
  <2>3. \A b \in Acts : b # a => act'[b] \notin {"stored", "restored", "dropped"}
    BY <1>1, <1>2
  <2> QED
    BY <1>2, <1>3, <2>2, <2>3 DEF Bindings, Trace
<1>6. SweepHolds'
  BY <1>1, <1>2, <1>3, LoopAssumption DEF RegistryInv, SweepHolds
<1>7. SweptTurnUnbound'
  BY <1>1, <1>3 DEF RegistryInv, SweptTurnUnbound
<1>8. AbortMarksSwept'
  BY <1>2, <1>3 DEF RegistryInv, TypeOK, AbortMarksSwept, marks
<1> QED
  BY <1>4, <1>5, <1>6, <1>7, <1>8 DEF RegistryInv

\* the second with the first,
LEMMA DropOwnerKeeps ==
  ASSUME OnLoop, RegistryInv, TypeOK', NEW a \in Acts, DropOwner(a)
  PROVE  RegistryInv'
<1>1. /\ doomed = {} /\ cleared = {} /\ Trace(a) \in Traces
      /\ \A b \in Acts : b # a => act[b] \notin {"stored", "restored", "ending", "dropped"}
  BY RegisterLoop DEF DropOwner
<1>2. /\ act[a] = "dropped" /\ act'[a] = "done" /\ loop = a /\ loop' = Free
      /\ \A b \in Acts : b # a => act'[b] = act[b]
  BY DEF DropOwner, Release, RegistryInv, TypeOK, LoopHolds
<1>3. /\ owner'[Trace(a)] = None /\ store[Trace(a)] = None
      /\ \A k \in Traces : k # Trace(a) => owner'[k] = owner[k]
      /\ UNCHANGED <<turn, store, keys, doomed, cleared, late, marks>>
  BY <1>1, <1>2 DEF DropOwner, RegistryInv, TypeOK, Bindings
<1>4. LoopHolds'
  BY <1>1, <1>2, <1>3, LoopAssumption DEF RegistryInv, LoopHolds
<1>5. Bindings'
  <2>1. Halfway' = {} /\ Halfway = {Trace(a)}
    BY <1>1, <1>2, LoopAssumption DEF Halfway, Trace
  <2>2. \A k \in Traces : Agree(k)'
    BY <1>1, <1>3, <2>1 DEF RegistryInv, Bindings, Agree
  <2>3. \A b \in Acts : act'[b] \notin {"stored", "restored", "dropped"}
    BY <1>1, <1>2
  <2> QED
    BY <2>2, <2>3 DEF Bindings
<1>6. SweepHolds'
  BY <1>1, <1>2, <1>3, LoopAssumption DEF RegistryInv, SweepHolds
<1>7. SweptTurnUnbound'
  BY <1>3 DEF RegistryInv, SweptTurnUnbound
<1>8. AbortMarksSwept'
  BY <1>2, <1>3 DEF RegistryInv, TypeOK, AbortMarksSwept, marks
<1> QED
  BY <1>4, <1>5, <1>6, <1>7, <1>8 DEF RegistryInv

\* and the three of a sweep: the owners,
LEMMA SweepOwnerKeeps ==
  ASSUME RegistryInv, TypeOK', NEW t \in Turns, SweepOwner(t)
  PROVE  RegistryInv'
<1>1. /\ loop = Free /\ loop' = t /\ turn[t] = "active" /\ turn'[t] = "sweeping"
      /\ \A u \in Turns : u # t => turn'[u] = turn[u]
      /\ UNCHANGED <<act, store, late, marks>>
  BY DEF SweepOwner, RegistryInv, TypeOK
<1>2. /\ doomed' = {k \in Traces : owner[k] = t}
      /\ \A k \in Traces : owner'[k] = IF owner[k] = t THEN None ELSE owner[k]
      /\ cleared' = {a \in keys : TurnOf[a] = t}
      /\ keys' = keys \ cleared'
  BY DEF SweepOwner, SweptTraces, SweptMarks, RegistryInv, TypeOK
<1>3. /\ \A a \in Acts : act[a] \notin {"stored", "restored", "ending", "dropped"}
      /\ loop \notin Turns /\ doomed = {}
  BY <1>1, LoopAssumption DEF RegistryInv, LoopHolds
<1>4. \A k \in Traces : Agree(k)
  BY <1>3 DEF RegistryInv, Bindings, Halfway
<1>5. None \notin Turns /\ None \notin Acts /\ \A a \in Acts : TurnOf[a] \in Turns
  BY ActivityAssumption
<1>6. LoopHolds'
  BY <1>1, <1>3, LoopAssumption DEF RegistryInv, LoopHolds
<1>7. Bindings'
  <2>1. \A k \in Traces : k \notin doomed' => Agree(k)'
    BY <1>1, <1>2, <1>4 DEF Agree
  <2> QED
    BY <1>1, <1>3, <2>1 DEF Bindings
<1>8. SweepHolds'
  <2>1. \A k \in doomed' :
          owner'[k] = None /\ store'[k] # None /\ TurnOf[store'[k]] = loop'
    BY <1>1, <1>2, <1>4, <1>5 DEF Agree
  <2>2. \A k \in Traces : owner'[k] # t
    BY <1>2, <1>5
  <2>3. \A a \in Acts : TurnOf[a] = t /\ act'[a] # "idle" => a \in cleared'
    BY <1>1, <1>2, <1>3 DEF RegistryInv, SweepHolds
  <2>4. \A a \in Acts :
          act'[a] \notin {"idle", "stored"} /\ turn'[TurnOf[a]] = "active" => a \in keys'
    BY <1>1, <1>2, <1>5 DEF RegistryInv, SweepHolds
  <2> QED
    BY <1>1, <2>1, <2>2, <2>3, <2>4 DEF SweepHolds
<1>9. SweptTurnUnbound'
  BY <1>1, <1>5 DEF RegistryInv, TypeOK, SweptTurnUnbound
<1>10. AbortMarksSwept'
  BY <1>1, <1>5 DEF RegistryInv, TypeOK, AbortMarksSwept, marks
<1> QED
  BY <1>6, <1>7, <1>8, <1>9, <1>10 DEF RegistryInv

\* the store,
LEMMA SweepStoreKeeps ==
  ASSUME RegistryInv, TypeOK', NEW t \in Turns, NEW k \in Traces, SweepStore(t, k)
  PROVE  RegistryInv'
<1>1. /\ loop = t /\ loop' = t /\ k \in doomed /\ doomed' = doomed \ {k}
      /\ store'[k] = None /\ \A j \in Traces : j # k => store'[j] = store[j]
      /\ UNCHANGED <<turn, act, owner, keys, cleared, late, marks>>
  BY DEF SweepStore, RegistryInv, TypeOK
<1>2. owner[k] = None
  BY <1>1 DEF RegistryInv, SweepHolds
<1>3. \A a \in Acts : act[a] \notin {"stored", "restored", "ending", "dropped"}
  BY <1>1, LoopAssumption DEF RegistryInv, LoopHolds
<1>4. LoopHolds'
  BY <1>1 DEF RegistryInv, LoopHolds
<1>5. Bindings'
  <2>1. Halfway = {}
    BY <1>3 DEF Halfway
  <2>2. \A j \in Traces : j \notin doomed' => Agree(j)'
    BY <1>1, <1>2, <2>1 DEF RegistryInv, Bindings, Agree
  <2> QED
    BY <1>1, <1>3, <2>2 DEF Bindings
<1>6. SweepHolds'
  BY <1>1 DEF RegistryInv, TypeOK, SweepHolds
<1>7. SweptTurnUnbound'
  BY <1>1 DEF RegistryInv, SweptTurnUnbound
<1>8. AbortMarksSwept'
  BY <1>1 DEF RegistryInv, AbortMarksSwept, marks
<1> QED
  BY <1>4, <1>5, <1>6, <1>7, <1>8 DEF RegistryInv

\* the marks.
LEMMA SweepMarksKeeps ==
  ASSUME RegistryInv, TypeOK', NEW t \in Turns, SweepMarks(t)
  PROVE  RegistryInv'
<1>1. /\ loop = t /\ loop' = Free /\ doomed = {} /\ turn'[t] = "over"
      /\ \A u \in Turns : u # t => turn'[u] = turn[u]
      /\ aborted' = aborted \ cleared /\ cleared' = {}
      /\ UNCHANGED <<act, store, owner, keys, doomed, late, remarked>>
  BY DEF SweepMarks, RegistryInv, TypeOK
<1>2. \A a \in Acts : act[a] \notin {"stored", "restored", "ending", "dropped"}
  BY <1>1, LoopAssumption DEF RegistryInv, LoopHolds
<1>3. \A k \in Traces : Agree(k)
  BY <1>1, <1>2 DEF RegistryInv, Bindings, Halfway
<1>4. \A a \in Acts : TurnOf[a] \in Turns
  BY ActivityAssumption
<1>5. LoopHolds'
  BY <1>1, <1>2, LoopAssumption DEF RegistryInv, LoopHolds
<1>6. Bindings'
  BY <1>1, <1>2, <1>3 DEF Bindings, Agree
<1>7. SweepHolds'
  BY <1>1, <1>4, LoopAssumption DEF RegistryInv, SweepHolds
<1>8. SweptTurnUnbound'
  <2>1. \A k \in Traces : store[k] # None => TurnOf[store[k]] # t
    BY <1>1, <1>3 DEF RegistryInv, SweepHolds, Agree
  <2>2. \A k \in Traces : store[k] # None => TurnOf[store[k]] \in Turns
    BY <1>4 DEF RegistryInv, TypeOK
  <2> QED
    BY <1>1, <2>1, <2>2 DEF RegistryInv, SweptTurnUnbound
<1>9. AbortMarksSwept'
  <2>1. \A a \in aborted' : TurnOf[a] = t => act[a] = "idle"
    BY <1>1 DEF RegistryInv, TypeOK, SweepHolds
  <2> QED
    BY <1>1, <1>4, <2>1 DEF RegistryInv, TypeOK, AbortMarksSwept
<1> QED
  BY <1>5, <1>6, <1>7, <1>8, <1>9 DEF RegistryInv

\* Every step keeps registry and store in step.
LEMMA NextRegistry ==
  OnLoop /\ RegistryInv /\ PinsAreLive /\ [Next]_vars => RegistryInv'
<1> SUFFICES ASSUME OnLoop, RegistryInv, PinsAreLive, [Next]_vars PROVE RegistryInv'
  OBVIOUS
<1>1. TypeOK'
  BY NextTypes DEF RegistryInv
<1>2. CASE UNCHANGED vars
  <2>1. Halfway' = Halfway
    BY <1>2 DEF Halfway, vars, registry, Trace
  <2> QED
    BY <1>1, <1>2, <2>1 DEF RegistryInv, LoopHolds, Bindings, SweepHolds, SweptTurnUnbound,
      AbortMarksSwept, Agree, Trace, vars, registry, marks
<1> QED
  BY <1>1, <1>2, WriteStoreKeeps, WriteOwnerKeeps, DropStoreKeeps, DropOwnerKeeps,
     SweepOwnerKeeps, SweepStoreKeeps, SweepMarksKeeps, HookKeeps
  DEF Next, Register, Sweep, Terminating

\* They are in step, and pins live, throughout.
LEMMA RegistryAlways == ASSUME OnLoop PROVE Spec => [](RegistryInv /\ PinsAreLive)
<1>1. RegistryInv /\ PinsAreLive /\ [Next]_vars => (RegistryInv /\ PinsAreLive)'
  BY NextRegistry, NextPins DEF RegistryInv
<1>2. Init => RegistryInv /\ PinsAreLive
  BY InitRegistry, InitPins
<1> QED
  BY <1>1, <1>2, PTL DEF Spec

\* With every model callback on the loop, the registry and the base store
\* agree between any two pieces of loop work, threads' hooks in between or not.
THEOREM RegistryAndStoreAgree == ASSUME Threaded = {} PROVE Spec => []RegistryAgrees
<1>1. RegistryInv => RegistryAgrees
  <2> SUFFICES ASSUME RegistryInv, loop = Free, NEW k \in Traces PROVE Agree(k)
    BY DEF RegistryAgrees, Agree
  <2>1. doomed = {} /\ Halfway = {}
    BY LoopAssumption DEF RegistryInv, LoopHolds, Halfway
  <2> QED
    BY <2>1 DEF RegistryInv, Bindings
<1>2. Spec => [](RegistryInv /\ PinsAreLive)
  BY RegistryAlways DEF OnLoop
<1> QED
  BY <1>1, <1>2, PTL

\* A sweep drops no binding that another turn wrote last.
THEOREM SweepDropsItsOwn == ASSUME Threaded = {} PROVE Spec => SweepSparesOthers
<1> DEFINE Spared == \A t \in Turns, k \in Traces :
             loop = t /\ loop' \in {t, Free} /\ store[k] # None /\ store'[k] = None
             => TurnOf[store[k]] = t
<1>1. RegistryInv /\ [Next]_vars => Spared
  <2> SUFFICES ASSUME RegistryInv, [Next]_vars, NEW t \in Turns, NEW k \in Traces,
                      loop = t, store[k] # None, store'[k] = None
               PROVE  TurnOf[store[k]] = t
    OBVIOUS
  <2>1. ~ \E a \in Acts : Register(a)
    <3>1. \A a \in Acts : ~ MayStep(a)
      BY SpanAssumption, LoopAssumption DEF MayStep, OnLoop
    <3> QED
      BY <3>1 DEF Register, WriteStore, WriteOwner, DropStore, DropOwner
  <2>2. \A s \in Spans : Hook(s) => store' = store
    BY HookQuiet DEF registry
  <2>3. PICK u \in Turns, j \in Traces : SweepStore(u, j)
    BY <2>1, <2>2 DEF Next, Sweep, SweepOwner, SweepMarks, Terminating, vars, registry
  <2>4. u = t /\ j = k
    BY <2>3 DEF SweepStore, RegistryInv, TypeOK
  <2> QED
    BY <2>3, <2>4 DEF SweepStore, RegistryInv, SweepHolds
<1>2. Spec => [](RegistryInv /\ PinsAreLive)
  BY RegistryAlways DEF OnLoop
<1>3. Spec => [][Next]_vars
  BY PTL DEF Spec
<1>4. RegistryInv /\ [Next]_vars => [Spared]_vars
  BY <1>1
<1> QED
  BY <1>2, <1>3, <1>4, PTL DEF SweepSparesOthers

\* After its sweep no trace resolves to an activity of a turn, but for those a
\* callback of the abandoned graph registers afterwards.
THEOREM SweptTurnsAreUnbound == ASSUME Threaded = {} PROVE Spec => []SweptTurnUnbound
<1>1. Spec => [](RegistryInv /\ PinsAreLive)
  BY RegistryAlways DEF OnLoop
<1> QED
  BY <1>1, PTL DEF RegistryInv

\* And the abort marks of its registered activities are gone with it, unless
\* set anew.
THEOREM MarksAreSwept == ASSUME Threaded = {} PROVE Spec => []AbortMarksSwept
<1>1. Spec => [](RegistryInv /\ PinsAreLive)
  BY RegistryAlways DEF OnLoop
<1> QED
  BY <1>1, PTL DEF RegistryInv

-----------------------------------------------------------------------------
(* Stages *)

HasPin(s, a) == \E i \in 1 .. Len(pins) : pins[i] = [span |-> s, act |-> a]

\* The spans whose context nobody moves while it is resolved and sent.
Steady(s) == s \in Scoped \/ s \notin OffLoop

\* What a span resolves to is pinned at once, and steady until it has been sent
\* unless it is that of a thread the ContextVar does not reach.
Staged(s) ==
  /\ span[s] \in {"idle", "pinned"} => started[s] = None
  /\ span[s] = "pinned" /\ s \notin OffLoop => loop = s
  /\ span[s] = "pinned" /\ preflight /\ Steady(s) => Resolved(s) = resolved[s]
  /\ span[s] = "pinned" /\ preflight /\ s \notin evicted /\ resolved[s] # None
       => HasPin(s, resolved[s])
  /\ span[s] \in {"evaluating", "running"} /\ s \notin evicted
       /\ started[s] # None /\ resolved[s] # None => HasPin(s, resolved[s])
  /\ span[s] = "over" /\ started[s] # None /\ s \notin evicted /\ started[s] = resolved[s]
       => ended[s] = started[s]
  /\ started[s] # None /\ started[s] # resolved[s] => ~ Steady(s)

StageInv == \A s \in Spans : Staged(s)

Same(s) ==
  /\ span'[s] = span[s] /\ started'[s] = started[s] /\ ended'[s] = ended[s]
  /\ resolved'[s] = resolved[s]

\* A span's stages are moved by its own hook only.
LEMMA StagesMove ==
  ASSUME TypeOK, [Next]_vars, NEW s \in Spans PROVE Same(s) \/ Hook(s)
<1>1. CASE UNCHANGED hooks
  BY <1>1 DEF Same, hooks
<1>2. ASSUME NEW r \in Spans, Hook(r), r # s PROVE Same(s)
  BY <1>2 DEF Hook, PinStarted, EvaluateStarted, Proceed, Refuse, Complete, Lose, TypeOK, Same
<1> QED
  BY <1>1, <1>2
  DEF Next, vars, Register, WriteStore, WriteOwner, DropStore, DropOwner,
      Sweep, SweepOwner, SweepStore, SweepMarks, Terminating

\* A pin leaves with its own span's end, or to make room.
LEMMA PinsStay ==
  ASSUME TypeOK, PinsAreLive, [Next]_vars, NEW s \in Spans, NEW a \in Acts,
         ~ Refuse(s), ~ Complete(s), HasPin(s, a)
  PROVE  HasPin(s, a)' \/ s \in evicted'
<1>1. PICK k \in 1 .. Len(pins) : pins[k] = [span |-> s, act |-> a]
  BY DEF HasPin
<1>2. CASE pins' = pins
  BY <1>2 DEF HasPin
<1>3. ASSUME NEW r \in Spans, Refuse(r) \/ Complete(r) PROVE HasPin(s, a)'
  <2>1. pins' = Unpinned(r) /\ r # s
    BY <1>3 DEF Refuse, Complete
  <2>2. \E j \in 1 .. Len(pins') : pins'[j] = pins[k]
    <3>1. pins[k].span = s
      BY <1>1
    <3>2. pins \in Seq(Pinned) /\ OnePerSpan(pins)
      BY PinFacts
    <3>3. \A i \in 1 .. Len(pins) :
            pins[i].span # r => \E j \in 1 .. Len(Unpinned(r)) : Unpinned(r)[j] = pins[i]
      BY <3>2, UnpinnedPins
    <3>4. \E j \in 1 .. Len(Unpinned(r)) : Unpinned(r)[j] = pins[k]
      BY <2>1, <3>1, <3>3
    <3> QED
      BY <2>1, <3>4
  <2> QED
    BY <1>1, <2>2 DEF HasPin
<1>4. ASSUME NEW r \in Spans, PinStarted(r), pins' # pins PROVE HasPin(s, a)' \/ s \in evicted'
  <2>1. Pin(r, Resolved(r)) /\ Resolved(r) # None /\ span[r] = "idle"
    BY <1>4 DEF PinStarted
  <2>2. Resolved(r) \in Acts /\ PlacesOf(r) = {}
    BY <2>1, ResolvedType, PinFacts DEF PlacesOf, Between
  <2>3. pins[k].span \in evicted' \/ \E j \in 1 .. Len(pins') : pins'[j] = pins[k]
    BY <2>1, <2>2, PinFacts, PinnedPins
  <2> QED
    BY <1>1, <2>3 DEF HasPin
<1> QED
  BY <1>2, <1>3, <1>4
  DEF Next, vars, hooks, Register, WriteStore, WriteOwner, DropStore, DropOwner,
      Sweep, SweepOwner, SweepStore, SweepMarks, Hook, EvaluateStarted, Proceed, Lose,
      Terminating

\* What made room once is not forgotten.
LEMMA EvictedStays ==
  ASSUME TypeOK, PinsAreLive, [Next]_vars PROVE evicted \subseteq evicted' /\ preflight' = preflight
<1>1. ASSUME NEW r \in Spans, PinStarted(r) PROVE evicted \subseteq evicted'
  BY <1>1 DEF PinStarted, Pin
<1> QED
  BY <1>1
  DEF Next, vars, hooks, Register, WriteStore, WriteOwner, DropStore, DropOwner,
      Sweep, SweepOwner, SweepStore, SweepMarks, Hook, PinStarted, EvaluateStarted, Proceed,
      Refuse, Complete, Lose, Terminating

\* While a span of the loop is between resolving and sending, nothing binds
\* or drops a trace, and the loop stays with it.
LEMMA LoopIsTheSpans ==
  ASSUME OnLoop, [Next]_vars, NEW s \in Spans, loop = s, ~ Hook(s)
  PROVE  store' = store /\ loop' = s
<1>1. ~ \E a \in Acts : Register(a)
  <2>1. \A a \in Acts : ~ MayStep(a)
    BY SpanAssumption, LoopAssumption DEF MayStep, OnLoop
  <2> QED
    BY <2>1 DEF Register, WriteStore, WriteOwner, DropStore, DropOwner
<1>2. ~ \E t \in Turns : Sweep(t)
  BY LoopAssumption DEF Sweep, SweepOwner, SweepStore, SweepMarks
<1>3. \A r \in Spans : Hook(r) => store' = store /\ loop' = s
  BY HookQuiet, LoopAssumption DEF registry
<1> QED
  BY <1>1, <1>2, <1>3 DEF Next, vars, registry, Terminating

\* Every step keeps both stages of a span with one activity.
LEMMA NextStages ==
  ASSUME OnLoop, TypeOK, PinsAreLive, StageInv, [Next]_vars
  PROVE  StageInv'
<1> SUFFICES ASSUME NEW s \in Spans PROVE Staged(s)'
  BY DEF StageInv
<1>1. Staged(s)
  BY DEF StageInv
<1>2. evicted \subseteq evicted' /\ preflight' = preflight
  BY EvictedStays
<1>3. Resolved(s) \in Acts \cup {None}
  BY ResolvedType
<1>4. CASE Same(s) /\ ~ Hook(s)
  <2>1. span[s] = "pinned" /\ Steady(s) => Resolved(s)' = Resolved(s)
    <3>1. CASE s \in Scoped
      BY <3>1 DEF Resolved
    <3>2. CASE s \notin Scoped /\ s \notin OffLoop /\ span[s] = "pinned"
      BY <1>1, <1>4, <3>2, LoopIsTheSpans DEF Staged, Resolved, Trace
    <3> QED
      BY <3>1, <3>2 DEF Steady
  <2>2. span[s] = "pinned" /\ s \notin OffLoop => loop' = s
    BY <1>1, <1>4, LoopIsTheSpans DEF Staged
  <2>3. \A a \in Acts : HasPin(s, a) => HasPin(s, a)' \/ s \in evicted'
    BY <1>4, PinsStay DEF Hook
  <2>4. resolved[s] \in Acts \cup {None}
    BY DEF TypeOK
  <2>5. ASSUME s \notin evicted', resolved[s] # None, HasPin(s, resolved[s])
        PROVE  HasPin(s, resolved[s])'
    <3>1. PICK a \in Acts : a = resolved[s]
      BY <2>4, <2>5
    <3>2. HasPin(s, a)' /\ resolved'[s] = a
      BY <1>4, <2>3, <2>5, <3>1 DEF Same
    <3> QED
      BY <3>2 DEF HasPin
  <2> QED
    BY <1>1, <1>2, <1>4, <2>1, <2>2, <2>5 DEF Staged, Same, Steady
<1>5. CASE PinStarted(s)
  <2>1. /\ span[s] = "idle" /\ span'[s] = "pinned" /\ started'[s] = started[s]
        /\ resolved'[s] = IF preflight THEN Resolved(s) ELSE resolved[s]
        /\ UNCHANGED registry
    BY <1>5 DEF PinStarted, TypeOK
  <2>2. Resolved(s)' = Resolved(s)
    BY <2>1 DEF Resolved, Trace, registry
  <2>3. s \notin OffLoop => loop' = s
    BY <1>5, SpanAssumption, ActivityAssumption, LoopAssumption DEF PinStarted, Hold, OnLoop
  <2>4. preflight /\ Resolved(s) # None => HasPin(s, resolved[s])'
    <3> SUFFICES ASSUME preflight, Resolved(s) # None PROVE HasPin(s, resolved[s])'
      OBVIOUS
    <3>1. PlacesOf(s) = {}
      BY <2>1, PinFacts DEF PlacesOf, Between
    <3>2. PICK a \in Acts : a = Resolved(s)
      BY <1>3
    <3>3. Pin(s, a)
      BY <1>5, <3>2 DEF PinStarted
    <3>4. pins' \in Seq(Pinned) /\ Len(pins') > 0 /\ pins'[Len(pins')] = [span |-> s, act |-> a]
      BY <3>1, <3>3, PinFacts, PinnedPins
    <3>5. resolved'[s] = a
      BY <2>1, <3>2
    <3>6. Len(pins') \in 1 .. Len(pins')
      BY <3>4
    <3> QED
      BY <3>4, <3>5, <3>6 DEF HasPin
  <2>5. span'[s] = "pinned" /\ started'[s] = None
    BY <1>1, <2>1 DEF Staged
  <2> QED
    BY <1>2, <2>1, <2>2, <2>3, <2>4, <2>5 DEF Staged
<1>6. CASE EvaluateStarted(s)
  <2>1. /\ span[s] = "pinned" /\ span'[s] = "evaluating" /\ pins' = pins /\ evicted' = evicted
        /\ started'[s] = IF preflight THEN Resolved(s) ELSE started[s]
        /\ resolved' = resolved
    BY <1>6 DEF EvaluateStarted, TypeOK
  <2>2. started[s] = None
    BY <1>1, <2>1 DEF Staged
  <2>3. started'[s] # None => preflight
    BY <2>1, <2>2
  <2>4. started'[s] # None /\ resolved'[s] # None /\ s \notin evicted'
          => HasPin(s, resolved[s])'
    BY <1>1, <2>1, <2>3 DEF Staged, HasPin
  <2>5. started'[s] # None /\ started'[s] # resolved'[s] => ~ Steady(s)
    BY <1>1, <2>1, <2>3 DEF Staged
  <2> QED
    BY <2>1, <2>4, <2>5 DEF Staged, Steady
<1>7. CASE Proceed(s)
  <2>1. /\ span[s] = "evaluating" /\ span'[s] = "running" /\ pins' = pins
        /\ evicted' = evicted /\ started' = started /\ resolved' = resolved
    BY <1>7 DEF Proceed, TypeOK
  <2> QED
    BY <1>1, <2>1 DEF Staged, HasPin, Steady
<1>8. CASE Refuse(s) \/ Lose(s)
  BY <1>1, <1>8 DEF Refuse, Lose, TypeOK, Staged, Steady
<1>9. CASE Complete(s)
  <2>1. /\ span[s] = "running" /\ span'[s] = "over" /\ evicted' = evicted
        /\ started' = started /\ ended'[s] = CompletedUnder(s) /\ resolved' = resolved
    BY <1>9 DEF Complete, TypeOK
  <2>2. started[s] # None /\ s \notin evicted /\ started[s] = resolved[s]
          => CompletedUnder(s) = started[s]
    <3> SUFFICES ASSUME started[s] # None, s \notin evicted, started[s] = resolved[s]
                 PROVE  CompletedUnder(s) = started[s]
      OBVIOUS
    <3>1. PICK i \in 1 .. Len(pins) : pins[i] = [span |-> s, act |-> started[s]]
      BY <1>1, <2>1 DEF Staged, HasPin
    <3>2. \A j \in PlacesOf(s) : j = i
      BY <3>1, PinFacts DEF PlacesOf, OnePerSpan
    <3>3. i \in PlacesOf(s)
      BY <3>1 DEF PlacesOf
    <3>4. (CHOOSE j \in PlacesOf(s) : TRUE) = i
      BY <3>2, <3>3
    <3>5. CompletedUnder(s) = pins[i].act
      BY <3>3, <3>4 DEF CompletedUnder
    <3> QED
      BY <3>1, <3>5
  <2> QED
    BY <1>1, <2>1, <2>2 DEF Staged, Steady
<1> QED
  BY <1>4, <1>5, <1>6, <1>7, <1>8, <1>9, StagesMove DEF Hook

\* With model callbacks on the loop, a span is completed under the activity it
\* had resolved to and was started under, by whomever its trace is registered
\* in between, threads the ContextVar does not reach included; and all but
\* those are started under what they had resolved to.
THEOREM StagesAreOneActivity ==
  ASSUME Threaded = {} PROVE Spec => []StagesAgree
<1> DEFINE IInv == TypeOK /\ PinsAreLive /\ StageInv
<1>1. Init => IInv
  BY InitPins DEF Init, StageInv, Staged
<1>2. IInv /\ [Next]_vars => IInv'
  BY NextTypes, NextPins, NextStages DEF OnLoop
<1>3. IInv => StagesAgree
  BY DEF StageInv, Staged, StagesAgree, Steady
<1> QED
  BY <1>1, <1>2, <1>3, PTL DEF Spec

=============================================================================
