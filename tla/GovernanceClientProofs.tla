----------------------- MODULE GovernanceClientProofs -----------------------
(***************************************************************************)
(* Type correctness of the client's de-duplication; that it drops only     *)
(* what is covered, for any number of sends, runs and keys and for every   *)
(* interleaving of runs, on every transport but the legacy one under       *)
(* fail_closed; and that it sends once where runs follow one another.      *)
(***************************************************************************)
EXTENDS GovernanceClient, FiniteSetTheorems, TLAPS

\* Every transport forgets the events it rejects.
RejectionsForgotten == \A m \in Modes : ~(m.route = "legacy" /\ m.failClosed)

\* A send that is with the transport, or left it without being rejected.
Alive == {"sending", "returned", "open", "unsent", "crashed"}

\* The strengthening: every key the client remembers is that of such a send.
KeysCovered ==
  \A k \in sent : \E r \in Sends : EventOf(r) = <<run, k>> /\ pc[r] \in Alive

-----------------------------------------------------------------------------

\* What a transport yields settles the send, and as a rejection only where it
\* is forgotten.
LEMMA ResultType ==
  ASSUME NEW s \in Sends, NEW y \in Yields("gate"), Possible(s, y), TypeOK
  PROVE  Result(s, y) \in {"returned", "open", "unsent", "raised", "crashed"}
<1>1. RouteOf(s) \in Routes
  BY SendAssumption DEF RouteOf, TypeOK, Routes
<1> QED
  BY <1>1 DEF Result, Possible, Yields, Routes

\* A rejection that is not forgotten is one of the legacy route.
LEMMA RejectionForgotten ==
  ASSUME NEW s \in Sends, NEW y \in Yields("gate"), Possible(s, y), TypeOK,
         RejectionsForgotten, Result(s, y) = "raised"
  PROVE  Forgets(s, y)
<1>1. RouteOf(s) \in Routes /\ mode \in Modes /\ mode \in [route : Routes, failClosed : BOOLEAN]
  BY SendAssumption DEF RouteOf, TypeOK, Routes
<1>2. RouteOf(s) = "legacy" => mode.route = "legacy"
  BY <1>1 DEF RouteOf
<1>3. RouteOf(s) = "legacy" => ~mode.failClosed
  BY <1>1, <1>2 DEF RejectionsForgotten
<1>4. RouteOf(s) # "legacy"
  <2>1. SUFFICES ASSUME RouteOf(s) = "legacy" PROVE FALSE
    OBVIOUS
  <2>2. y \in {"verdict", "fault"}
    BY <2>1 DEF Possible, Yields
  <2> QED
    BY <1>3, <2>1, <2>2 DEF Result
<1> QED
  BY <1>4 DEF Forgets

\* The initial state is well typed.
LEMMA InitTypeOK == Init => TypeOK
  BY SendAssumption DEF Init, TypeOK, Settled

\* Every step preserves the types.
LEMMA NextTypeOK == TypeOK /\ [Next]_vars => TypeOK'
<1> SUFFICES ASSUME TypeOK, [Next]_vars PROVE TypeOK'
  OBVIOUS
<1>1. \A s \in Sends : RunOf[s] \in Runs /\ KeyOf[s] \in Keys /\ EventOf(s) \in Runs \X Keys
                       /\ KnownKeys(s) \subseteq Keys
  BY SendAssumption DEF EventOf, KnownKeys, TypeOK
<1>2. ASSUME NEW s \in Sends, DropDuplicate(s) PROVE TypeOK'
  BY <1>1, <1>2 DEF DropDuplicate, TypeOK, Settled
<1>3. ASSUME NEW s \in Sends, Send(s) PROVE TypeOK'
  BY <1>1, <1>3 DEF Send, Mark, TypeOK, Settled
<1>4. ASSUME NEW s \in Sends, CancelSend(s) PROVE TypeOK'
  BY <1>4 DEF CancelSend, TypeOK, Settled
<1>5. ASSUME NEW s \in Sends, NEW y \in Yields("gate"), Settle(s, y) PROVE TypeOK'
  <2>1. Result(s, y) \in Settled
    BY <1>5, ResultType DEF Settle, Settled
  <2> QED
    BY <1>5, <2>1 DEF Settle, Finish, Forget, TypeOK, Settled
<1>6. ASSUME NEW s \in Sends, NEW y \in Yields("gate"), SendSync(s, y) PROVE TypeOK'
  <2>1. Result(s, y) \in Settled
    BY <1>6, ResultType DEF SendSync, Settled
  <2> QED
    BY <1>1, <1>6, <2>1 DEF SendSync, Finish, TypeOK, Settled
<1>7. CASE UNCHANGED vars
  BY <1>7 DEF vars, TypeOK
<1> QED
  BY <1>2, <1>3, <1>4, <1>5, <1>6, <1>7 DEF Next, Terminating

\* Type correctness of the client's state.
THEOREM ClientTypeCorrect == Spec => []TypeOK
  BY InitTypeOK, NextTypeOK, PTL DEF Spec

-----------------------------------------------------------------------------

\* At first nothing is remembered.
LEMMA InitKeysCovered == Init => KeysCovered
  BY DEF Init, KeysCovered

\* Marking, dropping and forgetting keep every remembered key covered.
LEMMA NextKeysCovered ==
  ASSUME RejectionsForgotten
  PROVE  TypeOK /\ KeysCovered /\ [Next]_vars => KeysCovered'
<1> SUFFICES ASSUME TypeOK, KeysCovered, [Next]_vars,
                    NEW k \in sent'
             PROVE  (\E r \in Sends : EventOf(r) = <<run, k>> /\ pc[r] \in Alive)'
  BY DEF KeysCovered
<1>1. ASSUME NEW s \in Sends, DropDuplicate(s)
      PROVE  (\E r \in Sends : EventOf(r) = <<run, k>> /\ pc[r] \in Alive)'
  <2>1. run = RunOf[s] /\ k \in sent /\ run' = run
    BY <1>1 DEF DropDuplicate, Duplicate, KnownKeys
  <2>2. PICK r \in Sends : EventOf(r) = <<run, k>> /\ pc[r] \in Alive
    BY <2>1 DEF KeysCovered
  <2>3. r # s
    BY <1>1, <2>2 DEF DropDuplicate, MayBegin, Alive
  <2> QED
    BY <1>1, <2>1, <2>2, <2>3 DEF DropDuplicate, TypeOK, EventOf
<1>2. ASSUME NEW s \in Sends, NEW label \in Alive, pc[s] = "idle",
             run' = RunOf[s], sent' \subseteq KnownKeys(s) \cup {KeyOf[s]},
             pc' = [pc EXCEPT ![s] = label]
      PROVE  (\E r \in Sends : EventOf(r) = <<run, k>> /\ pc[r] \in Alive)'
  <2>1. CASE k = KeyOf[s]
    BY <1>2, <2>1 DEF TypeOK, EventOf
  <2>2. CASE k # KeyOf[s]
    <3>1. run = RunOf[s] /\ k \in sent
      BY <1>2, <2>2 DEF KnownKeys
    <3>2. PICK r \in Sends : EventOf(r) = <<run, k>> /\ pc[r] \in Alive
      BY <3>1 DEF KeysCovered
    <3> QED
      BY <1>2, <3>1, <3>2 DEF TypeOK, EventOf
  <2> QED
    BY <2>1, <2>2
<1>3. ASSUME NEW s \in Sends, Send(s)
      PROVE  (\E r \in Sends : EventOf(r) = <<run, k>> /\ pc[r] \in Alive)'
  BY <1>2, <1>3 DEF Send, Mark, MayBegin, Alive
<1>4. ASSUME NEW s \in Sends, CancelSend(s)
      PROVE  (\E r \in Sends : EventOf(r) = <<run, k>> /\ pc[r] \in Alive)'
  <2>1. PICK r \in Sends : EventOf(r) = <<run, k>> /\ pc[r] \in Alive
    BY <1>4 DEF CancelSend, KeysCovered
  <2> QED
    BY <1>4, <2>1 DEF CancelSend, TypeOK, EventOf, Alive
<1>5. ASSUME NEW s \in Sends, NEW y \in Yields("gate"), Settle(s, y)
      PROVE  (\E r \in Sends : EventOf(r) = <<run, k>> /\ pc[r] \in Alive)'
  <2>1. Result(s, y) \in {"returned", "open", "unsent", "raised", "crashed"}
    BY <1>5, ResultType DEF Settle
  <2>2. k \in sent /\ run' = run
    BY <1>5 DEF Settle, Forget
  <2>3. PICK r \in Sends : EventOf(r) = <<run, k>> /\ pc[r] \in Alive
    BY <2>2 DEF KeysCovered
  <2>4. CASE Result(s, y) = "raised"
    <3>1. Forget(s)
      BY <1>5, <2>4, RejectionForgotten DEF Settle
    <3>2. r # s
      BY <2>3, <3>1 DEF Forget, EventOf
    <3> QED
      BY <1>5, <2>2, <2>3, <3>2 DEF Settle, Finish, TypeOK, EventOf
  <2>5. CASE Result(s, y) # "raised"
    BY <1>5, <2>1, <2>2, <2>3, <2>5 DEF Settle, Finish, TypeOK, EventOf, Alive
  <2> QED
    BY <2>4, <2>5
<1>6. ASSUME NEW s \in Sends, NEW y \in Yields("gate"), SendSync(s, y)
      PROVE  (\E r \in Sends : EventOf(r) = <<run, k>> /\ pc[r] \in Alive)'
  <2>1. Result(s, y) \in {"returned", "open", "unsent", "raised", "crashed"}
    BY <1>6, ResultType DEF SendSync
  <2>2. pc[s] = "idle" /\ run' = RunOf[s] /\ pc' = [pc EXCEPT ![s] = Result(s, y)]
    BY <1>6 DEF SendSync, MayBegin, Finish
  <2>3. CASE Result(s, y) = "raised"
    <3>1. sent' = KnownKeys(s)
      BY <1>6, <2>3, RejectionForgotten DEF SendSync
    <3>2. run = RunOf[s] /\ k \in sent
      BY <3>1 DEF KnownKeys
    <3>3. PICK r \in Sends : EventOf(r) = <<run, k>> /\ pc[r] \in Alive
      BY <3>2 DEF KeysCovered
    <3>4. r # s
      BY <2>2, <3>3 DEF Alive
    <3> QED
      BY <2>2, <3>2, <3>3, <3>4 DEF TypeOK, EventOf
  <2>4. CASE Result(s, y) # "raised"
    <3>1. Result(s, y) \in Alive
      BY <2>1, <2>4 DEF Alive
    <3>2. sent' \subseteq KnownKeys(s) \cup {KeyOf[s]}
      BY <1>6 DEF SendSync
    <3> QED
      BY <1>2, <2>2, <3>1, <3>2
  <2> QED
    BY <2>3, <2>4
<1>7. CASE UNCHANGED vars
  BY <1>7 DEF vars, KeysCovered, EventOf
<1> QED
  BY <1>1, <1>3, <1>4, <1>5, <1>6, <1>7 DEF Next, Terminating

\* A step that drops a send drops a covered one, or one of an event cut short.
LEMMA DropStep ==
  ASSUME TypeOK, KeysCovered, [Next]_vars,
         NEW s \in Sends, pc[s] = "idle", pc'[s] = "dropped"
  PROVE  CutShort(s) \/ Covered(s)
<1>1. DropDuplicate(s)
  <2>1. ASSUME NEW t \in Sends, NEW y \in Yields("gate"), SendSync(t, y) PROVE FALSE
    BY <2>1, ResultType DEF SendSync, Finish, TypeOK
  <2>2. ASSUME NEW t \in Sends, NEW y \in Yields("gate"), Settle(t, y) PROVE FALSE
    BY <2>2, ResultType DEF Settle, Finish, TypeOK
  <2> QED
    BY <2>1, <2>2
    DEF Next, Terminating, vars, DropDuplicate, Send, CancelSend, TypeOK
<1>2. run = RunOf[s] /\ KeyOf[s] \in sent
  BY <1>1 DEF DropDuplicate, Duplicate, KnownKeys
<1>3. PICK r \in Sends : EventOf(r) = <<run, KeyOf[s]>> /\ pc[r] \in Alive
  BY <1>2 DEF KeysCovered
<1> QED
  BY <1>2, <1>3 DEF Covered, CutShort, Same, EventOf, Alive

\* De-duplication drops only events that are covered, or one of whose sends was
\* cut short, unless a mode rejects events without forgetting them.
THEOREM DropsCovered ==
  ASSUME RejectionsForgotten
  PROVE  Spec => DropsOnlyCovered
<1>1. Spec => []KeysCovered
  <2>1. Spec => []TypeOK
    BY ClientTypeCorrect
  <2> QED
    BY <2>1, InitKeysCovered, NextKeysCovered, PTL DEF Spec
<1>2. TypeOK /\ KeysCovered /\ [Next]_vars =>
        [\A s \in Sends :
           pc[s] = "idle" /\ pc'[s] = "dropped" /\ ~CutShort(s) => Covered(s)]_vars
  BY DropStep
<1> QED
  BY <1>1, <1>2, ClientTypeCorrect, PTL DEF Spec, DropsOnlyCovered

-----------------------------------------------------------------------------
(* How often an event is sent *)

Begun == {s \in Sends : pc[s] # "idle"}
Rejected == [e \in Runs \X Keys |-> {s \in Sends : EventOf(s) = e /\ pc[s] = "raised"}]
Precedes(p, q) == \A r, s \in Sends : RunOf[r] = p /\ RunOf[s] = q => r \in After[s]

\* The runs of a client come one after the other.
RunsInTurn == \A p, q \in Runs : p # q => Precedes(p, q) \/ Precedes(q, p)

\* What a send waited for is over, and stays so.
WaitedFor == \A s \in Begun : \A r \in After[s] : Over(r)

\* The client remembers a run one of whose sends has begun.
RunBegun == run # NoRun => \E s \in Begun : RunOf[s] = run

\* Of another run something was sent only if nothing is still to come of it.
OthersOver ==
  \A e \in Runs \X Keys :
    wire[e] # 0 => (e[1] = run) \/ \A s \in Sends : RunOf[s] = e[1] => Over(s)

\* In its own run each transmission was rejected, or its key is remembered.
WireCounted ==
  \A k \in Keys : run \in Runs =>
    wire[<<run, k>>] <= Cardinality(Rejected[<<run, k>>]) + (IF k \in sent THEN 1 ELSE 0)

CountInv == IsFiniteSet(Begun) /\ WaitedFor /\ RunBegun /\ OthersOver /\ WireCounted
            /\ SentOncePerRun

-----------------------------------------------------------------------------

\* A send that is yet to begin or to settle is not over, and what is over
\* stays so when it moves.
LEMMA OverStays ==
  ASSUME TypeOK, NEW s \in Sends, NEW l,
         MayBegin(s) \/ pc[s] = "sending", pc' = [pc EXCEPT ![s] = l],
         l \in Settled \cup {"sending"}
  PROVE  ~Over(s) /\ \A r \in Sends : Over(r) => Over(r)'
<1>1. ~Over(s)
  BY DEF MayBegin, Over, Settled
<1>2. pc \in [Sends -> {"idle", "sending"} \cup Settled]
  BY DEF TypeOK
<1>3. \A r \in Sends : r # s => pc'[r] = pc[r]
  BY <1>2
<1>4. pc[s] \notin Settled
  BY <1>1 DEF Over
<1>5. ASSUME NEW r \in Sends, Over(r) PROVE Over(r)'
  <2>1. r # s
    BY <1>1, <1>5
  <2>2. CASE pc[r] \in Settled
    BY <1>3, <2>1, <2>2 DEF Over
  <2>3. CASE pc[r] = "idle" /\ \E t \in RetryOf[r] : pc[t] \in Settled \ {"raised"}
    <3>1. PICK t \in RetryOf[r] : pc[t] \in Settled \ {"raised"}
      BY <2>3
    <3>2. t \in Sends /\ t # s
      BY <1>4, <3>1, SendAssumption
    <3> QED
      BY <1>3, <2>1, <2>3, <3>1, <3>2 DEF Over
  <2> QED
    BY <1>5, <2>2, <2>3 DEF Over
<1> QED
  BY <1>1, <1>5

\* Rejections are counted one by one and never taken back.
LEMMA RejectedMoves ==
  ASSUME TypeOK, IsFiniteSet(Begun), NEW s \in Sends, NEW l, NEW e \in Runs \X Keys,
         pc[s] \in {"idle", "sending"}, l \in Settled \cup {"sending"},
         pc' = [pc EXCEPT ![s] = l]
  PROVE  /\ IsFiniteSet(Begun')
         /\ Cardinality(Rejected[e]) \in Nat /\ Cardinality(Rejected'[e]) \in Nat
         /\ Cardinality(Rejected'[e]) >= Cardinality(Rejected[e])
         /\ l = "raised" /\ e = EventOf(s)
              => Cardinality(Rejected'[e]) = Cardinality(Rejected[e]) + 1
<1>1. pc \in [Sends -> {"idle", "sending"} \cup Settled]
  BY DEF TypeOK
<1>2. Begun' = Begun \cup {s}
  BY <1>1 DEF Begun, Settled
<1>3. IsFiniteSet(Begun')
  BY <1>2, FS_AddElement
<1>4. Rejected[e] \subseteq Begun /\ Rejected'[e] \subseteq Begun'
  BY DEF Rejected, Begun
<1>5. IsFiniteSet(Rejected[e]) /\ IsFiniteSet(Rejected'[e])
  BY <1>3, <1>4, FS_Subset
<1>6. Rejected[e] \subseteq Rejected'[e] /\ s \notin Rejected[e]
  BY <1>1 DEF Rejected, EventOf, Settled
<1>7. ASSUME l = "raised", e = EventOf(s) PROVE Rejected'[e] = Rejected[e] \cup {s}
  BY <1>1, <1>7 DEF Rejected, EventOf
<1>8. l = "raised" /\ e = EventOf(s)
        => Cardinality(Rejected'[e]) = Cardinality(Rejected[e]) + 1
  BY <1>5, <1>6, <1>7, FS_AddElement
<1>9. Cardinality(Rejected'[e]) >= Cardinality(Rejected[e])
  BY <1>5, <1>6, FS_Subset
<1> QED
  BY <1>3, <1>5, <1>8, <1>9, FS_CardinalityType

\* What a send that begins finds: of its run nothing is sent that was not
\* rejected, but for the keys it knows; and every other run is over.
LEMMA BeginFinds ==
  ASSUME RunsInTurn, TypeOK, CountInv, NEW s \in Sends, MayBegin(s)
  PROVE  /\ \A k \in Keys :
              wire[<<RunOf[s], k>>] <= Cardinality(Rejected[<<RunOf[s], k>>])
                                       + (IF k \in KnownKeys(s) THEN 1 ELSE 0)
         /\ \A e \in Runs \X Keys :
              wire[e] # 0 => e[1] = RunOf[s] \/ \A r \in Sends : RunOf[r] = e[1] => Over(r)
<1>0. RunOf[s] \in Runs /\ run \in Runs \cup {NoRun} /\ ~Over(s)
  BY SendAssumption DEF TypeOK, MayBegin, Over, Settled
<1>1. CASE run = RunOf[s]
  BY <1>0, <1>1 DEF CountInv, OthersOver, WireCounted, KnownKeys
<1>2. CASE run # RunOf[s]
  <2>1. ASSUME NEW k \in Keys
        PROVE  wire[<<RunOf[s], k>>] = 0
    BY <1>0, <1>2 DEF CountInv, OthersOver
  <2>2. \A k \in Keys : Cardinality(Rejected[<<RunOf[s], k>>]) \in Nat
    <3>1. \A e \in Runs \X Keys : Rejected[e] \subseteq Begun
      BY DEF Rejected, Begun
    <3> QED
      BY <1>0, <3>1, FS_Subset, FS_CardinalityType DEF CountInv
  <2>3. ASSUME NEW r \in Sends, RunOf[r] = run PROVE Over(r)
    <3>1. run \in Runs
      BY <2>3, SendAssumption
    <3>2. PICK t \in Begun : RunOf[t] = run
      BY <3>1, NoRunAssumption DEF CountInv, RunBegun
    <3>3. ~Precedes(RunOf[s], run)
      BY <1>0, <3>2 DEF Precedes, CountInv, WaitedFor, Begun
    <3>4. r \in After[s]
      BY <1>0, <1>2, <2>3, <3>1, <3>3 DEF RunsInTurn, Precedes
    <3> QED
      BY <3>4 DEF MayBegin
  <2>4. ASSUME NEW e \in Runs \X Keys, wire[e] # 0, e[1] # RunOf[s],
               NEW r \in Sends, RunOf[r] = e[1]
        PROVE  Over(r)
    BY <2>3, <2>4 DEF CountInv, OthersOver
  <2> QED
    BY <2>1, <2>2, <2>4
<1> QED
  BY <1>1, <1>2

\* What waits, runs and other runs come to in any step of a send.
LEMMA CountFrame ==
  ASSUME TypeOK, CountInv, NEW s \in Sends, NEW l,
         (MayBegin(s) /\ run' = RunOf[s]) \/ (pc[s] = "sending" /\ run' = run),
         l \in Settled \cup {"sending"}, pc' = [pc EXCEPT ![s] = l]
  PROVE  IsFiniteSet(Begun') /\ WaitedFor' /\ RunBegun'
<1>1. /\ pc \in [Sends -> {"idle", "sending"} \cup Settled]
      /\ pc[s] \in {"idle", "sending"}
  BY DEF TypeOK, MayBegin
<1>2. Begun' = Begun \cup {s}
  BY <1>1 DEF Begun, Settled
<1>3. IsFiniteSet(Begun')
  BY <1>2, FS_AddElement DEF CountInv
<1>4. WaitedFor'
  <2>1. ASSUME NEW t \in Begun', NEW r \in After[t] PROVE Over(r)'
    <3>1. t \in Sends /\ r \in Sends
      BY <2>1, SendAssumption DEF Begun
    <3>2. Over(r)
      BY <1>2, <2>1 DEF CountInv, WaitedFor, MayBegin, Begun
    <3> QED
      BY <3>1, <3>2, OverStays
  <2> QED
    BY <2>1 DEF WaitedFor
<1>5. RunBegun'
  BY <1>2 DEF CountInv, RunBegun, Begun
<1> QED
  BY <1>3, <1>4, <1>5

\* A send that begins: what it puts on the wire it remembers, or it is
\* rejected for it.
LEMMA BeginCounts ==
  ASSUME RunsInTurn, TypeOK, TypeOK', CountInv, NEW s \in Sends, NEW l, MayBegin(s),
         run' = RunOf[s], l \in Settled \cup {"sending"}, pc' = [pc EXCEPT ![s] = l],
         \/ wire' = wire /\ sent' = KnownKeys(s)
         \/ /\ wire' = [wire EXCEPT ![EventOf(s)] = @ + 1] /\ ~Duplicate(s)
            /\ \/ sent' = KnownKeys(s) \cup {KeyOf[s]}
               \/ sent' = KnownKeys(s) /\ l = "raised"
  PROVE  CountInv'
<1>0. /\ RunOf[s] \in Runs /\ KeyOf[s] \in Keys /\ EventOf(s) = <<RunOf[s], KeyOf[s]>>
      /\ wire \in [Runs \X Keys -> Nat] /\ wire' \in [Runs \X Keys -> Nat]
      /\ pc[s] = "idle" /\ pc[s] \in {"idle", "sending"} /\ IsFiniteSet(Begun)
  BY SendAssumption DEF TypeOK, EventOf, MayBegin, CountInv
<1>1. IsFiniteSet(Begun') /\ WaitedFor' /\ RunBegun'
  BY CountFrame, Zenon
<1>2. \A e \in Runs \X Keys : e # EventOf(s) => wire'[e] = wire[e]
  BY <1>0
<1>3. OthersOver'
  <2>1. ASSUME NEW e \in Runs \X Keys, wire'[e] # 0, e[1] # run',
               NEW r \in Sends, RunOf[r] = e[1]
        PROVE  Over(r)'
    <3>1. wire[e] # 0 /\ e[1] # RunOf[s]
      BY <1>0, <1>2, <2>1
    <3>2. Over(r)
      BY <2>1, <3>1, BeginFinds
    <3> QED
      BY <3>2, OverStays
  <2> QED
    BY <2>1 DEF OthersOver
<1>4. ASSUME NEW k \in Keys
      PROVE  wire'[<<RunOf[s], k>>] <= Cardinality(Rejected'[<<RunOf[s], k>>])
                                       + (IF k \in sent' THEN 1 ELSE 0)
  <2> DEFINE e == <<RunOf[s], k>>
  <2>1. /\ Cardinality(Rejected[e]) \in Nat /\ Cardinality(Rejected'[e]) \in Nat
        /\ Cardinality(Rejected'[e]) >= Cardinality(Rejected[e])
        /\ l = "raised" /\ e = EventOf(s)
             => Cardinality(Rejected'[e]) = Cardinality(Rejected[e]) + 1
    BY <1>0, RejectedMoves, Zenon
  <2>2. wire[e] <= Cardinality(Rejected[e]) + (IF k \in KnownKeys(s) THEN 1 ELSE 0)
    BY BeginFinds
  <2>3. e \in Runs \X Keys /\ wire[e] \in Nat /\ wire'[e] \in Nat
    BY <1>0
  <2>4. CASE wire'[e] = wire[e] /\ KnownKeys(s) \subseteq sent'
    BY <2>1, <2>2, <2>3, <2>4
  <2>5. CASE e = EventOf(s) /\ wire' = [wire EXCEPT ![EventOf(s)] = @ + 1] /\ ~Duplicate(s)
    <3>1. wire'[e] = wire[e] + 1 /\ k = KeyOf[s] /\ k \notin KnownKeys(s)
      BY <1>0, <2>3, <2>5 DEF Duplicate
    <3>2. wire[e] <= Cardinality(Rejected[e])
      BY <2>1, <2>2, <2>3, <3>1
    <3>3. CASE k \in sent'
      BY <2>1, <2>3, <3>1, <3>2, <3>3
    <3>4. CASE l = "raised"
      BY <2>1, <2>3, <2>5, <3>1, <3>2, <3>4
    <3>5. k \in sent' \/ l = "raised"
      <4>1. wire' # wire
        BY <2>3, <3>1
      <4> QED
        BY <3>1, <4>1
    <3> QED
      BY <3>3, <3>4, <3>5
  <2> QED
    BY <1>2, <2>3, <2>4, <2>5
<1>5. WireCounted'
  BY <1>4 DEF WireCounted
<1>6. ASSUME NEW e \in Runs \X Keys
      PROVE  wire'[e] <= 1 + Cardinality(Rejected'[e])
  <2>1. /\ Cardinality(Rejected[e]) \in Nat /\ Cardinality(Rejected'[e]) \in Nat
        /\ Cardinality(Rejected'[e]) >= Cardinality(Rejected[e])
    BY <1>0, RejectedMoves, Zenon
  <2>2. wire[e] \in Nat /\ wire'[e] \in Nat
    BY <1>0
  <2>3. CASE e[1] = RunOf[s]
    <3>1. e[2] \in Keys /\ e = <<RunOf[s], e[2]>>
      BY <2>3
    <3>2. wire'[e] <= Cardinality(Rejected'[e]) + (IF e[2] \in sent' THEN 1 ELSE 0)
      BY <1>4, <3>1
    <3> QED
      BY <2>1, <2>2, <3>2
  <2>4. CASE e[1] # RunOf[s]
    <3>1. wire'[e] = wire[e]
      BY <1>0, <1>2, <2>4
    <3>2. wire[e] <= 1 + Cardinality(Rejected[e])
      BY DEF CountInv, SentOncePerRun, Rejected
    <3> QED
      BY <2>1, <2>2, <3>1, <3>2
  <2> QED
    BY <2>3, <2>4
<1> QED
  BY <1>1, <1>3, <1>5, <1>6 DEF CountInv, SentOncePerRun, Rejected

\* A send that settles: what it forgets was rejected.
LEMMA SettleCounts ==
  ASSUME TypeOK, TypeOK', CountInv, NEW s \in Sends, NEW l, pc[s] = "sending",
         run' = run, wire' = wire, l \in Settled, pc' = [pc EXCEPT ![s] = l],
         sent' = sent \/ (l = "raised" /\ Forget(s))
  PROVE  CountInv'
<1>0. /\ KeyOf[s] \in Keys /\ EventOf(s) = <<RunOf[s], KeyOf[s]>> /\ IsFiniteSet(Begun)
      /\ pc[s] \in {"idle", "sending"} /\ l \in Settled \cup {"sending"}
      /\ wire \in [Runs \X Keys -> Nat]
  BY SendAssumption DEF TypeOK, EventOf, CountInv
<1>1. IsFiniteSet(Begun') /\ WaitedFor' /\ RunBegun'
  BY CountFrame
<1>2. OthersOver'
  BY OverStays DEF CountInv, OthersOver
<1>3. ASSUME NEW e \in Runs \X Keys
      PROVE  /\ Cardinality(Rejected[e]) \in Nat /\ Cardinality(Rejected'[e]) \in Nat
             /\ Cardinality(Rejected'[e]) >= Cardinality(Rejected[e])
             /\ l = "raised" /\ e = EventOf(s)
                  => Cardinality(Rejected'[e]) = Cardinality(Rejected[e]) + 1
  BY <1>0, RejectedMoves, Zenon
<1>4. ASSUME NEW p \in Runs, p = run, NEW k \in Keys
      PROVE  wire[<<p, k>>] <= Cardinality(Rejected'[<<p, k>>])
                               + (IF k \in sent' THEN 1 ELSE 0)
  <2>1. /\ wire[<<p, k>>] <= Cardinality(Rejected[<<p, k>>]) + (IF k \in sent THEN 1 ELSE 0)
        /\ wire[<<p, k>>] \in Nat
    BY <1>0, <1>4 DEF CountInv, WireCounted
  <2>2. CASE k \in sent => k \in sent'
    BY <1>3, <2>1, <2>2
  <2>3. CASE k \in sent /\ k \notin sent'
    <3>1. l = "raised" /\ k = KeyOf[s] /\ RunOf[s] = p
      BY <1>4, <2>3 DEF Forget
    <3>2. Cardinality(Rejected'[<<p, k>>]) = Cardinality(Rejected[<<p, k>>]) + 1
      BY <1>0, <1>3, <3>1
    <3> QED
      BY <1>3, <2>1, <2>3, <3>2
  <2> QED
    BY <2>2, <2>3
<1>5. WireCounted'
  BY <1>4 DEF WireCounted
<1>6. ASSUME NEW e \in Runs \X Keys
      PROVE  wire'[e] <= 1 + Cardinality(Rejected'[e])
  <2>1. wire[e] <= 1 + Cardinality(Rejected[e]) /\ wire[e] \in Nat
    BY <1>0 DEF CountInv, SentOncePerRun, Rejected
  <2> QED
    BY <1>3, <2>1
<1> QED
  BY <1>1, <1>2, <1>5, <1>6 DEF CountInv, SentOncePerRun, Rejected

\* At first nothing is sent.
LEMMA InitCountInv == Init => CountInv
<1> SUFFICES ASSUME Init PROVE CountInv
  OBVIOUS
<1>1. Begun = {} /\ \A e \in Runs \X Keys : Rejected[e] = {}
  BY DEF Init, Begun, Rejected
<1>2. \A e \in Runs \X Keys : wire[e] = 0
  BY DEF Init
<1>3. IsFiniteSet({}) /\ Cardinality({}) = 0
  BY FS_EmptySet
<1>4. SentOncePerRun
  BY <1>1, <1>2, <1>3 DEF SentOncePerRun, Rejected
<1> QED
  BY <1>1, <1>2, <1>3, <1>4
  DEF Init, CountInv, WaitedFor, RunBegun, OthersOver, WireCounted

\* Every step keeps the count.
LEMMA NextCountInv ==
  ASSUME RunsInTurn
  PROVE  TypeOK /\ CountInv /\ [Next]_vars => CountInv'
<1> SUFFICES ASSUME TypeOK, CountInv, [Next]_vars PROVE CountInv'
  OBVIOUS
<1>0. TypeOK'
  BY NextTypeOK
<1>1. ASSUME NEW s \in Sends, DropDuplicate(s) PROVE CountInv'
  BY <1>0, <1>1, BeginCounts DEF DropDuplicate, Settled
<1>2. ASSUME NEW s \in Sends, Send(s) PROVE CountInv'
  BY <1>0, <1>2, BeginCounts DEF Send, Mark
<1>3. ASSUME NEW s \in Sends, CancelSend(s) PROVE CountInv'
  <2>1. /\ pc[s] = "sending" /\ pc' = [pc EXCEPT ![s] = "crashed"] /\ "crashed" \in Settled
        /\ run' = run /\ wire' = wire /\ sent' = sent
    BY <1>3 DEF CancelSend, Settled
  <2> QED
    BY <1>0, <2>1, SettleCounts, Zenon
<1>4. ASSUME NEW s \in Sends, NEW y \in Yields("gate"), Settle(s, y) PROVE CountInv'
  <2>1. Result(s, y) \in Settled
    BY <1>4, ResultType DEF Settle, Settled
  <2>2. Forgets(s, y) => Result(s, y) = "raised"
    BY DEF Forgets
  <2>3. sent' = sent \/ (Result(s, y) = "raised" /\ Forget(s))
    BY <1>4, <2>2 DEF Settle
  <2>4. pc[s] = "sending" /\ pc' = [pc EXCEPT ![s] = Result(s, y)] /\ run' = run /\ wire' = wire
    BY <1>4 DEF Settle, Finish
  <2> QED
    BY <1>0, <2>1, <2>3, <2>4, SettleCounts, Zenon
<1>5. ASSUME NEW s \in Sends, NEW y \in Yields("gate"), SendSync(s, y) PROVE CountInv'
  <2>1. Result(s, y) \in Settled
    BY <1>5, ResultType DEF SendSync, Settled
  <2>2. Forgets(s, y) => Result(s, y) = "raised"
    BY DEF Forgets
  <2> QED
    BY <1>0, <1>5, <2>1, <2>2, BeginCounts DEF SendSync, Finish
<1>6. CASE UNCHANGED vars
  <2>1. /\ UNCHANGED <<Begun, Rejected, run, wire, sent>>
        /\ \A r : Over(r)' <=> Over(r)
    BY <1>6 DEF vars, Begun, Rejected, Over
  <2> QED
    BY <1>6, <2>1 DEF CountInv, WaitedFor, RunBegun, OthersOver, WireCounted, SentOncePerRun,
                      vars, EventOf
<1> QED
  BY <1>1, <1>2, <1>3, <1>4, <1>5, <1>6 DEF Next, Terminating

\* Where the runs of a client come one after the other, an event of a run is
\* handed to the transport once and once more for every rejected attempt, on
\* every transport, under either policy and however its sends interleave
\* (_is_duplicate, _forget_failed_event).
THEOREM SentOnce == ASSUME RunsInTurn PROVE Spec => []SentOncePerRun
<1>1. Spec => [](TypeOK /\ CountInv)
  BY ClientTypeCorrect, InitTypeOK, NextTypeOK, InitCountInv, NextCountInv, PTL DEF Spec
<1>2. CountInv => SentOncePerRun
  BY DEF CountInv
<1> QED
  BY <1>1, <1>2, PTL
=============================================================================
