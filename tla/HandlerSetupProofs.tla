------------------------- MODULE HandlerSetupProofs -------------------------
(***************************************************************************)
(* For any number of startups, graphs and plans: what the process-wide     *)
(* configuration and hook slot hold, and what a handler is built from.     *)
(* The invariant says what a startup that meets no other one may rely on   *)
(* between its two reads, and which startups may still be in the slot.     *)
(***************************************************************************)
EXTENDS HandlerSetup, TLAPS

Whole(c) == (c.did = Absent) = (c.seed = Absent)

\* A startup under way has been given something, counts its fields up to the
\* last one, and was checked before the first.
Writing ==
  \A s \in Startups :
    /\ at[s] # "idle" => s \in DOMAIN args
    /\ at[s] \in {"idle", "checking"} => written[s] = 0
    /\ at[s] = "publishing" => written[s] < 5 /\ WellFormed(Requested(args[s]))

\* What was parsed once is whole for good.
WholeParts ==
  /\ Whole(last)
  /\ \A s \in Startups :
       /\ at[s] \in {"arming", "connecting", "binding",
                     "wrapping", "marking", "ready", "closed"} /\ ~args[s].client
            => Whole(gate[s])
       /\ at[s] \in {"binding",
                     "wrapping", "marking", "ready", "closed"} /\ ~args[s].client => Whole(client[s])

\* A handler that met no other startup has read one configuration twice,
\* the one the factory was given.
ReadTwice ==
  \A s \in Startups : Built(s) /\ s \notin overlapped =>
    /\ Resolved(client[s]) = gate[s]
    /\ args[s].entry = "factory" => client[s] = Requested(args[s])

\* Field i of these credentials comes from a startup that passed the checks.
Accepted(c, i) ==
  \E r \in Startups :
    /\ written[r] >= i /\ WellFormed(Requested(args[r]))
    /\ c[Fields[i]] = Requested(args[r])[Fields[i]]

\* What is in the configuration, and what of it a startup has read, was accepted.
Traced ==
  /\ \A r \in Startups : written[r] > 0 => WellFormed(Requested(args[r]))
  /\ \A i \in 1..5 : (\E r \in Startups : written[r] >= i) => Accepted(config, i)
  /\ last # Blank => \E r \in Startups : written[r] = 5
  /\ \A s \in Startups :
       /\ at[s] \in Constructing => \E r \in Startups : written[r] = 5
       /\ at[s] \in {"arming", "connecting"} => Accepted(gate[s], 5)
       /\ Built(s) => \A i \in 1..5 : Accepted(client[s], i)

\* As long as no two startups meet, tools that are bound carry the mark or are
\* about to get it, and those about to be bound are not bound yet.
WrapsMarked ==
  overlapped = {} =>
    /\ \A g \in Graphs : bound[g] # <<>> =>
         g \in marked \/ \E s \in Startups : at[s] = "marking" /\ args[s].graph = g
    /\ \A s \in Startups : at[s] = "wrapping" => bound[args[s].graph] = <<>>

\* A startup that is not marked is the only one under way.
Marked == \A s \in Busy : s \notin overlapped => \A t \in Busy : t = s

\* What such a startup has published, and what it has read, is there still.
Undisturbed ==
  \A s \in Startups \ overlapped :
    /\ at[s] = "publishing" =>
         \A i \in 1..written[s] : config[Fields[i]] = Requested(args[s])[Fields[i]]
    /\ at[s] \in {"building", "arming", "connecting"} /\ args[s].entry = "factory"
         => config = Requested(args[s])
    /\ at[s] \in {"arming", "connecting"} => gate[s] = Resolved(config)

\* Who may be in the slot, the failed set apart.
SlotHolder ==
  \A s \in Startups : slot.runtime = s =>
    /\ at[s] \in {"arming", "connecting", "binding",
                  "wrapping", "marking", "ready", "failed"}
    /\ at[s] = "failed" => overlapped # {}
    /\ ~slot.pins => at[s] = "arming"

IInv ==
  /\ TypeOK /\ Writing /\ WholeParts /\ Marked /\ Undisturbed
  /\ ConfigIsLastAccepted /\ ReadTwice /\ Traced /\ SlotHolder /\ WrapsMarked

-----------------------------------------------------------------------------
(* Credentials *)

\* The configuration has five fields.
LEMMA FiveFields ==
  /\ Len(Fields) = 5
  /\ \A i \in 1..5 : Fields[i] \in {"url", "key", "did", "seed", "workload"}
  /\ \A f \in {"url", "key", "did", "seed", "workload"} : \E i \in 1..5 : Fields[i] = f
<1>1. Len(Fields) = 5
  BY DEF Fields
<1>2. /\ Fields[1] = "url" /\ Fields[2] = "key" /\ Fields[3] = "did"
      /\ Fields[4] = "seed" /\ Fields[5] = "workload"
  BY DEF Fields
<1> QED
  BY <1>1, <1>2

\* No two of them are the same.
LEMMA FieldsDiffer ==
  ASSUME NEW i \in 1..5, NEW j \in 1..5, Fields[i] = Fields[j] PROVE i = j
<1>1. /\ Fields[1] = "url" /\ Fields[2] = "key" /\ Fields[3] = "did"
      /\ Fields[4] = "seed" /\ Fields[5] = "workload"
  BY DEF Fields
<1> QED
  BY <1>1

\* Blank is well-formed configuration content.
LEMMA BlankOK == CredentialsOK(Blank) /\ Whole(Blank)
  BY DEF CredentialsOK, Blank, Absent, Whole

\* So is what any request comes to,
LEMMA RequestedOK == ASSUME NEW r PROVE CredentialsOK(Requested(r))
  BY DEF CredentialsOK, Requested, Normalized, Absent

\* what the environment fills up,
LEMMA ResolvedOK == ASSUME NEW c, CredentialsOK(c) PROVE CredentialsOK(Resolved(c))
<1> DEFINE d == IF c.did = Absent THEN FromEnvironment(env.ownDid, env.did) ELSE c.did
           e == IF c.seed = Absent THEN FromEnvironment(env.ownSeed, env.seed) ELSE c.seed
<1>1. Resolved(c) = [url |-> c.url, key |-> c.key, did |-> d, seed |-> e,
                     workload |-> c.workload]
  <2> HIDE DEF d, e
  <2>1. Resolved(c) = [c EXCEPT !.did = d, !.seed = e]
    BY DEF Resolved, d, e
  <2> QED
    BY <2>1 DEF CredentialsOK
<1>2. {d, e} \cap {"empty", "blank"} = {}
  BY DEF CredentialsOK, FromEnvironment, Normalized, Absent
<1> HIDE DEF d, e
<1> QED
  BY <1>1, <1>2 DEF CredentialsOK

\* and what a startup has written a part of.
LEMMA FieldOK ==
  ASSUME NEW c, CredentialsOK(config), CredentialsOK(c), NEW i \in 1..5
  PROVE  CredentialsOK(Field(Fields[i], c))
<1>1. Fields[i] \in {"url", "key", "did", "seed", "workload"}
  BY FiveFields
<1>2. PICK f \in {"url", "key", "did", "seed", "workload"} : f = Fields[i]
  BY <1>1
<1>3. PICK u, k, d, e, w :
        /\ config = [url |-> u, key |-> k, did |-> d, seed |-> e, workload |-> w]
        /\ {d, e} \cap {"empty", "blank"} = {}
  BY DEF CredentialsOK
<1>4. c.did \notin {"empty", "blank"} /\ c.seed \notin {"empty", "blank"}
  BY DEF CredentialsOK
<1>5. CredentialsOK([config EXCEPT ![f] = c[f]])
  <2>1. CASE f = "url"
    <3>1. [config EXCEPT ![f] = c[f]]
            = [url |-> c.url, key |-> k, did |-> d, seed |-> e, workload |-> w]
      BY <1>3, <2>1
    <3> QED  BY <1>3, <3>1 DEF CredentialsOK
  <2>2. CASE f = "key"
    <3>1. [config EXCEPT ![f] = c[f]]
            = [url |-> u, key |-> c.key, did |-> d, seed |-> e, workload |-> w]
      BY <1>3, <2>2
    <3> QED  BY <1>3, <3>1 DEF CredentialsOK
  <2>3. CASE f = "did"
    <3>1. [config EXCEPT ![f] = c[f]]
            = [url |-> u, key |-> k, did |-> c.did, seed |-> e, workload |-> w]
      BY <1>3, <2>3
    <3> QED  BY <1>3, <1>4, <3>1 DEF CredentialsOK
  <2>4. CASE f = "seed"
    <3>1. [config EXCEPT ![f] = c[f]]
            = [url |-> u, key |-> k, did |-> d, seed |-> c.seed, workload |-> w]
      BY <1>3, <2>4
    <3> QED  BY <1>3, <1>4, <3>1 DEF CredentialsOK
  <2>5. CASE f = "workload"
    <3>1. [config EXCEPT ![f] = c[f]]
            = [url |-> u, key |-> k, did |-> d, seed |-> e, workload |-> c.workload]
      BY <1>3, <2>5
    <3> QED  BY <1>3, <3>1 DEF CredentialsOK
  <2> QED
    BY <2>1, <2>2, <2>3, <2>4, <2>5
<1> QED
  BY <1>2, <1>5 DEF Field

\* Credentials that agree field by field are the same.
LEMMA SameFields ==
  ASSUME NEW c, NEW d, CredentialsOK(c), CredentialsOK(d),
         \A i \in 1..5 : c[Fields[i]] = d[Fields[i]]
  PROVE  c = d
<1>1. \A f \in {"url", "key", "did", "seed", "workload"} : c[f] = d[f]
  BY FiveFields
<1> QED
  BY <1>1 DEF CredentialsOK

-----------------------------------------------------------------------------
(* Types *)

\* The program starts well typed.
LEMMA InitTypeOK == Init => TypeOK
  BY BlankOK, FiveFields DEF Init, TypeOK, Constructing, Ended, Nobody

\* Whoever publishes is short of the last field, and goes on after it.
LEMMA Published ==
  ASSUME TypeOK, Writing, NEW s \in Startups, Publish(s)
  PROVE  /\ at[s] = "publishing" /\ written[s] \in 0..4
         /\ written' = [written EXCEPT ![s] = @ + 1] /\ written'[s] = written[s] + 1
         /\ at'[s] # at[s] \/ last' # last => written[s] = 4 /\ last' = Requested(args[s])
<1>1. written \in [Startups -> 0..5]
  BY FiveFields DEF TypeOK
<1>2. at[s] = "publishing" /\ written[s] < 5
  BY DEF Publish, Writing
<1>3. written[s] + 1 < 5 => at' = at /\ last' = last
  BY FiveFields DEF Publish
<1>4. ~(written[s] + 1 < 5) => last' = Requested(args[s])
  BY FiveFields DEF Publish
<1>5. written' = [written EXCEPT ![s] = @ + 1]
  BY DEF Publish
<1> QED
  BY <1>1, <1>2, <1>3, <1>4, <1>5

\* A startup that is given something is given a graph.
LEMMA GraphOf ==
  ASSUME TypeOK, Writing, NEW s \in Startups, at[s] # "idle"
  PROVE  args[s].graph \in Graphs
  BY PlanAssumption DEF TypeOK, Writing

\* Every step preserves the types; publishing counts to five because it stops
\* at the last field.
LEMMA NextTypeOK == TypeOK /\ Writing /\ [Next]_vars => TypeOK'
<1> SUFFICES ASSUME TypeOK, Writing, [Next]_vars PROVE TypeOK'
  OBVIOUS
<1> USE FiveFields
<1>1. ASSUME NEW s \in Startups, Begin(s) PROVE TypeOK'
  BY <1>1 DEF TypeOK, tools, Begin, Go, Constructing, Ended, Busy, CredentialsOK
<1>2. ASSUME NEW s \in Startups, NEW accepted \in BOOLEAN, Check(s, accepted) PROVE TypeOK'
  BY <1>2 DEF TypeOK, tools, Check, Go, Constructing, Ended, CredentialsOK
<1>3. ASSUME NEW s \in Startups, Publish(s) PROVE TypeOK'
  <2>1. written[s] + 1 \in 1..5
    BY <1>3, Published
  <2>2. CredentialsOK(config')
    <3>1. CredentialsOK(Field(Fields[written[s] + 1], Requested(args[s])))
      BY <2>1, RequestedOK, FieldOK DEF TypeOK
    <3> QED
      BY <1>3, <3>1 DEF Publish
  <2>3. CredentialsOK(last')
    BY <1>3, RequestedOK DEF Publish, TypeOK
  <2>4. written' \in [Startups -> 0..Len(Fields)]
    BY <1>3, <2>1 DEF Publish, TypeOK
  <2>5. at' \in [Startups -> Constructing \cup Ended \cup {"idle", "checking", "publishing"}]
    BY <1>3 DEF Publish, TypeOK, Go, Constructing, Ended
  <2> QED
    BY <1>3, <2>2, <2>3, <2>4, <2>5 DEF Publish, TypeOK, tools, CredentialsOK
<1>4. ASSUME NEW s \in Startups, BuildRuntime(s) PROVE TypeOK'
  <2>1. CredentialsOK(ReadForRuntime(s))
    BY ResolvedOK DEF TypeOK, ReadForRuntime
  <2>2. /\ DOMAIN gate' = Startups /\ DOMAIN client' = Startups
        /\ \A t \in Startups : CredentialsOK(gate'[t]) /\ CredentialsOK(client'[t])
    <3>0. DOMAIN gate' = Startups /\ DOMAIN client' = Startups
      BY <1>4 DEF BuildRuntime, TypeOK
    <3>1. SUFFICES ASSUME NEW t \in Startups
                   PROVE  CredentialsOK(gate'[t]) /\ CredentialsOK(client'[t])
      BY <3>0
    <3>2. gate'[t] \in {gate[t], ReadForRuntime(s)} /\ client'[t] = client[t]
      BY <1>4 DEF BuildRuntime, TypeOK
    <3> QED
      BY <2>1, <3>2 DEF TypeOK
  <2>3. at' \in [Startups -> Constructing \cup Ended \cup {"idle", "checking", "publishing"}]
    BY <1>4 DEF BuildRuntime, TypeOK, Go, Constructing, Ended
  <2>4. slot' \in [runtime : Startups \cup {Absent}, pins : BOOLEAN]
    <3>1. slot' = slot \/ slot' = [runtime |-> s, pins |-> FALSE]
      BY <1>4 DEF BuildRuntime
    <3>2. slot \in [runtime : Startups \cup {Absent}, pins : BOOLEAN]
      BY DEF TypeOK
    <3>3. [runtime |-> s, pins |-> FALSE] \in [runtime : Startups \cup {Absent}, pins : BOOLEAN]
      OBVIOUS
    <3> QED
      BY <3>1, <3>2, <3>3
  <2> QED
    BY <1>4, <2>2, <2>3, <2>4 DEF BuildRuntime, TypeOK, tools, CredentialsOK
<1>5. ASSUME NEW s \in Startups, SwapHookRuntime(s) PROVE TypeOK'
  BY <1>5 DEF TypeOK, tools, SwapHookRuntime, Go, Constructing, Ended, CredentialsOK
<1>6. ASSUME NEW s \in Startups, BuildClient(s) PROVE TypeOK'
  <2>1. CredentialsOK([config EXCEPT !.workload = gate[s].workload])
    <3>1. PICK u, k, d, e, w :
            /\ config = [url |-> u, key |-> k, did |-> d, seed |-> e, workload |-> w]
            /\ {d, e} \cap {"empty", "blank"} = {}
      BY DEF CredentialsOK, TypeOK
    <3>2. PICK w2 : w2 = gate[s].workload
      OBVIOUS
    <3>3. [config EXCEPT !.workload = w2]
            = [url |-> u, key |-> k, did |-> d, seed |-> e, workload |-> w2]
      BY <3>1
    <3> QED
      BY <3>1, <3>2, <3>3 DEF CredentialsOK
  <2>2. /\ DOMAIN gate' = Startups /\ DOMAIN client' = Startups
        /\ \A t \in Startups : CredentialsOK(gate'[t]) /\ CredentialsOK(client'[t])
    <3>0. DOMAIN gate' = Startups /\ DOMAIN client' = Startups
      BY <1>6 DEF BuildClient, TypeOK
    <3>1. SUFFICES ASSUME NEW t \in Startups
                   PROVE  CredentialsOK(gate'[t]) /\ CredentialsOK(client'[t])
      BY <3>0
    <3>2. gate'[t] = gate[t]
            /\ client'[t] \in {client[t], [config EXCEPT !.workload = gate[s].workload]}
      BY <1>6 DEF BuildClient, TypeOK
    <3> QED
      BY <2>1, <3>2 DEF TypeOK
  <2>3. at' \in [Startups -> Constructing \cup Ended \cup {"idle", "checking", "publishing"}]
    BY <1>6 DEF BuildClient, TypeOK, Go, Constructing, Ended
  <2> QED
    BY <1>6, <2>2, <2>3 DEF BuildClient, TypeOK, tools, CredentialsOK
<1>7. ASSUME NEW s \in Startups, LookForMark(s) \/ WrapTools(s) \/ MarkTools(s)
      PROVE  TypeOK'
  <2>1. args[s].graph \in Graphs
    BY <1>7, GraphOf DEF LookForMark, WrapTools, MarkTools
  <2>2. CASE LookForMark(s)
    <3>1. bound[args[s].graph] \in Seq(Startups)
      BY <2>1 DEF TypeOK
    <3>2. at' \in [Startups -> Constructing \cup Ended \cup {"idle", "checking", "publishing"}]
      BY <2>2 DEF TypeOK, LookForMark, Go, Constructing, Ended
    <3>3. PICK b \in Seq(Startups) : b = bound[args[s].graph]
      BY <3>1
    <3>4. seen' = seen \/ seen' = [seen EXCEPT ![s] = b]
      BY <2>2, <3>3 DEF LookForMark
    <3>5. seen' \in [Startups -> Seq(Startups)]
      BY <3>4 DEF TypeOK
    <3> QED
      BY <2>2, <3>2, <3>5 DEF TypeOK, LookForMark, CredentialsOK
  <2>3. CASE WrapTools(s)
    <3>1. <<s>> \o seen[s] \in Seq(Startups) /\ <<>> \in Seq(Startups)
      BY DEF TypeOK
    <3> HIDE <1>7
    <3> DEFINE b == <<s>> \o seen[s]
    <3>2. bound' = [bound EXCEPT ![args[s].graph] = b]
      BY <2>3 DEF WrapTools
    <3> HIDE DEF b
    <3>3. b \in Seq(Startups)
      BY <3>1 DEF b
    <3>4. bound' \in [Graphs -> Seq(Startups)]
      BY <3>2, <3>3 DEF TypeOK
    <3>5. seen' \in [Startups -> Seq(Startups)]
      BY <2>3, <3>1 DEF WrapTools, TypeOK
    <3> QED
      BY <2>3, <3>4, <3>5 DEF TypeOK, WrapTools, Go, Constructing, Ended, CredentialsOK
  <2>4. CASE MarkTools(s)
    BY <2>1, <2>4 DEF TypeOK, MarkTools, Go, Constructing, Ended, CredentialsOK
  <2> QED
    BY <1>7, <2>2, <2>3, <2>4
<1>8. ASSUME NEW s \in Startups, Close(s) PROVE TypeOK'
  BY <1>8 DEF TypeOK, tools, Close, Go, Nobody, Constructing, Ended, CredentialsOK
<1>9. CASE UNCHANGED vars
  BY <1>9 DEF TypeOK, tools, vars, CredentialsOK
<1> QED
  BY <1>1, <1>2, <1>3, <1>4, <1>5, <1>6, <1>7, <1>8, <1>9 DEF Next, Terminating

-----------------------------------------------------------------------------
(* Requests and what is written of them *)

\* What a startup asks for never changes.
LEMMA RequestsFixed ==
  ASSUME [Next]_vars
  PROVE  /\ env' = env /\ args' = args
         /\ \A s \in Startups : Requested(args[s])' = Requested(args[s])
         /\ \A s \in Startups : WellFormed(Requested(args[s]))' = WellFormed(Requested(args[s]))
<1>1. env' = env /\ args' = args
  BY DEF Next, vars, Begin, Check, Publish, BuildRuntime, SwapHookRuntime, BuildClient,
         LookForMark, WrapTools, MarkTools, tools, Close, Terminating
<1>2. \A s \in Startups : Requested(args[s])' = Requested(args[s])
  BY <1>1 DEF Requested, WorkloadKey
<1>3. \A s \in Startups : WellFormed(Requested(args[s]))' = WellFormed(Requested(args[s]))
  BY <1>2 DEF WellFormed, WholeIdentity
<1> QED
  BY <1>1, <1>2, <1>3

\* What a startup goes through is its own doing.
LEMMA OwnSteps ==
  ASSUME TypeOK, [Next]_vars, NEW t \in Startups
  PROVE  /\ at'[t] # at[t] =>
              \/ Begin(t) \/ (\E accepted \in BOOLEAN : Check(t, accepted)) \/ Publish(t)
              \/ BuildRuntime(t) \/ SwapHookRuntime(t) \/ BuildClient(t)
              \/ LookForMark(t) \/ WrapTools(t) \/ MarkTools(t) \/ Close(t)
         /\ gate'[t] # gate[t] => BuildRuntime(t)
         /\ client'[t] # client[t] => BuildClient(t)
<1> DEFINE Goal ==
      /\ at'[t] # at[t] =>
           \/ Begin(t) \/ (\E accepted \in BOOLEAN : Check(t, accepted)) \/ Publish(t)
           \/ BuildRuntime(t) \/ SwapHookRuntime(t) \/ BuildClient(t)
           \/ LookForMark(t) \/ WrapTools(t) \/ MarkTools(t) \/ Close(t)
      /\ gate'[t] # gate[t] => BuildRuntime(t)
      /\ client'[t] # client[t] => BuildClient(t)
<1>0. /\ at \in [Startups -> Constructing \cup Ended \cup {"idle", "checking", "publishing"}]
      /\ DOMAIN gate = Startups /\ DOMAIN client = Startups
  BY DEF TypeOK
<1> DEFINE Others(s) == \A r \in Startups \ {s} :
                          at'[r] = at[r] /\ gate'[r] = gate[r] /\ client'[r] = client[r]
<1>1. ASSUME NEW s \in Startups, Begin(s) PROVE Goal
  BY <1>0, <1>1 DEF Begin, Go
<1>2. ASSUME NEW s \in Startups, NEW accepted \in BOOLEAN, Check(s, accepted) PROVE Goal
  <2>1. Others(s) /\ gate' = gate /\ client' = client
    BY <1>0, <1>2 DEF Check, Go
  <2> QED
    BY <1>2, <2>1
<1>3. ASSUME NEW s \in Startups, Publish(s) PROVE Goal
  <2>1. Others(s) /\ gate' = gate /\ client' = client
    BY <1>0, <1>3 DEF Publish, Go
  <2> QED
    BY <1>3, <2>1
<1>4. ASSUME NEW s \in Startups, BuildRuntime(s) PROVE Goal
  <2>1. Others(s) /\ client' = client
    BY <1>0, <1>4 DEF BuildRuntime, Go
  <2> QED
    BY <1>4, <2>1
<1>5. ASSUME NEW s \in Startups, SwapHookRuntime(s) PROVE Goal
  BY <1>0, <1>5 DEF SwapHookRuntime, Go
<1>6. ASSUME NEW s \in Startups, BuildClient(s) PROVE Goal
  <2>1. Others(s) /\ gate' = gate
    BY <1>0, <1>6 DEF BuildClient, Go
  <2> QED
    BY <1>6, <2>1
<1>7. ASSUME NEW s \in Startups, LookForMark(s) PROVE Goal
  BY <1>0, <1>7 DEF LookForMark, Go
<1>8. ASSUME NEW s \in Startups, WrapTools(s) PROVE Goal
  BY <1>0, <1>8 DEF WrapTools, Go
<1>9. ASSUME NEW s \in Startups, MarkTools(s) PROVE Goal
  BY <1>0, <1>9 DEF MarkTools, Go
<1>10. ASSUME NEW s \in Startups, Close(s) PROVE Goal
  BY <1>0, <1>10 DEF Close, Go
<1>11. CASE UNCHANGED vars
  BY <1>11 DEF vars
<1> QED
  BY <1>1, <1>2, <1>3, <1>4, <1>5, <1>6, <1>7, <1>8, <1>9, <1>10, <1>11
  DEF Next, Terminating

\* A startup counts its fields from none, and only a well-formed one writes.
LEMMA NextWriting == TypeOK /\ Writing /\ [Next]_vars => Writing'
<1> SUFFICES ASSUME TypeOK, Writing, [Next]_vars,
                    NEW t \in Startups
             PROVE  /\ at'[t] # "idle" => t \in DOMAIN args
                    /\ at'[t] \in {"idle", "checking"} => written'[t] = 0
                    /\ at'[t] = "publishing"
                         => written'[t] < 5 /\ WellFormed(Requested(args[t]))
  BY RequestsFixed DEF Writing
<1> USE FiveFields DEF TypeOK, Writing, Go
<1> DEFINE Goal == /\ at'[t] # "idle" => t \in DOMAIN args
                   /\ at'[t] \in {"idle", "checking"} => written'[t] = 0
                   /\ at'[t] = "publishing"
                        => written'[t] < 5 /\ WellFormed(Requested(args[t]))
<1>1. ASSUME NEW s \in Startups, Begin(s) PROVE Goal
  BY <1>1 DEF Begin
<1>2. ASSUME NEW s \in Startups, NEW accepted \in BOOLEAN, Check(s, accepted) PROVE Goal
  BY <1>2 DEF Check
<1>3. ASSUME NEW s \in Startups, Publish(s) PROVE Goal
  BY <1>3 DEF Publish
<1>4. ASSUME NEW s \in Startups, BuildRuntime(s) PROVE Goal
  BY <1>4 DEF BuildRuntime
<1>5. ASSUME NEW s \in Startups, SwapHookRuntime(s) PROVE Goal
  BY <1>5 DEF SwapHookRuntime
<1>6. ASSUME NEW s \in Startups, BuildClient(s) PROVE Goal
  BY <1>6 DEF BuildClient
<1>7. ASSUME NEW s \in Startups, LookForMark(s) \/ WrapTools(s) \/ MarkTools(s)
    PROVE  Goal
  BY <1>7 DEF LookForMark, WrapTools, MarkTools
<1>8. ASSUME NEW s \in Startups, Close(s) PROVE Goal
  BY <1>8 DEF Close
<1>9. CASE UNCHANGED vars
  BY <1>9 DEF vars
<1> QED
  BY <1>1, <1>2, <1>3, <1>4, <1>5, <1>6, <1>7, <1>8, <1>9 DEF Next, Terminating

\* A startup parses what it publishes, the runtime's identity and the client's.
LEMMA NextWholeParts == TypeOK /\ Writing /\ WholeParts /\ [Next]_vars => WholeParts'
<1> SUFFICES ASSUME TypeOK, Writing, WholeParts, [Next]_vars PROVE WholeParts'
  OBVIOUS
<1>0. args' = args
  BY RequestsFixed
<1>1. Whole(last')
  <2>1. \A s \in Startups : Publish(s) => Whole(Requested(args[s]))
    BY DEF Publish, Writing, WellFormed, WholeIdentity, Whole
  <2>2. last' = last \/ \E s \in Startups : Publish(s) /\ last' = Requested(args[s])
    BY DEF Next, vars, Begin, Check, Publish, BuildRuntime, SwapHookRuntime, BuildClient,
           LookForMark, WrapTools, MarkTools, tools, Close, Terminating
  <2> QED
    BY <2>1, <2>2 DEF WholeParts
<1>2. SUFFICES ASSUME NEW t \in Startups, ~args[t].client
               PROVE  /\ at'[t] \in {"arming", "connecting", "binding",
                                     "wrapping", "marking", "ready", "closed"}
                           => Whole(gate'[t])
                      /\ at'[t] \in {"binding",
                                     "wrapping", "marking", "ready", "closed"} => Whole(client'[t])
  BY <1>0, <1>1 DEF WholeParts, Whole
<1> DEFINE Goal == /\ at'[t] \in {"arming", "connecting", "binding",
                                  "wrapping", "marking", "ready", "closed"}
                        => Whole(gate'[t])
                   /\ at'[t] \in {"binding",
                                  "wrapping", "marking", "ready", "closed"} => Whole(client'[t])
<1> USE DEF TypeOK, WholeParts, Go
<1>3. ASSUME NEW s \in Startups, Begin(s) PROVE Goal
  BY <1>2, <1>3 DEF Begin
<1>4. ASSUME NEW s \in Startups, NEW accepted \in BOOLEAN, Check(s, accepted) PROVE Goal
  BY <1>2, <1>4 DEF Check
<1>5. ASSUME NEW s \in Startups, Publish(s) PROVE Goal
  BY <1>2, <1>5 DEF Publish
<1>6. ASSUME NEW s \in Startups, BuildRuntime(s) PROVE Goal
  <2>1. WellFormed(ReadForRuntime(s)) => Whole(ReadForRuntime(s))
    BY DEF WellFormed, WholeIdentity, Whole
  <2> QED
    BY <1>2, <1>6, <2>1 DEF BuildRuntime
<1>7. ASSUME NEW s \in Startups, SwapHookRuntime(s) PROVE Goal
  BY <1>2, <1>7 DEF SwapHookRuntime
<1>8. ASSUME NEW s \in Startups, BuildClient(s) PROVE Goal
  <2>1. WholeIdentity(config) => Whole([config EXCEPT !.workload = gate[s].workload])
    <3>1. CredentialsOK(config)
      OBVIOUS
    <3> QED
      BY <3>1 DEF CredentialsOK, WholeIdentity, Whole
  <2> QED
    BY <1>2, <1>8, <2>1 DEF BuildClient
<1>9. ASSUME NEW s \in Startups, LookForMark(s) \/ WrapTools(s) \/ MarkTools(s)
    PROVE  Goal
  BY <1>2, <1>9 DEF LookForMark, WrapTools, MarkTools
<1>10. ASSUME NEW s \in Startups, Close(s) PROVE Goal
  BY <1>2, <1>10 DEF Close
<1>11. CASE UNCHANGED vars
  BY <1>2, <1>11 DEF vars
<1> QED
  BY <1>3, <1>4, <1>5, <1>6, <1>7, <1>8, <1>9, <1>10, <1>11 DEF Next, Terminating

\* Whoever begins while another startup is under way is marked with it, and
\* nobody gets back under way.
LEMMA NextMarked == TypeOK /\ Marked /\ [Next]_vars => Marked'
<1> SUFFICES ASSUME TypeOK, Marked, [Next]_vars PROVE Marked'
  OBVIOUS
<1>1. CASE \E s \in Startups : Begin(s)
  <2>1. PICK s \in Startups : Begin(s)
    BY <1>1
  <2>2. Busy' = Busy \cup {s}
    BY <2>1 DEF Begin, Go, Busy, TypeOK, Ended
  <2>3. CASE Busy = {}
    BY <2>2, <2>3 DEF Marked
  <2>4. CASE Busy # {}
    <3>1. overlapped' = overlapped \cup Busy \cup {s}
      BY <2>1, <2>4 DEF Begin
    <3> QED
      BY <2>2, <3>1 DEF Marked
  <2> QED
    BY <2>3, <2>4
<1>2. CASE ~\E s \in Startups : Begin(s)
  <2>1. overlapped' = overlapped
    BY <1>2 DEF Next, vars, Check, Publish, BuildRuntime, SwapHookRuntime, BuildClient,
                LookForMark, WrapTools, MarkTools, tools, Close, Terminating
  <2>2. Busy' \subseteq Busy
    <3>1. \A s \in Startups : at'[s] = at[s] \/ s \in Busy \/ at'[s] \in Ended
      BY <1>2, OwnSteps
         DEF Check, Publish, BuildRuntime, SwapHookRuntime, BuildClient, LookForMark,
             WrapTools, MarkTools, Close, Go, TypeOK, Busy, Ended
    <3> QED
      BY <3>1 DEF Busy
  <2> QED
    BY <2>1, <2>2 DEF Marked
<1> QED
  BY <1>1, <1>2

-----------------------------------------------------------------------------
(* Startups that meet no other *)

\* What is written of a request grows by the field written next.
LEMMA PrefixGrows ==
  ASSUME NEW c, CredentialsOK(config), NEW w \in 0..4,
         \A i \in 1..w : config[Fields[i]] = c[Fields[i]]
  PROVE  \A i \in 1..(w + 1) : Field(Fields[w + 1], c)[Fields[i]] = c[Fields[i]]
<1>1. SUFFICES ASSUME NEW i \in 1..(w + 1)
               PROVE  Field(Fields[w + 1], c)[Fields[i]] = c[Fields[i]]
  OBVIOUS
<1>2. DOMAIN config = {"url", "key", "did", "seed", "workload"}
  BY DEF CredentialsOK
<1>3. Fields[w + 1] \in DOMAIN config /\ Fields[i] \in DOMAIN config
  BY <1>2, FiveFields
<1>4. i \in 1..w \/ i = w + 1
  OBVIOUS
<1> QED
  BY <1>3, <1>4 DEF Field

\* A startup without a mark is the one that moves, if it is under way.
LEMMA Alone ==
  ASSUME TypeOK, Marked, [Next]_vars, NEW s \in Startups, NEW t \in Startups,
         s \in Busy \/ Begin(s), t \in Busy', t \notin overlapped'
  PROVE  t = s
<1>1. overlapped \subseteq overlapped'
  BY DEF Next, vars, Begin, Check, Publish, BuildRuntime, SwapHookRuntime, BuildClient,
         LookForMark, WrapTools, MarkTools, tools, Close, Terminating
<1>2. CASE Begin(s)
  <2>1. s \in Busy'
    BY <1>2 DEF Begin, Go, Busy, TypeOK, Ended
  <2> QED
    BY <2>1, NextMarked DEF Marked
<1>3. CASE s \in Busy /\ t \in Busy
  BY <1>1, <1>3 DEF Marked
<1>4. CASE s \in Busy /\ t \notin Busy
  <2>1. Begin(t)
    <3>1. at'[t] = at[t] \/ t \in Busy \/ at'[t] \in Ended \/ Begin(t)
      BY OwnSteps
         DEF Check, Publish, BuildRuntime, SwapHookRuntime, BuildClient, LookForMark,
             WrapTools, MarkTools, Close, Go, TypeOK, Busy, Ended
    <3> QED
      BY <1>4, <3>1 DEF Busy
  <2>2. t \in overlapped'
    BY <1>4, <2>1 DEF Begin
  <2> QED
    BY <2>2
<1> QED
  BY <1>2, <1>3, <1>4

\* What a startup without a mark has published and read stays until it is built.
LEMMA NextUndisturbed ==
  TypeOK /\ Writing /\ Marked /\ Undisturbed /\ [Next]_vars => Undisturbed'
<1> SUFFICES ASSUME TypeOK, Writing, Marked, Undisturbed, [Next]_vars,
                    NEW t \in Startups, t \notin overlapped'
             PROVE  /\ at'[t] = "publishing" =>
                         \A i \in 1..written'[t] :
                           config'[Fields[i]] = Requested(args[t])[Fields[i]]
                    /\ at'[t] \in {"building", "arming", "connecting"}
                         /\ args[t].entry = "factory" => config' = Requested(args[t])
                    /\ at'[t] \in {"arming", "connecting"} => gate'[t] = Resolved(config)'
  BY RequestsFixed DEF Undisturbed
<1> DEFINE Goal == /\ at'[t] = "publishing" =>
                        \A i \in 1..written'[t] :
                          config'[Fields[i]] = Requested(args[t])[Fields[i]]
                   /\ at'[t] \in {"building", "arming", "connecting"}
                        /\ args[t].entry = "factory" => config' = Requested(args[t])
                   /\ at'[t] \in {"arming", "connecting"} => gate'[t] = Resolved(config)'
<1>1. overlapped \subseteq overlapped'
  BY DEF Next, vars, Begin, Check, Publish, BuildRuntime, SwapHookRuntime, BuildClient,
         LookForMark, WrapTools, MarkTools, tools, Close, Terminating
<1>2. t \notin overlapped
  BY <1>1
<1>3. config' = config => Resolved(config)' = Resolved(config)
  BY RequestsFixed DEF Resolved, FromEnvironment
<1>4. CASE t \notin Busy'
  BY <1>4 DEF Busy, Ended
<1>5. ASSUME t \in Busy' PROVE Goal
  <2> USE <1>2, <1>5 DEF TypeOK, Go
  <2>1. ASSUME NEW s \in Startups, Begin(s) PROVE Goal
    <3>1. t = s
      BY <2>1, Alone
    <3> QED
      BY <2>1, <3>1 DEF Begin
  <2>2. ASSUME NEW s \in Startups, NEW accepted \in BOOLEAN, Check(s, accepted) PROVE Goal
    <3>1. t = s
      BY <2>2, Alone DEF Check, Busy, Ended
    <3>2. written'[t] = 0
      BY <2>2, <3>1 DEF Check, Writing
    <3> QED
      BY <2>2, <3>1, <3>2 DEF Check
  <2>3. ASSUME NEW s \in Startups, Publish(s) PROVE Goal
    <3>1. t = s
      BY <2>3, Alone DEF Publish, Busy, Ended
    <3>2. written[t] \in 0..4 /\ written'[t] = written[t] + 1
      BY <2>3, <3>1, FiveFields DEF Publish, Writing
    <3>3. \A i \in 1..written[t] : config[Fields[i]] = Requested(args[t])[Fields[i]]
      BY <2>3, <3>1 DEF Publish, Undisturbed
    <3>4. config' = Field(Fields[written[t] + 1], Requested(args[t]))
      BY <2>3, <3>1 DEF Publish
    <3>5. \A i \in 1..written'[t] : config'[Fields[i]] = Requested(args[t])[Fields[i]]
      <4> HIDE DEF TypeOK
      <4>1. CredentialsOK(config)
        BY DEF TypeOK
      <4> QED
        BY <3>2, <3>3, <3>4, <4>1, PrefixGrows
    <3>6. at'[t] = "building" => config' = Requested(args[t])
      <4>1. at'[t] = "building" => written'[t] = 5
        BY <2>3, <3>1, <3>2, FiveFields DEF Publish
      <4>2. CredentialsOK(config')
        BY NextTypeOK DEF CredentialsOK
      <4>3. SUFFICES ASSUME at'[t] = "building" PROVE config' = Requested(args[t])
        OBVIOUS
      <4>4. \A i \in 1..5 : config'[Fields[i]] = Requested(args[t])[Fields[i]]
        BY <3>5, <4>1, <4>3
      <4>5. CredentialsOK(Requested(args[t]))
        BY RequestedOK
      <4> HIDE DEF TypeOK
      <4> QED
        BY <4>2, <4>4, <4>5, SameFields
    <3> QED
      BY <2>3, <3>1, <3>5, <3>6 DEF Publish
  <2>4. ASSUME NEW s \in Startups, BuildRuntime(s) PROVE Goal
    <3>1. t = s
      BY <2>4, Alone DEF BuildRuntime, Busy, Ended
    <3> QED
      BY <1>3, <2>4, <3>1 DEF BuildRuntime, ReadForRuntime, Undisturbed
  <2>5. ASSUME NEW s \in Startups, SwapHookRuntime(s) PROVE Goal
    <3>1. t = s
      BY <2>5, Alone DEF SwapHookRuntime, Busy, Ended
    <3> QED
      BY <1>3, <2>5, <3>1 DEF SwapHookRuntime, Undisturbed
  <2>6. ASSUME NEW s \in Startups, BuildClient(s) PROVE Goal
    <3>1. t = s
      BY <2>6, Alone DEF BuildClient, Busy, Ended
    <3> QED
      BY <2>6, <3>1 DEF BuildClient
  <2>7. ASSUME NEW s \in Startups, LookForMark(s) \/ WrapTools(s) \/ MarkTools(s)
    PROVE  Goal
    <3>1. t = s
      BY <2>7, Alone DEF LookForMark, WrapTools, MarkTools, Busy, Ended
    <3> QED
      BY <2>7, <3>1 DEF LookForMark, WrapTools, MarkTools
  <2>8. ASSUME NEW s \in Startups, Close(s) PROVE Goal
    <3>1. at'[t] = at[t] \/ at'[t] = "closed"
      BY <2>8 DEF Close
    <3> QED
      BY <1>3, <2>8, <3>1 DEF Close, Undisturbed
  <2>9. CASE UNCHANGED vars
    BY <1>3, <2>9 DEF vars, Undisturbed
  <2> QED
    BY <2>1, <2>2, <2>3, <2>4, <2>5, <2>6, <2>7, <2>8, <2>9 DEF Next, Terminating
<1> QED
  BY <1>4, <1>5 DEF Busy, Ended

\* The last startup to publish has left the configuration it asked for, as long
\* as no two have met.
LEMMA NextConfigIsLastAccepted ==
  TypeOK /\ Writing /\ Marked /\ Undisturbed /\ ConfigIsLastAccepted /\ [Next]_vars
    => ConfigIsLastAccepted'
<1> SUFFICES ASSUME TypeOK, Writing, Marked, Undisturbed, ConfigIsLastAccepted, [Next]_vars,
                    overlapped' = {}, \A s \in Startups : at'[s] # "publishing"
             PROVE  config' = last'
  BY DEF ConfigIsLastAccepted
<1>1. overlapped = {}
  BY DEF Next, vars, Begin, Check, Publish, BuildRuntime, SwapHookRuntime, BuildClient,
         LookForMark, WrapTools, MarkTools, tools, Close, Terminating
<1>2. ASSUME NEW s \in Startups, Publish(s) PROVE config' = last'
  <2>1. written[s] = 4 /\ last' = Requested(args[s])
    <3>1. at'[s] # at[s]
      BY <1>2 DEF Publish
    <3> QED
      BY <1>2, <3>1, Published
  <2>2. config' = Field(Fields[written[s] + 1], Requested(args[s])) /\ last' = Requested(args[s])
    BY <1>2, <2>1 DEF Publish
  <2>3. \A i \in 1..written[s] : config[Fields[i]] = Requested(args[s])[Fields[i]]
    BY <1>1, <1>2 DEF Publish, Undisturbed
  <2>4. CredentialsOK(config)
    BY DEF TypeOK
  <2>5. \A i \in 1..5 : config'[Fields[i]] = Requested(args[s])[Fields[i]]
    BY <2>1, <2>2, <2>3, <2>4, PrefixGrows
  <2>6. CredentialsOK(config')
    BY NextTypeOK DEF TypeOK, CredentialsOK
  <2> QED
    BY <2>2, <2>5, <2>6, RequestedOK, SameFields
<1>3. CASE ~\E s \in Startups : Publish(s)
  <2>1. config' = config /\ last' = last
    BY <1>3 DEF Next, vars, Begin, Check, BuildRuntime, SwapHookRuntime, BuildClient,
                LookForMark, WrapTools, MarkTools, tools, Close, Terminating
  <2>2. \A s \in Startups : at[s] = "publishing" => at'[s] = "publishing"
    BY <1>3 DEF Next, vars, Begin, Check, BuildRuntime, SwapHookRuntime, BuildClient,
                LookForMark, WrapTools, MarkTools, tools, Close, Terminating, Go, TypeOK
  <2> QED
    BY <1>1, <2>1, <2>2 DEF ConfigIsLastAccepted
<1> QED
  BY <1>2, <1>3

\* A handler built without a mark has read the same configuration twice.
LEMMA NextReadTwice ==
  TypeOK /\ Marked /\ Undisturbed /\ ReadTwice /\ [Next]_vars => ReadTwice'
<1> SUFFICES ASSUME TypeOK, Marked, Undisturbed, ReadTwice, [Next]_vars,
                    NEW t \in Startups, Built(t)', t \notin overlapped'
             PROVE  /\ Resolved(client[t])' = gate'[t]
                    /\ args[t].entry = "factory" => client'[t] = Requested(args[t])
  BY RequestsFixed DEF ReadTwice
<1>1. t \notin overlapped /\ env' = env /\ args' = args
  BY RequestsFixed
     DEF Next, vars, Begin, Check, Publish, BuildRuntime, SwapHookRuntime, BuildClient,
         LookForMark, WrapTools, MarkTools, tools, Close, Terminating
<1>2. client'[t] = client[t] => Resolved(client[t])' = Resolved(client[t])
  BY <1>1 DEF Resolved, FromEnvironment
<1>3. CASE BuildClient(t)
  <2>1. gate'[t] = gate[t] /\ gate[t] = Resolved(config)
    BY <1>1, <1>3 DEF BuildClient, Undisturbed
  <2>2. client'[t] = [config EXCEPT !.workload = gate[t].workload]
    BY <1>3 DEF BuildClient, TypeOK, Go, Built
  <2>3. CredentialsOK(config) /\ gate[t].workload = config.workload
    BY <2>1 DEF TypeOK, CredentialsOK, Resolved
  <2>4. client'[t] = config
    <3>1. PICK u, k, d, e, w :
            config = [url |-> u, key |-> k, did |-> d, seed |-> e, workload |-> w]
      BY <2>3 DEF CredentialsOK
    <3> QED
      BY <2>2, <2>3, <3>1
  <2>5. Resolved(client[t])' = Resolved(config)
    BY <1>1, <2>4 DEF Resolved, FromEnvironment
  <2> QED
    BY <1>1, <1>3, <2>1, <2>4, <2>5 DEF BuildClient, Undisturbed
<1>4. CASE ~BuildClient(t)
  <2>1. Built(t) /\ gate'[t] = gate[t] /\ client'[t] = client[t]
    BY <1>1, <1>4, OwnSteps
       DEF Begin, Check, Publish, BuildRuntime, SwapHookRuntime, LookForMark, WrapTools,
           MarkTools, Close, Go, TypeOK, Built
  <2> QED
    BY <1>1, <1>2, <2>1 DEF ReadTwice
<1> QED
  BY <1>3, <1>4

\* The slot passes from one startup to the next or is emptied; a startup that
\* met no other does not fail with the slot in its hands.
LEMMA NextSlotHolder ==
  /\ TypeOK /\ WholeParts /\ Marked /\ ConfigIsLastAccepted /\ SlotHolder
  /\ [Next]_vars
  => SlotHolder'
<1> SUFFICES ASSUME TypeOK, WholeParts, Marked, ConfigIsLastAccepted, SlotHolder, [Next]_vars,
                    NEW t \in Startups, slot'.runtime = t
             PROVE  /\ at'[t] \in {"arming", "connecting", "binding",
                                   "wrapping", "marking", "ready", "failed"}
                    /\ at'[t] = "failed" => overlapped' # {}
                    /\ ~slot'.pins => at'[t] = "arming"
  BY DEF SlotHolder
<1> DEFINE Goal == /\ at'[t] \in {"arming", "connecting", "binding",
                                  "wrapping", "marking", "ready", "failed"}
                   /\ at'[t] = "failed" => overlapped' # {}
                   /\ ~slot'.pins => at'[t] = "arming"
<1> USE DEF TypeOK, SlotHolder, Go
<1>1. ASSUME NEW s \in Startups, Begin(s) PROVE Goal
  BY <1>1 DEF Begin
<1>2. ASSUME NEW s \in Startups, NEW accepted \in BOOLEAN, Check(s, accepted) PROVE Goal
  BY <1>2 DEF Check
<1>3. ASSUME NEW s \in Startups, Publish(s) PROVE Goal
  BY <1>3 DEF Publish
<1>4. ASSUME NEW s \in Startups, BuildRuntime(s) PROVE Goal
  BY <1>4 DEF BuildRuntime
<1>5. ASSUME NEW s \in Startups, SwapHookRuntime(s) PROVE Goal
  BY <1>5 DEF SwapHookRuntime
<1>6. ASSUME NEW s \in Startups, BuildClient(s) PROVE Goal
  <2>1. overlapped = {} => WholeIdentity(config)
    <3>1. SUFFICES ASSUME overlapped = {} PROVE WholeIdentity(config)
      OBVIOUS
    <3>2. s \in Busy
      BY <1>6 DEF BuildClient, Busy, Ended
    <3>3. \A r \in Startups : at[r] # "publishing"
      BY <1>6, <3>1, <3>2 DEF BuildClient, Marked, Busy, Ended
    <3>4. config = last
      BY <3>1, <3>3 DEF ConfigIsLastAccepted
    <3> QED
      BY <3>4 DEF WholeParts, Whole, WholeIdentity
  <2> QED
    BY <1>6, <2>1 DEF BuildClient
<1>7. ASSUME NEW s \in Startups, LookForMark(s) \/ WrapTools(s) \/ MarkTools(s)
    PROVE  Goal
  BY <1>7 DEF LookForMark, WrapTools, MarkTools
<1>8. ASSUME NEW s \in Startups, Close(s) PROVE Goal
  <2>1. slot'.runtime = Absent
    BY <1>8 DEF Close, Nobody
  <2> QED
    BY <2>1, PlanAssumption
<1>9. CASE UNCHANGED vars
  BY <1>9 DEF vars
<1> QED
  BY <1>1, <1>2, <1>3, <1>4, <1>5, <1>6, <1>7, <1>8, <1>9 DEF Next, Terminating

-----------------------------------------------------------------------------
(* Startups of several threads *)

\* The second read takes four fields from the configuration and one from the
\* credentials the gate was given.
LEMMA ClientFields ==
  ASSUME NEW g, CredentialsOK(config), NEW i \in 1..5
  PROVE  [config EXCEPT !.workload = g.workload][Fields[i]]
           = IF i = 5 THEN g[Fields[5]] ELSE config[Fields[i]]
<1>1. DOMAIN config = {"url", "key", "did", "seed", "workload"}
  BY DEF CredentialsOK
<1>2. Fields[5] = "workload"
  BY DEF Fields
<1>3. i # 5 => Fields[i] # "workload"
  BY <1>2, FieldsDiffer
<1>4. Fields[i] \in DOMAIN config
  BY <1>1, FiveFields
<1> QED
  BY <1>1, <1>2, <1>3, <1>4

\* Nobody takes back a field.
LEMMA Monotone ==
  ASSUME TypeOK, Writing, [Next]_vars, NEW r \in Startups
  PROVE  written[r] \in 0..5 /\ written'[r] \in 0..5 /\ written'[r] >= written[r]
<1>1. written[r] \in 0..5 /\ written'[r] \in 0..5
  BY NextTypeOK, FiveFields DEF TypeOK
<1>2. written'[r] \in {written[r], written[r] + 1}
  BY DEF TypeOK, Next, vars, Begin, Check, Publish, BuildRuntime, SwapHookRuntime,
         BuildClient, LookForMark, WrapTools, MarkTools, tools, Close, Terminating
<1> QED
  BY <1>1, <1>2

\* So what was accepted stays accepted.
LEMMA AcceptedStays ==
  ASSUME TypeOK, Writing, [Next]_vars, NEW c, NEW i \in 1..5, Accepted(c, i)
  PROVE  \E r \in Startups :
           /\ written'[r] >= i /\ WellFormed(Requested(args[r]))'
           /\ c[Fields[i]] = Requested(args[r])'[Fields[i]]
<1>1. PICK r \in Startups : /\ written[r] >= i /\ WellFormed(Requested(args[r]))
                             /\ c[Fields[i]] = Requested(args[r])[Fields[i]]
  BY DEF Accepted
<1>2. written'[r] >= i
  BY <1>1, Monotone
<1>3. WellFormed(Requested(args[r]))' /\ Requested(args[r])' = Requested(args[r])
  BY <1>1, RequestsFixed
<1> QED
  BY <1>1, <1>2, <1>3

\* Only what the checks let pass is published, and what is read from the
\* configuration has been published.
LEMMA NextTraced == TypeOK /\ Writing /\ Traced /\ [Next]_vars => Traced'
<1> SUFFICES ASSUME TypeOK, Writing, Traced, [Next]_vars PROVE Traced'
  OBVIOUS
<1>0. \A c : \A i \in 1..5 : Accepted(c, i) =>
        \E r \in Startups :
           /\ written'[r] >= i /\ WellFormed(Requested(args[r]))'
           /\ c[Fields[i]] = Requested(args[r])'[Fields[i]]
  BY AcceptedStays
<1>1. \A r \in Startups : written'[r] > 0 => WellFormed(Requested(args[r]))'
  <2> SUFFICES ASSUME NEW r \in Startups, written'[r] > 0
               PROVE  WellFormed(Requested(args[r]))
    BY RequestsFixed
  <2>1. CASE Publish(r)
    BY <2>1 DEF Publish, Writing
  <2>2. CASE ~Publish(r)
    <3>1. written'[r] = written[r]
      BY <2>2 DEF TypeOK, Next, vars, Begin, Check, Publish, BuildRuntime, SwapHookRuntime,
             BuildClient, LookForMark, WrapTools, MarkTools, tools, Close, Terminating
    <3> QED
      BY <3>1 DEF Traced
  <2> QED
    BY <2>1, <2>2
<1>2. ASSUME NEW i \in 1..5, NEW q \in Startups, written'[q] >= i
      PROVE  Accepted(config, i)'
  <2>1. CASE \E s \in Startups : Publish(s)
    <3>1. PICK s \in Startups : Publish(s)
      BY <2>1
    <3>2. /\ written[s] \in 0..4 /\ written' = [written EXCEPT ![s] = @ + 1]
          /\ config' = Field(Fields[written[s] + 1], Requested(args[s]))
          /\ WellFormed(Requested(args[s]))
      BY <3>1, Published DEF Publish, Writing
    <3>3. DOMAIN config = {"url", "key", "did", "seed", "workload"}
      BY DEF TypeOK, CredentialsOK
    <3>4. CASE i = written[s] + 1
      <4>1. config'[Fields[i]] = Requested(args[s])[Fields[i]]
        BY <3>2, <3>3, <3>4, FiveFields DEF Field
      <4>2. written'[s] >= i
        BY <3>2, <3>4 DEF TypeOK
      <4> QED
        BY <3>2, <4>1, <4>2, RequestsFixed DEF Accepted
    <3>5. CASE i # written[s] + 1
      <4>1. config'[Fields[i]] = config[Fields[i]]
        BY <3>2, <3>3, <3>5, FiveFields, FieldsDiffer DEF Field
      <4>2. written[q] >= i
        <5>1. written[q] \in 0..5
          BY Monotone
        <5> QED
          BY <1>2, <3>2, <3>5, <5>1 DEF TypeOK
      <4>3. Accepted(config, i)
        BY <4>2 DEF Traced
      <4> QED
        BY <1>0, <4>1, <4>3 DEF Accepted
    <3> QED
      BY <3>4, <3>5
  <2>2. CASE ~\E s \in Startups : Publish(s)
    <3>1. written' = written /\ config' = config
      BY <2>2 DEF TypeOK, Next, vars, Begin, Check, BuildRuntime, SwapHookRuntime,
             BuildClient, LookForMark, WrapTools, MarkTools, tools, Close, Terminating
    <3>2. Accepted(config, i)
      BY <1>2, <3>1 DEF Traced
    <3> QED
      BY <1>0, <3>1, <3>2 DEF Accepted
  <2> QED
    BY <2>1, <2>2
<1>3. (\E r \in Startups : written[r] = 5) => \E r \in Startups : written'[r] = 5
  BY Monotone
<1>4. last' # Blank => \E r \in Startups : written'[r] = 5
  <2>1. CASE last' = last
    BY <1>3, <2>1 DEF Traced
  <2>2. CASE last' # last
    <3>1. PICK s \in Startups : Publish(s)
      BY <2>2 DEF Next, vars, Begin, Check, BuildRuntime, SwapHookRuntime,
             BuildClient, LookForMark, WrapTools, MarkTools, tools, Close, Terminating
    <3>2. written'[s] = 5
      BY <2>2, <3>1, Published
    <3> QED
      BY <3>2
  <2> QED
    BY <2>1, <2>2
<1>5. SUFFICES ASSUME NEW t \in Startups
               PROVE  /\ at'[t] \in Constructing => \E r \in Startups : written'[r] = 5
                      /\ at'[t] \in {"arming", "connecting"} => Accepted(gate[t], 5)'
                      /\ Built(t)' => \A i \in 1..5 : Accepted(client[t], i)'
  BY <1>1, <1>2, <1>4 DEF Traced, Constructing
<1>6. at'[t] \in Constructing => \E r \in Startups : written'[r] = 5
  <2> SUFFICES ASSUME at'[t] \in Constructing PROVE \E r \in Startups : written'[r] = 5
    OBVIOUS
  <2>1. CASE at[t] \in Constructing
    BY <1>3, <2>1 DEF Traced
  <2>2. CASE at[t] \notin Constructing
    <3>1. Begin(t) \/ Publish(t)
      BY <2>2, OwnSteps
         DEF Check, BuildRuntime, SwapHookRuntime, BuildClient, LookForMark, WrapTools,
             MarkTools, Close, Go, TypeOK, Constructing
    <3>2. CASE Begin(t)
      <4>1. last # Blank
        BY <3>2 DEF Begin, Go, TypeOK, Constructing
      <4> QED
        BY <1>3, <4>1 DEF Traced
    <3>3. CASE Publish(t)
      <4>1. at'[t] # at[t]
        BY <2>2
      <4> QED
        BY <3>3, <4>1, Published
    <3> QED
      BY <3>1, <3>2, <3>3
  <2> QED
    BY <2>1, <2>2
<1>7. at'[t] \in {"arming", "connecting"} => Accepted(gate[t], 5)'
  <2> SUFFICES ASSUME at'[t] \in {"arming", "connecting"} PROVE Accepted(gate[t], 5)'
    OBVIOUS
  <2>1. CASE BuildRuntime(t)
    <3>1. gate'[t] = Resolved(config)
      BY <2>1 DEF BuildRuntime, ReadForRuntime, Go, TypeOK
    <3>2. Fields[5] = "workload" /\ Resolved(config)["workload"] = config["workload"]
      BY DEF Fields, Resolved, TypeOK, CredentialsOK
    <3>3. Accepted(config, 5)
      <4>1. at[t] \in Constructing
        BY <2>1 DEF BuildRuntime, Constructing
      <4>2. PICK r \in Startups : written[r] = 5
        BY <4>1 DEF Traced
      <4> QED
        BY <4>2 DEF Traced
    <3> QED
      BY <1>0, <3>1, <3>2, <3>3 DEF Accepted
  <2>2. CASE ~BuildRuntime(t)
    <3>1. at[t] \in {"arming", "connecting"} /\ gate'[t] = gate[t]
      BY <2>2, OwnSteps
         DEF Begin, Check, Publish, SwapHookRuntime, BuildClient, LookForMark, WrapTools,
             MarkTools, Close, Go, TypeOK
    <3>2. Accepted(gate[t], 5)
      BY <3>1 DEF Traced
    <3> QED
      BY <1>0, <3>1, <3>2 DEF Accepted
  <2> QED
    BY <2>1, <2>2
<1>8. ASSUME Built(t)', NEW i \in 1..5 PROVE Accepted(client[t], i)'
  <2>1. CASE BuildClient(t)
    <3>1. client'[t] = [config EXCEPT !.workload = gate[t].workload]
      BY <1>8, <2>1 DEF BuildClient, TypeOK, Go, Built
    <3>2. client'[t][Fields[i]] = IF i = 5 THEN gate[t][Fields[5]] ELSE config[Fields[i]]
      <4>1. CredentialsOK(config)
        BY DEF TypeOK
      <4> QED
        BY <3>1, <4>1, ClientFields
    <3>3. Accepted(gate[t], 5)
      BY <2>1 DEF BuildClient, Traced
    <3>4. Accepted(config, i)
      <4>1. at[t] \in Constructing
        BY <2>1 DEF BuildClient, Constructing
      <4>2. PICK r \in Startups : written[r] = 5
        BY <4>1 DEF Traced
      <4> QED
        BY <4>2 DEF Traced
    <3> QED
      BY <1>0, <3>2, <3>3, <3>4 DEF Accepted
  <2>2. CASE ~BuildClient(t)
    <3>1. Built(t) /\ client'[t] = client[t]
      BY <1>8, <2>2, RequestsFixed, OwnSteps
         DEF Begin, Check, Publish, BuildRuntime, SwapHookRuntime, LookForMark, WrapTools,
             MarkTools, Close, Go, TypeOK, Built
    <3>2. Accepted(client[t], i)
      BY <3>1 DEF Traced
    <3> QED
      BY <1>0, <3>1, <3>2 DEF Accepted
  <2> QED
    BY <2>1, <2>2
<1> QED
  BY <1>6, <1>7, <1>8

-----------------------------------------------------------------------------
(* The tools of a graph *)

\* The mark is set by whoever wrapped the tools, and until then no other
\* startup looks for it.
LEMMA NextWrapsMarked ==
  TypeOK /\ Writing /\ Marked /\ WrapsMarked /\ [Next]_vars => WrapsMarked'
<1> SUFFICES ASSUME TypeOK, Writing, Marked, WrapsMarked, [Next]_vars, overlapped' = {}
             PROVE  /\ \A g \in Graphs : bound'[g] # <<>> =>
                         g \in marked' \/ \E s \in Startups :
                                            at'[s] = "marking" /\ args[s].graph = g
                    /\ \A s \in Startups : at'[s] = "wrapping" =>
                         bound'[args[s].graph] = <<>>
  BY RequestsFixed DEF WrapsMarked
<1> DEFINE Goal == /\ \A g \in Graphs : bound'[g] # <<>> =>
                        g \in marked' \/ \E s \in Startups :
                                           at'[s] = "marking" /\ args[s].graph = g
                   /\ \A s \in Startups : at'[s] = "wrapping" =>
                        bound'[args[s].graph] = <<>>
<1>1. overlapped = {}
  BY DEF Next, vars, Begin, Check, Publish, BuildRuntime, SwapHookRuntime, BuildClient,
         LookForMark, WrapTools, MarkTools, tools, Close, Terminating
<1>2. /\ \A g \in Graphs : bound[g] # <<>> =>
           g \in marked \/ \E s \in Startups : at[s] = "marking" /\ args[s].graph = g
      /\ \A s \in Startups : at[s] = "wrapping" => bound[args[s].graph] = <<>>
  BY <1>1 DEF WrapsMarked
<1>3. \A s, t \in Startups :
        at[s] \in {"binding", "wrapping", "marking"} /\ at[t] \in {"wrapping", "marking"}
          => t = s
  BY <1>1 DEF Marked, Busy, Ended
<1>4. ASSUME NEW s \in Startups, LookForMark(s) PROVE Goal
  <2>1. args[s].graph \in Graphs
    BY <1>4, GraphOf DEF LookForMark
  <2>2. args[s].graph \notin marked => bound[args[s].graph] = <<>>
    BY <1>2, <1>3, <1>4, <2>1 DEF LookForMark
  <2> QED
    BY <1>2, <1>4, <2>2 DEF LookForMark, Go, TypeOK
<1>5. ASSUME NEW s \in Startups, WrapTools(s) PROVE Goal
  <2>1. at'[s] = "marking" /\ marked' = marked
        /\ \A t \in Startups \ {s} : at'[t] = at[t] /\ at[t] \notin {"wrapping", "marking"}
    BY <1>3, <1>5 DEF WrapTools, Go, TypeOK
  <2>2. \A g \in Graphs : bound'[g] = bound[g] \/ g = args[s].graph
    BY <1>5 DEF WrapTools, TypeOK
  <2> QED
    BY <1>2, <2>1, <2>2
<1>6. ASSUME NEW s \in Startups, MarkTools(s) PROVE Goal
  BY <1>2, <1>6 DEF MarkTools, Go, TypeOK
<1>7. CASE ~\E s \in Startups : LookForMark(s) \/ WrapTools(s) \/ MarkTools(s)
  <2>1. /\ bound' = bound /\ marked' = marked
        /\ \A s \in Startups : /\ at'[s] = "wrapping" => at[s] = "wrapping"
                               /\ at[s] = "marking" => at'[s] = "marking"
    BY <1>7 DEF Next, vars, Begin, Check, Publish, BuildRuntime, SwapHookRuntime,
                BuildClient, tools, Close, Terminating, Go, TypeOK
  <2> QED
    BY <1>2, <2>1
<1> QED
  BY <1>4, <1>5, <1>6, <1>7

-----------------------------------------------------------------------------
(* The invariant and what follows from it *)

\* The strengthened invariant holds from the start.
LEMMA InitIInv == Init => IInv
<1> SUFFICES ASSUME Init PROVE IInv
  OBVIOUS
<1>1. TypeOK
  BY InitTypeOK
<1>2. \A s \in Startups : at[s] = "idle"
  BY DEF Init
<1>3. Writing /\ WholeParts
  BY <1>2, BlankOK DEF Init, Writing, WholeParts
<1>4. Marked /\ Undisturbed /\ ConfigIsLastAccepted /\ ReadTwice
  BY <1>2 DEF Init, Marked, Busy, Undisturbed, ConfigIsLastAccepted, ReadTwice, Built
<1>5. SlotHolder
  BY PlanAssumption DEF Init, SlotHolder, Nobody
<1>6. Traced /\ WrapsMarked
  BY <1>2 DEF Init, Traced, Built, Constructing, WrapsMarked
<1> QED
  BY <1>1, <1>3, <1>4, <1>5, <1>6 DEF IInv

\* Every step preserves it.
LEMMA NextIInv == IInv /\ [Next]_vars => IInv'
  BY NextTypeOK, NextWriting, NextWholeParts, NextMarked, NextUndisturbed,
     NextConfigIsLastAccepted, NextReadTwice, NextTraced, NextSlotHolder, NextWrapsMarked
  DEF IInv

\* So every behaviour keeps it.
LEMMA SpecIInv == Spec => []IInv
  BY InitIInv, NextIInv, PTL DEF Spec

\* Startups only move through their stages, and the identities they keep are
\* normalized.
THEOREM Types == Spec => []TypeOK
<1>1. IInv => TypeOK
  BY DEF IInv
<1> QED
  BY <1>1, SpecIInv, PTL

\* A rejected startup publishes nothing and an accepted one leaves no field of
\* an earlier one: initialize, one call at a time.
THEOREM ConfigurationIsTheLastAccepted == Spec => []ConfigIsLastAccepted
<1>1. IInv => ConfigIsLastAccepted
  BY DEF IInv
<1> QED
  BY <1>1, SpecIInv, PTL

\* A handler built without interference talks to one Core as one agent.
THEOREM EachServesOneAgent == Spec => []ServesOneAgent
<1>1. IInv => ServesOneAgent
  <2> SUFFICES ASSUME IInv, NEW s \in Startups, Built(s), s \notin overlapped
               PROVE  /\ \A f \in {"url", "key", "workload"} : gate[s][f] = client[s][f]
                      /\ IF client[s].did # Absent THEN gate[s] = client[s]
                         ELSE gate[s].did = FromEnvironment(env.ownDid, env.did)
                      /\ args[s].entry = "factory" => client[s] = Requested(args[s])
    BY DEF ServesOneAgent
  <2>1. /\ Resolved(client[s]) = gate[s] /\ Whole(client[s]) /\ CredentialsOK(client[s])
        /\ args[s].entry = "factory" => client[s] = Requested(args[s])
    BY DEF IInv, ReadTwice, WholeParts, Built, TypeOK
  <2>2. PICK u, k, d, e, w :
          client[s] = [url |-> u, key |-> k, did |-> d, seed |-> e, workload |-> w]
    BY <2>1 DEF CredentialsOK
  <2> DEFINE own == FromEnvironment(env.ownDid, env.did)
             seed == FromEnvironment(env.ownSeed, env.seed)
  <2>3. Resolved(client[s]) = [client[s] EXCEPT !.did = IF @ = Absent THEN own ELSE @,
                                               !.seed = IF @ = Absent THEN seed ELSE @]
    BY DEF Resolved
  <2> HIDE DEF own, seed
  <2>4. /\ gate[s]["url"] = u /\ gate[s]["key"] = k /\ gate[s]["workload"] = w
        /\ gate[s].did = IF d = Absent THEN own ELSE d
        /\ d # Absent => gate[s] = client[s]
    <3> DEFINE nd == IF d = Absent THEN own ELSE d
               ne == IF e = Absent THEN seed ELSE e
    <3>1. client[s].did = d /\ client[s].seed = e
      BY <2>2
    <3>2. gate[s] = [client[s] EXCEPT !.did = nd, !.seed = ne]
      BY <2>1, <2>3, <3>1 DEF nd, ne
    <3>3. d # Absent => nd = d /\ ne = e
      BY <2>1, <3>1 DEF Whole
    <3>4. nd = IF d = Absent THEN own ELSE d
      OBVIOUS
    <3> HIDE DEF nd, ne
    <3>5. gate[s] = [url |-> u, key |-> k, did |-> nd, seed |-> ne, workload |-> w]
      <4>1. PICK x, y : x = nd /\ y = ne
        OBVIOUS
      <4>2. gate[s] = [client[s] EXCEPT !.did = x, !.seed = y]
        BY <3>2, <4>1
      <4>3. gate[s] = [[client[s] EXCEPT !.did = x] EXCEPT !.seed = y]
        BY <2>2, <4>2
      <4>4. [client[s] EXCEPT !.did = x]
              = [url |-> u, key |-> k, did |-> x, seed |-> e, workload |-> w]
        BY <2>2
      <4>5. gate[s] = [url |-> u, key |-> k, did |-> x, seed |-> y, workload |-> w]
        BY <4>3, <4>4
      <4> QED
        BY <4>1, <4>5
    <3> QED
      BY <2>2, <3>3, <3>4, <3>5
  <2>5. client[s]["url"] = u /\ client[s]["key"] = k /\ client[s]["workload"] = w
          /\ client[s].did = d
    BY <2>2
  <2> QED
    BY <2>1, <2>4, <2>5 DEF own
<1> QED
  BY <1>1, SpecIInv, PTL

\* Whatever threads do to the configuration, every credential a handler uses
\* has passed the checks of the startup that published it.
THEOREM RejectedCredentialsStayOut == Spec => []OnlyCheckedCredentials
<1>1. IInv => OnlyCheckedCredentials
  BY FiveFields DEF IInv, Traced, Accepted, OnlyCheckedCredentials
<1> QED
  BY <1>1, SpecIInv, PTL

\* As long as startups run one at a time, the hook slot is in live hands, and
\* pins between startups.
THEOREM HooksStayLive == Spec => []HooksOfLiveHandler
<1>1. IInv => HooksOfLiveHandler
  BY DEF IInv, SlotHolder, HooksOfLiveHandler, Constructing, Busy, Ended
<1> QED
  BY <1>1, SpecIInv, PTL

\* As long as startups run one at a time, binding the tools of a graph is
\* final, whoever wraps the graph again.
THEOREM ToolsKeepTheirHandler == Spec => BoundForGood
<1> DEFINE Kept == overlapped' = {} =>
                     \A g \in Graphs : bound[g] # <<>> => bound'[g] = bound[g]
<1>1. IInv /\ [Next]_vars => Kept
  <2> SUFFICES ASSUME TypeOK, WrapsMarked, [Next]_vars, overlapped' = {},
                      NEW g \in Graphs, bound[g] # <<>>
               PROVE  bound'[g] = bound[g]
    BY DEF IInv
  <2>1. overlapped = {}
    BY DEF Next, vars, Begin, Check, Publish, BuildRuntime, SwapHookRuntime, BuildClient,
           LookForMark, WrapTools, MarkTools, tools, Close, Terminating
  <2>2. ASSUME NEW s \in Startups, WrapTools(s) PROVE bound'[g] = bound[g]
    <3>1. bound[args[s].graph] = <<>>
      BY <2>1, <2>2 DEF WrapTools, WrapsMarked
    <3> QED
      BY <2>2, <3>1 DEF WrapTools, TypeOK
  <2>3. CASE ~\E s \in Startups : WrapTools(s)
    BY <2>3 DEF Next, vars, Begin, Check, Publish, BuildRuntime, SwapHookRuntime,
                BuildClient, LookForMark, MarkTools, tools, Close, Terminating
  <2> QED
    BY <2>2, <2>3
<1>2. IInv /\ [Next]_vars => [Kept]_vars
  BY <1>1
<1> QED
  BY <1>2, SpecIInv, PTL DEF Spec, BoundForGood
=============================================================================
