------------------------- MODULE EngineProxy_proofs --------------------------
(***************************************************************************)
(* Proofs about EngineProxy, for every set of callers, any number of calls *)
(* of any kinds, and any size of the connection pool.                      *)
(***************************************************************************)
EXTENDS EngineProxy, FiniteSetTheorems, TLAPS

-----------------------------------------------------------------------------
(* Type correctness.                                                       *)

Holders == {x \in Calls : pc[x] \in {"await", "refusal", "streaming"}}

\* ProxyTypeOK needs to know that the pool is finite, and that a request goes
\* out once: nothing is on the wire before its handler has connected.
TypeInv ==
    /\ ProxyTypeOK
    /\ IsFiniteSet(conns)
    /\ DOMAIN book = Callers
    /\ \A x \in Calls : pc[x] \in {"new", "connect"} => wire[x] = 0

LEMMA CallsArePairs ==
    ASSUME NEW x \in Calls
    PROVE  /\ x[1] \in Callers
           /\ x[2] \in 1..MaxCalls[x[1]]
           /\ x = <<x[1], x[2]>>
BY DEF Calls

\* A handler that returns gives its connection back, whatever it answers.
LEMMA FinishType ==
    ASSUME TypeInv, NEW x \in Calls, NEW outcome \in Outcomes, Finish(x, outcome)
    PROVE  TypeInv'
<1>1. /\ IsFiniteSet(conns \ {x})
      /\ Cardinality(conns \ {x}) <= Cardinality(conns)
      /\ Cardinality(conns \ {x}) \in Nat
      /\ Cardinality(conns) \in Nat
  BY FS_Subset, FS_CardinalityType DEF TypeInv
<1>2. pc' \in [Calls -> Labels] /\ told' \in [Calls -> Outcomes]
  BY DEF Finish, TypeInv, ProxyTypeOK, Labels
<1>3. conns' = Holders'
  BY DEF Finish, TypeInv, ProxyTypeOK, Labels, Holders
<1>4. IsFiniteSet(conns') /\ Cardinality(conns') <= MaxConnections
  BY <1>1, EngineProxyAssumption DEF Finish, TypeInv, ProxyTypeOK
<1>5. \A y \in Calls : pc'[y] \in {"new", "connect"} => wire'[y] = 0
  BY DEF Finish, TypeInv, ProxyTypeOK
<1> QED
  BY <1>2, <1>3, <1>4, <1>5 DEF Finish, TypeInv, ProxyTypeOK, Holders

LEMMA TypeInvariant == ProxySpec => []TypeInv
<1>1. ProxyInit => TypeInv
  <2> SUFFICES ASSUME ProxyInit PROVE TypeInv
    OBVIOUS
  <2>1. IsFiniteSet(conns) /\ Cardinality(conns) <= MaxConnections
    BY FS_EmptySet, EngineProxyAssumption DEF ProxyInit
  <2>2. \A c \in Callers : 0 \in 0..MaxCalls[c]
    BY EngineProxyAssumption
  <2> QED
    BY <2>1, <2>2 DEF ProxyInit, TypeInv, ProxyTypeOK, Labels, Outcomes
<1>2. TypeInv /\ [ProxyNext]_proxyVars => TypeInv'
  <2> SUFFICES ASSUME TypeInv, [ProxyNext]_proxyVars PROVE TypeInv'
    OBVIOUS
  <2>1. CASE UNCHANGED proxyVars
    BY <2>1 DEF proxyVars, TypeInv, ProxyTypeOK
  <2>2. ASSUME NEW x \in Calls, NEW k \in Kinds, Call(x, k) PROVE TypeInv'
    BY <2>2 DEF Call, TypeInv, ProxyTypeOK, Labels
  <2>3. ASSUME NEW x \in Calls, Connect(x) PROVE TypeInv'
    <3>1. x \notin conns
      BY <2>3 DEF Connect, TypeInv, ProxyTypeOK
    <3>2. /\ IsFiniteSet(conns \union {x})
          /\ Cardinality(conns \union {x}) = Cardinality(conns) + 1
          /\ Cardinality(conns) \in Nat
      BY <3>1, FS_AddElement, FS_CardinalityType DEF TypeInv
    <3>3. IsFiniteSet(conns') /\ Cardinality(conns') <= MaxConnections
      BY <2>3, <3>2, EngineProxyAssumption DEF Connect
    <3>4. conns' = Holders'
      BY <2>3 DEF Connect, TypeInv, ProxyTypeOK, Labels, Holders
    <3>5. wire' \in [Calls -> 0..1] /\ pc' \in [Calls -> Labels]
      BY <2>3 DEF Connect, TypeInv, ProxyTypeOK, Labels
    <3>6. \A y \in Calls : pc'[y] \in {"new", "connect"} => wire'[y] = 0
      BY <2>3 DEF Connect, TypeInv, ProxyTypeOK
    <3> QED
      BY <2>3, <3>3, <3>4, <3>5, <3>6 DEF Connect, TypeInv, ProxyTypeOK, Holders
  <2>4. ASSUME NEW x \in Calls,
               \/ ConnectFails(x) \/ Lost(x) \/ TimedOut(x)
               \/ WriteTimesOut(x) \/ RefusalLost(x)
        PROVE  TypeInv'
    BY <2>4, FinishType
       DEF ConnectFails, Lost, TimedOut, WriteTimesOut, RefusalLost, Outcomes
  <2>5. ASSUME NEW x \in Calls, Respond(x) \/ RefuseStream(x) PROVE TypeInv'
    <3>1. /\ JsonVerdict(reply[x]) \in Outcomes
          /\ StreamVerdict(reply[x]) \in Outcomes
      BY DEF JsonVerdict, StreamVerdict, Outcomes, TypeInv, ProxyTypeOK
    <3> QED
      BY <2>5, <3>1, FinishType DEF Respond, RefuseStream
  <2>6. ASSUME NEW x \in Calls, StreamCancelled(x) \/ UpstreamEnds(x) PROVE TypeInv'
    BY <2>6, FinishType
       DEF StreamCancelled, UpstreamEnds, CloseStream, TypeInv, ProxyTypeOK
  <2>7. ASSUME NEW x \in Calls, StreamOpens(x) PROVE TypeInv'
    <3>1. conns' = Holders'
      BY <2>7 DEF StreamOpens, TypeInv, ProxyTypeOK, Labels, Holders
    <3> QED
      BY <2>7, <3>1
         DEF StreamOpens, TypeInv, ProxyTypeOK, Labels, Outcomes, Answers, Holders
  <2>8. ASSUME NEW x \in Calls, Leave(x) PROVE TypeInv'
    BY <2>8 DEF Leave, TypeInv, ProxyTypeOK
  <2>9. ASSUME NEW x \in Calls, NEW a \in Answers, EngineTakes(x, a) PROVE TypeInv'
    <3>1. wire' \in [Calls -> 0..1] /\ reply' \in [Calls -> Answers \union {"none"}]
      BY <2>9 DEF EngineTakes, TypeInv, ProxyTypeOK
    <3>2. \A y \in Calls : pc'[y] \in {"new", "connect"} => wire'[y] = 0
      BY <2>9 DEF EngineTakes, TypeInv, ProxyTypeOK
    <3>3. DOMAIN book' = Callers /\ \A c \in Callers : book'[c] \in 0..MaxCalls[c]
      BY <2>9, CallsArePairs, EngineProxyAssumption DEF EngineTakes, TypeInv, ProxyTypeOK
    <3> QED
      BY <2>9, <3>1, <3>2, <3>3 DEF EngineTakes, TypeInv, ProxyTypeOK
  <2>10. CASE GatewayDies
    <3>1. IsFiniteSet(conns') /\ Cardinality(conns') <= MaxConnections
      BY <2>10, FS_EmptySet, EngineProxyAssumption DEF GatewayDies
    <3>2. pc' \in [Calls -> Labels] /\ conns' = Holders'
      BY <2>10 DEF GatewayDies, Running, TypeInv, ProxyTypeOK, Labels, Holders
    <3>3. \A y \in Calls : pc'[y] \in {"new", "connect"} => wire'[y] = 0
      BY <2>10 DEF GatewayDies, Running, TypeInv, ProxyTypeOK
    <3> QED
      BY <2>10, <3>1, <3>2, <3>3 DEF GatewayDies, TypeInv, ProxyTypeOK, Holders
  <2> QED
    BY <2>1, <2>2, <2>3, <2>4, <2>5, <2>6, <2>7, <2>8, <2>9, <2>10
       DEF ProxyNext, Handle, Suffer
<1> QED
  BY <1>1, <1>2, PTL DEF ProxySpec

\* Every variable keeps its shape: the pool of the httpx client is never
\* overdrawn, every connection has a running call, and each call reaches the
\* engine at most once.
THEOREM ProxyTypeCorrect == ProxySpec => []ProxyTypeOK
<1>1. TypeInv => ProxyTypeOK
  BY DEF TypeInv
<1> QED
  BY <1>1, TypeInvariant, PTL

-----------------------------------------------------------------------------
(* What an order reflects.                                                 *)

Verdicts == {"ok", "refused4xx", "typed5xx"}

\* The owner of x will never hear its verdict.
Dead(x) == x \in left \/ (pc[x] = "done" /\ told[x] \notin Verdicts)

\* What is known of one call.  An answered request is off the wire; only a
\* finished call or an open stream has told its client anything; a command is
\* never streamed, only the execution engine takes any, and the verdict its
\* client hears is the engine's.
CallInv(x) ==
    /\ kind[x] \in Uses[x[1]] \union {"none"}
    /\ pc[x] = "new" => kind[x] = "none"
    /\ pc[x] \in {"new", "connect"} => reply[x] = "none"
    /\ reply[x] # "none" => wire[x] = 0
    /\ pc[x] \notin {"done", "streaming"} => told[x] = "none"
    /\ kind[x] = "command" =>
          /\ pc[x] \in {"connect", "await", "done"}
          /\ told[x] \in Verdicts => reply[x] = told[x]

\* A client starts a call when it has its answer to the earlier ones or has
\* given them up.
InTurn ==
    \A x, y \in Calls :
        pc[x] # "new" /\ y[1] = x[1] /\ y[2] < x[2] => pc[y] = "done" \/ y \in left

\* Whatever the order reflects was a command that the engine says it may have
\* applied, or whose owner will never hear of it.
Reflects(c) ==
    book[c] > 0 =>
        /\ kind[<<c, book[c]>>] = "command"
        /\ Dead(<<c, book[c]>>) \/ reply[<<c, book[c]>>] \in {"ok", "bare5xx", "garbage"}

\* A command the engine said it applied is undone by a later one, or by one
\* whose owner will never hear of it.
Kept(x) ==
    kind[x] = "command" /\ reply[x] = "ok" =>
        \/ book[x[1]] >= x[2]
        \/ book[x[1]] > 0 /\ Dead(<<x[1], book[x[1]]>>)

VerdictInv ==
    /\ \A x \in Calls : CallInv(x)
    /\ InTurn
    /\ \A c \in Callers : Reflects(c)
    /\ \A x \in Calls : Kept(x)

LEMMA VerdictIsTheEngines ==
    ASSUME Engine = "execution", NEW a \in Answers, JsonVerdict(a) \in Verdicts
    PROVE  JsonVerdict(a) = a
BY DEF JsonVerdict, Verdicts, Answers

LEMMA VerdictsAreOutcomes ==
    ASSUME NEW a \in Answers
    PROVE  JsonVerdict(a) \in Answers \union {"502"} /\ StreamVerdict(a) \in Answers \union {"502"}
BY DEF JsonVerdict, StreamVerdict

\* A step opens a call, connects it, ends it, opens its stream, is its
\* client's or the engine's, or is the gateway's death.
Ends(x, outcome) ==
    /\ Finish(x, outcome)
    /\ \/ pc[x] \in {"connect", "await", "refusal"} /\ outcome \in {"500", "503", "504"}
       \/ /\ pc[x] = "await"
          /\ kind[x] # "stream"
          /\ reply[x] # "none"
          /\ outcome = JsonVerdict(reply[x])
       \/ pc[x] = "refusal" /\ outcome = StreamVerdict(reply[x])
       \/ pc[x] = "streaming" /\ outcome = told[x]

LEMMA Steps ==
    ASSUME [ProxyNext]_proxyVars
    PROVE  \/ UNCHANGED proxyVars
           \/ \E x \in Calls :
                 \/ \E k \in Kinds : Call(x, k)
                 \/ Connect(x)
                 \/ \E outcome : Ends(x, outcome)
                 \/ StreamOpens(x)
                 \/ Leave(x)
                 \/ \E a \in Answers : EngineTakes(x, a)
           \/ GatewayDies
<1>1. ASSUME NEW x \in Calls, ConnectFails(x) PROVE \E outcome : Ends(x, outcome)
  BY <1>1 DEF ConnectFails, Ends
<1>2. ASSUME NEW x \in Calls,
             Lost(x) \/ RefusalLost(x) \/ TimedOut(x) \/ WriteTimesOut(x)
      PROVE  \E outcome : Ends(x, outcome)
  BY <1>2 DEF Lost, RefusalLost, TimedOut, WriteTimesOut, Ends
<1>3. ASSUME NEW x \in Calls, Respond(x) \/ RefuseStream(x)
      PROVE  \E outcome : Ends(x, outcome)
  BY <1>3 DEF Respond, RefuseStream, Ends
<1>4. ASSUME NEW x \in Calls, StreamCancelled(x) \/ UpstreamEnds(x)
      PROVE  \E outcome : Ends(x, outcome)
  BY <1>4 DEF StreamCancelled, UpstreamEnds, CloseStream, Ends
<1> QED
  BY <1>1, <1>2, <1>3, <1>4 DEF ProxyNext, Handle, Suffer

\* Whoever will never hear a verdict never does.
LEMMA DeadForGood ==
    ASSUME TypeInv, [ProxyNext]_proxyVars, NEW x \in Calls, Dead(x)
    PROVE  Dead(x)'
<1> USE DEF TypeInv, ProxyTypeOK, Dead
<1>1. CASE UNCHANGED proxyVars
  BY <1>1 DEF proxyVars
<1>2. ASSUME NEW y \in Calls, NEW k \in Kinds, Call(y, k) PROVE Dead(x)'
  BY <1>2 DEF Call
<1>3. ASSUME NEW y \in Calls, Connect(y) PROVE Dead(x)'
  BY <1>3 DEF Connect
<1>4. ASSUME NEW y \in Calls, NEW outcome, Ends(y, outcome) PROVE Dead(x)'
  BY <1>4 DEF Ends, Finish
<1>5. ASSUME NEW y \in Calls, StreamOpens(y) PROVE Dead(x)'
  BY <1>5 DEF StreamOpens
<1>6. ASSUME NEW y \in Calls, Leave(y) PROVE Dead(x)'
  BY <1>6 DEF Leave
<1>7. ASSUME NEW y \in Calls, NEW a \in Answers, EngineTakes(y, a) PROVE Dead(x)'
  BY <1>7 DEF EngineTakes
<1>8. CASE GatewayDies
  BY <1>8 DEF GatewayDies, Running
<1> QED
  BY Steps, <1>1, <1>2, <1>3, <1>4, <1>5, <1>6, <1>7, <1>8

LEMMA CallStep ==
    ASSUME TypeInv, VerdictInv, [ProxyNext]_proxyVars, NEW x \in Calls
    PROVE  CallInv(x)'
<1>0. CallInv(x)
  BY DEF VerdictInv
<1>1. /\ x[1] \in Callers
      /\ kind[x] = "command" => Engine = "execution"
  BY <1>0, CallsArePairs, EngineProxyAssumption DEF CallInv
<1> USE DEF TypeInv, ProxyTypeOK, CallInv
<1>2. CASE UNCHANGED proxyVars
  BY <1>0, <1>2 DEF proxyVars
<1>3. ASSUME NEW y \in Calls, NEW k \in Kinds, Call(y, k) PROVE CallInv(x)'
  BY <1>0, <1>3 DEF Call, Verdicts
<1>4. ASSUME NEW y \in Calls, Connect(y) PROVE CallInv(x)'
  BY <1>0, <1>4 DEF Connect
<1>5. ASSUME NEW y \in Calls, NEW outcome, Ends(y, outcome) PROVE CallInv(x)'
  <2>1. CASE y # x
    BY <1>0, <1>5, <2>1 DEF Ends, Finish
  <2>2. CASE y = x /\ kind[x] = "command"
    <3>1. \/ outcome \in {"500", "503", "504"}
          \/ reply[x] # "none" /\ outcome = JsonVerdict(reply[x])
      BY <1>0, <1>5, <2>2 DEF Ends
    <3>2. told'[x] \in Verdicts => reply'[x] = told'[x]
      BY <1>1, <1>5, <2>2, <3>1, VerdictIsTheEngines DEF Ends, Finish, Verdicts
    <3> QED
      BY <1>0, <1>5, <2>2, <3>2 DEF Ends, Finish
  <2>3. CASE y = x /\ kind[x] # "command"
    BY <1>0, <1>5, <2>3 DEF Ends, Finish
  <2> QED
    BY <2>1, <2>2, <2>3
<1>6. ASSUME NEW y \in Calls, StreamOpens(y) PROVE CallInv(x)'
  BY <1>0, <1>6 DEF StreamOpens
<1>7. ASSUME NEW y \in Calls, Leave(y) PROVE CallInv(x)'
  BY <1>0, <1>7 DEF Leave
<1>8. ASSUME NEW y \in Calls, NEW a \in Answers, EngineTakes(y, a) PROVE CallInv(x)'
  BY <1>0, <1>8 DEF EngineTakes, Verdicts, Labels
<1>9. CASE GatewayDies
  BY <1>0, <1>9 DEF GatewayDies, Running, Labels, Verdicts
<1> QED
  BY Steps, <1>2, <1>3, <1>4, <1>5, <1>6, <1>7, <1>8, <1>9

LEMMA InTurnStep ==
    ASSUME TypeInv, InTurn, [ProxyNext]_proxyVars
    PROVE  InTurn'
<1> USE DEF TypeInv, ProxyTypeOK
<1> SUFFICES ASSUME NEW x \in Calls, NEW y \in Calls,
                    pc'[x] # "new", y[1] = x[1], y[2] < x[2]
             PROVE  pc'[y] = "done" \/ y \in left'
  BY DEF InTurn
<1>1. pc[y] = "done" => pc'[y] = "done"
  BY Steps DEF proxyVars, Call, Connect, Ends, Finish, StreamOpens, Leave, EngineTakes,
               GatewayDies, Running
<1>2. y \in left => y \in left'
  BY Steps DEF proxyVars, Call, Connect, Ends, Finish, StreamOpens, Leave, EngineTakes,
               GatewayDies
<1>3. CASE pc[x] # "new"
  BY <1>1, <1>2, <1>3 DEF InTurn
<1>4. CASE pc[x] = "new"
  <2>1. MayStart(x)
    BY <1>4, Steps DEF proxyVars, Call, Connect, Ends, Finish, StreamOpens, Leave,
                       EngineTakes, GatewayDies, Running
  <2> QED
    BY <1>1, <1>2, <2>1 DEF MayStart, Earlier
<1> QED
  BY <1>3, <1>4

\* The two facts about the order, for a step that leaves it alone.
LEMMA OrderUntouched ==
    ASSUME TypeInv, VerdictInv, [ProxyNext]_proxyVars, UNCHANGED book,
           \A x \in Calls :
              /\ kind[x] # "none" => kind'[x] = kind[x]
              /\ kind'[x] = "command" /\ reply'[x] = "ok" => kind[x] = "command" /\ reply[x] = "ok"
              /\ reply[x] # "none" => reply'[x] = reply[x]
    PROVE  (\A c \in Callers : Reflects(c)') /\ (\A x \in Calls : Kept(x)')
<1>1. ASSUME NEW c \in Callers, book[c] > 0 PROVE <<c, book[c]>> \in Calls
  BY <1>1, EngineProxyAssumption DEF TypeInv, ProxyTypeOK, Calls
<1>2. ASSUME NEW c \in Callers PROVE Reflects(c)'
  BY <1>1, <1>2, DeadForGood DEF VerdictInv, Reflects
<1>3. ASSUME NEW x \in Calls PROVE Kept(x)'
  BY <1>1, <1>3, DeadForGood, CallsArePairs DEF VerdictInv, Kept
<1> QED
  BY <1>2, <1>3

\* The engine gets to a request, of its caller's running call or of one given
\* up long ago.
LEMMA TakenStep ==
    ASSUME TypeInv, VerdictInv, NEW z \in Calls, NEW a \in Answers, EngineTakes(z, a)
    PROVE  (\A c \in Callers : Reflects(c)') /\ (\A x \in Calls : Kept(x)')
<1> USE DEF TypeInv, ProxyTypeOK
<1>0. [ProxyNext]_proxyVars
  BY DEF ProxyNext
<1>1. reply[z] = "none" /\ pc[z] \notin {"new", "connect"} /\ CallInv(z)
  BY DEF EngineTakes, VerdictInv, CallInv
<1>2. CASE UNCHANGED book /\ (kind[z] = "command" => a # "ok")
  BY <1>0, <1>1, <1>2, OrderUntouched DEF EngineTakes
<1>3. CASE /\ kind[z] = "command"
           /\ a \in {"ok", "bare5xx", "garbage"}
           /\ book' = [book EXCEPT ![z[1]] = z[2]]
  <2>1. z[1] \in Callers /\ z[2] > 0 /\ z = <<z[1], z[2]>>
    BY CallsArePairs, EngineProxyAssumption
  <2>2. pc[z] = "await" \/ Dead(z)
    BY <1>1, <1>3 DEF CallInv, Dead, Verdicts
  <2>3. Dead(z)' \/ reply'[z] = a
    BY <1>0, <1>1, <2>2, DeadForGood DEF EngineTakes
  <2>4. book'[z[1]] = z[2] /\ \A c \in Callers \ {z[1]} : book'[c] = book[c]
    BY <1>3, <2>1
  <2>5. ASSUME NEW c \in Callers, book[c] > 0 PROVE <<c, book[c]>> \in Calls
    BY <2>5, EngineProxyAssumption DEF Calls
  <2>6. ASSUME NEW c \in Callers PROVE Reflects(c)'
    <3>1. CASE c = z[1]
      BY <1>3, <2>1, <2>3, <2>4, <3>1 DEF Reflects, EngineTakes
    <3>2. CASE c # z[1]
      BY <1>0, <2>4, <2>5, <3>2, DeadForGood DEF VerdictInv, Reflects, EngineTakes
    <3> QED
      BY <3>1, <3>2
  <2>7. ASSUME NEW x \in Calls PROVE Kept(x)'
    <3>0. x[1] \in Callers /\ x[2] \in Nat /\ x = <<x[1], x[2]>> /\ z[2] \in Nat
      BY CallsArePairs, EngineProxyAssumption
    <3>1. CASE x[1] # z[1]
      <4>1. kind'[x] = kind[x] /\ reply'[x] = reply[x] /\ book'[x[1]] = book[x[1]]
        BY <2>4, <3>0, <3>1 DEF EngineTakes
      <4>2. book[x[1]] > 0 /\ Dead(<<x[1], book[x[1]]>>) => Dead(<<x[1], book[x[1]]>>)'
        BY <1>0, <2>5, <3>0, <4>1, DeadForGood DEF Dead
      <4> QED
        BY <4>1, <4>2 DEF VerdictInv, Kept
    <3>2. CASE x[1] = z[1] /\ x[2] <= z[2]
      BY <2>4, <3>0, <3>2 DEF Kept
    <3>3. CASE x[1] = z[1] /\ z[2] < x[2]
      <4>1. SUFFICES ASSUME reply'[x] = "ok" PROVE Dead(z)'
        BY <2>1, <2>4, <3>3 DEF Kept
      <4>2. pc[x] # "new"
        BY <3>3, <4>1 DEF EngineTakes, VerdictInv, CallInv
      <4>3. pc[z] = "done" \/ z \in left
        BY <3>3, <4>2 DEF VerdictInv, InTurn
      <4>4. Dead(z)
        BY <2>2, <4>3 DEF Dead
      <4> QED
        BY <1>0, <4>4, DeadForGood
    <3> QED
      BY <3>0, <3>1, <3>2, <3>3
  <2> QED
    BY <2>6, <2>7
<1> QED
  BY <1>2, <1>3 DEF EngineTakes

LEMMA VerdictInvariant == ProxySpec => [](TypeInv /\ VerdictInv)
<1>1. ProxyInit => VerdictInv
  BY CallsArePairs
     DEF ProxyInit, VerdictInv, CallInv, InTurn, Reflects, Kept, Verdicts
<1>2. TypeInv /\ VerdictInv /\ [ProxyNext]_proxyVars => VerdictInv'
  <2> SUFFICES ASSUME TypeInv, VerdictInv, [ProxyNext]_proxyVars PROVE VerdictInv'
    OBVIOUS
  <2>1. \A x \in Calls : CallInv(x)'
    BY CallStep
  <2>2. InTurn'
    BY InTurnStep DEF VerdictInv
  <2>3. (\A c \in Callers : Reflects(c)') /\ (\A x \in Calls : Kept(x)')
    <3> USE DEF TypeInv, ProxyTypeOK
    <3>0. \A x \in Calls : CallInv(x)
      BY DEF VerdictInv
    <3>1. CASE UNCHANGED proxyVars
      BY <3>1, OrderUntouched DEF proxyVars
    <3>2. ASSUME NEW y \in Calls, NEW a \in Answers, EngineTakes(y, a)
          PROVE  (\A c \in Callers : Reflects(c)') /\ (\A x \in Calls : Kept(x)')
      BY <3>2, TakenStep
    <3>3. ASSUME NEW y \in Calls, NEW k \in Kinds, Call(y, k)
          PROVE  (\A c \in Callers : Reflects(c)') /\ (\A x \in Calls : Kept(x)')
      <4>1. kind[y] = "none" /\ reply[y] = "none"
        BY <3>0, <3>3 DEF Call, CallInv
      <4> QED
        BY <3>3, <4>1, OrderUntouched DEF Call
    <3>4. ASSUME NEW y \in Calls,
                 \/ Connect(y) \/ StreamOpens(y) \/ Leave(y)
                 \/ \E outcome : Ends(y, outcome)
          PROVE  (\A c \in Callers : Reflects(c)') /\ (\A x \in Calls : Kept(x)')
      BY <3>4, OrderUntouched DEF Connect, StreamOpens, Leave, Ends, Finish
    <3>5. CASE GatewayDies
      BY <3>5, OrderUntouched DEF GatewayDies
    <3> QED
      BY Steps, <3>1, <3>2, <3>3, <3>4, <3>5
  <2> QED
    BY <2>1, <2>2, <2>3 DEF VerdictInv
<1> QED
  BY <1>1, <1>2, TypeInvariant, PTL DEF ProxySpec

LEMMA MaxIs ==
    ASSUME NEW S, NEW n \in S, S \subseteq Int, \A m \in S : m <= n
    PROVE  Max(S) = n
<1>1. n >= n /\ \A m \in S : n >= m
  OBVIOUS
<1>2. Max(S) \in S /\ \A m \in S : Max(S) >= m
  BY <1>1 DEF Max
<1>3. n \in Int /\ Max(S) \in Int /\ Max(S) >= n /\ n >= Max(S)
  BY <1>1, <1>2
<1> QED
  BY <1>3

\* The property of the gateway's command path: an order reflects the last
\* command its owner was told is done, or one whose fate it was never told;
\* never a refused one, never an older one that came back.
THEOREM VerdictsHold == ProxySpec => []LastVerdictHolds
<1>1. TypeInv /\ VerdictInv => LastVerdictHolds
  <2> SUFFICES ASSUME TypeInv, VerdictInv, NEW c \in Callers,
                      book[c] \notin Unheard(c)
               PROVE  book[c] = Max(Acked(c) \union {0})
    BY DEF LastVerdictHolds
  <2> DEFINE n == book[c]
  <2>1. n \in 0..MaxCalls[c] /\ MaxCalls[c] \in Nat
    BY EngineProxyAssumption DEF TypeInv, ProxyTypeOK
  <2>2. n > 0 => n \in Commands(c) /\ Heard(<<c, n>>) /\ ~Dead(<<c, n>>)
    BY <2>1 DEF VerdictInv, Reflects, Commands, Unheard, Heard, Dead, Verdicts
  <2>3. \A m \in Acked(c) : /\ m \in 1..MaxCalls[c]
                            /\ <<c, m>> \in Calls
                            /\ kind[<<c, m>>] = "command"
                            /\ reply[<<c, m>>] = "ok"
    BY DEF Acked, Commands, Heard, Calls, VerdictInv, CallInv, Verdicts
  <2>4. \A m \in Acked(c) : m <= n
    BY <2>1, <2>2, <2>3 DEF VerdictInv, Kept
  <2>5. n > 0 => n \in Acked(c)
    BY <2>1, <2>2 DEF Acked, Heard, Calls, VerdictInv, Reflects, CallInv, Verdicts
  <2>6. n \in Acked(c) \union {0}
    BY <2>1, <2>5
  <2>7. Acked(c) \union {0} \subseteq Int
    <3>1. \A m \in 1..MaxCalls[c] : m \in Int
      OBVIOUS
    <3> QED
      BY <3>1 DEF Acked, Commands
  <2> HIDE DEF n
  <2> QED
    BY <2>1, <2>4, <2>6, <2>7, MaxIs DEF n
<1> QED
  BY <1>1, VerdictInvariant, PTL

-----------------------------------------------------------------------------
(* One verdict for one answer.                                             *)

Failures == {"none", "500", "503", "504"}

\* Whoever was told something else than a failure was told the verdict of the
\* JSON path, also where the stream path told it.
Judged(x) ==
    /\ pc[x] = "refusal" => reply[x] # "none"
    /\ told[x] \notin Failures => reply[x] # "none" /\ told[x] = JsonVerdict(reply[x])

LEMMA VerdictsAgree ==
    ASSUME Engine = "execution", NEW a \in Answers
    PROVE  /\ StreamVerdict(a) = JsonVerdict(a)
           /\ JsonVerdict("ok") = "ok"
BY DEF StreamVerdict, JsonVerdict, Answers

\* In the execution proxy a client hears the same of an answer whichever way it
\* asked ("so the two paths cannot drift again"); the siblings break this, which
\* a run shows.
THEOREM PathsAgreed ==
    ASSUME Engine = "execution"
    PROVE  ProxySpec => []PathsAgree
<1>1. ProxyInit => \A x \in Calls : Judged(x)
  BY DEF ProxyInit, Judged, Failures
<1>2. /\ TypeInv /\ (\A x \in Calls : Judged(x))
      /\ [ProxyNext]_proxyVars
      => (\A x \in Calls : Judged(x))'
  <2> SUFFICES ASSUME TypeInv, NEW x \in Calls, Judged(x), [ProxyNext]_proxyVars
               PROVE  Judged(x)'
    OBVIOUS
  <2> USE DEF TypeInv, ProxyTypeOK, Judged
  <2>1. CASE UNCHANGED proxyVars
    BY <2>1 DEF proxyVars
  <2>2. ASSUME NEW y \in Calls,
               \/ \E k \in Kinds : Call(y, k)
               \/ Connect(y) \/ Leave(y)
               \/ \E a \in Answers : EngineTakes(y, a)
        PROVE  Judged(x)'
    BY <2>2 DEF Call, Connect, Leave, EngineTakes
  <2>3. ASSUME NEW y \in Calls, NEW outcome, Ends(y, outcome) PROVE Judged(x)'
    <3>1. CASE y # x
      BY <2>3, <3>1 DEF Ends, Finish
    <3>2. CASE y = x
      <4>1. pc'[x] = "done" /\ told'[x] = outcome /\ reply' = reply
        BY <2>3, <3>2 DEF Ends, Finish
      <4>2. CASE outcome \in Failures
        BY <4>1, <4>2
      <4>3. CASE outcome \notin Failures
        <5>1. \/ reply[x] # "none" /\ outcome = JsonVerdict(reply[x])
              \/ reply[x] # "none" /\ outcome = StreamVerdict(reply[x])
              \/ outcome = told[x]
          BY <2>3, <3>2, <4>3 DEF Ends, Failures
        <5> QED
          BY <4>1, <4>3, <5>1, VerdictsAgree
      <4> QED
        BY <4>2, <4>3
    <3> QED
      BY <3>1, <3>2
  <2>4. ASSUME NEW y \in Calls, StreamOpens(y) PROVE Judged(x)'
    BY <2>4, VerdictsAgree DEF StreamOpens, Failures, Answers
  <2>5. CASE GatewayDies
    BY <2>5 DEF GatewayDies, Running
  <2> QED
    BY Steps, <2>1, <2>2, <2>3, <2>4, <2>5
<1>3. (\A x \in Calls : Judged(x)) => PathsAgree
  BY DEF Judged, PathsAgree, Answered, Failures
<1> QED
  BY <1>1, <1>2, <1>3, TypeInvariant, PTL DEF ProxySpec
=============================================================================
