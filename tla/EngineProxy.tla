----------------------------- MODULE EngineProxy -----------------------------
(***************************************************************************)
(* The reverse proxies of /api/v2/engines: api/v2/engines/execution.py and *)
(* its read-only siblings.  A call goes to the engine over one of a bounded *)
(* number of upstream connections; the engine may answer, refuse, fail or  *)
(* hang, the connection may break, the gateway may stop waiting, and the   *)
(* client may leave first.  A command is a POST, PATCH or DELETE of the    *)
(* caller's order, whose state in the engine is the number of the command  *)
(* it last applied; reads and streams leave it alone.                      *)
(***************************************************************************)
EXTENDS Integers, FiniteSets, FiniteSetsExt

CONSTANTS
    Callers,        \* clients, each with an order of its own
    MaxCalls,       \* MaxCalls[c]: how many calls client c makes (bound for TLC)
    Uses,           \* Uses[c]: the kinds of call client c makes
    MaxConnections, \* connections of the httpx client
    Engine          \* "execution", or a sibling that proxies reads only

Kinds == {"command", "read", "stream"}

\* How an engine answers: 2xx, a 4xx, a 5xx with the typed envelope, a 5xx
\* without one, a body that is not JSON.
Answers == {"ok", "refused4xx", "typed5xx", "bare5xx", "garbage"}

\* What the client is told: the engine's own answer, or the gateway's.
Outcomes == {"none"} \union Answers \union {"500", "502", "503", "504"}

ASSUME EngineProxyAssumption ==
    /\ MaxCalls \in [Callers -> Nat]
    /\ MaxConnections \in Nat \ {0}
    /\ Uses \in [Callers -> SUBSET Kinds]
    /\ Engine = "execution" \/ \A c \in Callers : "command" \notin Uses[c]

VARIABLES
    pc,     \* where the handler of each call is
    kind,   \* what it asks
    wire,   \* copies of its request the engine has not looked at yet
    reply,  \* the engine's answer to it
    conns,  \* the calls that hold an upstream connection
    told,   \* the status its client was answered
    left,   \* the calls whose client is gone
    book    \* per caller, the command its order reflects (0: none)

proxyVars == <<pc, kind, wire, reply, conns, told, left, book>>

Calls == UNION {{c} \X (1..MaxCalls[c]) : c \in Callers}
Labels == {"new", "connect", "await", "refusal", "streaming", "done"}

ProxyInit ==
    /\ pc = [x \in Calls |-> "new"]
    /\ kind = [x \in Calls |-> "none"]
    /\ wire = [x \in Calls |-> 0]
    /\ reply = [x \in Calls |-> "none"]
    /\ conns = {}
    /\ told = [x \in Calls |-> "none"]
    /\ left = {}
    /\ book = [c \in Callers |-> 0]

-----------------------------------------------------------------------------
(* What an answer of the engine becomes.                                   *)

\* Slip: every 5xx is collapsed on the JSON path (TK-0451).
CollapsedVerdict(a) == IF a \in {"typed5xx", "bare5xx", "garbage"} THEN "502" ELSE a

\* _proxy: only the execution proxy lets the typed 5xx through.
JsonVerdict(a) ==
    CASE a \in {"bare5xx", "garbage"}                  -> "502"
      [] a = "typed5xx" /\ Engine # "execution"        -> "502"
      [] OTHER                                         -> a

\* The refusal branch of _proxy_sse: the siblings forward any JSON body.
StreamVerdict(a) ==
    CASE a = "garbage"                                 -> "502"
      [] a = "bare5xx" /\ Engine = "execution"         -> "502"
      [] OTHER                                         -> a

-----------------------------------------------------------------------------
Running(x) == pc[x] \notin {"new", "done"}

\* A client makes its calls one after the other; it may give one up.
Earlier(x) == {y \in Calls : y[1] = x[1] /\ y[2] < x[2]}
MayStart(x) == \A y \in Earlier(x) : pc[y] = "done" \/ y \in left

Call(x, k) ==
    /\ pc[x] = "new"
    /\ MayStart(x)
    /\ k \in Uses[x[1]]
    /\ pc' = [pc EXCEPT ![x] = "connect"]
    /\ kind' = [kind EXCEPT ![x] = k]
    /\ UNCHANGED <<wire, reply, conns, told, left, book>>

\* Slip: httpx.Limits(max_connections=None).
ConnectUnlimited(x) ==
    /\ pc[x] = "connect"
    /\ conns' = conns \union {x}
    /\ wire' = [wire EXCEPT ![x] = @ + 1]
    /\ pc' = [pc EXCEPT ![x] = "await"]
    /\ UNCHANGED <<kind, reply, told, left, book>>

\* A free connection of the pool; the request goes out.
Connect(x) ==
    /\ pc[x] = "connect"
    /\ Cardinality(conns) < MaxConnections
    /\ conns' = conns \union {x}
    /\ wire' = [wire EXCEPT ![x] = @ + 1]
    /\ pc' = [pc EXCEPT ![x] = "await"]
    /\ UNCHANGED <<kind, reply, told, left, book>>

\* The handler returns and its connection, if any, goes back or is closed.
Finish(x, outcome) ==
    /\ pc' = [pc EXCEPT ![x] = "done"]
    /\ told' = [told EXCEPT ![x] = outcome]
    /\ conns' = conns \ {x}
    /\ UNCHANGED <<kind, wire, reply, left, book>>

\* PoolTimeout, ConnectTimeout: 504.  ConnectError: 503.
ConnectFails(x) ==
    /\ pc[x] = "connect"
    /\ \E outcome \in {"503", "504"} : Finish(x, outcome)

\* The connection breaks while the handler waits for the answer.
Lost(x) ==
    /\ pc[x] = "await"
    /\ Finish(x, "503")

\* Slip: read=None for every call, so that only the wait for a connection is
\* limited.
TimedOutConnecting(x) ==
    /\ pc[x] = "connect"
    /\ kind[x] # "stream"
    /\ Finish(x, "504")

\* Slip: a call that timed out is sent again.
TimedOutAndRetried(x) ==
    /\ pc[x] = "await"
    /\ kind[x] # "stream"
    /\ wire[x] = 1
    /\ wire' = [wire EXCEPT ![x] = 2]
    /\ UNCHANGED <<pc, kind, reply, conns, told, left, book>>

\* A stream waits for its headers without a limit (read=None).
TimedOut(x) ==
    /\ pc[x] = "await"
    /\ kind[x] # "stream"
    /\ Finish(x, "504")

\* The one timeout left to a stream that is connected: its request cannot be
\* written.  Once it is written nothing ends the wait, so nothing is owed.
WriteTimesOut(x) ==
    /\ pc[x] = "await"
    /\ kind[x] = "stream"
    /\ reply[x] = "none"
    /\ wire[x] > 0
    /\ Finish(x, "504")

Respond(x) ==
    /\ pc[x] = "await"
    /\ kind[x] # "stream"
    /\ reply[x] # "none"
    /\ Finish(x, JsonVerdict(reply[x]))

\* The headers of a stream: 200 is passed on and the body follows.
StreamOpens(x) ==
    /\ pc[x] = "await"
    /\ kind[x] = "stream"
    /\ reply[x] # "none"
    /\ IF reply[x] = "ok"
       THEN /\ pc' = [pc EXCEPT ![x] = "streaming"]
            /\ told' = [told EXCEPT ![x] = "ok"]
       ELSE /\ pc' = [pc EXCEPT ![x] = "refusal"]
            /\ UNCHANGED told
    /\ UNCHANGED <<kind, wire, reply, conns, left, book>>

\* Anything else is read to its end, without a limit, and closed.
RefuseStream(x) ==
    /\ pc[x] = "refusal"
    /\ Finish(x, StreamVerdict(reply[x]))

\* aread() fails outside any try.
RefusalLost(x) ==
    /\ pc[x] = "refusal"
    /\ Finish(x, "500")

\* Slip: the generator without its `finally`.
StreamEndsUnclosed(x) ==
    /\ pc[x] = "streaming"
    /\ pc' = [pc EXCEPT ![x] = "done"]
    /\ UNCHANGED <<kind, wire, reply, conns, told, left, book>>

\* The generator is cancelled, or runs out; its `finally` closes the response.
CloseStream(x) ==
    /\ pc[x] = "streaming"
    /\ Finish(x, told[x])

StreamCancelled(x) == x \in left /\ CloseStream(x)
UpstreamEnds(x) == CloseStream(x)

Leave(x) ==
    /\ Running(x)
    /\ x \notin left
    /\ left' = left \union {x}
    /\ UNCHANGED <<pc, kind, wire, reply, conns, told, book>>

-----------------------------------------------------------------------------
(* The engine, and the gateway's own death.                                *)

\* It applies what it says it did, does not apply what it refuses, and may
\* have done either when it fails.  It may also never get to a request.
EngineTakes(x, a) ==
    /\ wire[x] > 0
    /\ wire' = [wire EXCEPT ![x] = @ - 1]
    /\ reply' = [reply EXCEPT ![x] = IF pc[x] = "await" /\ @ = "none" THEN a ELSE @]
    /\ \/ /\ kind[x] = "command"
          /\ a \in {"ok", "bare5xx", "garbage"}
          /\ book' = [book EXCEPT ![x[1]] = x[2]]
       \/ /\ kind[x] = "command" => a # "ok"
          /\ UNCHANGED book
    /\ UNCHANGED <<pc, kind, conns, told, left>>

GatewayDies ==
    /\ \E x \in Calls : Running(x)
    /\ pc' = [x \in Calls |-> IF Running(x) THEN "done" ELSE pc[x]]
    /\ left' = left \union {x \in Calls : Running(x)}
    /\ conns' = {}
    /\ UNCHANGED <<kind, wire, reply, told, book>>

\* One step of the handler of x that needs nobody's leave.
Handle(x) ==
    \/ Connect(x) \/ TimedOut(x) \/ Respond(x)
    \/ StreamOpens(x) \/ StreamCancelled(x)

\* One that the network or the engine allows, or forces on it: a handler that
\* waits for the body of a refusal may wait for ever.
Suffer(x) ==
    \/ ConnectFails(x) \/ Lost(x) \/ WriteTimesOut(x)
    \/ RefuseStream(x) \/ RefusalLost(x) \/ UpstreamEnds(x)

ProxyNext ==
    \/ \E x \in Calls :
          \/ \E k \in Kinds : Call(x, k)
          \/ Handle(x) \/ Suffer(x)
          \/ Leave(x)
          \/ \E a \in Answers : EngineTakes(x, a)
    \/ GatewayDies

ProxySpec == ProxyInit /\ [][ProxyNext]_proxyVars

\* The event loop runs what is ready and httpx keeps its timeouts: whoever
\* waits for a connection gets one or a PoolTimeout.  The engine owes nothing.
ProxyFairSpec ==
    /\ ProxySpec
    /\ \A x \in Calls : WF_proxyVars(Handle(x)) /\ WF_proxyVars(ConnectFails(x))

-----------------------------------------------------------------------------
(* Properties.                                                             *)

\* The shape of every variable; no finished call holds a connection, and the
\* pool is never overdrawn.
ProxyTypeOK ==
    /\ pc \in [Calls -> Labels]
    /\ kind \in [Calls -> Kinds \union {"none"}]
    /\ wire \in [Calls -> 0..1]
    /\ reply \in [Calls -> Answers \union {"none"}]
    /\ told \in [Calls -> Outcomes]
    /\ left \subseteq Calls
    /\ conns = {x \in Calls : pc[x] \in {"await", "refusal", "streaming"}}
    /\ Cardinality(conns) <= MaxConnections
    /\ \A c \in Callers : book[c] \in 0..MaxCalls[c]

Commands(c) == {n \in 1..MaxCalls[c] : kind[<<c, n>>] = "command"}

\* The client heard the engine's own yes or no.
Heard(x) == x \notin left /\ told[x] \in {"ok", "refused4xx", "typed5xx"}
Acked(c) == {n \in Commands(c) : Heard(<<c, n>>) /\ told[<<c, n>>] = "ok"}
Unheard(c) == {n \in Commands(c) : ~Heard(<<c, n>>)}

\* An order reflects the last command its owner was told is done, or one whose
\* fate the owner was never told; never a refused one, never an earlier
\* acknowledged one that came back (the gateway sends each command once and
\* maps only transport failures and engine faults to 502/503/504).
LastVerdictHolds ==
    \A c \in Callers : book[c] \in {Max(Acked(c) \union {0})} \union Unheard(c)

\* The call ended with an answer of the engine, not in a transport failure.
Answered(x) == pc[x] \in {"streaming", "done"} /\ told[x] \notin {"none", "500", "503", "504"}

\* The JSON path and the stream path tell their clients the same of the same
\* answer ("so the two paths cannot drift again").
PathsAgree ==
    \A x, y \in Calls :
        Answered(x) /\ Answered(y) /\ reply[x] = reply[y] => told[x] = told[y]

\* Every call that is not a stream is answered, also when the engine hangs and
\* when streams hold every connection.
CallsEnd ==
    \A x \in Calls :
        pc[x] \in {"connect", "await"} /\ kind[x] # "stream" ~> pc[x] = "done"

\* A stream whose client is gone gives its connection back ("A client
\* disconnect cancels the generator, whose finally closes the upstream
\* response").
StreamsAreClosed ==
    \A x \in Calls : pc[x] = "streaming" /\ x \in left ~> x \notin conns
=============================================================================
