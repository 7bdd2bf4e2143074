------------------------------ MODULE Discovery -------------------------------
(***************************************************************************)
(* WS-Discovery beside the services: internal/simulator/discovery.go and   *)
(* internal/onvif/wsdiscovery.                                             *)
(*                                                                         *)
(* Start runs a goroutine that says Hello and then listens for Probes on   *)
(* the multicast group; Stop says Bye, cancels it and waits for it.  Both  *)
(* look at the discovery mode and the scopes in the configuration that the *)
(* services (Services) edit and reload meanwhile, and they look twice: to  *)
(* see whether to speak at all, and for what to say.                       *)
(***************************************************************************)
EXTENDS Services

CONSTANTS
    Probes,        \* the datagrams that may arrive
    Types,         \* the types of the device
    Authority,     \* Authority[i]: scheme and host of scope i
    Path,          \* Path[i]: the segments of its path
    Dots           \* the segments "." and ".."

\* ParseProbe: `valid` says that it is a Probe with an id, addressed as it should be.
Probe ==
    [valid : BOOLEAN, types : SUBSET STRING, scopes : SUBSET Items,
     rule : {"rfc", "strcmp0", "other"}]

ASSUME DiscoveryAssumption ==
    /\ Probes \subseteq Probe
    /\ Types \subseteq STRING
    /\ DOMAIN Authority = Items
    /\ DOMAIN Path = Items
    /\ \A i \in Items : Path[i] \in Seq(STRING)
    /\ Dots \subseteq STRING

VARIABLES
    listener,   \* where the goroutine of runDiscovery stands
    cancelled,  \* its context is cancelled
    probe,      \* the datagram it is handling, or None
    stopper,    \* where Stop stands
    number,     \* msgNumberSeq
    sent,       \* datagrams sent
    seen        \* history: senders that may have seen the device discoverable

network == <<listener, cancelled, probe, stopper, number, sent>>
vars == <<services, network, seen>>

Senders == {"listener", "stopper"}
Discoverable(c) == c.section["DiscoveryMode"] = {}
Scopes == mem.section["Scopes"]

\* Who begins to look now, and who has been looking while the configuration changed.
Watch(new) ==
    seen' = [x \in Senders |-> Discoverable(mem') \/ (x \notin new /\ seen[x])]

-----------------------------------------------------------------------------
(* Does a Probe target the device? *)

\* typesMatch: every type asked for must be one of the device's.
TypesMatch(p) == p.types \subseteq Types

\* pathSegments gives up on a path with dots in it.
Segments(i) ==
    IF \E n \in DOMAIN Path[i] : Path[i][n] \in Dots THEN <<>> ELSE Path[i]
\* prefixSegments, scopePathPrefixMatch
IsPrefixOf(s, t) == Len(s) <= Len(t) /\ \A n \in DOMAIN s : s[n] = t[n]
PathMatch(i, j) == Authority[i] = Authority[j] /\ IsPrefixOf(Segments(i), Segments(j))

\* scopePairMatches: a rule that is not known matches nothing.
ScopeMatch(i, j, rule) ==
    CASE rule = "rfc" -> PathMatch(i, j)
      [] rule = "strcmp0" -> i = j
      [] rule = "other" -> FALSE
\* scopesMatch
ScopesMatch(p, scopes) == \A i \in p.scopes : \E j \in scopes : ScopeMatch(i, j, p.rule)

\* ProbeMatches
ProbeMatches(p, scopes) == TypesMatch(p) /\ ScopesMatch(p, scopes)

-----------------------------------------------------------------------------
(* The goroutine of runDiscovery *)

Listens(label) == listener = label
Becomes(label) == listener' = label
Send == sent' = sent + 1
NextMessageNumber == number' = number + 1

\* sendHelloMulticast: nothing, when the device is hidden.
MutHello ==
    /\ Listens("hello")
    /\ Becomes("greet")
    /\ UNCHANGED <<services, cancelled, probe, stopper, number, sent, seen>>

Hello ==
    /\ Listens("hello")
    /\ Becomes(IF Discoverable(mem) THEN "greet" ELSE "bind")
    /\ UNCHANGED <<services, cancelled, probe, stopper, number, sent, seen>>

\* buildHelloParams, MarshalHello, SendMulticast; a datagram that cannot be sent is dropped.
Greet ==
    /\ Listens("greet")
    /\ Becomes("bind")
    /\ NextMessageNumber
    /\ Send \/ UNCHANGED sent
    /\ UNCHANGED <<services, cancelled, probe, stopper, seen>>

\* ListenMulticast: when the group cannot be joined, the goroutine ends.
Bind ==
    /\ Listens("bind")
    /\ Becomes("loop") \/ Becomes("off")
    /\ UNCHANGED <<services, cancelled, probe, stopper, number, sent, seen>>

\* The listener looks at its context before each read, not after.
Loop ==
    /\ Listens("loop")
    /\ Becomes(IF cancelled THEN "off" ELSE "read")
    /\ UNCHANGED <<services, cancelled, probe, stopper, number, sent, seen>>

\* A read that times out, or whose context is cancelled.
Timeout ==
    /\ Listens("read")
    /\ Becomes(IF cancelled THEN "off" ELSE "loop")
    /\ UNCHANGED <<services, cancelled, probe, stopper, number, sent, seen>>

\* A datagram: handleDiscoveryDatagram looks whether the device is discoverable and whether
\* it is a Probe.
Take(p) ==
    /\ Listens("read")
    /\ left.probes > 0
    /\ left' = [left EXCEPT !.probes = @ - 1]
    /\ IF Discoverable(mem) /\ p.valid
       THEN probe' = p /\ Becomes("match")
       ELSE UNCHANGED probe /\ Becomes("loop")
    /\ UNCHANGED <<configs, boot, pc, request, fresh, done, answer, turns, alone, before,
                   history, cancelled, stopper, number, sent>>
    /\ Watch({"listener"})

\* The scopes come from a second look at the configuration; the answer goes back to where
\* the Probe came from.
Match ==
    /\ Listens("match")
    /\ Becomes("loop")
    /\ probe' = None
    /\ IF ProbeMatches(probe, Scopes)
       THEN NextMessageNumber /\ (Send \/ UNCHANGED sent)
       ELSE UNCHANGED <<number, sent>>
    /\ UNCHANGED <<services, cancelled, stopper, seen>>

Listener == Hello \/ Greet \/ Bind \/ Loop \/ Timeout \/ (\E p \in Probes : Take(p)) \/ Match

-----------------------------------------------------------------------------
(* Stop *)

\* sendByeMulticast
Bye ==
    /\ stopper = "bye"
    /\ stopper' = IF Discoverable(mem) THEN "part" ELSE "cancel"
    /\ UNCHANGED <<services, listener, cancelled, probe, number, sent, seen>>

Part ==
    /\ stopper = "part"
    /\ stopper' = "cancel"
    /\ NextMessageNumber
    /\ Send \/ UNCHANGED sent
    /\ UNCHANGED <<services, listener, cancelled, probe, seen>>

Cancel ==
    /\ stopper = "cancel"
    /\ stopper' = "await"
    /\ cancelled' = TRUE
    /\ UNCHANGED <<services, listener, probe, number, sent, seen>>

\* <-done
MutAwait ==
    /\ stopper = "await"
    /\ stopper' = "close"
    /\ UNCHANGED <<services, listener, cancelled, probe, number, sent, seen>>

Await ==
    /\ stopper = "await"
    /\ Listens("off")
    /\ stopper' = "close"
    /\ UNCHANGED <<services, listener, cancelled, probe, number, sent, seen>>

Stopper == Bye \/ Part \/ Cancel \/ Await

-----------------------------------------------------------------------------
(* The services' steps, with what they start and end of the discovery *)

Requested ==
    /\ \E c \in Clients : Requesting(c)
    /\ Watch({})
    /\ UNCHANGED network

Begin ==
    /\ Snapshot \/ Abort
    /\ Watch({})
    /\ UNCHANGED network

\* Start runs the goroutine; scenarios without a network leave it out.
Run ==
    /\ Serve
    /\ IF left.network THEN Becomes("hello") ELSE UNCHANGED listener
    /\ cancelled' = FALSE
    /\ Watch({"listener"})
    /\ UNCHANGED <<probe, stopper, number, sent>>

Go ==
    /\ Publish
    /\ Watch({})
    /\ UNCHANGED network

\* Stop begins with the Bye, and returns when the listener has ended and the servers are
\* closed.
Quit ==
    /\ Halt
    /\ stopper' = "bye"
    /\ Watch({"stopper"})
    /\ UNCHANGED <<listener, cancelled, probe, number, sent>>

Return ==
    /\ stopper = "close"
    /\ Halted
    /\ stopper' = "none"
    /\ Watch({})
    /\ UNCHANGED <<listener, cancelled, probe, number, sent>>

Init ==
    /\ ServicesInit
    /\ listener = "off"
    /\ cancelled = FALSE
    /\ probe = None
    /\ stopper = "none"
    /\ number = 0
    /\ sent = 0
    /\ seen = [x \in Senders |-> Discoverable(First)]

Next ==
    Requested \/ Begin \/ Run \/ Go \/ Quit \/ Return \/ Listener \/ Stopper

Spec == Init /\ [][Next]_vars

-----------------------------------------------------------------------------
(* Properties *)

\* Stop waits for the listener: from its return to the next Start nothing is sent, whatever
\* the listener was doing when its context was cancelled.
QuietAfterStop == [][sent' # sent => phase \notin {"down", "probing"}]_vars

\* A device that is NonDiscoverable is silent: a message goes out only if the device was
\* discoverable at some moment since its sender began (runDiscovery, Stop) or took the
\* datagram it answers.
HiddenIsSilent ==
    [][sent' # sent =>
           seen[IF listener' # listener THEN "listener" ELSE "stopper"]]_vars
=============================================================================
