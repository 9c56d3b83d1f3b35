------------------------------- MODULE Probe -------------------------------
(***************************************************************************)
(* The probe of the node overlay: a client sends ForwardProbe with a TTL   *)
(* to one node, and every C++ node calls each of its peers in turn from    *)
(* within its own handler, with a TTL one smaller, and waits for the reply *)
(* before the next.  There is no visited list: a node is probed once for   *)
(* every walk of the overlay that leads to it, and only the TTL ends the   *)
(* flood on a cycle.  A Python node acknowledges and forwards nothing.     *)
(*                                                                         *)
(* A handler is named by the walk that leads to it, the sequence of nodes  *)
(* from the one the client called.  A reply's message nests the messages   *)
(* of the peers that answered ("ok") and names those whose call failed;    *)
(* here it is the set of walks of either kind.                             *)
(***************************************************************************)
EXTENDS Naturals, Sequences, SequencesExt

CONSTANTS
    Node,
    Start,          \* the node the client calls
    Neighbors,      \* peers_ of each node, from its .conf
    Forwarding,     \* nodes that run NodeServiceImpl, the others Python's
    TTL,
    MayCrash,       \* nodes that may crash
    MaxCrashes      \* bound: crashes in one run

ASSUME ProbeAssumption ==
    /\ Start \in Node
    /\ Neighbors \in [Node -> SUBSET Node]
    /\ Forwarding \subseteq Node
    /\ TTL \in Nat
    /\ MayCrash \subseteq Node
    /\ MaxCrashes \in Nat

\* Peers a handler will call: a node that does not forward calls nobody.
Fanout(n) == IF n \in Forwarding THEN Neighbors[n] ELSE {}

\* The walks of at most TTL hops that a probe can take.
Walks ==
    {w \in UNION {[1 .. k -> Node] : k \in 1 .. TTL + 1} :
        /\ w[1] = Start
        /\ \A i \in 1 .. Len(w) - 1 : w[i + 1] \in Fanout(w[i])}

VARIABLES
    up,         \* nodes whose server runs
    crashes,    \* crashes so far
    active,     \* walks whose handler runs
    ttl,        \* request->ttl() of each handler
    left,       \* peers a handler has still to call
    asking,     \* the peer a handler waits for, if any
    heard,      \* walks of the replies a handler has nested in its own
    failed,     \* walks a handler has noted as failed
    client      \* "idle", "waiting", "answered", "refused"

handlerVars == <<active, ttl, left, asking, heard, failed>>
vars == <<up, crashes, handlerVars, client>>

Init ==
    /\ up = Node
    /\ crashes = 0
    /\ active = {}
    /\ ttl = [w \in Walks |-> 0]
    /\ left = [w \in Walks |-> {}]
    /\ asking = [w \in Walks |-> {}]
    /\ heard = [w \in Walks |-> {}]
    /\ failed = [w \in Walks |-> {}]
    /\ client = "idle"

\* A handler's node, and the call that waits for it, if any still does.
At(w) == w[Len(w)]
IsAwaited(w) == Len(w) > 1 /\ Front(w) \in active /\ At(w) \in asking[Front(w)]

-----------------------------------------------------------------------------
\* A handler starts: it calls peers only if its ttl is above zero.
Handle(w, hops) ==
    /\ active' = active \cup {w}
    /\ ttl' = [ttl EXCEPT ![w] = hops]
    /\ left' = [left EXCEPT ![w] = IF hops > 0 THEN Fanout(At(w)) ELSE {}]

ClientProbes ==
    /\ client = "idle"
    /\ IF Start \in up
       THEN client' = "waiting" /\ Handle(<<Start>>, TTL)
       ELSE client' = "refused" /\ UNCHANGED <<active, ttl, left>>
    /\ UNCHANGED <<up, crashes, asking, heard, failed>>

\* MUTANTS of CallPeer: a peer that has answered is called again; the next
\* peer is called before the reply.
CallPeerAgain(w, p) ==
    /\ w \in active
    /\ asking[w] = {}
    /\ p \in left[w]
    /\ p \in up
    /\ asking' = [asking EXCEPT ![w] = {p}]
    /\ active' = active \cup {w \o <<p>>}
    /\ ttl' = [ttl EXCEPT ![w \o <<p>>] = ttl[w] - 1]
    /\ left' = [left EXCEPT ![w \o <<p>>] = IF ttl[w] > 1 THEN Fanout(p) ELSE {}]
    /\ UNCHANGED <<up, crashes, heard, failed, client>>

CallPeerAtOnce(w, p) ==
    /\ w \in active
    /\ p \in left[w]
    /\ p \in up
    /\ asking' = [asking EXCEPT ![w] = @ \cup {p}]
    /\ active' = active \cup {w \o <<p>>}
    /\ ttl' = [ttl EXCEPT ![w \o <<p>>] = ttl[w] - 1]
    /\ left' = [left EXCEPT ![w] = @ \ {p},
                            ![w \o <<p>>] = IF ttl[w] > 1 THEN Fanout(p) ELSE {}]
    /\ UNCHANGED <<up, crashes, heard, failed, client>>

\* The next peer, in the order of an unordered_map.
CallPeer(w, p) ==
    /\ w \in active
    /\ asking[w] = {}
    /\ p \in left[w]
    /\ p \in up
    /\ asking' = [asking EXCEPT ![w] = {p}]
    /\ active' = active \cup {w \o <<p>>}
    /\ ttl' = [ttl EXCEPT ![w \o <<p>>] = ttl[w] - 1]
    /\ left' = [left EXCEPT ![w] = @ \ {p},
                            ![w \o <<p>>] =
                                IF ttl[w] > 1 THEN Fanout(p) ELSE {}]
    /\ UNCHANGED <<up, crashes, heard, failed, client>>

\* MUTANT of PeerIsDown: the first failure ends the loop.
PeerIsDownEnds(w, p) ==
    /\ w \in active
    /\ asking[w] = {}
    /\ p \in left[w]
    /\ p \notin up
    /\ left' = [left EXCEPT ![w] = {}]
    /\ failed' = [failed EXCEPT ![w] = @ \cup {w \o <<p>>}]
    /\ UNCHANGED <<up, crashes, active, ttl, asking, heard, client>>

\* A peer that does not run answers UNAVAILABLE: ":fail".
PeerIsDown(w, p) ==
    /\ w \in active
    /\ asking[w] = {}
    /\ p \in left[w]
    /\ p \notin up
    /\ left' = [left EXCEPT ![w] = @ \ {p}]
    /\ failed' = [failed EXCEPT ![w] = @ \cup {w \o <<p>>}]
    /\ UNCHANGED <<up, crashes, active, ttl, asking, heard, client>>

\* The connection to a peer breaks while its handler runs.
CallBreaks(w, p) ==
    /\ w \in active
    /\ p \in asking[w]
    /\ w \o <<p>> \notin active
    /\ asking' = [asking EXCEPT ![w] = {}]
    /\ failed' = [failed EXCEPT ![w] = @ \cup {w \o <<p>>}]
    /\ UNCHANGED <<up, crashes, active, ttl, left, heard, client>>

\* The reply is nested in the one of the caller, if the caller still runs.
Reply(w) ==
    /\ w \in active
    /\ asking[w] = {}
    /\ left[w] = {}
    /\ active' = active \ {w}
    /\ IF IsAwaited(w)
       THEN LET caller == Front(w) IN
            /\ asking' = [asking EXCEPT ![caller] = @ \ {At(w)}]
            /\ heard' = [heard EXCEPT ![caller] = @ \cup {w} \cup heard[w]]
            /\ failed' = [failed EXCEPT ![caller] = @ \cup failed[w]]
       ELSE UNCHANGED <<asking, heard, failed>>
    /\ client' = IF w = <<Start>> THEN "answered" ELSE client
    /\ UNCHANGED <<up, crashes, ttl, left>>

\* The process of a node ends; its handlers end with it.
Crash(n) ==
    /\ crashes < MaxCrashes
    /\ n \in MayCrash \cap up
    /\ up' = up \ {n}
    /\ crashes' = crashes + 1
    /\ active' = {w \in active : At(w) # n}
    /\ client' = IF client = "waiting" /\ n = Start THEN "refused" ELSE client
    /\ UNCHANGED <<ttl, left, asking, heard, failed>>

Restart(n) ==
    /\ n \in Node \ up
    /\ up' = up \cup {n}
    /\ UNCHANGED <<crashes, handlerVars, client>>

HandlerStep ==
    \E w \in active :
        \/ \E p \in Node : CallPeer(w, p) \/ PeerIsDown(w, p) \/ CallBreaks(w, p)
        \/ Reply(w)

Next ==
    \/ ClientProbes
    \/ HandlerStep
    \/ \E n \in Node : Crash(n) \/ Restart(n)

Spec == Init /\ [][Next]_vars /\ WF_vars(ClientProbes) /\ WF_vars(HandlerStep)

-----------------------------------------------------------------------------
(* The reply accounts for the whole flood: it nests a reply of every walk of  *)
(* at most TTL hops except those through a call that failed, it names these   *)
(* calls, and only the call of a node that may crash fails.                   *)
ReplyIsComplete ==
    client = "answered" =>
        LET ok == heard[<<Start>>]
            fail == failed[<<Start>>]
        IN  /\ ok = {w \in Walks \ {<<Start>>} :
                       \A k \in 1 .. Len(w) : SubSeq(w, 1, k) \notin fail}
            /\ \A w \in fail : At(w) \in MayCrash

(* Handlers nest one below the other: while no node crashes, one handler of   *)
(* the whole overlay is at work, all others wait for it, and no more than     *)
(* TTL + 1 threads are held by a probe, on a cycle as well.                   *)
OneHandlerAtWork ==
    crashes = 0 =>
        /\ \A v, w \in active : IsPrefix(v, w) \/ IsPrefix(w, v)
        /\ \A w \in active : ttl[w] + Len(w) = TTL + 1

(* The client is answered or refused, and the handlers end, those whose       *)
(* caller has crashed included.                                               *)
FloodEnds ==
    /\ <>(client \in {"answered", "refused"})
    /\ <>[](active = {})
=============================================================================
