----------------------------- MODULE Signaling -----------------------------
(***************************************************************************)
(* WebRTCPeerManagement: the signaling hub.  One handler task per socket   *)
(* runs hello_peer (validate, evict superseded holders, register: atomic   *)
(* under self.lock), peer_connection_handler (SESSION and the relay) and   *)
(* remove_peer.  Browser clients open a session towards the in-process     *)
(* server peer, whose one socket carries every client's session; it        *)
(* reconnects after its socket ends.  A step is what a handler does        *)
(* between two awaits that can suspend.                                    *)
(*                                                                         *)
(* A socket is "open", "lost" (the other end is gone, ws.closed is still   *)
(* False: a send may raise or vanish) or "closed" (a send raises).  No     *)
(* client of the repository sends ROOM, so no peer is ever in a room.      *)
(***************************************************************************)
EXTENDS Naturals, Sequences, SequencesExt, FiniteSets

CONSTANTS Clients,       \* the connections browsers make, a reload is a new one
          MaxServers,    \* bound: connections the in-process server makes
          Leavers,       \* bound: the connections whose other end may go away
          Role,          \* per client: "controller" or "viewer", as coerced by its token
          Display,       \* per client: its display_id
          Slot,          \* per client: its client_slot, NoSlot for a viewer without one
          Strict,        \* the clients with client_strict_viewer
          NoSlot,        \* the sentinel -1
          Primary,       \* the display "primary"
          AllowedSlots,  \* allowed_client_slots()
          EnableSharing, EnableShared,
          StormLimit,    \* _EVICTION_STORM_LIMIT
          Contested      \* the keys whose window is full when the run starts, by
                         \* takeovers among connections that are gone by now

Servers == 1..MaxServers
Conn == Clients \cup Servers
None == 0
Left == MaxServers + 1
Relay == MaxServers + 2

ASSUME ClientsAssumption ==
  /\ MaxServers \in Nat \ {0} /\ Leavers \subseteq Conn
  /\ Clients \cap Nat = {}
  /\ \A c \in Clients : Role[c] \in {"controller", "viewer"}
  /\ StormLimit \in Nat \ {0}

VARIABLES sock,      \* the socket of a connection
          peers,     \* self.peers
          pc,        \* where a connection's handler is: see Places
          queue,     \* self.lock: its holder, then those who wait for it
          sessions,  \* self.sessions: per client the server it called, or None
          paired,    \* the peers whose peer_status is "session"
          callee,    \* the callee_id a handler in SESSION has found
          todo,      \* per handler: the deferred closes and SESSION_ENDs
          recent,    \* self._eviction_times inside the window, per identity key
          presence,  \* the last value given to on_client_presence
          told,      \* per server: the clients whose SESSION_START it has been
                     \* sent, and no SESSION_END
          why,       \* history, per server: what first ended its connection, or
                     \* the client whose cleanup did
          missed,    \* history: clients whose session was stored after an eviction
          silent     \* history: a handler has ended without its presence report

vars == <<sock, peers, pc, queue, sessions, paired, callee, todo, recent,
          presence, told, why, missed, silent>>
hub  == <<sessions, paired, callee, told, missed>>

Places == {"new", "hello", "flush", "popping", "loop", "ok", "start", "ending",
           "cleanup", "closing", "refused", "done"}

Close(p)  == [do |-> "close", to |-> p, of |-> p]
End(s, c) == [do |-> "end", to |-> s, of |-> c]

Key(kind, c) == <<kind, Display[c], IF kind = "slot" THEN Slot[c] ELSE NoSlot>>
Keys == {Key(k, c) : k \in {IF EnableSharing THEN "slot" ELSE "client", "controller"},
                     c \in Clients}

Raises(p) == sock[p] # "open"     \* a send to p may raise
Passes(p) == sock[p] # "closed"   \* a send to p may return

Init ==
  /\ sock = [p \in Conn |-> "none"]
  /\ peers = {} /\ queue = <<>>
  /\ pc = [p \in Conn |-> "new"]
  /\ sessions = [c \in Clients |-> None] /\ callee = [c \in Clients |-> None]
  /\ paired = {} /\ missed = {}
  /\ todo = [p \in Conn |-> <<>>]
  /\ recent = [k \in Keys |-> IF k \in Contested THEN StormLimit ELSE 0]
  /\ presence = FALSE /\ silent = FALSE
  /\ told = [s \in Servers |-> {}] /\ why = [s \in Servers |-> None]

Holds(p) == queue # <<>> /\ Head(queue) = p
\* _notify_client_presence.
Report == presence' = (peers \cap Clients # {})
-----------------------------------------------------------------------------
\* A socket is accepted and its HELLO read; the handler asks for the lock.
Connect(p) ==
  /\ pc[p] = "new"
  /\ (p \in Servers /\ p > 1) => sock[p - 1] \in {"lost", "closed"}
  /\ sock' = [sock EXCEPT ![p] = "open"]
  /\ pc' = [pc EXCEPT ![p] = "hello"]
  /\ queue' = Append(queue, p)
  /\ UNCHANGED <<peers, hub, todo, recent, presence, why, silent>>

\* The other end goes away.
Leave(p) ==
  /\ p \in Leavers /\ sock[p] = "open"
  /\ sock' = [sock EXCEPT ![p] = "lost"]
  /\ why' = IF p \in Servers /\ why[p] = None
            THEN [why EXCEPT ![p] = Left] ELSE why
  /\ UNCHANGED <<peers, pc, queue, hub, todo, recent, presence, silent>>

\* The window of an eviction passes.
Forget(k) ==
  /\ recent[k] > 0
  /\ recent' = [recent EXCEPT ![k] = @ - 1]
  /\ UNCHANGED <<sock, peers, pc, queue, hub, todo, presence, why, silent>>
-----------------------------------------------------------------------------
Storm(k) == recent[k] >= StormLimit

\* The registered clients that the claim of c to its display, when sharing is
\* off, or to its slot supersedes; and the other controllers of its display, of
\* which the code takes the first (by OneHolder there is at most one).
ClaimKey(c) == Key(IF EnableSharing THEN "slot" ELSE "client", c)
Rivals(c) ==
  {p \in peers \cap Clients :
     /\ Display[p] = Display[c]
     /\ EnableSharing => Slot[c] # NoSlot /\ Slot[p] = Slot[c]}
Controllers(c) ==
  {p \in (peers \cap Clients) \ Rivals(c) :
     Role[p] = "controller" /\ Display[p] = Display[c]}

BadSlot(c) == EnableSharing /\ Slot[c] # NoSlot /\ Slot[c] \notin AllowedSlots
ClaimStorm(c) == Rivals(c) # {} /\ Storm(ClaimKey(c))
StrictRefused(c) == Strict[c] /\ ~EnableShared
ControllerStorm(c) ==
  Role[c] = "controller" /\ Controllers(c) # {} /\ Storm(Key("controller", c))
DeadControllers(c) == {p \in Controllers(c) : sock[p] = "closed"}
Uncontrolled(c) ==
  Role[c] = "viewer" /\ Controllers(c) \ DeadControllers(c) = {}

Live(E) == {p \in E : sock[p] # "closed"}

\* Mutant: a live holder is dropped from the registry, its socket is not closed.
Farewell_NoClose(p) ==
  IF sessions[p] \in peers THEN <<End(sessions[p], p)>> ELSE <<>>

\* Mutant: the server is not told of the end of an evicted client's session.
Farewell_NoEnd(p) == IF p \in Live({p}) THEN <<Close(p)>> ELSE <<>>

\* What evict_peer_locked defers for the peers E: the close of a live one, and
\* SESSION_END to the server of its session.
Farewell(p) ==
  (IF p \in Live({p}) THEN <<Close(p)>> ELSE <<>>) \o
  (IF sessions[p] \in peers THEN <<End(sessions[p], p)>> ELSE <<>>)

Farewells(E) == FlattenSeq([i \in 1..Cardinality(E) |-> Farewell(SetToSeq(E)[i])])

\* The peers E1, then E2, are evicted on behalf of c, and the lock is released.
Evict(c, E1, E2) ==
  /\ recent' = [k \in Keys |->
       recent[k] + (IF k = ClaimKey(c) THEN Cardinality(Live(E1)) ELSE 0)
                 + (IF k = Key("controller", c) THEN Cardinality(Live(E2)) ELSE 0)]
  /\ todo' = [todo EXCEPT ![c] = Farewells(E1) \o Farewells(E2)]
  /\ sessions' = [x \in Clients |-> IF x \in E1 \cup E2 THEN None ELSE sessions[x]]
  /\ paired' = paired \ (E1 \cup E2)
  /\ queue' = Tail(queue)
  /\ UNCHANGED <<callee, told, missed, presence, silent, why>>

Refuse(c, E1, E2) ==
  /\ Evict(c, E1, E2)
  /\ peers' = peers \ (E1 \cup E2)
  /\ sock' = [sock EXCEPT ![c] = "closed"]
  /\ pc' = [pc EXCEPT ![c] = "refused"]

\* Mutant: the superseded peers stay until their own handlers remove them.
Register_Beside(p, E1, E2) ==
  /\ Evict(p, E1, E2)
  /\ peers' = peers \cup {p}
  /\ pc' = [pc EXCEPT ![p] = "flush"]
  /\ UNCHANGED sock

Register(p, E1, E2) ==
  /\ Evict(p, E1, E2)
  /\ peers' = (peers \ (E1 \cup E2)) \cup {p}
  /\ pc' = [pc EXCEPT ![p] = "flush"]
  /\ UNCHANGED sock

\* hello_peer of a client, up to the release of the lock.  A claim is refused
\* before anything is evicted or, after its rivals have been, later on.  (A
\* HELLO that is malformed or whose token does not pass changes nothing and is
\* not modelled.)
RefusedAtOnce(c) == BadSlot(c) \/ ClaimStorm(c)
RefusedLater(c) == StrictRefused(c) \/ ControllerStorm(c) \/ Uncontrolled(c)

ClientHello(c) ==
  /\ pc[c] = "hello" /\ Holds(c)
  /\ \/ RefusedAtOnce(c) /\ Refuse(c, {}, {})
     \/ /\ ~RefusedAtOnce(c) /\ RefusedLater(c)
        /\ Refuse(c, Rivals(c),
                  IF Role[c] = "viewer" /\ ~StrictRefused(c)
                  THEN DeadControllers(c) ELSE {})
     \/ /\ ~RefusedAtOnce(c) /\ ~RefusedLater(c)
        /\ Register(c, Rivals(c), IF Role[c] = "controller" THEN Controllers(c) ELSE {})

ServerHello(s) ==
  /\ pc[s] = "hello" /\ Holds(s)
  /\ peers' = peers \cup {s}
  /\ pc' = [pc EXCEPT ![s] = "flush"]
  /\ queue' = Tail(queue)
  /\ UNCHANGED <<sock, hub, todo, recent, presence, why, silent>>

\* One deferred coroutine, best effort: hello_peer and remove_peer run them
\* after they released the lock.
Flush(p) ==
  /\ pc[p] \in {"flush", "refused", "closing"} /\ todo[p] # <<>>
  /\ LET d == Head(todo[p]) IN
       /\ sock' = IF d.do = "close" THEN [sock EXCEPT ![d.to] = "closed"] ELSE sock
       /\ told' = IF d.do = "end" /\ Passes(d.to)
                  THEN [told EXCEPT ![d.to] = @ \ {d.of}] ELSE told
  /\ todo' = [todo EXCEPT ![p] = Tail(@)]
  /\ UNCHANGED <<peers, pc, queue, sessions, paired, callee, recent, presence,
                 why, missed, silent>>

\* The HELLO reply, and the first presence report of the connection.
Greet(p) ==
  /\ pc[p] = "flush" /\ todo[p] = <<>> /\ Passes(p)
  /\ pc' = [pc EXCEPT ![p] = "loop"]
  /\ Report
  /\ UNCHANGED <<sock, peers, queue, hub, todo, recent, why, silent>>

\* HELLO cannot be sent: the peer is popped, under the lock, and that is all.
GreetFails(p) ==
  /\ pc[p] = "flush" /\ todo[p] = <<>> /\ Raises(p)
  /\ pc' = [pc EXCEPT ![p] = "popping"]
  /\ queue' = Append(queue, p)
  /\ UNCHANGED <<sock, peers, hub, todo, recent, presence, why, silent>>

\* A handler returns: aiohttp closes its socket.
Returns(p) == /\ pc' = [pc EXCEPT ![p] = "done"]
              /\ sock' = [sock EXCEPT ![p] = "closed"]

Pop(p) ==
  /\ pc[p] = "popping" /\ Holds(p)
  /\ peers' = peers \ {p} /\ paired' = paired \ {p}
  /\ silent' = TRUE
  /\ queue' = Tail(queue)
  /\ Returns(p)
  /\ UNCHANGED <<sessions, callee, told, missed, todo, recent, presence, why>>

HandshakeFailed(p) ==
  /\ pc[p] = "refused" /\ todo[p] = <<>>
  /\ Returns(p)
  /\ UNCHANGED <<peers, queue, hub, todo, recent, presence, why, silent>>
-----------------------------------------------------------------------------
\* The message loop ends, by a break or an exception: remove_peer asks for the
\* lock.
LoopEnds(p) ==
  /\ pc' = [pc EXCEPT ![p] = "ending"]
  /\ queue' = Append(queue, p)
  /\ UNCHANGED <<peers, hub, todo, recent, presence, silent>>

\* receive() returns CLOSE or CLOSING, or the keepalive finds the socket closed.
Notice(p) ==
  /\ pc[p] = "loop" /\ sock[p] \in {"lost", "closed"}
  /\ sock' = [sock EXCEPT ![p] = "closed"]
  /\ LoopEnds(p) /\ UNCHANGED why

\* A message of a peer that is no longer registered.
Unknown(p) ==
  /\ pc[p] = "loop" /\ sock[p] = "open" /\ p \notin peers
  /\ LoopEnds(p) /\ UNCHANGED <<sock, why>>

Partners(c, s) == {c, s} \subseteq peers \cap paired /\ sessions[c] = s

\* A relayed message cannot be sent to the other side: the exception ends the
\* handler of the sender.
ClientRelayFails(c) ==
  /\ pc[c] = "loop"
  /\ \E s \in Servers : Partners(c, s) /\ Raises(s)
  /\ LoopEnds(c) /\ UNCHANGED <<sock, why>>

ServerRelayFails(s) ==
  /\ pc[s] = "loop"
  /\ \E c \in told[s] : Partners(c, s) /\ Raises(c)
  /\ why' = IF why[s] = None THEN [why EXCEPT ![s] = Relay] ELSE why
  /\ LoopEnds(s) /\ UNCHANGED sock

\* `SESSION server`: the server that registered first is the callee.
SessionAsked(c) ==
  /\ pc[c] = "loop" /\ sock[c] = "open"
  /\ c \in peers \ paired /\ peers \cap Servers # {}
  /\ callee' = [callee EXCEPT ![c] = Min(peers \cap Servers)]
  /\ pc' = [pc EXCEPT ![c] = "ok"]
  /\ UNCHANGED <<sock, peers, queue, sessions, paired, told, missed, todo, recent,
                 presence, why, silent>>

\* SESSION_OK has been sent to c.  The callee is looked up again; c is not.
SessionOk(c) ==
  /\ pc[c] = "ok" /\ Passes(c)
  /\ IF callee[c] \notin peers
       THEN pc' = [pc EXCEPT ![c] = "loop"] /\ UNCHANGED told
       ELSE /\ Passes(callee[c])
            /\ told' = [told EXCEPT ![callee[c]] = @ \cup {c}]
            /\ pc' = [pc EXCEPT ![c] = "start"]
  /\ UNCHANGED <<sock, peers, queue, sessions, paired, callee, missed, todo, recent,
                 presence, why, silent>>

SessionFails(c) ==
  /\ pc[c] = "ok"
  /\ Raises(c) \/ (callee[c] \in peers /\ Raises(callee[c]))
  /\ LoopEnds(c) /\ UNCHANGED <<sock, why>>

\* SESSION_START has been sent to the callee: the session is stored.
SessionStored(c) ==
  /\ pc[c] = "start"
  /\ sessions' = [sessions EXCEPT ![c] = callee[c]]
  /\ paired' = paired \cup ({c, callee[c]} \cap peers)
  /\ missed' = IF c \in peers THEN missed ELSE missed \cup {c}
  /\ pc' = [pc EXCEPT ![c] = "loop"]
  /\ UNCHANGED <<sock, peers, queue, callee, told, todo, recent, presence, why, silent>>
-----------------------------------------------------------------------------
\* The second half of remove_peer: the peer goes, the closes are deferred, the
\* lock is released.
Removed(p) ==
  /\ peers' = peers \ {p}
  /\ paired' = paired \ {p}
  /\ todo' = [todo EXCEPT ![p] =
       IF p \notin peers THEN <<>>
       ELSE IF p \in Servers THEN [i \in 1..Cardinality(peers \cap Clients) |->
                                    Close(SetToSeq(peers \cap Clients)[i])]
       ELSE <<Close(p)>>]
  /\ pc' = [pc EXCEPT ![p] = "closing"]
  /\ queue' = Tail(queue)

\* Mutant: every display's controller takes the server's connection along.
PrimaryController_AnyDisplay(c) == Role[c] = "controller"

PrimaryController(c) == Role[c] = "controller" /\ Display[c] = Primary

\* The server of the session cleanup_session has to tell, if there is one.
Partner(p) == IF p \in peers \cap Clients /\ sessions[p] \in peers
              THEN sessions[p] ELSE None
\* Mutant: nothing is done for a peer that is not registered any more.
SessionDropped_IfRegistered(p) ==
  sessions' = IF p \in peers \cap Clients THEN [sessions EXCEPT ![p] = None] ELSE sessions

SessionDropped(p) ==
  sessions' = IF p \in Clients THEN [sessions EXCEPT ![p] = None] ELSE sessions

\* cleanup_session, with nobody to tell: no await, remove_peer completes.
CleanupQuiet(p) ==
  /\ pc[p] = "ending" /\ Holds(p) /\ Partner(p) = None
  /\ SessionDropped(p)
  /\ Removed(p)
  /\ UNCHANGED <<sock, callee, told, missed, recent, presence, why, silent>>

\* cleanup_session of the primary's controller: it closes the server's socket.
CleanupCloses(c) ==
  /\ pc[c] = "ending" /\ Holds(c) /\ Partner(c) # None /\ PrimaryController(c)
  /\ SessionDropped(c)
  /\ sock' = [sock EXCEPT ![Partner(c)] = "closed"]
  /\ why' = IF why[Partner(c)] = None THEN [why EXCEPT ![Partner(c)] = c] ELSE why
  /\ pc' = [pc EXCEPT ![c] = "cleanup"]
  /\ UNCHANGED <<peers, queue, paired, callee, told, missed, todo, recent,
                 presence, silent>>

\* cleanup_session of any other client: SESSION_END, the lock held meanwhile.
CleanupEnds(c) ==
  /\ pc[c] = "ending" /\ Holds(c) /\ Partner(c) # None /\ ~PrimaryController(c)
  /\ Passes(Partner(c))
  /\ SessionDropped(c)
  /\ told' = [told EXCEPT ![Partner(c)] = @ \ {c}]
  /\ pc' = [pc EXCEPT ![c] = "cleanup"]
  /\ UNCHANGED <<sock, peers, queue, paired, callee, missed, todo, recent, presence,
                 why, silent>>

\* Mutant: the exception leaves the lock taken.
CleanupRaises_KeepsLock(c) ==
  /\ pc[c] = "ending" /\ Holds(c) /\ Partner(c) # None /\ ~PrimaryController(c)
  /\ Raises(Partner(c))
  /\ SessionDropped(c)
  /\ Returns(c)
  /\ silent' = TRUE
  /\ UNCHANGED <<peers, queue, paired, callee, told, missed, todo, recent, presence, why>>

\* SESSION_END raises: so does remove_peer, the rest of it does not run.
CleanupRaises(c) ==
  /\ pc[c] = "ending" /\ Holds(c) /\ Partner(c) # None /\ ~PrimaryController(c)
  /\ Raises(Partner(c))
  /\ SessionDropped(c)
  /\ queue' = Tail(queue)
  /\ Returns(c)
  /\ silent' = TRUE
  /\ UNCHANGED <<peers, paired, callee, told, missed, todo, recent, presence, why>>

CleanupGoesOn(c) ==
  /\ pc[c] = "cleanup" /\ Holds(c)
  /\ Removed(c)
  /\ UNCHANGED <<sock, sessions, callee, told, missed, recent, presence, why, silent>>

\* Mutant: the presence report is made before the removal only.
Departed_Silent(p) ==
  /\ pc[p] = "closing" /\ todo[p] = <<>>
  /\ Returns(p)
  /\ UNCHANGED <<peers, queue, hub, todo, recent, presence, silent, why>>

\* Everything is flushed: the last presence report, and the handler returns.
Departed(p) ==
  /\ pc[p] = "closing" /\ todo[p] = <<>>
  /\ Returns(p)
  /\ Report
  /\ UNCHANGED <<peers, queue, hub, todo, recent, why, silent>>
-----------------------------------------------------------------------------
Handshake(p) == \/ p \in Servers /\ ServerHello(p)
                \/ Greet(p) \/ GreetFails(p) \/ Pop(p) \/ HandshakeFailed(p)
Cleanup(p) == \/ CleanupQuiet(p) \/ Departed(p)
              \/ p \in Clients /\ (CleanupCloses(p) \/ CleanupEnds(p) \/ CleanupRaises(p)
                                     \/ CleanupGoesOn(p))
Serve(c) == SessionOk(c) \/ SessionFails(c) \/ SessionStored(c)

\* What a handler does of itself: asyncio runs every ready task, the lock is
\* first come first served, a send and a close end (the deferred ones within
\* 5 s), and a socket that is gone is noticed by the next receive or keepalive.
Handler(p) == \/ Flush(p) \/ Notice(p) \/ Handshake(p) \/ Cleanup(p)
              \/ p \in Clients /\ (ClientHello(p) \/ Serve(p))

Next ==
  \/ \E p \in Conn : \/ Connect(p) \/ Leave(p) \/ Flush(p) \/ Notice(p) \/ Unknown(p)
                     \/ Greet(p) \/ GreetFails(p) \/ Pop(p) \/ HandshakeFailed(p)
                     \/ CleanupQuiet(p) \/ Departed(p)
  \/ \E s \in Servers : ServerHello(s) \/ ServerRelayFails(s)
  \/ \E c \in Clients : \/ ClientHello(c) \/ ClientRelayFails(c)
                        \/ SessionAsked(c) \/ SessionOk(c) \/ SessionFails(c)
                        \/ SessionStored(c)
                        \/ CleanupCloses(c) \/ CleanupEnds(c) \/ CleanupRaises(c)
                        \/ CleanupGoesOn(c)
  \/ \E k \in Keys : Forget(k)

Spec == Init /\ [][Next]_vars
-----------------------------------------------------------------------------
(* Properties *)

\* Whatever the order of reconnects, evictions and cleanups, two registered
\* clients of a display never both control it nor share a player slot, and
\* without sharing a display has one client (hello_peer: the newest wins).
OneHolder ==
  \A c, d \in peers \cap Clients : (c # d /\ Display[c] = Display[d]) =>
    /\ EnableSharing
    /\ ~(Role[c] = "controller" /\ Role[d] = "controller")
    /\ Slot[c] = NoSlot \/ Slot[c] # Slot[d]

\* A superseded or orphaned page never keeps a working socket: a connection
\* past its HELLO that is no longer registered is closed, or some handler still
\* has its close to flush, or its own handler is on its way out.
NoOrphan ==
  \A p \in Conn : (pc[p] \notin {"new", "hello"} /\ sock[p] = "open" /\ p \notin peers) =>
    \/ pc[p] \in {"ending", "closing", "cleanup"}
    \/ \E q \in Conn : Close(p) \in ToSet(todo[q])

\* The server's connection, which every display's session shares, ends only
\* because its own socket went, because a primary's controller left, or
\* (refuted separately) because a relay to a client raised: no eviction, no
\* viewer and no secondary controller takes it down.
ServerLives ==
  \A s \in Servers :
    (sock[s] \in {"lost", "closed"} \/ pc[s] \in {"ending", "closing", "done"})
      => why[s] \in {Left, Relay} \cup
                    {c \in Clients : Role[c] = "controller" /\ Display[c] = Primary}

\* The server peer is not left with the session of a client that is gone: for
\* every client it was told of, that client is registered, or SESSION_END is
\* on its way, or the client was evicted while its SESSION was being served.
SessionsEnd ==
  \A s \in peers \cap Servers : \A c \in told[s] :
    \/ c \in peers \cup missed
    \/ pc[c] = "start"
    \/ sock[s] # "open"
    \/ \E q \in Conn : End(s, c) \in ToSet(todo[q])

\* self.sessions does not outlive the connections it is about.
NoStaleSession == \A c \in Clients : pc[c] = "done" => sessions[c] = None

\* run_after_disconnect is not run under a client that is being served, and
\* once no handler has anything left to do the reported presence is the truth,
\* unless a handler ended without its report: its HELLO could not be sent, or
\* its cleanup raised.
AtRest(p) == pc[p] \in {"new", "done"} \/ (pc[p] = "loop" /\ p \in peers)
Presence ==
  /\ (\E c \in peers \cap Clients : pc[c] = "loop") => presence
  /\ (~silent /\ \A p \in Conn : AtRest(p)) => presence = (peers \cap Clients # {})

\* What signaling_handler's docstring promises (977-978): "removal on disconnect".
Reaped == \A p \in Conn : pc[p] = "done" => p \notin peers

\* What cleanup_session's comment promises (219-222): a client other than a
\* primary's controller that closes does not take the server's connection with
\* it, "and the primary lives on": while a primary's controller is connected,
\* the server peer is not removed although its own socket works.
ServerSpared ==
  [][\A s \in Servers : (s \in peers /\ s \notin peers' /\ sock[s] = "open") =>
       ~ \E c \in peers \cap Clients : PrimaryController(c) /\ sock[c] = "open"]_vars

\* No handler blocks for ever, in the queue for the lock or on what another
\* does: when none has a step to take, each serves an open socket or is over.
Unblocked ==
  (\A p \in Conn : ~ ENABLED Handler(p)) =>
    \A p \in Conn : pc[p] \in {"new", "done"} \/ (pc[p] = "loop" /\ sock[p] = "open")
=============================================================================
