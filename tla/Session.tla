------------------------------ MODULE Session -------------------------------
(***************************************************************************)
(* The life of a control session between two devices: connection, Hello,   *)
(* trust check, pairing, control, teardown and reconnection                *)
(* (crates/app/src/net.rs run_session, with PairingState and the trust     *)
(* store), both ends at once.                                              *)
(*                                                                         *)
(* net[p] is everything on its way to p: the other end's writer queue, the *)
(* TCP stream and the queue p's reader task fills.  A task that goes away  *)
(* takes with it an arbitrary part of what it held: an aborted writer the  *)
(* end of the stream, an orphaned reader the beginning of it.              *)
(*                                                                         *)
(* A session whose function returned early leaves its reader task behind,  *)
(* which keeps the socket open: the phase is then "lingering".  Clipboard, *)
(* edge and mirror messages travel like pings and are left out.            *)
(***************************************************************************)
EXTENDS Naturals, Sequences

CONSTANTS
    Host,      \* the device whose user clicks Control
    Client     \* the device that accepts the connection

ASSUME PeersAssumption == Host # Client

Peers == {Host, Client}
Other(p) == IF p = Host THEN Client ELSE Host

Messages == {"Hello", "Reject", "PairBegin", "PairConfirm", "PairCancel",
             "SetMode", "ModeAck", "RealtimeOpen", "Ping", "Pong"}

VARIABLES
    trusted,     \* the other device is in the trust store
    phase,       \* where each end's run_session is
    net,         \* what is on its way to each end
    up,          \* the network carries the connection
    compatible,  \* both ends speak the same protocol version
    localConf, remoteConf,   \* PairingState
    window,      \* a Disconnect is on its way from the window to the dispatcher
    disc,        \* a Disconnect is in the session's command queue
    captured,    \* the process has started its capturer
    inbound,     \* the client's inbound_rt holds this session's channel
    verdict,     \* history: what the trust check of this connection found
    cancelled    \* history: the user cancelled the pairing of this connection

vars == <<trusted, phase, net, up, compatible, localConf, remoteConf, window, disc,
          captured, inbound, verdict, cancelled>>
pairVars == <<localConf, remoteConf, cancelled>>
linkVars == <<up, compatible>>

\* run_session has returned.
Over(p) == phase[p] \in {"lingering", "closed"}

Init ==
    /\ trusted \in [Peers -> BOOLEAN]
    /\ phase = [p \in Peers |-> "closed"]
    /\ net = [p \in Peers |-> <<>>]
    /\ up = FALSE /\ compatible = TRUE
    /\ localConf = [p \in Peers |-> FALSE] /\ remoteConf = [p \in Peers |-> FALSE]
    /\ window = [p \in Peers |-> FALSE] /\ disc = [p \in Peers |-> FALSE]
    /\ captured = FALSE /\ inbound = FALSE
    /\ verdict = [p \in Peers |-> "none"]
    /\ cancelled = [p \in Peers |-> FALSE]

\* net once p has consumed its first n messages and sent msgs.  What is written
\* to a socket that is closed or cut off is lost.
Pipe(p, n, msgs) ==
    [net EXCEPT ![p] = SubSeq(@, n + 1, Len(@)),
                ![Other(p)] = IF up /\ phase[Other(p)] # "closed" THEN @ \o msgs ELSE @]

Incoming(p, msg) == net[p] # <<>> /\ Head(net[p]) = msg

\* read_msg fails, or the reader's channel is closed and drained.
Eof(p) == net[p] = <<>> /\ (~up \/ phase[Other(p)] = "closed")
-----------------------------------------------------------------------------
(***************************************************************************)
(* The three ways run_session returns.                                     *)
(***************************************************************************)
\* Both halves of the stream are gone.
Close(p, pipes) ==
    /\ phase' = [phase EXCEPT ![p] = "closed"]
    /\ net' = [pipes EXCEPT ![p] = <<>>]

\* An early return after the tasks were spawned: the writer drains its queue,
\* the reader stays, what it had queued is dropped.
Abandon(p, pipes) ==
    /\ phase' = [phase EXCEPT ![p] = "lingering"]
    /\ \E n \in 0 .. Len(pipes[p]) :
          net' = [pipes EXCEPT ![p] = SubSeq(@, n + 1, Len(@))]

\* Mutant of Teardown: the controlled end leaves the realtime slot filled.
TeardownKeepsSlot(p) ==
    /\ phase' = [phase EXCEPT ![p] = "closed"]
    /\ \E n \in 0 .. Len(net[Other(p)]) :
          net' = [net EXCEPT ![p] = <<>>, ![Other(p)] = SubSeq(@, 1, n)]
    /\ UNCHANGED inbound

\* The teardown at the end: the tasks are aborted, what the writer had not
\* sent is lost, and the controlled end clears the realtime slot.
Teardown(p) ==
    /\ phase' = [phase EXCEPT ![p] = "closed"]
    /\ \E n \in 0 .. Len(net[Other(p)]) :
          net' = [net EXCEPT ![p] = <<>>, ![Other(p)] = SubSeq(@, 1, n)]
    /\ inbound' = (inbound /\ p # Client)
-----------------------------------------------------------------------------
\* Mutant of Connect: what the peer confirmed outlives the connection.
ConnectRemembers ==
    /\ \A p \in Peers : Over(p)
    /\ phase' = [p \in Peers |-> "hello"]
    /\ net' = [p \in Peers |-> <<"Hello">>]
    /\ up' = TRUE /\ compatible' \in BOOLEAN
    /\ localConf' = [p \in Peers |-> FALSE]
    /\ disc' = [p \in Peers |-> FALSE]
    /\ verdict' = [p \in Peers |-> "none"]
    /\ cancelled' = [p \in Peers |-> FALSE]
    /\ UNCHANGED <<trusted, remoteConf, window, captured, inbound>>

\* NetCommand::Connect, the accept loop and the TLS handshake, and the Hello
\* each end sends first.  One connection at a time.
Connect ==
    /\ \A p \in Peers : Over(p)
    /\ phase' = [p \in Peers |-> "hello"]
    /\ net' = [p \in Peers |-> <<"Hello">>]
    /\ up' = TRUE /\ compatible' \in BOOLEAN
    /\ localConf' = [p \in Peers |-> FALSE] /\ remoteConf' = [p \in Peers |-> FALSE]
    /\ disc' = [p \in Peers |-> FALSE]
    /\ verdict' = [p \in Peers |-> "none"]
    /\ cancelled' = [p \in Peers |-> FALSE]
    /\ UNCHANGED <<trusted, window, captured, inbound>>

\* The peer's Hello: its fingerprint goes into the slot commands are routed
\* by, and the tasks are spawned; or the versions differ.
ReadHello(p) ==
    /\ phase[p] = "hello" /\ Incoming(p, "Hello")
    /\ IF compatible
         THEN phase' = [phase EXCEPT ![p] = "named"] /\ net' = Pipe(p, 1, <<>>)
         ELSE Close(p, Pipe(p, 1, <<"Reject">>))
    /\ UNCHANGED <<trusted, linkVars, pairVars, window, disc, captured, inbound, verdict>>

\* The session after the pairing: the host has asked for control, binds its
\* socket and starts capturing, which a process can do once, whether or not it
\* succeeds; any of it may fail.  The client waits.
Authenticate(p, pipes) ==
    \/ /\ ~(p = Host /\ captured)
       /\ phase' = [phase EXCEPT ![p] = "active"]
       /\ net' = pipes
       /\ captured' = (captured \/ p = Host)
    \/ /\ p = Host
       /\ Abandon(p, pipes)
       /\ captured' \in {captured, TRUE}

\* What the host sends before it starts capturing.
Opening(p) == IF p = Host THEN <<"SetMode", "RealtimeOpen">> ELSE <<>>

\* is_trusted: the peer is known.
Recognise(p) ==
    /\ phase[p] = "named" /\ trusted[p]
    /\ verdict' = [verdict EXCEPT ![p] = "trusted"]
    /\ Authenticate(p, Pipe(p, 0, Opening(p)))
    /\ UNCHANGED <<trusted, linkVars, pairVars, window, disc, inbound>>

\* is_trusted: it is not.  The PIN is shown and pairing begins.
StartPairing(p) ==
    /\ phase[p] = "named" /\ ~trusted[p]
    /\ verdict' = [verdict EXCEPT ![p] = "unknown"]
    /\ phase' = [phase EXCEPT ![p] = "pairing"]
    /\ net' = Pipe(p, 0, <<"PairBegin">>)
    /\ UNCHANGED <<trusted, linkVars, pairVars, window, disc, captured, inbound>>
-----------------------------------------------------------------------------
(***************************************************************************)
(* Pairing.                                                                *)
(***************************************************************************)
\* Mutant of IsComplete: one confirmation is enough.
IsCompleteEarly(local, remote) == local \/ remote

\* PairingState::is_complete
IsComplete(local, remote) == local /\ remote

\* Mutant of Conclude: the session starts before the confirmation is sent.
ConcludeBackwards(p, n, msgs) ==
    IF IsComplete(localConf'[p], remoteConf'[p])
      THEN /\ trusted' = [trusted EXCEPT ![p] = TRUE]
           /\ Authenticate(p, Pipe(p, n, Opening(p) \o msgs))
      ELSE net' = Pipe(p, n, msgs) /\ UNCHANGED <<trusted, phase, captured>>

\* The end of a turn of the pairing loop, n messages consumed and msgs sent:
\* if both users have confirmed, the peer is trusted.  Saving the trust store
\* may fail, which ends the session with the peer trusted in memory.
Conclude(p, n, msgs) ==
    IF IsComplete(localConf'[p], remoteConf'[p])
      THEN /\ trusted' = [trusted EXCEPT ![p] = TRUE]
           /\ \/ Authenticate(p, Pipe(p, n, msgs \o Opening(p)))
              \/ Abandon(p, Pipe(p, n, msgs)) /\ UNCHANGED captured
      ELSE net' = Pipe(p, n, msgs) /\ UNCHANGED <<trusted, phase, captured>>

\* PairConfirm from the peer.
ReceiveConfirm(p) ==
    /\ phase[p] = "pairing" /\ Incoming(p, "PairConfirm")
    /\ remoteConf' = [remoteConf EXCEPT ![p] = TRUE]
    /\ UNCHANGED <<localConf, cancelled>>
    /\ Conclude(p, 1, <<>>)
    /\ UNCHANGED <<linkVars, window, disc, inbound, verdict>>

\* The user confirms that the codes match.  The button stays until the pairing
\* has a result; a second click repeats the message and is left out.
UserConfirm(p) ==
    /\ phase[p] = "pairing" /\ ~localConf[p]
    /\ localConf' = [localConf EXCEPT ![p] = TRUE]
    /\ UNCHANGED <<remoteConf, cancelled>>
    /\ Conclude(p, 0, <<"PairConfirm">>)
    /\ UNCHANGED <<linkVars, window, disc, inbound, verdict>>

\* PairBegin from the peer: the codes are computed on both ends anyway.
ReceivePairBegin(p) ==
    /\ phase[p] = "pairing" /\ Incoming(p, "PairBegin")
    /\ net' = Pipe(p, 1, <<>>)
    /\ UNCHANGED <<trusted, phase, linkVars, pairVars, window, disc, captured, inbound, verdict>>

\* A message that has no place in the pairing.
Misplaced(p) ==
    /\ phase[p] = "pairing" /\ net[p] # <<>>
    /\ Head(net[p]) \notin {"PairBegin", "PairConfirm", "PairCancel"}

\* The peer cancelled, or sent something else: the pairing ends, and the peer
\* is told nothing.
BailOut(p) ==
    /\ phase[p] = "pairing" /\ (Incoming(p, "PairCancel") \/ Misplaced(p))
    /\ Abandon(p, Pipe(p, 1, <<>>))
    /\ UNCHANGED <<trusted, linkVars, pairVars, window, disc, captured, inbound, verdict>>

\* Mutant of GiveUp: the peer is told nothing.
GiveUpSilently(p) ==
    /\ phase[p] = "pairing"
    /\ Abandon(p, Pipe(p, 0, <<>>))
    /\ UNCHANGED <<trusted, linkVars, localConf, remoteConf, window, disc, captured,
                   inbound, verdict>>

\* The pairing ends here, and the peer is told so.
GiveUp(p) ==
    /\ phase[p] = "pairing"
    /\ Abandon(p, Pipe(p, 0, <<"PairCancel">>))
    /\ UNCHANGED <<trusted, linkVars, localConf, remoteConf, window, disc, captured,
                   inbound, verdict>>

\* The local user cancels.
UserCancel(p) == GiveUp(p) /\ cancelled' = [cancelled EXCEPT ![p] = TRUE]

\* A Disconnect arrives instead.
DisconnectPairing(p) == disc[p] /\ GiveUp(p) /\ UNCHANGED cancelled
-----------------------------------------------------------------------------
(***************************************************************************)
(* Control.                                                                *)
(***************************************************************************)
Reply(p, msg) ==
    CASE msg = "Ping" -> <<"Pong">>
      [] msg = "SetMode" /\ p = Client -> <<"ModeAck">>
      [] OTHER -> <<>>

\* handle_inbound: stragglers of the pairing are ignored.
HandleInbound(p) ==
    /\ phase[p] = "active" /\ net[p] # <<>>
    /\ net' = Pipe(p, 1, Reply(p, Head(net[p])))
    /\ inbound' = (inbound \/ (p = Client /\ Head(net[p]) = "RealtimeOpen"))
    /\ UNCHANGED <<trusted, phase, linkVars, pairVars, window, disc, captured, verdict>>

\* The ping timer.  Bound: no ping while one is under way or unanswered.
PingTick(p) ==
    /\ phase[p] = "active"
    /\ \A i \in DOMAIN net[Other(p)] : net[Other(p)][i] # "Ping"
    /\ \A i \in DOMAIN net[p] : net[p][i] # "Pong"
    /\ net' = Pipe(p, 0, <<"Ping">>)
    /\ net' # net
    /\ UNCHANGED <<trusted, phase, linkVars, pairVars, window, disc, captured, inbound, verdict>>

\* Mutant of EndSession: the session does not listen to Disconnect.
EndSessionAtEof(p) ==
    /\ phase[p] = "active" /\ Eof(p)
    /\ Teardown(p)
    /\ UNCHANGED <<trusted, linkVars, pairVars, window, disc, captured, verdict>>

\* The peer closed, or the user disconnects: the loop breaks and tears down.
EndSession(p) ==
    /\ phase[p] = "active" /\ (Eof(p) \/ disc[p])
    /\ Teardown(p)
    /\ UNCHANGED <<trusted, linkVars, pairVars, window, disc, captured, verdict>>

\* The connection ends before the session is active.
LoseConnection(p) ==
    /\ phase[p] \in {"hello", "pairing"} /\ Eof(p)
    /\ Close(p, net)
    /\ UNCHANGED <<trusted, linkVars, pairVars, window, disc, captured, inbound, verdict>>

\* The reader of a session that is over finds that nobody takes what it reads,
\* or that there is nothing left to read.
ReaderStops(p) ==
    /\ phase[p] = "lingering" /\ (net[p] # <<>> \/ Eof(p))
    /\ Close(p, net)
    /\ UNCHANGED <<trusted, linkVars, pairVars, window, disc, captured, inbound, verdict>>
-----------------------------------------------------------------------------
(***************************************************************************)
(* The user's window and the dispatcher; the network.                      *)
(***************************************************************************)
RequestDisconnect(p) ==
    /\ window' = [window EXCEPT ![p] = TRUE]
    /\ UNCHANGED <<trusted, phase, net, linkVars, pairVars, disc, captured, inbound, verdict>>

\* Mutant of Unpair: the session is not told.
UnpairQuietly(p) ==
    /\ trusted[p]
    /\ trusted' = [trusted EXCEPT ![p] = FALSE]
    /\ UNCHANGED <<phase, net, linkVars, pairVars, window, disc, captured, inbound, verdict>>

\* Unpair: the trust is gone at once, the Disconnect is on its way.
Unpair(p) ==
    /\ trusted[p]
    /\ trusted' = [trusted EXCEPT ![p] = FALSE]
    /\ window' = [window EXCEPT ![p] = TRUE]
    /\ UNCHANGED <<phase, net, linkVars, pairVars, disc, captured, inbound, verdict>>

\* The session has filled in the slot its commands are routed by.
Routable(p) == phase[p] \in {"named", "pairing", "active"}

\* route: the dispatcher finds the session by the peer's fingerprint, or drops
\* the command.
Route(p) ==
    /\ window[p]
    /\ window' = [window EXCEPT ![p] = FALSE]
    /\ disc' = [disc EXCEPT ![p] = @ \/ Routable(p)]
    /\ UNCHANGED <<trusted, phase, net, linkVars, pairVars, captured, inbound, verdict>>

\* The connection breaks, with whatever it carried.
Break ==
    /\ up /\ \E p \in Peers : phase[p] # "closed"
    /\ up' = FALSE
    /\ net' = [p \in Peers |-> <<>>]
    /\ UNCHANGED <<trusted, phase, compatible, pairVars, window, disc, captured, inbound, verdict>>

\* The process quits or crashes and is started again.  What the trust store
\* then holds is TrustStore's subject: here the entry is kept, or was lost.
Restart(p) ==
    /\ \E kept \in {trusted[p], FALSE} : trusted' = [trusted EXCEPT ![p] = kept]
    /\ Teardown(p)
    /\ captured' = (captured /\ p # Host)
    /\ window' = [window EXCEPT ![p] = FALSE] /\ disc' = [disc EXCEPT ![p] = FALSE]
    /\ UNCHANGED <<linkVars, pairVars, verdict>>

\* The steps of p's session that need nobody's decision.
Tasks(p) ==
    \/ ReadHello(p) \/ Recognise(p) \/ StartPairing(p)
    \/ ReceiveConfirm(p) \/ ReceivePairBegin(p) \/ BailOut(p)
    \/ HandleInbound(p) \/ LoseConnection(p) \/ ReaderStops(p)

User(p) == UserConfirm(p) \/ UserCancel(p) \/ RequestDisconnect(p) \/ Unpair(p) \/ Restart(p)

\* What the commands, the timer and the end of the peer do to p's session.
Dispatch(p) == Route(p) \/ PingTick(p) \/ EndSession(p) \/ DisconnectPairing(p)

Next ==
    \/ Connect \/ Break
    \/ \E p \in Peers : Tasks(p) \/ User(p) \/ Dispatch(p)

\* The runtime runs every task that can go on, select! starves no branch, and
\* the timer ticks; users and the network owe nothing.
Fairness ==
    \A p \in Peers : /\ WF_vars(Tasks(p)) /\ WF_vars(PingTick(p))
                     /\ WF_vars(EndSession(p)) /\ WF_vars(DisconnectPairing(p))
                     /\ WF_vars(Route(p))

Spec == Init /\ [][Next]_vars /\ Fairness
-----------------------------------------------------------------------------
TypeOK ==
    /\ trusted \in [Peers -> BOOLEAN]
    /\ phase \in [Peers -> {"hello", "named", "pairing", "active", "lingering", "closed"}]
    /\ net \in [Peers -> Seq(Messages)]
    /\ up \in BOOLEAN /\ compatible \in BOOLEAN
    /\ localConf \in [Peers -> BOOLEAN] /\ remoteConf \in [Peers -> BOOLEAN]
    /\ window \in [Peers -> BOOLEAN] /\ disc \in [Peers -> BOOLEAN]
    /\ captured \in BOOLEAN /\ inbound \in BOOLEAN
    /\ verdict \in [Peers -> {"none", "trusted", "unknown"}]
    /\ cancelled \in [Peers -> BOOLEAN]

\* Every confirmation in pipes is backed by a confirmation of the sender's user.
Backed(pipes, confirmed) ==
    \A p \in Peers : \A i \in DOMAIN pipes[p] :
        pipes[p][i] = "PairConfirm" => confirmed[Other(p)]

\* A confirmation an end has heard of, or is about to, is its peer's user's.
ConfirmationsAreReal ==
    /\ \A p \in Peers : remoteConf[p] => localConf[Other(p)]
    /\ Backed(net, localConf)

\* A device becomes trusted only in a connection in which both users have
\* confirmed the code, however messages, cancellations and unpairing interleave
\* (README.md: "Pairing requires a PIN confirmed on both devices").
TrustNeedsBothUsers ==
    [][\A p \in Peers :
          ~trusted[p] /\ trusted'[p] => localConf'[p] /\ localConf'[Other(p)]]_vars

\* A session never survives the revocation of its peer: while one is active
\* with an untrusted peer, the Disconnect that ends it is on its way, also when
\* the revocation falls between the Hello and the trust check.
RevocationReachesSession ==
    \A p \in Peers : phase[p] = "active" /\ ~trusted[p] => disc[p] \/ window[p]

\* The realtime channel is open only in an active session, with a peer that is
\* trusted or whose session is being ended (SECURITY.md: "No action before
\* trust").
DrivenOnlyByTrusted ==
    inbound => phase[Client] = "active" /\ (trusted[Client] \/ disc[Client] \/ window[Client])

\* A pairing is never disturbed by what the other end sends once it has
\* finished pairing itself, or while it still is: only a peer that skipped
\* pairing disturbs it.
PairingIsInStep == \A p \in Peers : Misplaced(p) => verdict[Other(p)] = "trusted"

\* The inductive invariant behind the safety properties.
SessionInv ==
    /\ TypeOK
    /\ ConfirmationsAreReal
    /\ RevocationReachesSession
    /\ DrivenOnlyByTrusted

\* When one end of the connection is over, so is the other in the end: nobody
\* is left controlling, or shown a pairing with, a peer that has gone.
EndsTogether == \A p \in Peers : Over(p) ~> Over(Other(p))

\* Unpairing or disconnecting ends the session.
DisconnectObeyed == \A p \in Peers : disc[p] ~> Over(p)
-----------------------------------------------------------------------------
(***************************************************************************)
(* What the documents and comments say, and the code does not do.          *)
(***************************************************************************)
\* After one side unpairs, pairing again is not cut short (SECURITY.md: "that
\* device must pair again (PIN + confirmation) to reconnect").
CanPairAgain == \A p \in Peers : ~Misplaced(p)

\* A pairing that was cancelled makes nobody trusted
\* (manual-test-checklist.md: "verify cancelling leaves you unpaired").
CancelLeavesUnpaired ==
    [][\A p \in Peers :
          ~trusted[p] /\ trusted'[p] => ~cancelled[p] /\ ~cancelled[Other(p)]]_vars

\* Reconnecting to a trusted device gives control of it again after a session that
\* has captured (manual-test-checklist.md: "Reconnect happens automatically (or via
\* one click) without re-pairing").
ReconnectControls ==
    [][phase[Host] = "named" /\ phase'[Host] # "named" /\ trusted[Host] /\ captured
          => phase'[Host] = "active"]_vars

\* A reader whose session is over ends (net.rs: "Ends when the peer closes ...
\* or the session drops the receiver").
ReaderEnds == \A p \in Peers : phase[p] = "lingering" ~> phase[p] # "lingering"
=============================================================================
