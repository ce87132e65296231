--------------------------- MODULE SessionProofs ----------------------------
(***************************************************************************)
(* SessionInv is an inductive invariant of Session, no device becomes      *)
(* trusted unless both users have confirmed, and a pairing is disturbed    *)
(* only by a peer that skipped it.                                         *)
(***************************************************************************)
EXTENDS Session, SequenceTheorems, TLAPS

LEMMA PeerFacts ==
    /\ Host # Client
    /\ \A p \in Peers : Other(p) \in Peers /\ Other(p) # p /\ Other(Other(p)) = p
    /\ \A p, q \in Peers : q = p \/ q = Other(p)
BY PeersAssumption DEF Peers, Other

Pipes == [Peers -> Seq(Messages)]

\* A piece of a sequence holds nothing the sequence does not hold.
LEMMA PieceOfSequence ==
    ASSUME NEW s \in Seq(Messages), NEW m \in Nat, NEW n \in Nat, m >= 1, n <= Len(s)
    PROVE  /\ SubSeq(s, m, n) \in Seq(Messages)
           /\ \A i \in DOMAIN SubSeq(s, m, n) : \E j \in DOMAIN s : SubSeq(s, m, n)[i] = s[j]
OBVIOUS

\* A concatenation holds nothing its parts do not hold.
LEMMA PartsOfConcatenation ==
    ASSUME NEW s \in Seq(Messages), NEW t \in Seq(Messages)
    PROVE  /\ s \o t \in Seq(Messages)
           /\ \A i \in DOMAIN (s \o t) :
                 \/ \E j \in DOMAIN s : (s \o t)[i] = s[j]
                 \/ \E j \in DOMAIN t : (s \o t)[i] = t[j]
OBVIOUS

\* Cutting a stream keeps the rest backed.
LEMMA CutIsBacked ==
    ASSUME NEW pipes \in Pipes, NEW confirmed, Backed(pipes, confirmed),
           NEW p \in Peers, NEW m \in Nat, NEW n \in Nat, m >= 1, n <= Len(pipes[p])
    PROVE  LET cut == [pipes EXCEPT ![p] = SubSeq(@, m, n)]
           IN  cut \in Pipes /\ Backed(cut, confirmed)
<1> DEFINE cut == [pipes EXCEPT ![p] = SubSeq(@, m, n)]
<1>1. pipes[p] \in Seq(Messages)
  BY DEF Pipes
<1>2. /\ SubSeq(pipes[p], m, n) \in Seq(Messages)
      /\ \A i \in DOMAIN SubSeq(pipes[p], m, n) :
            \E j \in DOMAIN pipes[p] : SubSeq(pipes[p], m, n)[i] = pipes[p][j]
  BY <1>1, PieceOfSequence
<1>3. cut \in Pipes
  BY <1>2 DEF Pipes
<1>4. ASSUME NEW q \in Peers, NEW i \in DOMAIN cut[q], cut[q][i] = "PairConfirm"
      PROVE  confirmed[Other(q)]
  <2>1. CASE q = p
    BY <1>2, <1>4, <2>1 DEF Pipes, Backed
  <2>2. CASE q # p
    BY <1>4, <2>2 DEF Pipes, Backed
  <2> QED BY <2>1, <2>2
<1> QED BY <1>3, <1>4 DEF Backed

\* Emptying a stream, too.
LEMMA EmptyIsBacked ==
    ASSUME NEW pipes \in Pipes, NEW confirmed, Backed(pipes, confirmed), NEW p \in Peers
    PROVE  LET cut == [pipes EXCEPT ![p] = <<>>]
           IN  cut \in Pipes /\ Backed(cut, confirmed)
BY DEF Pipes, Backed

\* What an end reads and writes leaves the streams backed, if the confirmation
\* it writes is its own user's.
LEMMA PipeIsBacked ==
    ASSUME TypeOK, NEW confirmed, Backed(net, confirmed), NEW p \in Peers,
           NEW n \in Nat, NEW msgs \in Seq(Messages),
           \A i \in DOMAIN msgs : msgs[i] = "PairConfirm" => confirmed[p]
    PROVE  Pipe(p, n, msgs) \in Pipes /\ Backed(Pipe(p, n, msgs), confirmed)
<1> DEFINE q == Other(p)
           read == [net EXCEPT ![p] = SubSeq(@, n + 1, Len(@))]
           open == up /\ phase[q] # "closed"
<1>1. net \in Pipes /\ q \in Peers /\ q # p /\ Other(q) = p
  BY PeerFacts DEF TypeOK, Pipes
<1>2. net[p] \in Seq(Messages) /\ net[q] \in Seq(Messages) /\ Len(net[p]) \in Nat
  BY <1>1 DEF Pipes
<1>3. read \in Pipes /\ Backed(read, confirmed)
  <2>1. n + 1 \in Nat /\ n + 1 >= 1 /\ Len(net[p]) <= Len(net[p])
    BY <1>2
  <2> QED BY ONLY <1>1, <1>2, <2>1, CutIsBacked, Backed(net, confirmed), p \in Peers
<1>4. Pipe(p, n, msgs) = [read EXCEPT ![q] = IF open THEN @ \o msgs ELSE @]
  BY <1>1 DEF Pipe, Pipes
<1>5. CASE ~open
  <2>1. Pipe(p, n, msgs) = read
    BY <1>3, <1>4, <1>5 DEF Pipes
  <2> QED BY <2>1, <1>3
<1>6. CASE open
  <2> DEFINE full == [read EXCEPT ![q] = @ \o msgs]
  <2>1. Pipe(p, n, msgs) = full
    BY <1>4, <1>6
  <2>2. read[q] \in Seq(Messages)
    BY <1>1, <1>3 DEF Pipes
  <2>3. /\ read[q] \o msgs \in Seq(Messages)
        /\ \A i \in DOMAIN (read[q] \o msgs) :
              \/ \E j \in DOMAIN read[q] : (read[q] \o msgs)[i] = read[q][j]
              \/ \E j \in DOMAIN msgs : (read[q] \o msgs)[i] = msgs[j]
    BY <2>2, PartsOfConcatenation
  <2> HIDE DEF read
  <2>4. full \in Pipes
    BY <1>3, <2>3 DEF Pipes
  <2>5. ASSUME NEW r \in Peers, NEW i \in DOMAIN full[r], full[r][i] = "PairConfirm"
        PROVE  confirmed[Other(r)]
    <3>1. CASE r = q
      <4>1. full[r] = read[q] \o msgs
        BY <3>1, <1>1, <1>3 DEF Pipes
      <4>2. CASE \E j \in DOMAIN read[q] : full[r][i] = read[q][j]
        BY <4>2, <3>1, <2>5, <1>1, <1>3 DEF Backed
      <4>3. CASE \E j \in DOMAIN msgs : full[r][i] = msgs[j]
        BY <4>3, <3>1, <2>5, <1>1
      <4> QED BY <4>1, <4>2, <4>3, <2>3, <2>5
    <3>2. CASE r # q
      <4>1. full[r] = read[r]
        BY <3>2, <1>3 DEF Pipes
      <4> QED BY <4>1, <2>5, <1>3 DEF Backed
    <3> QED BY <3>1, <3>2
  <2> QED BY <2>1, <2>4, <2>5 DEF Backed
<1> QED BY <1>5, <1>6

\* The three ways a session returns leave the streams backed.
LEMMA CloseIsBacked ==
    ASSUME NEW pipes \in Pipes, NEW confirmed, Backed(pipes, confirmed),
           NEW p \in Peers, Close(p, pipes)
    PROVE  net' \in Pipes /\ Backed(net', confirmed)
BY EmptyIsBacked DEF Close

LEMMA AbandonIsBacked ==
    ASSUME NEW pipes \in Pipes, NEW confirmed, Backed(pipes, confirmed),
           NEW p \in Peers, Abandon(p, pipes)
    PROVE  net' \in Pipes /\ Backed(net', confirmed)
<1>1. pipes[p] \in Seq(Messages) /\ Len(pipes[p]) \in Nat
  BY DEF Pipes
<1>2. PICK n \in 0 .. Len(pipes[p]) :
         net' = [pipes EXCEPT ![p] = SubSeq(@, n + 1, Len(@))]
  BY DEF Abandon
<1>3. n + 1 \in Nat /\ n + 1 >= 1 /\ Len(pipes[p]) <= Len(pipes[p])
  BY <1>1
<1>4. LET cut == [pipes EXCEPT ![p] = SubSeq(@, n + 1, Len(pipes[p]))]
      IN  cut \in Pipes /\ Backed(cut, confirmed)
  BY <1>1, <1>3, CutIsBacked
<1> QED BY <1>2, <1>4

LEMMA TeardownIsBacked ==
    ASSUME TypeOK, NEW confirmed, Backed(net, confirmed), NEW p \in Peers, Teardown(p)
    PROVE  net' \in Pipes /\ Backed(net', confirmed)
<1> DEFINE q == Other(p)
<1>1. net \in Pipes /\ q \in Peers /\ q # p
  BY PeerFacts DEF TypeOK, Pipes
<1>2. net[q] \in Seq(Messages) /\ Len(net[q]) \in Nat
  BY <1>1 DEF Pipes
<1>3. PICK n \in 0 .. Len(net[q]) :
         net' = [net EXCEPT ![p] = <<>>, ![q] = SubSeq(@, 1, n)]
  BY DEF Teardown
<1> DEFINE first == [net EXCEPT ![p] = <<>>]
<1>4. first \in Pipes /\ Backed(first, confirmed)
  BY <1>1, EmptyIsBacked
<1>5. first[q] = net[q]
  BY <1>1 DEF Pipes
<1>6. net' = [first EXCEPT ![q] = SubSeq(@, 1, n)]
  BY <1>1, <1>3, <1>5 DEF Pipes
<1>7. n \in Nat /\ 1 \in Nat /\ 1 >= 1 /\ n <= Len(first[q])
  BY <1>2, <1>5
<1> HIDE DEF first, q
<1>8. LET cut == [first EXCEPT ![q] = SubSeq(@, 1, n)]
      IN  cut \in Pipes /\ Backed(cut, confirmed)
  BY ONLY <1>1, <1>4, <1>7, CutIsBacked
<1> QED BY <1>6, <1>8
-----------------------------------------------------------------------------
\* A step that confirms nothing keeps the confirmations real if it leaves the
\* streams backed.
LEMMA NothingConfirmed ==
    ASSUME ConfirmationsAreReal, Backed(net', localConf), UNCHANGED <<localConf, remoteConf>>
    PROVE  ConfirmationsAreReal'
BY DEF ConfirmationsAreReal, Backed

\* A step that moves one end among the phases that are not active, and touches
\* neither commands nor the realtime slot, and takes no trust away.
LEMMA InactiveStep ==
    ASSUME SessionInv, NEW p \in Peers, phase[p] # "active",
           NEW to \in {"hello", "named", "pairing", "lingering", "closed"},
           phase' = [phase EXCEPT ![p] = to],
           trusted' \in {trusted, [trusted EXCEPT ![p] = TRUE]},
           UNCHANGED <<window, disc, inbound>>
    PROVE  RevocationReachesSession' /\ DrivenOnlyByTrusted'
BY PeersAssumption DEF SessionInv, TypeOK, RevocationReachesSession, DrivenOnlyByTrusted, Peers

\* An end that becomes active with a peer it trusts.
LEMMA ActiveStep ==
    ASSUME SessionInv, NEW p \in Peers, phase[p] # "active", trusted'[p],
           trusted' = [trusted EXCEPT ![p] = TRUE],
           phase' = [phase EXCEPT ![p] = "active"],
           UNCHANGED <<window, disc, inbound>>
    PROVE  RevocationReachesSession' /\ DrivenOnlyByTrusted'
BY PeersAssumption DEF SessionInv, TypeOK, RevocationReachesSession, DrivenOnlyByTrusted, Peers

\* The messages of the actions are messages.
LEMMA MessageFacts ==
    /\ <<>> \in Seq(Messages)
    /\ \A m \in Messages : <<m>> \in Seq(Messages)
    /\ \A p \in Peers : Opening(p) \in Seq(Messages)
    /\ \A p \in Peers : \A i \in DOMAIN Opening(p) : Opening(p)[i] # "PairConfirm"
<1>1. <<>> \in Seq(Messages) /\ \A m \in Messages : <<m>> \in Seq(Messages)
  OBVIOUS
<1>2. ASSUME NEW p \in Peers
      PROVE  /\ Opening(p) \in Seq(Messages)
             /\ \A i \in DOMAIN Opening(p) : Opening(p)[i] # "PairConfirm"
  <2>1. CASE p = Host
    <3>1. Opening(p) = <<"SetMode", "RealtimeOpen">>
      BY <2>1 DEF Opening
    <3>2. DOMAIN Opening(p) = 1 .. 2
      BY <3>1
    <3> QED BY <3>1, <3>2 DEF Messages
  <2>2. CASE p # Host
    BY <2>2 DEF Opening
  <2> QED BY <2>1, <2>2
<1> QED BY <1>1, <1>2
-----------------------------------------------------------------------------
\* The end of a successful trust check or pairing.
LEMMA AuthenticateStep ==
    ASSUME SessionInv, NEW p \in Peers, phase[p] # "active",
           NEW pipes \in Pipes, NEW confirmed, Backed(pipes, confirmed),
           Authenticate(p, pipes),
           trusted' = [trusted EXCEPT ![p] = TRUE],
           UNCHANGED <<window, disc, inbound>>
    PROVE  /\ net' \in Pipes /\ Backed(net', confirmed)
           /\ phase' \in [Peers -> {"active", "lingering", "hello", "named", "pairing", "closed"}]
           /\ captured' \in BOOLEAN
           /\ RevocationReachesSession' /\ DrivenOnlyByTrusted'
<1>1. CASE p = Host /\ Abandon(p, pipes) /\ captured' \in {captured, TRUE}
  <2>1. Abandon(p, pipes) /\ captured' \in BOOLEAN
    BY <1>1 DEF SessionInv, TypeOK
  <2>2. phase' = [phase EXCEPT ![p] = "lingering"]
    BY <2>1 DEF Abandon
  <2>3. net' \in Pipes /\ Backed(net', confirmed)
    BY <2>1, AbandonIsBacked
  <2>4. RevocationReachesSession' /\ DrivenOnlyByTrusted'
    BY <2>2, InactiveStep
  <2> QED BY <2>1, <2>2, <2>3, <2>4 DEF SessionInv, TypeOK
<1>2. CASE /\ phase' = [phase EXCEPT ![p] = "active"]
           /\ net' = pipes
           /\ captured' = (captured \/ p = Host)
  <2>1. phase' = [phase EXCEPT ![p] = "active"] /\ net' = pipes /\ captured' \in BOOLEAN
    BY <1>2 DEF SessionInv, TypeOK
  <2>2. trusted'[p]
    BY DEF SessionInv, TypeOK
  <2>3. RevocationReachesSession' /\ DrivenOnlyByTrusted'
    BY <2>1, <2>2, ActiveStep
  <2> QED BY <2>1, <2>3 DEF SessionInv, TypeOK
<1> QED BY <1>1, <1>2 DEF Authenticate

\* Streams after a step that consumes n messages and sends nothing of the
\* pairing.
LEMMA PlainPipe ==
    ASSUME SessionInv, NEW p \in Peers, NEW n \in Nat, NEW msgs \in Seq(Messages),
           \A i \in DOMAIN msgs : msgs[i] # "PairConfirm"
    PROVE  Pipe(p, n, msgs) \in Pipes /\ Backed(Pipe(p, n, msgs), localConf)
<1>1. TypeOK /\ Backed(net, localConf)
  BY DEF SessionInv, ConfirmationsAreReal
<1>2. \A i \in DOMAIN msgs : msgs[i] = "PairConfirm" => localConf[p]
  OBVIOUS
<1> QED BY <1>1, <1>2, PipeIsBacked

\* The Hello.
LEMMA ReadHelloInv == ASSUME SessionInv, NEW p \in Peers, ReadHello(p) PROVE SessionInv'
<1>1. /\ Pipe(p, 1, <<>>) \in Pipes /\ Backed(Pipe(p, 1, <<>>), localConf)
      /\ Pipe(p, 1, <<"Reject">>) \in Pipes /\ Backed(Pipe(p, 1, <<"Reject">>), localConf)
  <2>1. /\ <<>> \in Seq(Messages) /\ \A i \in DOMAIN <<>> : <<>>[i] # "PairConfirm"
        /\ <<"Reject">> \in Seq(Messages)
        /\ \A i \in DOMAIN <<"Reject">> : <<"Reject">>[i] # "PairConfirm"
    BY DEF Messages
  <2> QED BY <2>1, PlainPipe
<1>2. /\ net' \in Pipes /\ Backed(net', localConf)
      /\ \E to \in {"named", "closed"} : phase' = [phase EXCEPT ![p] = to]
  <2>1. CASE compatible
    BY <1>1, <2>1 DEF ReadHello
  <2>2. CASE ~compatible
    <3>1. Close(p, Pipe(p, 1, <<"Reject">>))
      BY <2>2 DEF ReadHello
    <3> QED BY <1>1, <3>1, CloseIsBacked DEF Close
  <2> QED BY <2>1, <2>2
<1>3. TypeOK'
  BY <1>2 DEF SessionInv, TypeOK, ReadHello, linkVars, pairVars, Pipes
<1>4. ConfirmationsAreReal'
  BY <1>2, NothingConfirmed DEF SessionInv, ReadHello, pairVars
<1>5. RevocationReachesSession' /\ DrivenOnlyByTrusted'
  BY <1>2, InactiveStep DEF ReadHello
<1> QED BY <1>3, <1>4, <1>5 DEF SessionInv

\* The trust check that finds the peer trusted.
LEMMA RecogniseInv == ASSUME SessionInv, NEW p \in Peers, Recognise(p) PROVE SessionInv'
<1>1. Pipe(p, 0, Opening(p)) \in Pipes /\ Backed(Pipe(p, 0, Opening(p)), localConf)
  BY MessageFacts, PlainPipe
<1>2. trusted' = [trusted EXCEPT ![p] = TRUE]
  BY DEF Recognise, SessionInv, TypeOK
<1>3. /\ net' \in Pipes /\ Backed(net', localConf)
      /\ phase' \in [Peers -> {"active", "lingering", "hello", "named", "pairing", "closed"}]
      /\ captured' \in BOOLEAN
      /\ RevocationReachesSession' /\ DrivenOnlyByTrusted'
  BY <1>1, <1>2, AuthenticateStep DEF Recognise
<1>4. TypeOK'
  BY <1>3 DEF SessionInv, TypeOK, Recognise, linkVars, pairVars, Pipes
<1>5. ConfirmationsAreReal'
  BY <1>3, NothingConfirmed DEF SessionInv, Recognise, pairVars
<1> QED BY <1>3, <1>4, <1>5 DEF SessionInv

\* The trust check that does not.
LEMMA StartPairingInv == ASSUME SessionInv, NEW p \in Peers, StartPairing(p) PROVE SessionInv'
<1>1. net' \in Pipes /\ Backed(net', localConf)
  <2>1. /\ <<"PairBegin">> \in Seq(Messages)
        /\ \A i \in DOMAIN <<"PairBegin">> : <<"PairBegin">>[i] # "PairConfirm"
    BY DEF Messages
  <2> QED BY <2>1, PlainPipe DEF StartPairing
<1>2. TypeOK'
  BY <1>1 DEF SessionInv, TypeOK, StartPairing, linkVars, pairVars, Pipes
<1>3. ConfirmationsAreReal'
  BY <1>1, NothingConfirmed DEF SessionInv, StartPairing, pairVars
<1>4. RevocationReachesSession' /\ DrivenOnlyByTrusted'
  BY InactiveStep DEF StartPairing
<1> QED BY <1>2, <1>3, <1>4 DEF SessionInv
-----------------------------------------------------------------------------
\* The end of a turn of the pairing loop, whichever way it goes.
LEMMA ConcludeStep ==
    ASSUME SessionInv, NEW p \in Peers, phase[p] = "pairing", NEW n \in Nat,
           NEW msgs \in Seq(Messages), NEW confirmed, Backed(net, confirmed),
           \A i \in DOMAIN msgs : msgs[i] = "PairConfirm" => confirmed[p],
           Conclude(p, n, msgs), UNCHANGED <<window, disc, inbound>>
    PROVE  /\ net' \in Pipes /\ Backed(net', confirmed)
           /\ phase' \in [Peers -> {"active", "lingering", "hello", "named", "pairing", "closed"}]
           /\ captured' \in BOOLEAN /\ trusted' \in [Peers -> BOOLEAN]
           /\ RevocationReachesSession' /\ DrivenOnlyByTrusted'
<1>1. Pipe(p, n, msgs) \in Pipes /\ Backed(Pipe(p, n, msgs), confirmed)
  BY PipeIsBacked DEF SessionInv
<1>2. /\ Pipe(p, n, msgs \o Opening(p)) \in Pipes
      /\ Backed(Pipe(p, n, msgs \o Opening(p)), confirmed)
  <2>1. Opening(p) \in Seq(Messages) /\ \A i \in DOMAIN Opening(p) : Opening(p)[i] # "PairConfirm"
    BY MessageFacts
  <2>2. msgs \o Opening(p) \in Seq(Messages)
    BY <2>1, PartsOfConcatenation
  <2>3. \A i \in DOMAIN (msgs \o Opening(p)) :
           (msgs \o Opening(p))[i] = "PairConfirm" => confirmed[p]
    BY <2>1, PartsOfConcatenation
  <2> QED BY <2>2, <2>3, PipeIsBacked DEF SessionInv
<1>3. CASE IsComplete(localConf'[p], remoteConf'[p])
  <2>1. trusted' = [trusted EXCEPT ![p] = TRUE]
    BY <1>3 DEF Conclude
  <2>2. CASE Authenticate(p, Pipe(p, n, msgs \o Opening(p)))
    BY <1>2, <2>1, <2>2, AuthenticateStep DEF SessionInv, TypeOK
  <2>3. CASE Abandon(p, Pipe(p, n, msgs)) /\ UNCHANGED captured
    <3>1. net' \in Pipes /\ Backed(net', confirmed)
      BY <1>1, <2>3, AbandonIsBacked
    <3>2. phase' = [phase EXCEPT ![p] = "lingering"]
      BY <2>3 DEF Abandon
    <3>3. RevocationReachesSession' /\ DrivenOnlyByTrusted'
      BY <2>1, <3>2, InactiveStep
    <3> QED BY <2>1, <2>3, <3>1, <3>2, <3>3 DEF SessionInv, TypeOK
  <2> QED BY <1>3, <2>2, <2>3 DEF Conclude
<1>4. CASE ~IsComplete(localConf'[p], remoteConf'[p])
  <2>1. net' = Pipe(p, n, msgs) /\ UNCHANGED <<trusted, phase, captured>>
    BY <1>4 DEF Conclude
  <2>2. RevocationReachesSession' /\ DrivenOnlyByTrusted'
    BY <2>1 DEF SessionInv, RevocationReachesSession, DrivenOnlyByTrusted
  <2> QED BY <1>1, <2>1, <2>2 DEF SessionInv, TypeOK
<1> QED BY <1>3, <1>4

\* The peer's confirmation: it is backed by the peer's user.
LEMMA ReceiveConfirmInv == ASSUME SessionInv, NEW p \in Peers, ReceiveConfirm(p) PROVE SessionInv'
<1>1. net[p] # <<>> /\ net[p] \in Seq(Messages) /\ Head(net[p]) = "PairConfirm"
  BY DEF ReceiveConfirm, Incoming, SessionInv, TypeOK
<1>2. localConf[Other(p)]
  <2>1. 1 \in DOMAIN net[p] /\ net[p][1] = "PairConfirm"
    BY <1>1
  <2> QED BY <2>1 DEF SessionInv, ConfirmationsAreReal, Backed
<1>3. Backed(net, localConf)
  BY DEF SessionInv, ConfirmationsAreReal
<1>4. /\ net' \in Pipes /\ Backed(net', localConf)
      /\ phase' \in [Peers -> {"active", "lingering", "hello", "named", "pairing", "closed"}]
      /\ captured' \in BOOLEAN /\ trusted' \in [Peers -> BOOLEAN]
      /\ RevocationReachesSession' /\ DrivenOnlyByTrusted'
  <2>1. <<>> \in Seq(Messages) /\ \A i \in DOMAIN <<>> : <<>>[i] = "PairConfirm" => localConf[p]
    OBVIOUS
  <2>2. 1 \in Nat /\ phase[p] = "pairing" /\ Conclude(p, 1, <<>>) /\ UNCHANGED <<window, disc, inbound>>
    BY DEF ReceiveConfirm
  <2> QED BY <1>3, <2>1, <2>2, ConcludeStep
<1>5. TypeOK'
  BY <1>4 DEF SessionInv, TypeOK, ReceiveConfirm, linkVars, Pipes
<1>6. ConfirmationsAreReal'
  BY <1>2, <1>4 DEF SessionInv, TypeOK, ReceiveConfirm, ConfirmationsAreReal, Backed
<1> QED BY <1>4, <1>5, <1>6 DEF SessionInv

\* The local user's confirmation, which backs the message that carries it.
LEMMA UserConfirmInv == ASSUME SessionInv, NEW p \in Peers, UserConfirm(p) PROVE SessionInv'
<1>1. localConf' = [localConf EXCEPT ![p] = TRUE] /\ localConf \in [Peers -> BOOLEAN]
  BY DEF UserConfirm, SessionInv, TypeOK
<1>2. PICK confirmed : confirmed = localConf'
  OBVIOUS
<1>3. Backed(net, confirmed)
  BY <1>1, <1>2, PeerFacts DEF SessionInv, ConfirmationsAreReal, Backed
<1>4. confirmed[p]
  BY <1>1, <1>2
<1>5. /\ net' \in Pipes /\ Backed(net', confirmed)
      /\ phase' \in [Peers -> {"active", "lingering", "hello", "named", "pairing", "closed"}]
      /\ captured' \in BOOLEAN /\ trusted' \in [Peers -> BOOLEAN]
      /\ RevocationReachesSession' /\ DrivenOnlyByTrusted'
  <2>1. /\ <<"PairConfirm">> \in Seq(Messages)
        /\ \A i \in DOMAIN <<"PairConfirm">> : <<"PairConfirm">>[i] = "PairConfirm" => confirmed[p]
    BY <1>4 DEF Messages
  <2>2. /\ 0 \in Nat /\ phase[p] = "pairing" /\ Conclude(p, 0, <<"PairConfirm">>)
        /\ UNCHANGED <<window, disc, inbound>>
    BY DEF UserConfirm
  <2> QED BY <1>3, <2>1, <2>2, ConcludeStep
<1>6. TypeOK'
  BY <1>1, <1>5 DEF SessionInv, TypeOK, UserConfirm, linkVars, Pipes
<1>7. ConfirmationsAreReal'
  <2>1. \A q \in Peers : remoteConf'[q] => localConf'[Other(q)]
    BY <1>1, PeerFacts DEF SessionInv, ConfirmationsAreReal, UserConfirm
  <2> QED BY <2>1, <1>2, <1>5 DEF ConfirmationsAreReal, Backed
<1> QED BY <1>5, <1>6, <1>7 DEF SessionInv
-----------------------------------------------------------------------------
\* The streams as they are.
LEMMA NetIsBacked == ASSUME SessionInv PROVE net \in Pipes /\ Backed(net, localConf)
BY DEF SessionInv, TypeOK, ConfirmationsAreReal, Pipes

\* The peer's PairBegin.
LEMMA ReceivePairBeginInv == ASSUME SessionInv, NEW p \in Peers, ReceivePairBegin(p) PROVE SessionInv'
<1>1. net' \in Pipes /\ Backed(net', localConf)
  <2>1. <<>> \in Seq(Messages) /\ \A i \in DOMAIN <<>> : <<>>[i] # "PairConfirm"
    OBVIOUS
  <2> QED BY <2>1, PlainPipe DEF ReceivePairBegin
<1>2. TypeOK'
  BY <1>1 DEF SessionInv, TypeOK, ReceivePairBegin, linkVars, pairVars, Pipes
<1>3. ConfirmationsAreReal'
  BY <1>1, NothingConfirmed DEF SessionInv, ReceivePairBegin, pairVars
<1>4. RevocationReachesSession' /\ DrivenOnlyByTrusted'
  BY DEF SessionInv, RevocationReachesSession, DrivenOnlyByTrusted, ReceivePairBegin
<1> QED BY <1>2, <1>3, <1>4 DEF SessionInv

\* The pairing ends from the other side.
LEMMA BailOutInv == ASSUME SessionInv, NEW p \in Peers, BailOut(p) PROVE SessionInv'
<1>1. net' \in Pipes /\ Backed(net', localConf)
  <2>1. Pipe(p, 1, <<>>) \in Pipes /\ Backed(Pipe(p, 1, <<>>), localConf)
    <3>1. <<>> \in Seq(Messages) /\ \A i \in DOMAIN <<>> : <<>>[i] # "PairConfirm"
      OBVIOUS
    <3> QED BY <3>1, PlainPipe
  <2> QED BY <2>1, AbandonIsBacked DEF BailOut
<1>2. TypeOK'
  BY <1>1 DEF SessionInv, TypeOK, BailOut, Abandon, linkVars, pairVars, Pipes
<1>3. ConfirmationsAreReal'
  BY <1>1, NothingConfirmed DEF SessionInv, BailOut, Abandon, pairVars
<1>4. RevocationReachesSession' /\ DrivenOnlyByTrusted'
  BY InactiveStep DEF BailOut, Abandon
<1> QED BY <1>2, <1>3, <1>4 DEF SessionInv

\* The pairing ends from this side.
LEMMA GiveUpInv ==
    ASSUME SessionInv, NEW p \in Peers, GiveUp(p), cancelled' \in [Peers -> BOOLEAN]
    PROVE  SessionInv'
<1>1. net' \in Pipes /\ Backed(net', localConf)
  <2>1. /\ <<"PairCancel">> \in Seq(Messages)
        /\ \A i \in DOMAIN <<"PairCancel">> : <<"PairCancel">>[i] # "PairConfirm"
    BY DEF Messages
  <2>2. /\ Pipe(p, 0, <<"PairCancel">>) \in Pipes
        /\ Backed(Pipe(p, 0, <<"PairCancel">>), localConf)
    BY <2>1, PlainPipe
  <2> QED BY <2>2, AbandonIsBacked DEF GiveUp
<1>2. TypeOK'
  BY <1>1 DEF SessionInv, TypeOK, GiveUp, Abandon, linkVars, Pipes
<1>3. ConfirmationsAreReal'
  BY <1>1, NothingConfirmed DEF SessionInv, GiveUp
<1>4. RevocationReachesSession' /\ DrivenOnlyByTrusted'
  BY InactiveStep DEF GiveUp, Abandon
<1> QED BY <1>2, <1>3, <1>4 DEF SessionInv

\* A message of an active session: the realtime slot is filled by a session that
\* RevocationReachesSession speaks of.
LEMMA HandleInboundInv == ASSUME SessionInv, NEW p \in Peers, HandleInbound(p) PROVE SessionInv'
<1>1. net' \in Pipes /\ Backed(net', localConf)
  <2>1. Reply(p, Head(net[p])) \in {<<"Pong">>, <<"ModeAck">>, <<>>}
    BY DEF Reply
  <2>2. /\ Reply(p, Head(net[p])) \in Seq(Messages)
        /\ \A i \in DOMAIN Reply(p, Head(net[p])) : Reply(p, Head(net[p]))[i] # "PairConfirm"
    <3>1. /\ <<"Pong">> \in Seq(Messages)
          /\ \A i \in DOMAIN <<"Pong">> : <<"Pong">>[i] # "PairConfirm"
      BY DEF Messages
    <3>2. /\ <<"ModeAck">> \in Seq(Messages)
          /\ \A i \in DOMAIN <<"ModeAck">> : <<"ModeAck">>[i] # "PairConfirm"
      BY DEF Messages
    <3>3. <<>> \in Seq(Messages) /\ \A i \in DOMAIN <<>> : <<>>[i] # "PairConfirm"
      OBVIOUS
    <3> QED BY ONLY <2>1, <3>1, <3>2, <3>3
  <2> QED BY <2>2, PlainPipe DEF HandleInbound
<1>2. TypeOK'
  BY <1>1 DEF SessionInv, TypeOK, HandleInbound, linkVars, pairVars, Pipes
<1>3. ConfirmationsAreReal'
  BY <1>1, NothingConfirmed DEF SessionInv, HandleInbound, pairVars
<1>4. RevocationReachesSession' /\ DrivenOnlyByTrusted'
  BY DEF SessionInv, RevocationReachesSession, DrivenOnlyByTrusted, HandleInbound, Peers
<1> QED BY <1>2, <1>3, <1>4 DEF SessionInv

\* A ping.
LEMMA PingTickInv == ASSUME SessionInv, NEW p \in Peers, PingTick(p) PROVE SessionInv'
<1>1. net' \in Pipes /\ Backed(net', localConf)
  <2>1. <<"Ping">> \in Seq(Messages) /\ \A i \in DOMAIN <<"Ping">> : <<"Ping">>[i] # "PairConfirm"
    BY DEF Messages
  <2> QED BY <2>1, PlainPipe DEF PingTick
<1>2. TypeOK'
  BY <1>1 DEF SessionInv, TypeOK, PingTick, linkVars, pairVars, Pipes
<1>3. ConfirmationsAreReal'
  BY <1>1, NothingConfirmed DEF SessionInv, PingTick, pairVars
<1>4. RevocationReachesSession' /\ DrivenOnlyByTrusted'
  BY DEF SessionInv, RevocationReachesSession, DrivenOnlyByTrusted, PingTick
<1> QED BY <1>2, <1>3, <1>4 DEF SessionInv

\* The end of an active session.
LEMMA EndSessionInv == ASSUME SessionInv, NEW p \in Peers, EndSession(p) PROVE SessionInv'
<1>1. net' \in Pipes /\ Backed(net', localConf)
  BY NetIsBacked, TeardownIsBacked DEF EndSession, SessionInv
<1>2. TypeOK'
  BY <1>1 DEF SessionInv, TypeOK, EndSession, Teardown, linkVars, pairVars, Pipes
<1>3. ConfirmationsAreReal'
  BY <1>1, NothingConfirmed DEF SessionInv, EndSession, Teardown, pairVars
<1>4. RevocationReachesSession' /\ DrivenOnlyByTrusted'
  BY PeersAssumption DEF SessionInv, TypeOK, RevocationReachesSession, DrivenOnlyByTrusted,
     EndSession, Teardown, Peers
<1> QED BY <1>2, <1>3, <1>4 DEF SessionInv

\* The end of one that is not active yet.
LEMMA LoseConnectionInv == ASSUME SessionInv, NEW p \in Peers, LoseConnection(p) PROVE SessionInv'
<1>1. net' \in Pipes /\ Backed(net', localConf)
  BY NetIsBacked, CloseIsBacked DEF LoseConnection
<1>2. TypeOK'
  BY <1>1 DEF SessionInv, TypeOK, LoseConnection, Close, linkVars, pairVars, Pipes
<1>3. ConfirmationsAreReal'
  BY <1>1, NothingConfirmed DEF SessionInv, LoseConnection, Close, pairVars
<1>4. RevocationReachesSession' /\ DrivenOnlyByTrusted'
  <2>1. phase[p] # "active"
    BY DEF LoseConnection
  <2> QED BY <2>1, InactiveStep DEF LoseConnection, Close
<1> QED BY <1>2, <1>3, <1>4 DEF SessionInv

\* The end of an orphaned reader.
LEMMA ReaderStopsInv == ASSUME SessionInv, NEW p \in Peers, ReaderStops(p) PROVE SessionInv'
<1>1. net' \in Pipes /\ Backed(net', localConf)
  BY NetIsBacked, CloseIsBacked DEF ReaderStops
<1>2. TypeOK'
  BY <1>1 DEF SessionInv, TypeOK, ReaderStops, Close, linkVars, pairVars, Pipes
<1>3. ConfirmationsAreReal'
  BY <1>1, NothingConfirmed DEF SessionInv, ReaderStops, Close, pairVars
<1>4. RevocationReachesSession' /\ DrivenOnlyByTrusted'
  <2>1. phase[p] # "active"
    BY DEF ReaderStops
  <2> QED BY <2>1, InactiveStep DEF ReaderStops, Close
<1> QED BY <1>2, <1>3, <1>4 DEF SessionInv

\* A command on its way.
LEMMA RequestDisconnectInv == ASSUME SessionInv, NEW p \in Peers, RequestDisconnect(p) PROVE SessionInv'
<1>1. net' \in Pipes /\ Backed(net', localConf)
  BY NetIsBacked DEF RequestDisconnect
<1>2. TypeOK'
  BY <1>1 DEF SessionInv, TypeOK, RequestDisconnect, linkVars, pairVars, Pipes
<1>3. ConfirmationsAreReal'
  BY <1>1, NothingConfirmed DEF SessionInv, RequestDisconnect, pairVars
<1>4. RevocationReachesSession' /\ DrivenOnlyByTrusted'
  BY DEF SessionInv, TypeOK, RevocationReachesSession, DrivenOnlyByTrusted, RequestDisconnect, Routable, Peers
<1> QED BY <1>2, <1>3, <1>4 DEF SessionInv

\* A revocation: the command that ends the session is on its way.
LEMMA UnpairInv == ASSUME SessionInv, NEW p \in Peers, Unpair(p) PROVE SessionInv'
<1>1. net' \in Pipes /\ Backed(net', localConf)
  BY NetIsBacked DEF Unpair
<1>2. TypeOK'
  BY <1>1 DEF SessionInv, TypeOK, Unpair, linkVars, pairVars, Pipes
<1>3. ConfirmationsAreReal'
  BY <1>1, NothingConfirmed DEF SessionInv, Unpair, pairVars
<1>4. RevocationReachesSession' /\ DrivenOnlyByTrusted'
  BY DEF SessionInv, TypeOK, RevocationReachesSession, DrivenOnlyByTrusted, Unpair, Routable, Peers
<1> QED BY <1>2, <1>3, <1>4 DEF SessionInv

\* A command that arrives: an active session has filled in its slot.
LEMMA RouteInv == ASSUME SessionInv, NEW p \in Peers, Route(p) PROVE SessionInv'
<1>1. net' \in Pipes /\ Backed(net', localConf)
  BY NetIsBacked DEF Route
<1>2. TypeOK'
  BY <1>1 DEF SessionInv, TypeOK, Route, linkVars, pairVars, Pipes
<1>3. ConfirmationsAreReal'
  BY <1>1, NothingConfirmed DEF SessionInv, Route, pairVars
<1>4. RevocationReachesSession' /\ DrivenOnlyByTrusted'
  BY DEF SessionInv, TypeOK, RevocationReachesSession, DrivenOnlyByTrusted, Route, Routable, Peers
<1> QED BY <1>2, <1>3, <1>4 DEF SessionInv

\* A process that starts again.
LEMMA RestartInv == ASSUME SessionInv, NEW p \in Peers, Restart(p) PROVE SessionInv'
<1>1. net' \in Pipes /\ Backed(net', localConf)
  BY NetIsBacked, TeardownIsBacked DEF Restart, SessionInv
<1>2. TypeOK'
  <2>1. trusted' \in [Peers -> BOOLEAN]
    BY DEF SessionInv, TypeOK, Restart
  <2>2. /\ phase' \in [Peers -> {"hello", "named", "pairing", "active", "lingering", "closed"}]
        /\ inbound' \in BOOLEAN /\ captured' \in BOOLEAN
    BY DEF SessionInv, TypeOK, Restart, Teardown
  <2>3. window' \in [Peers -> BOOLEAN] /\ disc' \in [Peers -> BOOLEAN]
    BY DEF SessionInv, TypeOK, Restart
  <2> QED BY <1>1, <2>1, <2>2, <2>3 DEF SessionInv, TypeOK, Restart, linkVars, pairVars, Pipes
<1>3. ConfirmationsAreReal'
  BY <1>1, NothingConfirmed DEF SessionInv, Restart, pairVars
<1>4. RevocationReachesSession' /\ DrivenOnlyByTrusted'
  BY PeersAssumption DEF SessionInv, TypeOK, RevocationReachesSession, DrivenOnlyByTrusted,
     Restart, Teardown, Peers
<1> QED BY <1>2, <1>3, <1>4 DEF SessionInv

\* A new connection: nothing is confirmed and nothing has been sent but Hello.
LEMMA ConnectInv == ASSUME SessionInv, Connect PROVE SessionInv'
<1>1. TypeOK'
  BY DEF SessionInv, TypeOK, Connect, Messages
<1>2. ConfirmationsAreReal'
  BY DEF Connect, ConfirmationsAreReal, Backed
<1>3. RevocationReachesSession' /\ DrivenOnlyByTrusted'
  BY DEF SessionInv, RevocationReachesSession, DrivenOnlyByTrusted, Connect, Over, Peers
<1> QED BY <1>1, <1>2, <1>3 DEF SessionInv

\* The network gives up the connection.
LEMMA BreakInv == ASSUME SessionInv, Break PROVE SessionInv'
<1>1. TypeOK'
  <2>1. <<>> \in Seq(Messages)
    OBVIOUS
  <2>2. net' \in [Peers -> Seq(Messages)]
    BY <2>1 DEF Break
  <2> QED BY <2>2 DEF SessionInv, TypeOK, Break, pairVars
<1>2. ConfirmationsAreReal'
  BY DEF SessionInv, Break, ConfirmationsAreReal, Backed, pairVars
<1>3. RevocationReachesSession' /\ DrivenOnlyByTrusted'
  BY DEF SessionInv, RevocationReachesSession, DrivenOnlyByTrusted, Break
<1> QED BY <1>1, <1>2, <1>3 DEF SessionInv

\* Nobody is connected at first.
LEMMA InitInv == Init => SessionInv
<1> SUFFICES ASSUME Init PROVE SessionInv
  OBVIOUS
<1>1. TypeOK
  <2>1. <<>> \in Seq(Messages)
    OBVIOUS
  <2>2. net \in [Peers -> Seq(Messages)]
    BY <2>1 DEF Init
  <2> QED BY <2>2 DEF Init, TypeOK
<1>2. ConfirmationsAreReal
  BY DEF Init, ConfirmationsAreReal, Backed
<1>3. RevocationReachesSession /\ DrivenOnlyByTrusted
  BY DEF Init, RevocationReachesSession, DrivenOnlyByTrusted
<1> QED BY <1>1, <1>2, <1>3 DEF SessionInv

\* Every step keeps the invariant.
LEMMA StepInv == SessionInv /\ [Next]_vars => SessionInv'
<1> SUFFICES ASSUME SessionInv, [Next]_vars PROVE SessionInv'
  OBVIOUS
<1>1. CASE Connect \/ Break
  BY <1>1, ConnectInv, BreakInv
<1>2. ASSUME NEW p \in Peers, Tasks(p) PROVE SessionInv'
  BY <1>2, ReadHelloInv, RecogniseInv, StartPairingInv, ReceiveConfirmInv,
     ReceivePairBeginInv, BailOutInv, HandleInboundInv, LoseConnectionInv,
     ReaderStopsInv DEF Tasks
<1>3. ASSUME NEW p \in Peers, User(p) PROVE SessionInv'
  <2>1. CASE UserCancel(p)
    <3>1. GiveUp(p) /\ cancelled' \in [Peers -> BOOLEAN]
      BY <2>1 DEF UserCancel, SessionInv, TypeOK
    <3> QED BY <3>1, GiveUpInv
  <2> QED BY <1>3, <2>1, UserConfirmInv, RequestDisconnectInv, UnpairInv, RestartInv DEF User
<1>4. ASSUME NEW p \in Peers, Dispatch(p) PROVE SessionInv'
  <2>1. CASE DisconnectPairing(p)
    <3>1. GiveUp(p) /\ cancelled' \in [Peers -> BOOLEAN]
      BY <2>1 DEF DisconnectPairing, SessionInv, TypeOK
    <3> QED BY <3>1, GiveUpInv
  <2> QED BY <1>4, <2>1, RouteInv, PingTickInv, EndSessionInv DEF Dispatch
<1>5. CASE UNCHANGED vars
  BY <1>5 DEF vars, SessionInv, TypeOK, ConfirmationsAreReal, Backed,
     RevocationReachesSession, DrivenOnlyByTrusted
<1> QED BY <1>1, <1>2, <1>3, <1>4, <1>5 DEF Next
-----------------------------------------------------------------------------
\* SessionInv holds in every state, whatever the two devices trusted at first.
THEOREM SessionInvariant == Spec => []SessionInv
<1>1. Init => SessionInv
  BY InitInv
<1>2. SessionInv /\ [Next]_vars => SessionInv'
  BY StepInv
<1> QED BY <1>1, <1>2, PTL DEF Spec

\* No session outlives the revocation of its peer unnoticed (Unpair's revoke
\* and Disconnect against run_session's slot and trust check).
THEOREM RevocationIsHeard == Spec => []RevocationReachesSession
<1>1. SessionInv => RevocationReachesSession
  BY DEF SessionInv
<1> QED BY <1>1, SessionInvariant, PTL

\* The realtime channel is open only to a trusted peer (SECURITY.md: "No action
\* before trust").
THEOREM NoActionBeforeTrust == Spec => []DrivenOnlyByTrusted
<1>1. SessionInv => DrivenOnlyByTrusted
  BY DEF SessionInv
<1> QED BY <1>1, SessionInvariant, PTL
-----------------------------------------------------------------------------
\* Only the end of a pairing adds trust, and it needs both confirmations: the
\* peer's by ConfirmationsAreReal after the step.
LEMMA TrustStep ==
    ASSUME SessionInv, SessionInv', [Next]_vars,
           NEW p \in Peers, ~trusted[p], trusted'[p]
    PROVE  localConf'[p] /\ localConf'[Other(p)]
<1>1. PICK q \in Peers : ReceiveConfirm(q) \/ UserConfirm(q)
  BY PeerFacts DEF SessionInv, TypeOK, Next, vars, Connect, Break, Tasks, User, Dispatch,
     ReadHello, Recognise, StartPairing, ReceivePairBegin, BailOut, HandleInbound,
     LoseConnection, ReaderStops, UserCancel, GiveUp, DisconnectPairing,
     RequestDisconnect, Unpair, Restart, Route, PingTick, EndSession
<1>2. \E n \in Nat, msgs \in Seq(Messages) : Conclude(q, n, msgs)
  <2>1. CASE ReceiveConfirm(q)
    <3>1. 1 \in Nat /\ <<>> \in Seq(Messages)
      OBVIOUS
    <3> QED BY <2>1, <3>1 DEF ReceiveConfirm
  <2>2. CASE UserConfirm(q)
    <3>1. 0 \in Nat /\ <<"PairConfirm">> \in Seq(Messages)
      BY DEF Messages
    <3> QED BY <2>2, <3>1 DEF UserConfirm
  <2> QED BY <1>1, <2>1, <2>2
<1>3. /\ IsComplete(localConf'[q], remoteConf'[q])
      /\ trusted' = [trusted EXCEPT ![q] = TRUE]
  BY <1>2 DEF Conclude
<1>4. p = q
  BY <1>3 DEF SessionInv, TypeOK
<1>5. localConf'[p] /\ remoteConf'[p]
  BY <1>3, <1>4 DEF IsComplete
<1> QED BY <1>5 DEF SessionInv, ConfirmationsAreReal

\* Trust takes both users, however messages, cancellations, revocations and
\* restarts interleave (PairingState::is_complete at both ends).
THEOREM TrustTakesBoth == Spec => TrustNeedsBothUsers
<1>1. SessionInv /\ SessionInv' /\ [Next]_vars
        => [\A p \in Peers :
              ~trusted[p] /\ trusted'[p] => localConf'[p] /\ localConf'[Other(p)]]_vars
  BY TrustStep
<1> QED BY <1>1, SessionInvariant, PTL DEF Spec, TrustNeedsBothUsers
-----------------------------------------------------------------------------
(***************************************************************************)
(* Pairing in step.  An end that takes part in the pairing and has not     *)
(* confirmed is sent nothing but the pairing's own messages; one that has  *)
(* confirmed gets its peer's confirmation before anything that follows     *)
(* the pairing, because an end finishes only after it has itself           *)
(* confirmed, and each end's stream keeps its order.                       *)
(***************************************************************************)
Before == {"hello", "named", "pairing"}

\* What an active session sends.
Control == {"SetMode", "ModeAck", "RealtimeOpen", "Ping", "Pong"}

Confirmed(s) == \E j \in DOMAIN s : s[j] = "PairConfirm"

ConfirmFirst(s, i) == \E j \in 1 .. i - 1 : s[j] = "PairConfirm"

\* What an end's phase says of what it has done.
PhaseInStep(p) ==
    /\ phase[p] \in {"hello", "named"} => verdict[p] = "none" /\ ~localConf[p]
    /\ phase[p] \in {"named", "pairing"} => compatible
    /\ phase[p] = "pairing" => ~(localConf[p] /\ remoteConf[p])
    /\ phase[p] = "active" /\ verdict[p] # "trusted" => localConf[p] /\ remoteConf[p]

\* p is not ahead of the message at i of its stream.
MessageInStep(p, i) ==
    /\ net[p][i] = "Hello" => i = 1 /\ phase[p] = "hello"
    /\ net[p][i] = "Reject" => ~compatible
    /\ net[p][i] \in Control /\ phase[p] \in Before /\ verdict[Other(p)] # "trusted"
          => localConf[p] /\ ConfirmFirst(net[p], i)

\* The peer's confirmation has arrived, or is on its way.
ConfirmationSent(p) ==
    phase[p] \in Before /\ phase[Other(p)] \in {"pairing", "active"} /\ localConf[Other(p)] /\ up
       => remoteConf[p] \/ Confirmed(net[p])

InStep(p) ==
    /\ PhaseInStep(p)
    /\ \A i \in DOMAIN net[p] : MessageInStep(p, i)
    /\ ConfirmationSent(p)

InStepInv == \A p \in Peers : InStep(p)

\* The streams as a step of p leaves them that consumes n messages and sends msgs.
LEMMA PipeStreams ==
    ASSUME TypeOK, NEW p \in Peers, NEW n \in Nat, NEW msgs
    PROVE  /\ Pipe(p, n, msgs)[p] = SubSeq(net[p], n + 1, Len(net[p]))
           /\ Pipe(p, n, msgs)[Other(p)] =
                 IF up /\ phase[Other(p)] # "closed" THEN net[Other(p)] \o msgs ELSE net[Other(p)]
<1>1. Other(p) \in Peers /\ Other(p) # p
  BY PeerFacts
<1> QED BY <1>1 DEF TypeOK, Pipe

\* What a concatenation holds, and where.
LEMMA ConcatenationAt ==
    ASSUME NEW s \in Seq(Messages), NEW t \in Seq(Messages)
    PROVE  /\ \A i \in DOMAIN s : i \in DOMAIN (s \o t) /\ (s \o t)[i] = s[i]
           /\ \A j \in DOMAIN t : Len(s) + j \in DOMAIN (s \o t) /\ (s \o t)[Len(s) + j] = t[j]
           /\ \A i \in DOMAIN (s \o t) :
                 i \in DOMAIN s \/ \E j \in DOMAIN t : i = Len(s) + j
<1>1. /\ DOMAIN s = 1 .. Len(s) /\ DOMAIN t = 1 .. Len(t)
      /\ Len(s) \in Nat /\ Len(t) \in Nat
      /\ DOMAIN (s \o t) = 1 .. Len(s) + Len(t)
  OBVIOUS
<1>2. \A i \in DOMAIN s : (s \o t)[i] = s[i]
  OBVIOUS
<1>3. \A j \in DOMAIN t : (s \o t)[Len(s) + j] = t[j]
  OBVIOUS
<1>4. ASSUME NEW i \in DOMAIN (s \o t), i \notin DOMAIN s
      PROVE  \E j \in DOMAIN t : i = Len(s) + j
  <2>1. i - Len(s) \in DOMAIN t /\ i = Len(s) + (i - Len(s))
    BY <1>1, <1>4
  <2> QED BY <2>1
<1>5. /\ \A i \in DOMAIN s : i \in DOMAIN (s \o t)
      /\ \A j \in DOMAIN t : Len(s) + j \in DOMAIN (s \o t)
  BY <1>1
<1> QED BY <1>2, <1>3, <1>4, <1>5

\* What is left of a stream of which the front is gone.
LEMMA RestAt ==
    ASSUME NEW s \in Seq(Messages), NEW n \in 0 .. Len(s)
    PROVE  /\ SubSeq(s, n + 1, Len(s)) \in Seq(Messages)
           /\ \A i \in DOMAIN SubSeq(s, n + 1, Len(s)) :
                 n + i \in DOMAIN s /\ SubSeq(s, n + 1, Len(s))[i] = s[n + i]
           /\ \A j \in DOMAIN s : j > n =>
                 /\ j - n \in DOMAIN SubSeq(s, n + 1, Len(s))
                 /\ SubSeq(s, n + 1, Len(s))[j - n] = s[j]
OBVIOUS

\* A step of a leaves its peer b where it was.  (a's own variables may change.)
PeerRests(a) ==
    LET b == Other(a)
    IN  /\ phase'[b] = phase[b] /\ verdict'[b] = verdict[b]
        /\ localConf'[b] = localConf[b] /\ remoteConf'[b] = remoteConf[b]
        /\ UNCHANGED linkVars

\* It is enough to look at a, and at what b is sent.
LEMMA StepOfOneEnd ==
    ASSUME InStepInv, NEW a \in Peers, PeerRests(a), InStep(a)',
           \A i \in DOMAIN net'[Other(a)] : MessageInStep(Other(a), i)',
           ConfirmationSent(Other(a))'
    PROVE  InStepInv'
<1> DEFINE b == Other(a)
<1>1. b \in Peers /\ \A p \in Peers : p = a \/ p = b
  BY PeerFacts
<1>2. PhaseInStep(b)'
  BY <1>1 DEF InStepInv, InStep, PhaseInStep, PeerRests, linkVars
<1>3. InStep(b)'
  BY <1>2 DEF InStep
<1> QED BY <1>1, <1>3 DEF InStepInv

\* What b is sent, when its stream is cut short or left alone by an end that
\* has no part in the pairing any more.
LEMMA PeerIsCut ==
    ASSUME TypeOK, InStepInv, NEW a \in Peers, PeerRests(a),
           verdict'[a] # "trusted" => verdict[a] # "trusted",
           phase'[a] \notin {"pairing", "active"},
           NEW n \in 0 .. Len(net[Other(a)]),
           net'[Other(a)] = SubSeq(net[Other(a)], 1, n)
    PROVE  /\ \A i \in DOMAIN net'[Other(a)] : MessageInStep(Other(a), i)'
           /\ ConfirmationSent(Other(a))'
<1> DEFINE b == Other(a)
<1>1. b \in Peers /\ b # a /\ Other(b) = a
  BY PeerFacts
<1>2. net[b] \in Seq(Messages)
  BY <1>1 DEF TypeOK
<1>3. \A i \in DOMAIN net'[b] : i \in DOMAIN net[b] /\ net'[b][i] = net[b][i] /\ i \in Nat
  BY <1>2
<1>4. \A i \in DOMAIN net'[b] : 1 .. i - 1 \subseteq DOMAIN net'[b]
  BY <1>2
<1>5. ASSUME NEW i \in DOMAIN net'[b]
      PROVE  MessageInStep(b, i)'
  <2>1. MessageInStep(b, i)
    BY <1>1, <1>3, <1>5 DEF InStepInv, InStep
  <2>2. ConfirmFirst(net[b], i) => ConfirmFirst(net'[b], i)
    BY <1>3, <1>4, <1>5 DEF ConfirmFirst
  <2>3. net'[b][i] = net[b][i]
    BY <1>3, <1>5
  <2> QED BY <1>1, <2>1, <2>2, <2>3 DEF MessageInStep, PeerRests, linkVars
<1>6. ConfirmationSent(b)'
  BY <1>1 DEF ConfirmationSent
<1> QED BY <1>5, <1>6

\* All of it may be gone.
LEMMA NothingLeft ==
    ASSUME NEW s \in Seq(Messages)
    PROVE  /\ Len(s) \in 0 .. Len(s) /\ SubSeq(s, Len(s) + 1, Len(s)) = <<>>
           /\ Len(s) >= 1 \/ s = <<>>
<1>1. Len(s) \in Nat
  OBVIOUS
<1>2. SubSeq(s, Len(s) + 1, Len(s)) = <<>>
  BY <1>1, SubSeqEmpty
<1> QED BY <1>1, <1>2

\* The host's first messages after the pairing.
LEMMA OpeningIsControl == \A p \in Peers : \A i \in DOMAIN Opening(p) : Opening(p)[i] \in Control
<1> SUFFICES ASSUME NEW p \in Peers PROVE \A i \in DOMAIN Opening(p) : Opening(p)[i] \in Control
  OBVIOUS
<1>1. CASE p = Host
  <2>1. Opening(p) = <<"SetMode", "RealtimeOpen">> /\ DOMAIN Opening(p) = 1 .. 2
    BY <1>1 DEF Opening
  <2> QED BY <2>1 DEF Control
<1>2. CASE p # Host
  BY <1>2 DEF Opening
<1> QED BY <1>1, <1>2

\* What a may send to an end that is pairing and has not confirmed.
MaySend(a, msgs) ==
    \A j \in DOMAIN msgs :
        /\ msgs[j] # "Hello"
        /\ msgs[j] = "Reject" => ~compatible
        /\ msgs[j] \in Control /\ phase[Other(a)] \in Before /\ verdict'[a] # "trusted" /\ up
              => /\ localConf[Other(a)]
                 /\ Confirmed(net[Other(a)]) \/ ConfirmFirst(msgs, j)

\* What b is sent, when a writes msgs.
LEMMA PeerIsSent ==
    ASSUME TypeOK, InStepInv, NEW a \in Peers, PeerRests(a),
           verdict'[a] # "trusted" => verdict[a] # "trusted",
           NEW n \in Nat, NEW msgs \in Seq(Messages),
           net'[Other(a)] = Pipe(a, n, msgs)[Other(a)],
           MaySend(a, msgs),
           phase[Other(a)] \in Before /\ phase'[a] \in {"pairing", "active"} /\ localConf'[a] /\ up
              => remoteConf[Other(a)] \/ Confirmed(net[Other(a)]) \/ Confirmed(msgs)
    PROVE  /\ \A i \in DOMAIN net'[Other(a)] : MessageInStep(Other(a), i)'
           /\ ConfirmationSent(Other(a))'
<1> DEFINE b == Other(a)
           s == net[b]
           open == up /\ phase[b] # "closed"
<1>1. b \in Peers /\ b # a /\ Other(b) = a
  BY PeerFacts
<1>2. s \in Seq(Messages) /\ Len(s) \in Nat /\ DOMAIN s = 1 .. Len(s) /\ DOMAIN msgs = 1 .. Len(msgs)
  BY <1>1 DEF TypeOK
<1>3. net'[b] = IF open THEN s \o msgs ELSE s
  BY PipeStreams
<1>4. /\ \A i \in DOMAIN s : i \in DOMAIN net'[b] /\ net'[b][i] = s[i]
      /\ \A i \in DOMAIN net'[b] :
            \/ i \in DOMAIN s
            \/ open /\ \E j \in DOMAIN msgs : i = Len(s) + j
      /\ open => \A j \in DOMAIN msgs : /\ Len(s) + j \in DOMAIN net'[b]
                                        /\ net'[b][Len(s) + j] = msgs[j]
  BY <1>2, <1>3, ConcatenationAt
<1> HIDE DEF s
<1>5. ASSUME NEW i \in DOMAIN s
      PROVE  MessageInStep(b, i)'
  <2>1. MessageInStep(b, i)
    BY <1>1, <1>5 DEF InStepInv, InStep, s
  <2>2. 1 .. i - 1 \subseteq DOMAIN s
    BY <1>2, <1>5
  <2>3. ConfirmFirst(s, i) => ConfirmFirst(net'[b], i)
    BY <1>4, <2>2 DEF ConfirmFirst
  <2> QED BY <1>1, <1>4, <2>1, <2>3 DEF MessageInStep, PeerRests, linkVars, s
<1>6. ASSUME NEW i \in DOMAIN net'[b], NEW j \in DOMAIN msgs, open, i = Len(s) + j
      PROVE  MessageInStep(b, i)'
  <2>1. net'[b][i] = msgs[j] /\ j \in Nat /\ j >= 1
    BY <1>2, <1>4, <1>6
  <2>2. ASSUME msgs[j] \in Control, phase[b] \in Before, verdict'[a] # "trusted"
        PROVE  localConf[b] /\ ConfirmFirst(net'[b], i)
    <3>1. localConf[b] /\ (Confirmed(s) \/ ConfirmFirst(msgs, j))
      BY <1>6, <2>1, <2>2 DEF s, MaySend
    <3>2. CASE Confirmed(s)
      <4>1. PICK k \in DOMAIN s : s[k] = "PairConfirm"
        BY <3>2 DEF Confirmed
      <4>2. k \in 1 .. i - 1 /\ net'[b][k] = "PairConfirm"
        BY <1>2, <1>4, <1>6, <2>1, <4>1
      <4> QED BY <3>1, <4>2 DEF ConfirmFirst
    <3>3. CASE ConfirmFirst(msgs, j)
      <4>1. PICK k \in 1 .. j - 1 : msgs[k] = "PairConfirm"
        BY <3>3 DEF ConfirmFirst
      <4>2. k \in DOMAIN msgs /\ Len(s) + k \in 1 .. i - 1
        BY <1>2, <1>6, <2>1, <4>1
      <4>3. net'[b][Len(s) + k] = "PairConfirm"
        BY <1>4, <1>6, <4>1, <4>2
      <4> QED BY <3>1, <4>2, <4>3 DEF ConfirmFirst
    <3> QED BY <3>1, <3>2, <3>3
  <2> QED BY <1>1, <1>6, <2>1, <2>2 DEF MessageInStep, PeerRests, linkVars, MaySend
<1>7. \A i \in DOMAIN net'[b] : MessageInStep(b, i)'
  BY <1>4, <1>5, <1>6
<1>8. ConfirmationSent(b)'
  <2> SUFFICES ASSUME phase[b] \in Before, phase'[a] \in {"pairing", "active"}, localConf'[a], up
               PROVE  remoteConf[b] \/ Confirmed(net'[b])
    BY <1>1 DEF ConfirmationSent, PeerRests, linkVars
  <2>1. remoteConf[b] \/ Confirmed(s) \/ Confirmed(msgs)
    BY DEF s
  <2>2. Confirmed(s) => Confirmed(net'[b])
    BY <1>4 DEF Confirmed
  <2>3. open
    BY DEF Before
  <2>4. Confirmed(msgs) => Confirmed(net'[b])
    BY <1>4, <2>3 DEF Confirmed
  <2> QED BY <2>1, <2>2, <2>4
<1> QED BY <1>7, <1>8

\* What is left for a, when it has read n messages and has no part in the
\* pairing any more.
LEMMA RestIsInStep ==
    ASSUME TypeOK, InStepInv, NEW a \in Peers, UNCHANGED linkVars,
           phase'[a] \notin Before,
           NEW n \in 0 .. Len(net[a]),
           phase[a] = "hello" => n >= 1 \/ net[a] = <<>>,
           net'[a] = SubSeq(net[a], n + 1, Len(net[a]))
    PROVE  /\ \A i \in DOMAIN net'[a] : MessageInStep(a, i)'
           /\ ConfirmationSent(a)'
<1>1. net[a] \in Seq(Messages) /\ Len(net[a]) \in Nat /\ n \in Nat
  BY DEF TypeOK
<1>2. ASSUME NEW i \in DOMAIN net'[a]
      PROVE  MessageInStep(a, i)'
  <2>1. n + i \in DOMAIN net[a] /\ net'[a][i] = net[a][n + i]
    BY <1>1, <1>2, RestAt
  <2>2. i \in Nat /\ i >= 1
    BY <1>1, <1>2
  <2>3. MessageInStep(a, n + i)
    BY <2>1 DEF InStepInv, InStep
  <2>4. net'[a][i] # "Hello"
    <3> SUFFICES ASSUME net[a][n + i] = "Hello" PROVE FALSE
      BY <2>1
    <3>1. n + i = 1 /\ phase[a] = "hello"
      BY <2>3 DEF MessageInStep
    <3>2. n = 0 /\ net[a] # <<>>
      BY <1>1, <2>1, <2>2, <3>1
    <3> QED BY <3>1, <3>2
  <2> QED BY <2>1, <2>3, <2>4 DEF MessageInStep, linkVars
<1>3. ConfirmationSent(a)'
  BY DEF ConfirmationSent
<1> QED BY <1>2, <1>3

\* The end of a session that takes nothing but the front of its stream with it.
LEMMA EndOfOneEnd ==
    ASSUME TypeOK, InStepInv, NEW a \in Peers, PeerRests(a),
           phase'[a] \in {"lingering", "closed"},
           NEW n \in 0 .. Len(net[a]),
           phase[a] = "hello" => n >= 1 \/ net[a] = <<>>,
           net'[a] = SubSeq(net[a], n + 1, Len(net[a])),
           \A i \in DOMAIN net'[Other(a)] : MessageInStep(Other(a), i)',
           ConfirmationSent(Other(a))'
    PROVE  InStepInv'
<1>1. phase'[a] \notin Before /\ UNCHANGED linkVars
  BY DEF Before, PeerRests
<1>2. (\A i \in DOMAIN net'[a] : MessageInStep(a, i)') /\ ConfirmationSent(a)'
  BY <1>1, RestIsInStep
<1>3. PhaseInStep(a)'
  BY DEF PhaseInStep
<1> QED BY <1>2, <1>3, StepOfOneEnd DEF InStep

\* Both halves of the stream are gone.
LEMMA CloseInStep ==
    ASSUME TypeOK, InStepInv, NEW a \in Peers, PeerRests(a), UNCHANGED verdict,
           NEW pipes \in Pipes, Close(a, pipes),
           \/ pipes = net
           \/ pipes = Pipe(a, 1, <<"Reject">>) /\ ~compatible
    PROVE  InStepInv'
<1> DEFINE b == Other(a)
<1>1. b \in Peers /\ b # a
  BY PeerFacts
<1>2. net[a] \in Seq(Messages) /\ net[b] \in Seq(Messages) /\ Len(net[a]) \in Nat /\ Len(net[b]) \in Nat
  BY <1>1 DEF TypeOK
<1>3. net'[a] = <<>> /\ net'[b] = pipes[b] /\ phase'[a] = "closed"
  BY <1>1 DEF Close, Pipes, TypeOK
<1>4. net'[a] = SubSeq(net[a], Len(net[a]) + 1, Len(net[a])) /\ Len(net[a]) \in 0 .. Len(net[a])
  BY <1>2, <1>3, NothingLeft
<1>5. phase[a] = "hello" => Len(net[a]) >= 1 \/ net[a] = <<>>
  BY <1>2, NothingLeft
<1>6. (\A i \in DOMAIN net'[b] : MessageInStep(b, i)') /\ ConfirmationSent(b)'
  <2>1. CASE pipes = net
    <3>1. net'[b] = SubSeq(net[b], 1, Len(net[b])) /\ Len(net[b]) \in 0 .. Len(net[b])
      BY <1>2, <1>3, <2>1
    <3> QED BY <1>3, <3>1, PeerIsCut
  <2>2. CASE pipes = Pipe(a, 1, <<"Reject">>) /\ ~compatible
    <3>1. <<"Reject">> \in Seq(Messages) /\ 1 \in Nat
      BY DEF Messages
    <3>2. MaySend(a, <<"Reject">>)
      BY <2>2 DEF MaySend, Control
    <3>3. net'[b] = Pipe(a, 1, <<"Reject">>)[b]
      BY <1>3, <2>2
    <3> HIDE DEF b
    <3> QED BY <1>3, <3>1, <3>2, <3>3, PeerIsSent DEF b
  <2> QED BY <2>1, <2>2
<1> QED BY <1>3, <1>4, <1>5, <1>6, EndOfOneEnd

\* The teardown cuts what the peer has not received.
LEMMA TeardownInStep ==
    ASSUME TypeOK, InStepInv, NEW a \in Peers, PeerRests(a), UNCHANGED verdict, Teardown(a)
    PROVE  InStepInv'
<1> DEFINE b == Other(a)
<1>1. b \in Peers /\ b # a
  BY PeerFacts
<1>2. net[a] \in Seq(Messages) /\ Len(net[a]) \in Nat
  BY DEF TypeOK
<1>3. PICK n \in 0 .. Len(net[b]) :
         net' = [net EXCEPT ![a] = <<>>, ![b] = SubSeq(@, 1, n)]
  BY DEF Teardown
<1>4. net'[a] = <<>> /\ net'[b] = SubSeq(net[b], 1, n) /\ phase'[a] = "closed"
  BY <1>1, <1>3 DEF Teardown, TypeOK
<1>5. net'[a] = SubSeq(net[a], Len(net[a]) + 1, Len(net[a])) /\ Len(net[a]) \in 0 .. Len(net[a])
  BY <1>2, <1>4, NothingLeft
<1>6. phase[a] = "hello" => Len(net[a]) >= 1 \/ net[a] = <<>>
  BY <1>2, NothingLeft
<1>7. (\A i \in DOMAIN net'[b] : MessageInStep(b, i)') /\ ConfirmationSent(b)'
  BY <1>4, PeerIsCut
<1> QED BY <1>4, <1>5, <1>6, <1>7, EndOfOneEnd

\* An early return loses the front of what it had not read.
LEMMA AbandonInStep ==
    ASSUME TypeOK, InStepInv, NEW a \in Peers, PeerRests(a), phase[a] # "hello",
           verdict'[a] # "trusted" => verdict[a] # "trusted",
           NEW n \in 0 .. Len(net[a]), NEW msgs \in Seq(Messages), MaySend(a, msgs),
           Abandon(a, Pipe(a, n, msgs))
    PROVE  InStepInv'
<1> DEFINE b == Other(a)
           pipes == Pipe(a, n, msgs)
<1>1. b \in Peers /\ b # a
  BY PeerFacts
<1>2. net[a] \in Seq(Messages) /\ Len(net[a]) \in Nat /\ n \in Nat
  BY DEF TypeOK
<1>3. pipes[a] = SubSeq(net[a], n + 1, Len(net[a])) /\ DOMAIN pipes = Peers
  BY <1>2, PipeStreams DEF Pipe, TypeOK
<1>4. Len(pipes[a]) = Len(net[a]) - n
  BY <1>2, <1>3
<1> HIDE DEF pipes
<1>5. PICK m \in 0 .. Len(pipes[a]) :
         net' = [pipes EXCEPT ![a] = SubSeq(@, m + 1, Len(@))]
  BY DEF Abandon, pipes
<1>6. net'[a] = SubSeq(pipes[a], m + 1, Len(pipes[a])) /\ net'[b] = pipes[b] /\ phase'[a] = "lingering"
  BY <1>1, <1>3, <1>5 DEF Abandon, TypeOK
<1>7. n + m \in 0 .. Len(net[a])
  BY <1>2, <1>4
<1>8. net'[a] = SubSeq(net[a], (n + m) + 1, Len(net[a]))
  BY <1>2, <1>3, <1>4, <1>6
<1>9. (\A i \in DOMAIN net'[b] : MessageInStep(b, i)') /\ ConfirmationSent(b)'
  <2>1. net'[b] = Pipe(a, n, msgs)[b]
    BY <1>6 DEF pipes
  <2> HIDE DEF b
  <2> QED BY <1>2, <1>6, <2>1, PeerIsSent DEF b
<1> QED BY <1>6, <1>7, <1>8, <1>9, EndOfOneEnd

\* The session that goes on after the trust check or the pairing.
LEMMA AuthenticateInStep ==
    ASSUME TypeOK, InStepInv, NEW a \in Peers, PeerRests(a), phase[a] \in {"named", "pairing"},
           verdict'[a] # "trusted" => /\ verdict[a] # "trusted"
                                      /\ localConf'[a] /\ remoteConf'[a],
           NEW n \in 0 .. Len(net[a]), NEW msgs \in Seq(Messages), MaySend(a, msgs),
           phase[Other(a)] \in Before /\ localConf'[a] /\ up
              => remoteConf[Other(a)] \/ Confirmed(net[Other(a)]) \/ Confirmed(msgs),
           Authenticate(a, Pipe(a, n, msgs))
    PROVE  InStepInv'
<1>1. CASE Abandon(a, Pipe(a, n, msgs))
  BY <1>1, AbandonInStep
<1>2. CASE phase' = [phase EXCEPT ![a] = "active"] /\ net' = Pipe(a, n, msgs)
  <2>1. net' = Pipe(a, n, msgs) /\ phase'[a] = "active" /\ n \in Nat
    BY <1>2 DEF TypeOK
  <2>2. net'[a] = SubSeq(net[a], n + 1, Len(net[a]))
    BY <2>1, PipeStreams
  <2>3. phase'[a] \notin Before /\ UNCHANGED linkVars
    BY <2>1 DEF Before, PeerRests
  <2>4. (\A i \in DOMAIN net'[a] : MessageInStep(a, i)') /\ ConfirmationSent(a)'
    BY <2>2, <2>3, RestIsInStep
  <2>5. PhaseInStep(a)'
    BY <2>1 DEF PhaseInStep
  <2>6. /\ \A i \in DOMAIN net'[Other(a)] : MessageInStep(Other(a), i)'
        /\ ConfirmationSent(Other(a))'
    BY <2>1, PeerIsSent
  <2> QED BY <2>4, <2>5, <2>6, StepOfOneEnd DEF InStep
<1> QED BY <1>1, <1>2 DEF Authenticate
-----------------------------------------------------------------------------
\* Facts for the actions: who the peer is, what a confirmation in the stream
\* means, and what an end that has confirmed still waits for.
LEMMA HeadFacts ==
    ASSUME TypeOK, NEW a \in Peers, net[a] # <<>>
    PROVE  /\ net[a] \in Seq(Messages) /\ Len(net[a]) \in Nat /\ Len(net[a]) >= 1
           /\ 1 \in DOMAIN net[a] /\ Head(net[a]) = net[a][1] /\ 1 \in 0 .. Len(net[a])
BY DEF TypeOK

LEMMA PeerWaits ==
    ASSUME SessionInv, InStepInv, NEW a \in Peers, phase[a] \in {"pairing", "active"},
           localConf[a], up, phase[Other(a)] \in Before
    PROVE  /\ remoteConf[Other(a)] \/ Confirmed(net[Other(a)])
           /\ localConf[Other(a)] => Confirmed(net[Other(a)])
<1> DEFINE b == Other(a)
<1>1. b \in Peers /\ Other(b) = a
  BY PeerFacts
<1>2. remoteConf[b] \/ Confirmed(net[b])
  BY <1>1 DEF InStepInv, InStep, ConfirmationSent
<1>3. ASSUME localConf[b] PROVE ~remoteConf[b]
  <2>1. PhaseInStep(b)
    BY <1>1 DEF InStepInv, InStep
  <2>2. phase[b] = "pairing"
    BY <1>3, <2>1 DEF PhaseInStep, Before
  <2> QED BY <1>3, <2>1, <2>2 DEF PhaseInStep
<1> QED BY <1>2, <1>3

\* The Hello: nothing that an end of the pairing may not get is behind it.
LEMMA ReadHelloInStep == ASSUME SessionInv, InStepInv, NEW a \in Peers, ReadHello(a) PROVE InStepInv'
<1>1. /\ TypeOK /\ net[a] # <<>> /\ Head(net[a]) = "Hello" /\ phase[a] = "hello"
      /\ Other(a) \in Peers /\ Other(a) # a
  BY PeerFacts DEF SessionInv, ReadHello, Incoming
<1>2. CASE ~compatible
  <2>1. Pipe(a, 1, <<"Reject">>) \in Pipes
    <3>1. /\ <<"Reject">> \in Seq(Messages) /\ 1 \in Nat
          /\ \A i \in DOMAIN <<"Reject">> : <<"Reject">>[i] # "PairConfirm"
      BY DEF Messages
    <3> QED BY <3>1, PlainPipe
  <2>2. Close(a, Pipe(a, 1, <<"Reject">>)) /\ UNCHANGED verdict
    BY <1>2 DEF ReadHello
  <2>3. PeerRests(a)
    BY <1>1, <2>2 DEF ReadHello, Close, PeerRests, TypeOK, pairVars
  <2> QED BY <1>1, <1>2, <2>1, <2>2, <2>3, CloseInStep
<1>3. CASE compatible
  <2>1. phase' = [phase EXCEPT ![a] = "named"] /\ net' = Pipe(a, 1, <<>>)
    BY <1>3 DEF ReadHello
  <2>2. PeerRests(a) /\ phase'[a] = "named"
    BY <1>1, <2>1 DEF ReadHello, PeerRests, TypeOK, pairVars
  <2>3. net'[a] = SubSeq(net[a], 1 + 1, Len(net[a])) /\ net[a] \in Seq(Messages)
    BY <1>1, <2>1, PipeStreams DEF TypeOK
  <2>4. PhaseInStep(a) /\ PhaseInStep(a)'
    BY <1>1, <1>3, <2>2 DEF InStepInv, InStep, PhaseInStep, ReadHello, pairVars, linkVars
  <2>5. ASSUME NEW i \in DOMAIN net'[a] PROVE MessageInStep(a, i)'
    <3>1. 1 + i \in DOMAIN net[a] /\ net'[a][i] = net[a][1 + i] /\ i \in Nat /\ i >= 1
      BY <1>1, <2>3, <2>5, RestAt, HeadFacts
    <3>2. MessageInStep(a, 1 + i)
      BY <3>1 DEF InStepInv, InStep
    <3>3. ~(net[a][1 + i] = "Hello")
      BY <3>1, <3>2 DEF MessageInStep
    <3>4. ~(net[a][1 + i] \in Control /\ verdict[Other(a)] # "trusted")
      BY <1>1, <2>4, <3>2 DEF MessageInStep, PhaseInStep, Before
    <3> QED BY <2>2, <3>1, <3>2, <3>3, <3>4 DEF MessageInStep, PeerRests, linkVars
  <2>6. ConfirmationSent(a)'
    <3>1. Confirmed(net[a]) => Confirmed(net'[a])
      <4> SUFFICES ASSUME NEW j \in DOMAIN net[a], net[a][j] = "PairConfirm"
                   PROVE  Confirmed(net'[a])
        BY DEF Confirmed
      <4>1. j > 1
        BY <1>1, HeadFacts
      <4>2. j - 1 \in DOMAIN net'[a] /\ net'[a][j - 1] = "PairConfirm"
        BY <1>1, <2>3, <4>1, RestAt, HeadFacts
      <4> QED BY <4>2 DEF Confirmed
    <3>2. ConfirmationSent(a)
      BY DEF InStepInv, InStep
    <3> QED BY <1>1, <2>2, <3>1, <3>2 DEF ConfirmationSent, ReadHello, PeerRests, pairVars, linkVars, Before
  <2>7. (\A i \in DOMAIN net'[Other(a)] : MessageInStep(Other(a), i)') /\ ConfirmationSent(Other(a))'
    <3>1. <<>> \in Seq(Messages) /\ DOMAIN <<>> = {} /\ 1 \in Nat
      OBVIOUS
    <3>2. MaySend(a, <<>>)
      BY <3>1 DEF MaySend
    <3>3. UNCHANGED verdict
      BY DEF ReadHello
    <3> QED BY <1>1, <2>1, <2>2, <3>1, <3>2, <3>3, PeerIsSent
  <2> QED BY <2>2, <2>4, <2>5, <2>6, <2>7, StepOfOneEnd DEF InStep
<1> QED BY <1>2, <1>3

\* The trust check that finds the peer trusted: that peer may be anywhere in
\* its pairing, and PairingIsInStep does not speak of it.
LEMMA RecogniseInStep == ASSUME SessionInv, InStepInv, NEW a \in Peers, Recognise(a) PROVE InStepInv'
<1>1. TypeOK /\ Other(a) \in Peers /\ Other(a) # a
  BY PeerFacts DEF SessionInv
<1>2. verdict'[a] = "trusted" /\ phase[a] = "named" /\ Authenticate(a, Pipe(a, 0, Opening(a)))
  BY <1>1 DEF Recognise, TypeOK
<1>3. PeerRests(a)
  BY <1>1, <1>2 DEF Recognise, Authenticate, Abandon, PeerRests, TypeOK, pairVars
<1>4. 0 \in 0 .. Len(net[a]) /\ Opening(a) \in Seq(Messages)
  BY <1>1, MessageFacts DEF TypeOK
<1>5. MaySend(a, Opening(a))
  BY <1>2, OpeningIsControl DEF MaySend, Control
<1>6. ~localConf'[a]
  <2>1. PhaseInStep(a)
    BY DEF InStepInv, InStep
  <2> QED BY <1>2, <2>1 DEF PhaseInStep, Recognise, pairVars
<1> QED BY <1>1, <1>2, <1>3, <1>4, <1>5, <1>6, AuthenticateInStep

\* The trust check that does not.
LEMMA StartPairingInStep == ASSUME SessionInv, InStepInv, NEW a \in Peers, StartPairing(a) PROVE InStepInv'
<1>1. TypeOK /\ Other(a) \in Peers /\ Other(a) # a /\ phase[a] = "named"
  BY PeerFacts DEF SessionInv, StartPairing
<1>2. phase'[a] = "pairing" /\ PeerRests(a) /\ verdict[a] = "none" /\ verdict'[a] = "unknown" /\ PhaseInStep(a)
  BY <1>1 DEF StartPairing, PeerRests, TypeOK, pairVars, InStepInv, InStep, PhaseInStep
<1>3. net'[a] = net[a]
  <2>1. net'[a] = SubSeq(net[a], 0 + 1, Len(net[a])) /\ net[a] \in Seq(Messages)
    BY <1>1, PipeStreams DEF StartPairing, TypeOK
  <2>2. SubSeq(net[a], 1, Len(net[a])) = net[a]
    BY <2>1, SubSeqFull
  <2> QED BY <2>1, <2>2
<1>4. PhaseInStep(a)'
  BY <1>1, <1>2 DEF PhaseInStep, StartPairing, pairVars, linkVars
<1>5. \A i \in DOMAIN net'[a] : MessageInStep(a, i)'
  <2>1. ASSUME NEW i \in DOMAIN net[a] PROVE MessageInStep(a, i)'
    <3>1. MessageInStep(a, i)
      BY <2>1 DEF InStepInv, InStep
    <3> QED BY <1>1, <1>2, <1>3, <3>1 DEF MessageInStep, PhaseInStep, Before, PeerRests, StartPairing, linkVars, pairVars
  <2> QED BY <1>3, <2>1
<1>6. ConfirmationSent(a)'
  <2>1. ConfirmationSent(a)
    BY DEF InStepInv, InStep
  <2> QED BY <1>1, <1>2, <1>3, <2>1 DEF ConfirmationSent, PeerRests, StartPairing, linkVars, pairVars, Before
<1>7. (\A i \in DOMAIN net'[Other(a)] : MessageInStep(Other(a), i)') /\ ConfirmationSent(Other(a))'
  <2>1. <<"PairBegin">> \in Seq(Messages) /\ 0 \in Nat
    BY DEF Messages
  <2>2. MaySend(a, <<"PairBegin">>)
    BY DEF MaySend, Control
  <2>3. net'[Other(a)] = Pipe(a, 0, <<"PairBegin">>)[Other(a)] /\ ~localConf'[a]
    BY <1>1, <1>2 DEF StartPairing, pairVars, PhaseInStep
  <2> QED BY <1>1, <1>2, <2>1, <2>2, <2>3, PeerIsSent
<1> QED BY <1>2, <1>4, <1>5, <1>6, <1>7, StepOfOneEnd DEF InStep

\* The end of a pairing that both users have confirmed: the host's opening
\* follows its confirmation in the peer's stream.
LEMMA ConcludeInStep ==
    ASSUME SessionInv, InStepInv, NEW a \in Peers, phase[a] = "pairing", PeerRests(a),
           UNCHANGED verdict, NEW n \in 0 .. Len(net[a]),
           NEW msgs \in {<<>>, <<"PairConfirm">>},
           localConf'[a], remoteConf'[a], localConf[Other(a)],
           localConf[a] \/ msgs = <<"PairConfirm">>,
           Conclude(a, n, msgs)
    PROVE  InStepInv'
<1> DEFINE b == Other(a)
           full == msgs \o Opening(a)
<1>1. /\ TypeOK /\ msgs \in Seq(Messages) /\ full \in Seq(Messages)
      /\ \A j \in DOMAIN full : j \in DOMAIN msgs \/ full[j] \in Control
      /\ \A j \in DOMAIN msgs : j \in DOMAIN full /\ full[j] = msgs[j]
      /\ \A j \in DOMAIN msgs : msgs[j] = "PairConfirm"
  <2>1. TypeOK /\ msgs \in Seq(Messages) /\ Opening(a) \in Seq(Messages)
    BY MessageFacts DEF SessionInv, Messages
  <2>2. full \in Seq(Messages)
    BY <2>1, PartsOfConcatenation
  <2>3. \A j \in DOMAIN full : j \in DOMAIN msgs \/ full[j] \in Control
    BY <2>1, ConcatenationAt, OpeningIsControl
  <2>4. \A j \in DOMAIN msgs : j \in DOMAIN full /\ full[j] = msgs[j]
    BY <2>1, ConcatenationAt
  <2>5. \A j \in DOMAIN msgs : msgs[j] = "PairConfirm"
    OBVIOUS
  <2> QED BY <2>1, <2>2, <2>3, <2>4, <2>5
<1>2. ASSUME msgs = <<"PairConfirm">>
      PROVE  /\ Confirmed(full)
             /\ \A j \in DOMAIN full : j \notin DOMAIN msgs => ConfirmFirst(full, j)
  <2>1. 1 \in DOMAIN full /\ full[1] = "PairConfirm" /\ DOMAIN msgs = {1}
    BY <1>1, <1>2
  <2>2. \A j \in DOMAIN full : j \in Nat /\ j >= 1
    BY <1>1
  <2>3. \A j \in DOMAIN full : j \notin DOMAIN msgs => 1 \in 1 .. j - 1
    BY <2>1, <2>2
  <2> HIDE DEF full
  <2> QED BY <2>1, <2>3 DEF Confirmed, ConfirmFirst
<1>3. ASSUME phase[b] \in Before, up, msgs # <<"PairConfirm">>
      PROVE  Confirmed(net[b])
  BY <1>3, PeerWaits
<1> HIDE DEF full
<1>4. MaySend(a, msgs)
  BY <1>1 DEF MaySend, Control
<1>5. MaySend(a, full)
  <2> SUFFICES ASSUME NEW j \in DOMAIN full
               PROVE  /\ full[j] # "Hello"
                      /\ full[j] = "Reject" => ~compatible
                      /\ full[j] \in Control /\ phase[b] \in Before /\ verdict'[a] # "trusted" /\ up
                            => localConf[b] /\ (Confirmed(net[b]) \/ ConfirmFirst(full, j))
    BY DEF MaySend
  <2>1. CASE j \in DOMAIN msgs
    BY <1>1, <2>1 DEF Control
  <2>2. CASE j \notin DOMAIN msgs
    BY <1>1, <1>2, <1>3, <2>2 DEF Control
  <2> QED BY <2>1, <2>2
<1>6. phase[b] \in Before /\ localConf'[a] /\ up
         => remoteConf[b] \/ Confirmed(net[b]) \/ Confirmed(full)
  BY <1>2, <1>3
<1>7. \/ Authenticate(a, Pipe(a, n, full))
      \/ Abandon(a, Pipe(a, n, msgs))
  BY DEF Conclude, IsComplete, full
<1>8. CASE Authenticate(a, Pipe(a, n, full))
  <2> HIDE DEF b
  <2> QED BY <1>1, <1>5, <1>6, <1>8, AuthenticateInStep DEF b
<1>9. CASE Abandon(a, Pipe(a, n, msgs))
  BY <1>1, <1>4, <1>9, AbandonInStep
<1> QED BY <1>7, <1>8, <1>9

\* What the pairing loop changes besides the streams.
LEMMA ConcludeChanges ==
    ASSUME TypeOK, NEW a \in Peers, NEW n, NEW msgs, Conclude(a, n, msgs)
    PROVE  phase'[Other(a)] = phase[Other(a)]
<1>1. Other(a) # a /\ Other(a) \in Peers
  BY PeerFacts
<1> QED BY <1>1 DEF Conclude, Authenticate, Abandon, TypeOK

\* The peer's confirmation.
LEMMA ReceiveConfirmInStep == ASSUME SessionInv, InStepInv, NEW a \in Peers, ReceiveConfirm(a) PROVE InStepInv'
<1>1. /\ TypeOK /\ Other(a) \in Peers /\ Other(a) # a /\ phase[a] = "pairing"
      /\ net[a] # <<>> /\ Head(net[a]) = "PairConfirm" /\ UNCHANGED verdict /\ UNCHANGED linkVars
      /\ PhaseInStep(a)
  BY PeerFacts DEF SessionInv, ReceiveConfirm, Incoming, InStepInv, InStep
<1>2. localConf[Other(a)] /\ remoteConf'[a] /\ localConf' = localConf
  BY <1>1, HeadFacts DEF SessionInv, ConfirmationsAreReal, Backed, ReceiveConfirm, TypeOK
<1>3. PeerRests(a)
  <2>1. phase'[Other(a)] = phase[Other(a)]
    BY <1>1, ConcludeChanges DEF ReceiveConfirm
  <2> QED BY <1>1, <2>1 DEF PeerRests, ReceiveConfirm, TypeOK
<1>4. CASE localConf[a]
  <2>1. <<>> \in {<<>>, <<"PairConfirm">>} /\ 1 \in 0 .. Len(net[a]) /\ Conclude(a, 1, <<>>)
    BY <1>1, HeadFacts DEF ReceiveConfirm
  <2> QED BY <1>1, <1>2, <1>3, <1>4, <2>1, ConcludeInStep
<1>5. CASE ~localConf[a]
  <2>1. net' = Pipe(a, 1, <<>>) /\ UNCHANGED phase
    BY <1>2, <1>5 DEF ReceiveConfirm, Conclude, IsComplete
  <2>2. net'[a] = SubSeq(net[a], 1 + 1, Len(net[a])) /\ net[a] \in Seq(Messages)
    BY <1>1, <2>1, PipeStreams DEF TypeOK
  <2>3. PhaseInStep(a)'
    BY <1>1, <1>2, <1>5, <2>1 DEF PhaseInStep, linkVars
  <2>4. ASSUME NEW i \in DOMAIN net'[a] PROVE MessageInStep(a, i)'
    <3>1. 1 + i \in DOMAIN net[a] /\ net'[a][i] = net[a][1 + i]
      BY <1>1, <2>2, <2>4, RestAt, HeadFacts
    <3>2. MessageInStep(a, 1 + i)
      BY <3>1 DEF InStepInv, InStep
    <3> QED BY <1>1, <1>2, <1>5, <2>1, <3>1, <3>2 DEF MessageInStep, linkVars, Before
  <2>5. ConfirmationSent(a)'
    BY <1>2 DEF ConfirmationSent
  <2>6. (\A i \in DOMAIN net'[Other(a)] : MessageInStep(Other(a), i)') /\ ConfirmationSent(Other(a))'
    <3>1. <<>> \in Seq(Messages) /\ DOMAIN <<>> = {} /\ 1 \in Nat
      OBVIOUS
    <3>2. MaySend(a, <<>>)
      BY <3>1 DEF MaySend
    <3>3. net'[Other(a)] = Pipe(a, 1, <<>>)[Other(a)]
      BY <2>1
    <3>4. ~localConf'[a]
      BY <1>2, <1>5
    <3> QED BY <1>1, <1>3, <3>1, <3>2, <3>3, <3>4, PeerIsSent
  <2> QED BY <1>3, <2>3, <2>4, <2>5, <2>6, StepOfOneEnd DEF InStep
<1> QED BY <1>4, <1>5

\* The local user's.
LEMMA UserConfirmInStep == ASSUME SessionInv, InStepInv, NEW a \in Peers, UserConfirm(a) PROVE InStepInv'
<1>1. /\ TypeOK /\ Other(a) \in Peers /\ Other(a) # a /\ phase[a] = "pairing" /\ ~localConf[a]
      /\ UNCHANGED verdict /\ UNCHANGED linkVars /\ PhaseInStep(a)
      /\ Conclude(a, 0, <<"PairConfirm">>)
  BY PeerFacts DEF SessionInv, UserConfirm, InStepInv, InStep
<1>2. localConf'[a] /\ remoteConf' = remoteConf
  BY <1>1 DEF UserConfirm, TypeOK
<1>3. PeerRests(a)
  <2>1. phase'[Other(a)] = phase[Other(a)]
    BY <1>1, ConcludeChanges
  <2> QED BY <1>1, <2>1 DEF PeerRests, UserConfirm, TypeOK
<1>4. <<"PairConfirm">> \in {<<>>, <<"PairConfirm">>} /\ 0 \in 0 .. Len(net[a])
      /\ <<"PairConfirm">> \in Seq(Messages) /\ net[a] \in Seq(Messages)
  BY <1>1 DEF TypeOK, Messages
<1>5. CASE remoteConf[a]
  <2>1. localConf[Other(a)] /\ remoteConf'[a]
    BY <1>2, <1>5 DEF SessionInv, ConfirmationsAreReal
  <2> QED BY <1>1, <1>2, <1>3, <1>4, <2>1, ConcludeInStep
<1>6. CASE ~remoteConf[a]
  <2>1. net' = Pipe(a, 0, <<"PairConfirm">>) /\ UNCHANGED phase
    BY <1>1, <1>2, <1>6 DEF Conclude, IsComplete
  <2>2. net'[a] = net[a]
    <3>1. net'[a] = SubSeq(net[a], 0 + 1, Len(net[a]))
      BY <1>1, <2>1, PipeStreams
    <3>2. SubSeq(net[a], 1, Len(net[a])) = net[a]
      BY <1>4, SubSeqFull
    <3> QED BY <3>1, <3>2
  <2>3. PhaseInStep(a)'
    BY <1>1, <1>2, <1>6, <2>1 DEF PhaseInStep, linkVars
  <2>4. ASSUME NEW i \in DOMAIN net'[a] PROVE MessageInStep(a, i)'
    <3>1. MessageInStep(a, i)
      BY <2>2, <2>4 DEF InStepInv, InStep
    <3> QED BY <1>1, <2>1, <2>2, <3>1 DEF MessageInStep, linkVars, Before
  <2>5. ConfirmationSent(a)'
    <3>1. ConfirmationSent(a)
      BY DEF InStepInv, InStep
    <3> QED BY <1>1, <1>2, <1>3, <2>1, <2>2, <3>1 DEF ConfirmationSent, PeerRests, linkVars
  <2>6. (\A i \in DOMAIN net'[Other(a)] : MessageInStep(Other(a), i)') /\ ConfirmationSent(Other(a))'
    <3>1. MaySend(a, <<"PairConfirm">>)
      BY DEF MaySend, Control
    <3>2. Confirmed(<<"PairConfirm">>)
      <4>1. 1 \in DOMAIN <<"PairConfirm">> /\ <<"PairConfirm">>[1] = "PairConfirm"
        OBVIOUS
      <4> QED BY <4>1 DEF Confirmed
    <3>3. net'[Other(a)] = Pipe(a, 0, <<"PairConfirm">>)[Other(a)]
      BY <2>1
    <3> QED BY <1>1, <1>3, <1>4, <3>1, <3>2, <3>3, PeerIsSent
  <2> QED BY <1>3, <2>3, <2>4, <2>5, <2>6, StepOfOneEnd DEF InStep
<1> QED BY <1>5, <1>6

\* The peer's PairBegin.
LEMMA ReceivePairBeginInStep == ASSUME SessionInv, InStepInv, NEW a \in Peers, ReceivePairBegin(a) PROVE InStepInv'
<1>1. /\ TypeOK /\ Other(a) \in Peers /\ Other(a) # a /\ phase[a] = "pairing"
      /\ net[a] # <<>> /\ Head(net[a]) = "PairBegin" /\ net' = Pipe(a, 1, <<>>)
      /\ UNCHANGED <<phase, verdict, linkVars, pairVars>> /\ PhaseInStep(a)
  BY PeerFacts DEF SessionInv, ReceivePairBegin, Incoming, InStepInv, InStep
<1>2. PeerRests(a) /\ PhaseInStep(a)'
  BY <1>1 DEF PeerRests, PhaseInStep, linkVars, pairVars
<1>3. net'[a] = SubSeq(net[a], 1 + 1, Len(net[a])) /\ net[a] \in Seq(Messages)
  BY <1>1, PipeStreams DEF TypeOK
<1>4. \A j \in DOMAIN net[a] : net[a][j] = "PairConfirm" =>
         j > 1 /\ j - 1 \in DOMAIN net'[a] /\ net'[a][j - 1] = "PairConfirm"
  <2> SUFFICES ASSUME NEW j \in DOMAIN net[a], net[a][j] = "PairConfirm"
               PROVE  j > 1 /\ j - 1 \in DOMAIN net'[a] /\ net'[a][j - 1] = "PairConfirm"
    OBVIOUS
  <2>1. j > 1
    BY <1>1, HeadFacts
  <2>2. 1 \in 0 .. Len(net[a])
    BY <1>1, HeadFacts
  <2>3. j - 1 \in DOMAIN net'[a] /\ net'[a][j - 1] = net[a][j]
    BY <1>3, <2>1, <2>2, RestAt
  <2> QED BY <2>1, <2>3
<1>5. ASSUME NEW i \in DOMAIN net'[a] PROVE MessageInStep(a, i)'
  <2>1. 1 + i \in DOMAIN net[a] /\ net'[a][i] = net[a][1 + i] /\ i \in Nat /\ i >= 1
    <3>1. 1 \in 0 .. Len(net[a])
      BY <1>1, HeadFacts
    <3>2. 1 + i \in DOMAIN net[a] /\ net'[a][i] = net[a][1 + i]
      BY <1>3, <1>5, <3>1, RestAt
    <3>3. i \in Nat /\ i >= 1
      BY <1>3, <1>5
    <3> QED BY <3>2, <3>3
  <2>2. MessageInStep(a, 1 + i)
    BY <2>1 DEF InStepInv, InStep
  <2>3. ConfirmFirst(net[a], 1 + i) => ConfirmFirst(net'[a], i)
    <3> SUFFICES ASSUME NEW j \in 1 .. (1 + i) - 1, net[a][j] = "PairConfirm"
                 PROVE  ConfirmFirst(net'[a], i)
      BY DEF ConfirmFirst
    <3>1. j \in DOMAIN net[a]
      BY <1>3, <2>1
    <3>2. j - 1 \in 1 .. i - 1 /\ net'[a][j - 1] = "PairConfirm"
      BY <1>4, <2>1, <3>1
    <3> QED BY <3>2 DEF ConfirmFirst
  <2>4. ~(net[a][1 + i] = "Hello")
    BY <2>1, <2>2 DEF MessageInStep
  <2> QED BY <1>1, <2>1, <2>2, <2>3, <2>4 DEF MessageInStep, linkVars, pairVars
<1>6. ConfirmationSent(a)'
  <2>1. Confirmed(net[a]) => Confirmed(net'[a])
    BY <1>4 DEF Confirmed
  <2>2. ConfirmationSent(a)
    BY DEF InStepInv, InStep
  <2> QED BY <1>1, <2>1, <2>2 DEF ConfirmationSent, linkVars, pairVars
<1>7. (\A i \in DOMAIN net'[Other(a)] : MessageInStep(Other(a), i)') /\ ConfirmationSent(Other(a))'
  <2>1. <<>> \in Seq(Messages) /\ DOMAIN <<>> = {} /\ 1 \in Nat
    OBVIOUS
  <2>2. MaySend(a, <<>>)
    BY <2>1 DEF MaySend
  <2>3. net'[Other(a)] = Pipe(a, 1, <<>>)[Other(a)] /\ localConf'[a] = localConf[a]
    BY <1>1 DEF pairVars
  <2>4. phase[Other(a)] \in Before /\ localConf'[a] /\ up => remoteConf[Other(a)] \/ Confirmed(net[Other(a)])
    BY <1>1, <2>3, PeerWaits
  <2> QED BY <1>1, <1>2, <2>1, <2>2, <2>3, <2>4, PeerIsSent
<1> QED BY <1>2, <1>5, <1>6, <1>7, StepOfOneEnd DEF InStep

\* A message of an active session, and the ping timer: an end that paired in
\* this connection has its peer's confirmation, so that peer has confirmed too.
LEMMA ActiveInStep ==
    ASSUME SessionInv, InStepInv, NEW a \in Peers, phase[a] = "active",
           UNCHANGED <<phase, verdict, linkVars, pairVars>>,
           NEW n \in 0 .. Len(net[a]), NEW msgs \in Seq(Messages),
           \A j \in DOMAIN msgs : msgs[j] \in Control,
           net' = Pipe(a, n, msgs)
    PROVE  InStepInv'
<1> DEFINE b == Other(a)
<1>1. /\ TypeOK /\ b \in Peers /\ b # a /\ PhaseInStep(a) /\ n \in Nat
      /\ UNCHANGED linkVars /\ phase'[a] \notin Before
  BY PeerFacts DEF SessionInv, InStepInv, InStep, Before
<1>2. PeerRests(a) /\ PhaseInStep(a)'
  BY <1>1 DEF PeerRests, PhaseInStep, linkVars, pairVars
<1>3. net'[a] = SubSeq(net[a], n + 1, Len(net[a])) /\ net'[b] = Pipe(a, n, msgs)[b]
  BY <1>1, PipeStreams
<1>4. (\A i \in DOMAIN net'[a] : MessageInStep(a, i)') /\ ConfirmationSent(a)'
  BY <1>1, <1>3, RestIsInStep
<1>5. ASSUME verdict'[a] # "trusted", phase[b] \in Before, up
      PROVE  localConf[b] /\ Confirmed(net[b])
  <2>1. localConf[a] /\ remoteConf[a]
    BY <1>1, <1>5 DEF PhaseInStep
  <2>2. localConf[b]
    BY <2>1 DEF SessionInv, ConfirmationsAreReal
  <2> QED BY <1>5, <2>1, <2>2, PeerWaits
<1>6. MaySend(a, msgs)
  BY <1>5 DEF MaySend, Control
<1>7. phase[b] \in Before /\ localConf'[a] /\ up => remoteConf[b] \/ Confirmed(net[b])
  BY PeerWaits DEF pairVars
<1>8. (\A i \in DOMAIN net'[b] : MessageInStep(b, i)') /\ ConfirmationSent(b)'
  <2> HIDE DEF b
  <2> QED BY <1>1, <1>2, <1>3, <1>6, <1>7, PeerIsSent DEF b
<1> QED BY <1>2, <1>4, <1>8, StepOfOneEnd DEF InStep

LEMMA HandleInboundInStep == ASSUME SessionInv, InStepInv, NEW a \in Peers, HandleInbound(a) PROVE InStepInv'
<1> DEFINE msgs == Reply(a, Head(net[a]))
<1>1. msgs \in Seq(Messages) /\ \A j \in DOMAIN msgs : msgs[j] \in Control
  <2>1. msgs \in {<<"Pong">>, <<"ModeAck">>, <<>>}
    BY DEF Reply
  <2>2. <<"Pong">> \in Seq(Messages) /\ \A j \in DOMAIN <<"Pong">> : <<"Pong">>[j] \in Control
    BY DEF Messages, Control
  <2>3. <<"ModeAck">> \in Seq(Messages) /\ \A j \in DOMAIN <<"ModeAck">> : <<"ModeAck">>[j] \in Control
    BY DEF Messages, Control
  <2>4. <<>> \in Seq(Messages) /\ \A j \in DOMAIN <<>> : <<>>[j] \in Control
    OBVIOUS
  <2> HIDE DEF msgs
  <2> QED BY ONLY <2>1, <2>2, <2>3, <2>4
<1>2. 1 \in 0 .. Len(net[a])
  BY HeadFacts DEF HandleInbound, SessionInv
<1>3. /\ phase[a] = "active" /\ net' = Pipe(a, 1, msgs)
      /\ UNCHANGED <<phase, verdict, linkVars, pairVars>>
  BY DEF HandleInbound
<1> HIDE DEF msgs
<1> QED BY <1>1, <1>2, <1>3, ActiveInStep

LEMMA PingTickInStep == ASSUME SessionInv, InStepInv, NEW a \in Peers, PingTick(a) PROVE InStepInv'
<1>1. <<"Ping">> \in Seq(Messages) /\ \A j \in DOMAIN <<"Ping">> : <<"Ping">>[j] \in Control
  BY DEF Messages, Control
<1>2. 0 \in 0 .. Len(net[a])
  BY DEF SessionInv, TypeOK
<1>3. /\ phase[a] = "active" /\ net' = Pipe(a, 0, <<"Ping">>)
      /\ UNCHANGED <<phase, verdict, linkVars, pairVars>>
  BY DEF PingTick
<1> QED BY <1>1, <1>2, <1>3, ActiveInStep

\* The other ends of a session.
LEMMA BailOutInStep == ASSUME SessionInv, InStepInv, NEW a \in Peers, BailOut(a) PROVE InStepInv'
<1>1. /\ TypeOK /\ Other(a) \in Peers /\ Other(a) # a /\ phase[a] # "hello" /\ UNCHANGED verdict
      /\ net[a] # <<>> /\ Abandon(a, Pipe(a, 1, <<>>))
  BY PeerFacts DEF SessionInv, BailOut, Incoming, Misplaced
<1>2. PeerRests(a)
  BY <1>1 DEF BailOut, Abandon, PeerRests, TypeOK, pairVars
<1>3. <<>> \in Seq(Messages) /\ MaySend(a, <<>>)
  BY DEF MaySend
<1> QED BY <1>1, <1>2, <1>3, HeadFacts, AbandonInStep

LEMMA GiveUpInStep == ASSUME SessionInv, InStepInv, NEW a \in Peers, GiveUp(a) PROVE InStepInv'
<1>1. /\ TypeOK /\ Other(a) \in Peers /\ Other(a) # a /\ phase[a] # "hello" /\ UNCHANGED verdict
      /\ Abandon(a, Pipe(a, 0, <<"PairCancel">>))
  BY PeerFacts DEF SessionInv, GiveUp
<1>2. PeerRests(a)
  BY <1>1 DEF GiveUp, Abandon, PeerRests, TypeOK
<1>3. <<"PairCancel">> \in Seq(Messages) /\ MaySend(a, <<"PairCancel">>) /\ 0 \in 0 .. Len(net[a])
  BY <1>1 DEF MaySend, Control, Messages, TypeOK
<1> QED BY <1>1, <1>2, <1>3, AbandonInStep

LEMMA CloseOfOneEnd ==
    ASSUME SessionInv, InStepInv, NEW a \in Peers, Close(a, net),
           UNCHANGED <<verdict, linkVars, pairVars>>
    PROVE  InStepInv'
<1>1. TypeOK /\ net \in Pipes /\ Other(a) \in Peers /\ Other(a) # a
  BY PeerFacts DEF SessionInv, TypeOK, Pipes
<1>2. PeerRests(a) /\ UNCHANGED verdict
  BY <1>1 DEF Close, PeerRests, TypeOK, pairVars
<1> QED BY <1>1, <1>2, CloseInStep

LEMMA TeardownOfOneEnd ==
    ASSUME SessionInv, InStepInv, NEW a \in Peers, Teardown(a),
           UNCHANGED <<verdict, linkVars, pairVars>>
    PROVE  InStepInv'
<1>1. TypeOK /\ Other(a) \in Peers /\ Other(a) # a
  BY PeerFacts DEF SessionInv
<1>2. PeerRests(a) /\ UNCHANGED verdict
  BY <1>1 DEF Teardown, PeerRests, TypeOK, pairVars
<1> QED BY <1>1, <1>2, TeardownInStep

\* A new connection: both ends have a Hello before them, and nothing else.
LEMMA ConnectInStep == ASSUME InStepInv, Connect PROVE InStepInv'
<1> SUFFICES ASSUME NEW p \in Peers PROVE InStep(p)'
  BY DEF InStepInv
<1>1. Other(p) \in Peers
  BY PeerFacts
<1>2. /\ phase'[p] = "hello" /\ phase'[Other(p)] = "hello" /\ verdict'[p] = "none"
      /\ ~localConf'[p] /\ net'[p] = <<"Hello">> /\ DOMAIN net'[p] = {1}
  BY <1>1 DEF Connect
<1>3. PhaseInStep(p)' /\ ConfirmationSent(p)'
  BY <1>2 DEF PhaseInStep, ConfirmationSent
<1>4. \A i \in DOMAIN net'[p] : MessageInStep(p, i)'
  BY <1>2 DEF MessageInStep, Control
<1> QED BY <1>3, <1>4 DEF InStep

\* The network gives up: nothing is on its way, and nothing will be.
LEMMA BreakInStep == ASSUME InStepInv, Break PROVE InStepInv'
<1> SUFFICES ASSUME NEW p \in Peers PROVE InStep(p)'
  BY DEF InStepInv
<1>1. net'[p] = <<>> /\ DOMAIN net'[p] = {} /\ ~up'
  BY DEF Break
<1>2. PhaseInStep(p)' /\ ConfirmationSent(p)'
  BY <1>1 DEF InStepInv, InStep, PhaseInStep, ConfirmationSent, Break, pairVars
<1> QED BY <1>1, <1>2 DEF InStep

\* Commands, revocations and stuttering.
LEMMA NothingInStep ==
    ASSUME InStepInv, UNCHANGED <<phase, net, up, compatible, localConf, remoteConf, verdict>>
    PROVE  InStepInv'
BY DEF InStepInv, InStep, PhaseInStep, MessageInStep, ConfirmationSent

LEMMA InitInStep == Init => InStepInv
<1> SUFFICES ASSUME Init, NEW p \in Peers PROVE InStep(p)
  BY DEF InStepInv
<1>1. net[p] = <<>> /\ DOMAIN net[p] = {} /\ phase[p] = "closed"
  BY DEF Init
<1> QED BY <1>1 DEF InStep, PhaseInStep, ConfirmationSent, Before

\* Every step keeps the streams in step.
LEMMA StepInStep == SessionInv /\ InStepInv /\ [Next]_vars => InStepInv'
<1> SUFFICES ASSUME SessionInv, InStepInv, [Next]_vars PROVE InStepInv'
  OBVIOUS
<1>1. CASE Connect \/ Break
  BY <1>1, ConnectInStep, BreakInStep
<1>2. ASSUME NEW p \in Peers, Tasks(p) PROVE InStepInv'
  <2>1. CASE LoseConnection(p) \/ ReaderStops(p)
    <3>1. Close(p, net) /\ UNCHANGED <<verdict, linkVars, pairVars>>
      BY <2>1 DEF LoseConnection, ReaderStops
    <3> QED BY <3>1, CloseOfOneEnd
  <2> QED BY <1>2, <2>1, ReadHelloInStep, RecogniseInStep, StartPairingInStep,
          ReceiveConfirmInStep, ReceivePairBeginInStep, BailOutInStep, HandleInboundInStep DEF Tasks
<1>3. ASSUME NEW p \in Peers, User(p) PROVE InStepInv'
  <2>1. CASE RequestDisconnect(p) \/ Unpair(p)
    <3>1. UNCHANGED <<phase, net, up, compatible, localConf, remoteConf, verdict>>
      BY <2>1 DEF RequestDisconnect, Unpair, linkVars, pairVars
    <3> QED BY <3>1, NothingInStep
  <2>2. CASE Restart(p)
    <3>1. Teardown(p) /\ UNCHANGED <<verdict, linkVars, pairVars>>
      BY <2>2 DEF Restart
    <3> QED BY <3>1, TeardownOfOneEnd
  <2> QED BY <1>3, <2>1, <2>2, UserConfirmInStep, GiveUpInStep DEF User, UserCancel
<1>4. ASSUME NEW p \in Peers, Dispatch(p) PROVE InStepInv'
  <2>1. CASE Route(p)
    <3>1. UNCHANGED <<phase, net, up, compatible, localConf, remoteConf, verdict>>
      BY <2>1 DEF Route, linkVars, pairVars
    <3> QED BY <3>1, NothingInStep
  <2>2. CASE EndSession(p)
    <3>1. Teardown(p) /\ UNCHANGED <<verdict, linkVars, pairVars>>
      BY <2>2 DEF EndSession
    <3> QED BY <3>1, TeardownOfOneEnd
  <2> QED BY <1>4, <2>1, <2>2, PingTickInStep, GiveUpInStep DEF Dispatch, DisconnectPairing
<1>5. CASE UNCHANGED vars
  BY <1>5, NothingInStep DEF vars
<1> QED BY <1>1, <1>2, <1>3, <1>4, <1>5 DEF Next

\* What is out of place would have to come behind the peer's confirmation, and
\* the head of a stream comes behind nothing.
LEMMA InStepMeans == SessionInv /\ InStepInv => PairingIsInStep
<1> SUFFICES ASSUME SessionInv, InStepInv, NEW p \in Peers, Misplaced(p), verdict[Other(p)] # "trusted"
             PROVE  FALSE
  BY DEF PairingIsInStep
<1>1. /\ phase[p] = "pairing" /\ 1 \in DOMAIN net[p] /\ Head(net[p]) = net[p][1]
      /\ net[p][1] \notin {"PairBegin", "PairConfirm", "PairCancel"} /\ net[p][1] \in Messages
  BY HeadFacts DEF SessionInv, Misplaced
<1>2. MessageInStep(p, 1) /\ PhaseInStep(p)
  BY <1>1 DEF InStepInv, InStep
<1>3. compatible
  BY <1>1, <1>2 DEF PhaseInStep
<1>4. net[p][1] \in Control
  BY <1>1, <1>2, <1>3 DEF MessageInStep, Messages, Control
<1>5. ConfirmFirst(net[p], 1)
  BY <1>1, <1>2, <1>4 DEF MessageInStep, Before
<1> QED BY <1>5 DEF ConfirmFirst

\* A pairing is never cut short by a message of a peer that pairs as well
\* (net.rs, the select! of the pairing loop: any other message ends it): only a
\* peer that still trusts this device, and skips the pairing, disturbs it.
THEOREM PairingStaysInStep == Spec => []PairingIsInStep
<1>1. Init => InStepInv
  BY InitInStep
<1>2. SessionInv /\ InStepInv /\ [Next]_vars => InStepInv'
  BY StepInStep
<1>3. SessionInv /\ InStepInv => PairingIsInStep
  BY InStepMeans
<1> QED BY <1>1, <1>2, <1>3, SessionInvariant, PTL DEF Spec
=============================================================================
