----------------------- MODULE RealtimeChannelProofs ------------------------
(***************************************************************************)
(* For every window width, every set of sessions and every bound on the    *)
(* sequence numbers: the replay window is an exact record of what it       *)
(* accepted, fresh packets are accepted, and the channel implements        *)
(* at-most-once delivery.                                                  *)
(***************************************************************************)
EXTENDS RealtimeChannel, TLAPS

(***************************************************************************)
(* The window's arithmetic (ReplayWindow::accept).                         *)
(***************************************************************************)

\* A number a window accepts was not recorded in it before.
LEMMA AcceptsIsNew ==
    ASSUME NEW w \in Window, NEW S \in SUBSET Nat, NEW seq \in Nat,
           Records(w, S), Accepts(w, seq)
    PROVE  seq \notin S
<1>1. CASE ~w.seenAny
  BY <1>1 DEF Records
<1>2. CASE seq > w.highest
  BY <1>2 DEF Records, Window
<1>3. CASE w.seenAny /\ seq <= w.highest
  <2>1. w.highest - seq \in Bits /\ w.highest - seq \notin w.bitmap
    BY <1>3, WidthAssumption DEF Accepts, Bits, Window
  <2>2. w.highest - (w.highest - seq) = seq
    BY DEF Window
  <2> QED BY <2>1, <2>2 DEF Records
<1> QED BY <1>1, <1>2, <1>3 DEF Window

\* Shifting the bitmap and setting a bit keep the record exact.
LEMMA AcceptedRecords ==
    ASSUME NEW w \in Window, NEW S \in SUBSET Nat, NEW seq \in Nat,
           Records(w, S), Accepts(w, seq)
    PROVE  /\ Accepted(w, seq) \in Window
           /\ Records(Accepted(w, seq), S \cup {seq})
<1> DEFINE T == S \cup {seq}
           v == Accepted(w, seq)
<1>0. 0 \in Bits /\ Bits \subseteq Nat
  BY WidthAssumption DEF Bits
<1>1. CASE ~w.seenAny
  <2>1. v = [highest |-> seq, bitmap |-> {0}, seenAny |-> TRUE]
    BY <1>1 DEF Accepted
  <2>2. S = {}
    BY <1>1 DEF Records
  <2>3. {0} = {b \in Bits : seq - b \in T}
    <3>1. T = {seq}
      BY <2>2
    <3>2. \A b \in Bits : seq - b = seq <=> b = 0
      BY <1>0
    <3> QED BY <1>0, <3>1, <3>2
  <2> QED BY <1>0, <2>1, <2>2, <2>3 DEF Records, Window
<1>2. CASE w.seenAny /\ seq > w.highest
  <2> DEFINE n == seq - w.highest
             bits == ShiftLeft(w.bitmap, n) \cup {0}
  <2>1. v = [w EXCEPT !.bitmap = bits, !.highest = seq]
    BY <1>2 DEF Accepted
  <2>2. v.highest = seq /\ v.bitmap = bits /\ v.seenAny = TRUE
    BY <1>2, <2>1 DEF Window
  <2>3. bits \in SUBSET Bits
    BY <1>0 DEF ShiftLeft
  <2>4. v \in Window
    BY <1>2, <2>1, <2>3 DEF Window
  <2>5. ASSUME NEW b \in Bits
        PROVE  b \in bits <=> seq - b \in T
    <3>1. w.highest \in Nat /\ n \in Nat /\ n > 0 /\ b \in Nat /\ seq = w.highest + n
      BY <1>0, <1>2 DEF Window
    <3>2. CASE b = 0
      BY <3>1, <3>2
    <3>3. CASE b > 0 /\ b < n
      <4>1. b \notin bits
        BY <1>0, <3>1, <3>3 DEF ShiftLeft, Window
      <4>2. seq - b > w.highest /\ seq - b # seq
        BY <3>1, <3>3
      <4>3. seq - b \notin T
        BY <3>1, <4>2 DEF Records
      <4> QED BY <4>1, <4>3
    <3>4. CASE b >= n
      <4>1. b - n \in Bits /\ b # 0
        BY <3>1, <3>4, WidthAssumption DEF Bits
      <4>2. b \in bits <=> b - n \in w.bitmap
        <5>1. ASSUME b \in bits PROVE b - n \in w.bitmap
          <6>1. PICK c \in w.bitmap : b = c + n
            BY <4>1, <5>1 DEF ShiftLeft
          <6>2. c \in Nat
            BY <1>0, <6>1 DEF Window
          <6> QED BY <3>1, <6>1, <6>2
        <5>2. ASSUME b - n \in w.bitmap PROVE b \in bits
          <6>1. b = (b - n) + n
            BY <3>1
          <6> QED BY <5>2, <6>1 DEF ShiftLeft
        <5> QED BY <5>1, <5>2
      <4>3. b - n \in w.bitmap <=> w.highest - (b - n) \in S
        BY <4>1 DEF Records
      <4>4. w.highest - (b - n) = seq - b /\ seq - b # seq
        BY <3>1, <4>1
      <4> QED BY <4>2, <4>3, <4>4
    <3> QED BY <3>1, <3>2, <3>3, <3>4
  <2>6. bits = {b \in Bits : seq - b \in T}
    BY <2>3, <2>5
  <2>7. \A q \in T : q <= seq
    BY <1>2 DEF Records, Window
  <2> QED BY <2>2, <2>4, <2>6, <2>7 DEF Records
<1>3. CASE w.seenAny /\ ~(seq > w.highest)
  <2> DEFINE d == w.highest - seq
  <2>1. v = [w EXCEPT !.bitmap = w.bitmap \cup {d}]
    BY <1>3 DEF Accepted
  <2>2. d \in Bits
    BY <1>3, WidthAssumption DEF Accepts, Bits, Window
  <2>3. v \in Window /\ v.highest = w.highest /\ v.seenAny = TRUE
        /\ v.bitmap = w.bitmap \cup {d}
    BY <1>3, <2>1, <2>2 DEF Window
  <2>4. ASSUME NEW b \in Bits
        PROVE  b \in v.bitmap <=> w.highest - b \in T
    <3>1. b = d <=> w.highest - b = seq
      BY <1>0 DEF Window
    <3> QED BY <2>3, <3>1 DEF Records
  <2>5. v.bitmap = {b \in Bits : w.highest - b \in T}
    <3>1. v.bitmap \subseteq Bits
      BY <2>3 DEF Window
    <3> QED BY <2>4, <3>1
  <2>6. (\A q \in T : q <= w.highest) /\ w.highest \in T
    BY <1>3 DEF Records, Window
  <2> QED BY <2>3, <2>5, <2>6 DEF Records
<1> QED BY <1>1, <1>2, <1>3 DEF Window

\* A number not recorded and less than Width behind every recorded one is
\* accepted.
LEMMA NewIsAccepted ==
    ASSUME NEW w \in Window, NEW S \in SUBSET Nat, NEW seq \in Nat,
           Records(w, S), seq \notin S, \A q \in S : q - seq < Width
    PROVE  Accepts(w, seq)
<1>1. CASE ~w.seenAny \/ seq > w.highest
  BY <1>1 DEF Accepts
<1>2. CASE w.seenAny /\ seq <= w.highest
  <2>1. w.highest - seq < Width
    BY <1>2 DEF Records
  <2>2. w.highest - seq \in Bits
    BY <1>2, <2>1, WidthAssumption DEF Bits, Window
  <2>3. w.highest - (w.highest - seq) = seq
    BY DEF Window
  <2>4. w.highest - seq \notin w.bitmap
    BY <2>2, <2>3 DEF Records
  <2> QED BY <2>1, <2>4 DEF Accepts
<1> QED BY <1>1, <1>2 DEF Window

(***************************************************************************)
(* The channel.                                                            *)
(***************************************************************************)

\* The constants and sets every step needs.
LEMMA OpenedIsSet ==
    ASSUME NEW s \in Sessions
    PROVE  Opened(s) \in SUBSET Nat
BY MaxSeqAssumption DEF Opened, Seqs

LEMMA InitInv == Init => ChannelInv
<1> SUFFICES ASSUME Init PROVE ChannelInv
  OBVIOUS
<1>1. EmptyWindow \in Window
  BY DEF EmptyWindow, Window
<1>2. TypeOK
  BY <1>1 DEF Init, TypeOK
<1>3. \A s \in Sessions : Opened(s) = {}
  BY PacketAssumption DEF Init, Opened, Packets, Seqs
<1>4. NoDoubleInjection
  BY PacketAssumption DEF Init, NoDoubleInjection, Packets, Seqs
<1> QED BY <1>2, <1>3, <1>4, SessionsAssumption
        DEF Init, ChannelInv, WindowExact, SlotIsLive, OnlySealed

\* A step that leaves what the listener opened alone, and gives the slot to
\* nobody new, preserves the record kept in the window.
LEMMA OpenedUnchanged ==
    ASSUME UNCHANGED <<pending, injected>>
    PROVE  \A s : Opened(s)' = Opened(s)
BY DEF Opened

LEMMA StepInv == ChannelInv /\ [Next]_vars => ChannelInv'
<1> SUFFICES ASSUME ChannelInv, [Next]_vars PROVE ChannelInv'
  OBVIOUS
<1> USE DEF ChannelInv
<1>1. ASSUME NEW s \in Sessions, OpenSession(s) PROVE ChannelInv'
  <2>1. \A t : Opened(t)' = Opened(t)
    BY <1>1, OpenedUnchanged DEF OpenSession
  <2>2. TypeOK'
    BY <1>1 DEF OpenSession, TypeOK
  <2>3. WindowExact'
    BY <1>1, <2>1 DEF OpenSession, WindowExact, Records
  <2>4. NoDoubleInjection'
    BY <1>1 DEF OpenSession, NoDoubleInjection
  <2>5. SlotIsLive'
    BY <1>1, <2>1 DEF OpenSession, SlotIsLive, TypeOK
  <2>6. OnlySealed'
    BY <1>1 DEF OpenSession, OnlySealed
  <2> QED BY <2>2, <2>3, <2>4, <2>5, <2>6
<1>2. ASSUME NEW s \in Sessions, Seal(s) PROVE ChannelInv'
  <2>1. \A t : Opened(t)' = Opened(t)
    BY <1>2, OpenedUnchanged DEF Seal
  <2>2. TypeOK'
    BY <1>2, MaxSeqAssumption DEF Seal, TypeOK, Packets, Seqs
  <2>3. WindowExact'
    BY <1>2, <2>1 DEF Seal, WindowExact, Records
  <2>4. NoDoubleInjection'
    BY <1>2 DEF Seal, NoDoubleInjection
  <2>5. SlotIsLive'
    BY <1>2, <2>1 DEF Seal, SlotIsLive
  <2>6. OnlySealed'
    <3>1. ASSUME NEW p \in wire' PROVE p[2] < sendSeq'[p[1]]
      BY <1>2, <2>2, <3>1 DEF Seal, OnlySealed, TypeOK, Packets, Seqs
    <3> QED BY <1>2, <3>1 DEF Seal, OnlySealed
  <2> QED BY <2>2, <2>3, <2>4, <2>5, <2>6
<1>3. ASSUME NEW s \in Sessions, HandleRealtimeOpen(s) PROVE ChannelInv'
  <2>1. \A t : Opened(t)' = Opened(t)
    BY <1>3, OpenedUnchanged DEF HandleRealtimeOpen
  <2>2. TypeOK'
    BY <1>3 DEF HandleRealtimeOpen, TypeOK, EmptyWindow, Window
  <2>3. WindowExact'
    <3>1. Opened(s) = {}
      BY <1>3 DEF HandleRealtimeOpen, SlotIsLive
    <3> QED BY <1>3, <2>1, <3>1
            DEF HandleRealtimeOpen, WindowExact, Records, EmptyWindow
  <2>4. NoDoubleInjection'
    BY <1>3 DEF HandleRealtimeOpen, NoDoubleInjection
  <2>5. SlotIsLive'
    BY <1>3, <2>1 DEF HandleRealtimeOpen, SlotIsLive, TypeOK
  <2>6. OnlySealed'
    BY <1>3 DEF HandleRealtimeOpen, OnlySealed
  <2> QED BY <2>2, <2>3, <2>4, <2>5, <2>6
<1>4. ASSUME NEW s \in Sessions, Teardown(s) PROVE ChannelInv'
  <2>1. \A t : Opened(t)' = Opened(t)
    BY <1>4, OpenedUnchanged DEF Teardown
  <2>2. TypeOK'
    BY <1>4 DEF Teardown, TypeOK
  <2>3. WindowExact'
    BY <1>4 DEF Teardown, WindowExact
  <2>4. NoDoubleInjection'
    BY <1>4 DEF Teardown, NoDoubleInjection
  <2>5. SlotIsLive'
    BY <1>4, <2>1 DEF Teardown, SlotIsLive, TypeOK
  <2>6. OnlySealed'
    BY <1>4 DEF Teardown, OnlySealed
  <2> QED BY <2>2, <2>3, <2>4, <2>5, <2>6
<1>5. ASSUME NEW p \in Packets, Open(p) PROVE ChannelInv'
  <2> PICK s \in Sessions, q \in Seqs : p = <<s, q>>
    BY DEF Packets
  <2>1. s = inbound /\ q \in Nat /\ NoPacket # p /\ inbound # NoSession
    BY <1>5, MaxSeqAssumption, PacketAssumption, SessionsAssumption
       DEF Open, Authentic, Seqs, Packets
  <2>2. /\ Opened(s)' = Opened(s) \cup {q}
        /\ \A t \in Sessions : t # s => Opened(t)' = Opened(t)
    <3>1. \A t \in Sessions, r \in Seqs : pending # <<t, r>>
      BY <1>5, PacketAssumption DEF Open, Authentic, Seqs
    <3>2. \A t \in Sessions :
             /\ Opened(t) = {r \in Seqs : injected[<<t, r>>] > 0}
             /\ Opened(t)' = {r \in Seqs : injected[<<t, r>>] > 0 \/ <<s, q>> = <<t, r>>}
      BY <1>5, <3>1 DEF Open, Authentic, Opened
    <3>3. \A t \in Sessions, r \in Seqs : <<s, q>> = <<t, r>> <=> t = s /\ r = q
      OBVIOUS
    <3>4. \A t \in Sessions : t # s => Opened(t)' = Opened(t)
      BY <3>2, <3>3
    <3>5. Opened(s)' = Opened(s) \cup {q}
      BY <3>2, <3>3
    <3> QED BY <3>4, <3>5
  <2>3. Records(window, Opened(s)) /\ Accepts(window, q) /\ window \in Window
    BY <1>5, <2>1 DEF Open, Authentic, WindowExact, TypeOK
  <2>4. Accepted(window, q) \in Window /\ Records(Accepted(window, q), Opened(s)')
    BY <2>1, <2>2, <2>3, OpenedIsSet, AcceptedRecords
  <2>5. TypeOK'
    BY <1>5, <2>4 DEF Open, Authentic, TypeOK
  <2>6. WindowExact'
    BY <1>5, <2>1, <2>4 DEF Open, Authentic, WindowExact, Records
  <2>7. NoDoubleInjection'
    <3>1. q \notin Opened(s)
      BY <2>1, <2>3, OpenedIsSet, AcceptsIsNew
    <3>2. injected[p] = 0
      BY <3>1 DEF Opened, TypeOK
    <3> QED BY <1>5, <2>1, <3>2 DEF Open, Authentic, NoDoubleInjection, TypeOK
  <2>8. SlotIsLive'
    BY <1>5, <2>1, <2>2 DEF Open, Authentic, SlotIsLive
  <2>9. OnlySealed'
    BY <1>5 DEF Open, Authentic, OnlySealed
  <2> QED BY <2>5, <2>6, <2>7, <2>8, <2>9
<1>6. ASSUME Inject PROVE ChannelInv'
  <2>0. pending \in Packets /\ NoPacket \notin Packets
    BY <1>6, PacketAssumption DEF Inject, TypeOK, Packets, Seqs
  <2>1. \A s \in Sessions : Opened(s)' = Opened(s)
    BY <1>6, <2>0 DEF Inject, Opened, TypeOK, Packets
  <2>2. TypeOK'
    BY <1>6, <2>0 DEF Inject, TypeOK
  <2>3. WindowExact'
    BY <1>6, <2>1 DEF Inject, WindowExact, Records, TypeOK
  <2>4. NoDoubleInjection'
    BY <1>6, <2>0 DEF Inject, NoDoubleInjection, TypeOK
  <2>5. SlotIsLive'
    BY <1>6, <2>1 DEF Inject, SlotIsLive
  <2>6. OnlySealed'
    BY <1>6, <2>0 DEF Inject, OnlySealed, TypeOK
  <2> QED BY <2>2, <2>3, <2>4, <2>5, <2>6
<1>7. CASE UNCHANGED vars
  <2>1. \A t : Opened(t)' = Opened(t)
    BY <1>7, OpenedUnchanged DEF vars
  <2> QED BY <1>7, <2>1 DEF vars, TypeOK, WindowExact, Records,
          NoDoubleInjection, SlotIsLive, OnlySealed
<1> QED BY <1>1, <1>2, <1>3, <1>4, <1>5, <1>6, <1>7 DEF Next

\* The window is an exact record of the packets opened under the current
\* session, in every reachable state.
THEOREM ChannelInvariant == Spec => []ChannelInv
BY InitInv, StepInv, PTL DEF Spec

\* ReplayWindow::accept keeps its bitmap exact.
THEOREM WindowIsExact == Spec => []WindowExact
<1>1. ChannelInv => WindowExact
  BY DEF ChannelInv
<1> QED BY <1>1, ChannelInvariant, PTL

\* A new packet less than Width behind the newest is never refused.
THEOREM FreshPacketsAreAccepted == Spec => []FreshIsAccepted
<1>1. ChannelInv => FreshIsAccepted
  <2> SUFFICES ASSUME ChannelInv, NEW p \in wire, p[1] = inbound,
                      p[2] \notin Opened(inbound),
                      \A q \in Opened(inbound) : q - p[2] < Width
               PROVE  Accepts(window, p[2])
    BY DEF FreshIsAccepted
  <2>1. p \in Packets
    BY DEF ChannelInv, TypeOK
  <2>2. p[1] \in Sessions /\ p[2] \in Nat
    BY <2>1, MaxSeqAssumption DEF Packets, Seqs
  <2>3. Records(window, Opened(inbound)) /\ window \in Window
    BY <2>2, SessionsAssumption DEF ChannelInv, TypeOK, WindowExact
  <2> QED BY <2>2, <2>3, OpenedIsSet, NewIsAccepted
<1> QED BY <1>1, ChannelInvariant, PTL

\* Sealing, the lossy network, the window, the session slot and the listener
\* together implement at-most-once delivery.
THEOREM ChannelImplementsAtMostOnce == Spec => ImplementsAtMostOnce
<1>1. Init => Promise!Init
  BY DEF Init, Promise!Init
<1>2. ChannelInv /\ [Next]_vars => [Promise!Next]_(Promise!vars)
  <2> SUFFICES ASSUME ChannelInv, [Next]_vars
               PROVE  Promise!Next \/ UNCHANGED Promise!vars
    OBVIOUS
  <2>1. ASSUME NEW s \in Sessions, Seal(s) PROVE Promise!Next
    <3> DEFINE p == <<s, sendSeq[s]>>
    <3>1. p \in Packets
      BY <2>1, MaxSeqAssumption DEF Seal, ChannelInv, TypeOK, Packets, Seqs
    <3>2. p \notin wire
      BY DEF ChannelInv, OnlySealed, TypeOK
    <3>3. Promise!Send(p)
      BY <2>1, <3>2 DEF Seal, Promise!Send
    <3> QED BY <3>1, <3>3 DEF Promise!Next
  <2>2. ASSUME Inject PROVE Promise!Next
    <3>1. pending \in Packets /\ pending \in wire
      BY <2>2 DEF Inject, ChannelInv, TypeOK, OnlySealed
    <3>2. injected[pending] = 0
      BY <3>1 DEF ChannelInv, NoDoubleInjection, TypeOK
    <3>3. Promise!Inject(pending)
      BY <2>2, <3>1, <3>2 DEF Inject, Promise!Inject
    <3> QED BY <3>1, <3>3 DEF Promise!Next
  <2>3. ASSUME NEW s \in Sessions,
               OpenSession(s) \/ HandleRealtimeOpen(s) \/ Teardown(s)
        PROVE  UNCHANGED Promise!vars
    BY <2>3 DEF OpenSession, HandleRealtimeOpen, Teardown, Promise!vars
  <2>4. ASSUME NEW p \in Packets, Open(p) PROVE UNCHANGED Promise!vars
    BY <2>4 DEF Open, Authentic, Promise!vars
  <2>5. CASE UNCHANGED vars
    BY <2>5 DEF vars, Promise!vars
  <2> QED BY <2>1, <2>2, <2>3, <2>4, <2>5 DEF Next
<1> QED BY <1>1, <1>2, ChannelInvariant, PTL DEF Spec, ImplementsAtMostOnce, Promise!Spec
=============================================================================
