----------------------------- MODULE PeersProofs ----------------------------
(***************************************************************************)
(* What this machine knows of others: the peers the window lists           *)
(* (Discovery), and the devices it trusts (TrustStore).                    *)
(*                                                                         *)
(* For any network: once the browse thread has read its events, no peer is *)
(* listed that has gone, and none at an address it no longer has; and one  *)
(* whose name is no part of another's is listed while it is there.         *)
(*                                                                         *)
(* For any devices and any threads, failing saves and restarts at any      *)
(* point included: StoreInv is an inductive invariant of the store.        *)
(***************************************************************************)
EXTENDS Discovery, TrustStore, TLAPS

(***************************************************************************)
(* The peers listed.                                                       *)
(***************************************************************************)
\* A service is where it is said to be, or an event after position n speaks of it.
Fresh(s, a, n) ==
    \/ s \in up \cup lapsing /\ a = addr[s]
    \/ \E m \in DOMAIN pending : m > n /\ pending[m].service = s

\* What is listed, and what is on its way to be.
ListedFresh == \A e \in table : Fresh(e.service, e.at, 0) /\ FpOf[e.service] # OwnFp
NoticesFresh ==
    \A e \in Notices : \A n \in DOMAIN pending :
        pending[n] = e /\ e.kind = "resolved" => Fresh(e.service, e.at, n)
Offline == ~browsing => pending = <<>> /\ table = {}

DInv == TypeOK /\ ListedFresh /\ NoticesFresh /\ Offline

LEMMA NoticeType ==
    ASSUME NEW s \in Services, NEW a \in Addresses
    PROVE  /\ Resolved(s, a) \in Notices /\ Removed(s) \in Notices
           /\ Resolved(s, a).service = s /\ Removed(s).service = s
           /\ Resolved(s, a).kind = "resolved" /\ Resolved(s, a).at = a
           /\ Removed(s).kind = "removed"
BY DEF Resolved, Removed, Notices

\* A change of one service that the daemon reports.
LEMMA EmitKeeps ==
    ASSUME DInv, NEW s \in Services, NEW notice \in Notices, notice.service = s,
           Emit(notice), UNCHANGED <<browsing, table>>,
           notice.kind = "resolved" => s \in up' /\ notice.at = addr'[s],
           up' \subseteq Services, lapsing' \subseteq Services,
           addr' \in [Services -> Addresses],
           \A t \in Services \ {s} : /\ t \in up \cup lapsing => t \in up' \cup lapsing'
                                     /\ addr'[t] = addr[t]
    PROVE  DInv'
<1>1. CASE ~browsing
  <2>1. pending' = <<>> /\ table' = {}
    BY <1>1 DEF DInv, Offline, Emit
  <2> QED BY <1>1, <2>1 DEF DInv, TypeOK, ListedFresh, NoticesFresh, Offline
<1>2. CASE browsing
  <2>1. /\ pending' = Append(pending, notice) /\ Len(pending) < PendingCap
        /\ pending \in Seq(Notices) /\ Len(pending) \in Nat
    BY <1>2 DEF Emit, DInv, TypeOK
  <2>2. /\ pending' \in Seq(Notices) /\ Len(pending') = Len(pending) + 1
        /\ DOMAIN pending = 1 .. Len(pending) /\ DOMAIN pending' = 1 .. Len(pending) + 1
        /\ pending'[Len(pending) + 1] = notice
        /\ \A n \in 1 .. Len(pending) : pending'[n] = pending[n]
    BY <2>1
  <2>3. ASSUME NEW t \in Services, NEW a, NEW n \in 0 .. Len(pending), Fresh(t, a, n)
        PROVE  Fresh(t, a, n)'
    <3>1. CASE t = s
      <4>1. Len(pending) + 1 \in DOMAIN pending' /\ Len(pending) + 1 > n
        BY <2>1, <2>2
      <4> QED BY <2>2, <3>1, <4>1 DEF Fresh
    <3>2. CASE t # s
      BY <2>1, <2>2, <2>3, <3>2 DEF Fresh
    <3> QED BY <3>1, <3>2
  <2>4. TypeOK'
    BY <2>1, <2>2, CapAssumption DEF DInv, TypeOK
  <2>5. ListedFresh'
    <3> SUFFICES ASSUME NEW e \in table
                 PROVE  Fresh(e.service, e.at, 0)' /\ FpOf[e.service] # OwnFp
      BY DEF ListedFresh
    <3>1. e.service \in Services /\ Fresh(e.service, e.at, 0) /\ FpOf[e.service] # OwnFp
      BY DEF DInv, TypeOK, Entries, ListedFresh
    <3>2. 0 \in 0 .. Len(pending)
      BY <2>1
    <3> QED BY <2>3, <3>1, <3>2
  <2>6. NoticesFresh'
    <3> SUFFICES ASSUME NEW e \in Notices, NEW n \in DOMAIN pending',
                        pending'[n] = e, e.kind = "resolved"
                 PROVE  Fresh(e.service, e.at, n)'
      BY DEF NoticesFresh
    <3>1. CASE n \in 1 .. Len(pending)
      <4>1. pending[n] = e /\ e.service \in Services /\ n \in 0 .. Len(pending)
        BY <2>1, <2>2, <3>1 DEF Notices
      <4>2. Fresh(e.service, e.at, n)
        BY <2>2, <3>1, <4>1 DEF DInv, NoticesFresh
      <4> QED BY <2>3, <4>1, <4>2
    <3>2. CASE n = Len(pending) + 1
      BY <2>2, <3>2 DEF Fresh
    <3> QED BY <2>2, <2>1, <3>1, <3>2
  <2> QED BY <1>2, <2>4, <2>5, <2>6 DEF DInv, Offline
<1> QED BY <1>1, <1>2 DEF DInv, TypeOK

\* The thread acts on an event: what it was about is listed afresh or not at all.
LEMMA BrowseKeeps == DInv /\ Browse => DInv'
<1> SUFFICES ASSUME DInv, Browse PROVE DInv'
  OBVIOUS
<1> DEFINE head == Head(pending)
<1>1. /\ pending \in Seq(Notices) /\ pending # <<>> /\ pending' = Tail(pending)
      /\ Len(pending) \in Nat /\ head = pending[1] /\ head \in Notices /\ browsing
  BY DEF DInv, TypeOK, Browse, Offline
<1>2. /\ DOMAIN pending = 1 .. Len(pending) /\ DOMAIN pending' = 1 .. Len(pending) - 1
      /\ pending' \in Seq(Notices) /\ Len(pending') = Len(pending) - 1
      /\ \A n \in 1 .. Len(pending) - 1 : pending'[n] = pending[n + 1]
  BY <1>1
<1>3. UNCHANGED <<up, lapsing, addr, browsing>>
  BY DEF Browse, network
<1>4. head.service \in Services
  BY <1>1 DEF Notices
\* What is fresh by an event other than the first one stays so.
<1>5. ASSUME NEW t, NEW a, NEW n \in Nat, Fresh(t, a, n + 1) PROVE Fresh(t, a, n)'
  <2>1. CASE t \in up \cup lapsing /\ a = addr[t]
    BY <1>3, <2>1 DEF Fresh
  <2>2. ASSUME NEW m \in DOMAIN pending, m > n + 1, pending[m].service = t
        PROVE  Fresh(t, a, n)'
    <3>1. m - 1 \in DOMAIN pending' /\ m - 1 > n /\ m - 1 \in 1 .. Len(pending) - 1
      BY <1>1, <1>2, <2>2
    <3>2. pending'[m - 1] = pending[m]
      BY <1>1, <1>2, <2>2, <3>1
    <3> QED BY <2>2, <3>1, <3>2 DEF Fresh
  <2> QED BY <1>5, <2>1, <2>2 DEF Fresh
\* What the event was not about was fresh by another one.
<1>6. ASSUME NEW t, NEW a, Fresh(t, a, 0), t # head.service PROVE Fresh(t, a, 0)'
  <2>1. Fresh(t, a, 0 + 1)
    <3>1. ASSUME NEW m \in DOMAIN pending, m > 0, pending[m].service = t PROVE m > 0 + 1
      <4>1. m # 1 /\ m \in 1 .. Len(pending)
        BY <1>1, <1>2, <1>6, <3>1
      <4> QED BY <1>1, <4>1
    <3> QED BY <1>6, <3>1 DEF Fresh
  <2> QED BY <1>5, <2>1
<1>7. table' \subseteq Entries
      /\ \A e \in table' :
           \/ e \in table /\ e.service # head.service
           \/ /\ head.kind = "resolved" /\ e.service = head.service /\ e.at = head.at
              /\ FpOf[e.service] # OwnFp
  <2>1. CASE head.kind = "resolved"
    <3>1. head.at \in Addresses
      BY <1>1, <2>1 DEF Notices
    <3>2. CASE FpOf[head.service] = OwnFp
      <4>1. table' = table
        BY <2>1, <3>2 DEF Browse, WithResolved
      <4> QED BY <3>2, <4>1 DEF DInv, TypeOK, ListedFresh
    <3>3. CASE FpOf[head.service] # OwnFp
      <4>1. table' = {e \in table : Key(e.service) # Key(head.service)}
                       \cup {[service |-> head.service, at |-> head.at]}
        BY <2>1, <3>3 DEF Browse, WithResolved
      <4> QED BY <1>4, <2>1, <3>1, <3>3, <4>1 DEF DInv, TypeOK, Entries
    <3> QED BY <3>2, <3>3
  <2>2. CASE head.kind # "resolved"
    <3>1. table' = {e \in table : <<e.service, head.service>> \notin NameIn}
      BY <2>2 DEF Browse, WithoutRemoved
    <3>2. <<head.service, head.service>> \in NameIn
      BY <1>4, NameAssumption
    <3> QED BY <3>1, <3>2 DEF DInv, TypeOK
  <2> QED BY <2>1, <2>2
<1>8. TypeOK'
  BY <1>1, <1>2, <1>3, <1>7, CapAssumption DEF DInv, TypeOK
<1>9. ListedFresh'
  <2> SUFFICES ASSUME NEW e \in table'
               PROVE  Fresh(e.service, e.at, 0)' /\ FpOf[e.service] # OwnFp
    BY DEF ListedFresh
  <2>1. CASE e \in table /\ e.service # head.service
    BY <1>6, <2>1 DEF DInv, ListedFresh
  <2>2. CASE /\ head.kind = "resolved" /\ e.service = head.service /\ e.at = head.at
             /\ FpOf[e.service] # OwnFp
    <3>1. 1 \in DOMAIN pending
      BY <1>1, <1>2
    <3>2. Fresh(head.service, head.at, 0 + 1)
      BY <1>1, <2>2, <3>1 DEF DInv, NoticesFresh
    <3> QED BY <1>5, <2>2, <3>2
  <2> QED BY <1>7, <2>1, <2>2
<1>10. NoticesFresh'
  <2> SUFFICES ASSUME NEW e \in Notices, NEW n \in DOMAIN pending',
                      pending'[n] = e, e.kind = "resolved"
               PROVE  Fresh(e.service, e.at, n)'
    BY DEF NoticesFresh
  <2>1. n \in Nat /\ n + 1 \in DOMAIN pending /\ pending[n + 1] = e
    BY <1>1, <1>2
  <2>2. Fresh(e.service, e.at, n + 1)
    BY <2>1 DEF DInv, NoticesFresh
  <2> QED BY <1>5, <2>1, <2>2
<1>11. Offline'
  BY <1>1, <1>3 DEF Offline
<1> QED BY <1>8, <1>9, <1>10, <1>11 DEF DInv

LEMMA NetworkKeeps ==
    ASSUME DInv, NEW s \in Services,
           Announce(s) \/ Move(s) \/ SayGoodbye(s) \/ Vanish(s) \/ Lapse(s)
    PROVE  DInv'
<1>t. up \subseteq Services /\ lapsing \subseteq Services /\ addr \in [Services -> Addresses]
  BY DEF DInv, TypeOK
<1>1. CASE Announce(s) \/ Move(s)
  <2>1. PICK a \in Addresses :
           addr' = [addr EXCEPT ![s] = a] /\ Emit(Resolved(s, a))
    BY <1>1 DEF Announce, Move
  <2>2. /\ s \in up' /\ up' \subseteq Services /\ lapsing' \subseteq Services
        /\ \A t \in Services \ {s} : t \in up \cup lapsing => t \in up' \cup lapsing'
        /\ UNCHANGED <<browsing, table>>
    BY <1>1, <1>t DEF Announce, Move
  <2>3. addr' \in [Services -> Addresses] /\ addr'[s] = a
        /\ \A t \in Services \ {s} : addr'[t] = addr[t]
    BY <1>t, <2>1
  <2> QED BY <2>1, <2>2, <2>3, NoticeType, EmitKeeps
<1>2. CASE SayGoodbye(s) \/ Lapse(s)
  <2>1. /\ Emit(Removed(s)) /\ UNCHANGED <<addr, browsing, table>>
        /\ up' \subseteq Services /\ lapsing' \subseteq Services
        /\ \A t \in Services \ {s} : t \in up \cup lapsing => t \in up' \cup lapsing'
    BY <1>2, <1>t DEF SayGoodbye, Lapse
  <2>2. Removed(s) \in Notices /\ Removed(s).service = s /\ Removed(s).kind = "removed"
    BY DEF Removed, Notices
  <2> QED BY <1>t, <2>1, <2>2, EmitKeeps
<1>3. CASE Vanish(s)
  <2>1. up' \cup lapsing' = up \cup lapsing /\ up' \subseteq Services /\ lapsing' \subseteq Services
        /\ UNCHANGED <<addr, browsing, pending, table>>
    BY <1>3, <1>t DEF Vanish
  <2> QED BY <2>1 DEF DInv, TypeOK, ListedFresh, NoticesFresh, Offline, Fresh
<1> QED BY <1>1, <1>2, <1>3

\* Once the events are read, every listed peer runs, or went without a word and
\* has yet to expire, and is where the list says (lib.rs, the browse thread).
THEOREM TableStaysCurrent == Spec => []TableIsCurrent
<1>1. Init => DInv
  BY CapAssumption DEF Init, DInv, TypeOK, ListedFresh, NoticesFresh, Offline
<1>2. DInv /\ [Next]_vars => DInv'
  <2>1. ASSUME DInv, UNCHANGED vars PROVE DInv'
    BY <2>1 DEF vars, DInv, TypeOK, ListedFresh, NoticesFresh, Offline, Fresh
  <2> QED BY <2>1, BrowseKeeps, NetworkKeeps DEF Next
<1>3. DInv => TableIsCurrent
  <2> SUFFICES ASSUME DInv, pending = <<>>, NEW e \in table
               PROVE  e.service \in up \cup lapsing /\ e.at = addr[e.service]
    BY DEF TableIsCurrent
  <2>1. Fresh(e.service, e.at, 0) /\ DOMAIN pending = {}
    BY DEF DInv, ListedFresh
  <2> QED BY <2>1 DEF Fresh
<1> QED BY <1>1, <1>2, <1>3, PTL DEF Spec
-----------------------------------------------------------------------------
(***************************************************************************)
(* A name that is part of no other service's stays listed.                 *)
(***************************************************************************)
\* What takes the entry of s away, or replaces it.
Displaces(e, s) ==
    IF e.kind = "resolved" THEN Key(e.service) = Key(s) ELSE e.service = s

Entry(s) == [service |-> s, at |-> addr[s]]

\* The entry of s is there, or comes with the event at n, and nothing behind n
\* displaces it.
ListedBy(s, n) ==
    /\ IF n = 0 THEN Entry(s) \in table ELSE n \in DOMAIN pending /\ pending[n] = Resolved(s, addr[s])
    /\ \A m \in DOMAIN pending : m > n => ~Displaces(pending[m], s)

Running(s) == s \in up /\ browsing /\ NameIsItsOwn(s) /\ FpOf[s] # OwnFp
WillBeListed == \A s \in Services : Running(s) => \E n \in Nat : ListedBy(s, n)

\* A device runs one service, and what runs does not lapse.
Apart == up \cap lapsing = {} /\ \A s, t \in up : SameDevice(s, t) => s = t

OInv == DInv /\ WillBeListed /\ Apart

\* Services with one key are one service, or services of one device.
LEMMA KeysTellDevices ==
    ASSUME NEW s \in Services, NEW t \in Services, Key(s) = Key(t)
    PROVE  s = t \/ SameDevice(s, t)
BY ServicesAssumption DEF Key, SameDevice

\* An event about another device takes nothing away.
LEMMA OthersKeepListed ==
    ASSUME DInv, NEW s \in Services, NEW n \in Nat, ListedBy(s, n),
           NEW notice \in Notices, Emit(notice), ~Displaces(notice, s),
           table' = table, addr'[s] = addr[s]
    PROVE  ListedBy(s, n)'
<1>1. pending \in Seq(Notices) /\ Len(pending) \in Nat
  BY DEF DInv, TypeOK
<1>2. CASE pending' = pending
  BY <1>2 DEF ListedBy, Displaces, Entry, Key, Resolved
<1>3. CASE pending' = Append(pending, notice)
  <2>1. /\ DOMAIN pending = 1 .. Len(pending) /\ DOMAIN pending' = 1 .. Len(pending) + 1
        /\ pending'[Len(pending) + 1] = notice
        /\ \A m \in 1 .. Len(pending) : pending'[m] = pending[m]
    BY <1>1, <1>3
  <2>2. ASSUME NEW m \in DOMAIN pending', m > n PROVE ~Displaces(pending'[m], s)
    <3>1. CASE m \in 1 .. Len(pending)
      BY <2>1, <2>2, <3>1 DEF ListedBy
    <3>2. CASE m = Len(pending) + 1
      BY <2>1, <3>2
    <3> QED BY <1>1, <2>1, <3>1, <3>2
  <2>3. IF n = 0 THEN Entry(s)' \in table'
                 ELSE n \in DOMAIN pending' /\ pending'[n] = Resolved(s, addr'[s])
    <3>1. CASE n = 0
      BY <3>1 DEF ListedBy, Entry
    <3>2. CASE n # 0
      BY <1>1, <2>1, <3>2 DEF ListedBy
    <3> QED BY <3>1, <3>2
  <2>4. \A m \in DOMAIN pending' : m > n => ~Displaces(pending[m], s)'
    BY <2>2 DEF Displaces, Key
  <2> QED BY <2>3, <2>4 DEF ListedBy
<1> QED BY <1>2, <1>3 DEF Emit

\* What is announced, or moves, is listed by the event that says so.
LEMMA NewsLists ==
    ASSUME DInv, browsing, NEW s \in Services, Emit(Resolved(s, addr'[s]))
    PROVE  \E n \in Nat : ListedBy(s, n)'
<1>n. PICK n \in Nat : n = Len(pending) + 1
  BY DEF DInv, TypeOK
<1>1. pending \in Seq(Notices) /\ Len(pending) \in Nat /\ pending' = Append(pending, Resolved(s, addr'[s]))
  BY DEF DInv, TypeOK, Emit
<1>2. DOMAIN pending' = 1 .. n /\ n \in Nat /\ n # 0 /\ pending'[n] = Resolved(s, addr'[s])
  BY <1>n, <1>1
<1>3. ListedBy(s, n)'
  BY <1>2 DEF ListedBy
<1> QED BY <1>2, <1>3

LEMMA NetworkKeepsListed ==
    ASSUME OInv, NEW t \in Services,
           Announce(t) \/ Move(t) \/ SayGoodbye(t) \/ Vanish(t) \/ Lapse(t)
    PROVE  WillBeListed' /\ Apart'
<1>t. /\ DInv /\ up \subseteq Services /\ lapsing \subseteq Services /\ addr \in [Services -> Addresses]
      /\ up \cap lapsing = {} /\ \A s, u \in up : SameDevice(s, u) => s = u
  BY DEF OInv, DInv, TypeOK, Apart
<1>n. \A a \in Addresses : /\ Resolved(t, a) \in Notices
                           /\ Resolved(t, a).kind = "resolved" /\ Resolved(t, a).service = t
  BY NoticeType
<1>1. CASE Announce(t) \/ Move(t)
  <2>1. PICK a \in Addresses : addr' = [addr EXCEPT ![t] = a] /\ Emit(Resolved(t, a))
    BY <1>1 DEF Announce, Move
  <2>2. /\ addr'[t] = a /\ \A s \in Services \ {t} : addr'[s] = addr[s]
        /\ up' = up \cup {t} /\ lapsing' = lapsing \ {t} /\ UNCHANGED <<browsing, table>>
        /\ \A s \in up \ {t} : ~SameDevice(s, t)
    BY <1>1, <1>t, <2>1 DEF Announce, Move, SameDevice
  <2>3. Apart'
    BY <1>t, <2>2 DEF Apart, SameDevice
  <2>4. ASSUME NEW s \in Services, Running(s)' PROVE \E n \in Nat : ListedBy(s, n)'
    <3>1. CASE s = t
      BY <1>t, <2>1, <2>2, <2>4, <3>1, NewsLists DEF Running
    <3>2. CASE s # t
      <4>1. Running(s)
        BY <2>2, <2>4, <3>2 DEF Running
      <4>2. PICK n \in Nat : ListedBy(s, n)
        BY <4>1 DEF OInv, WillBeListed
      <4>3. ~Displaces(Resolved(t, a), s)
        BY <1>n, <2>2, <3>2, <4>1, KeysTellDevices DEF Displaces, Running, SameDevice
      <4> QED BY <1>n, <1>t, <2>1, <2>2, <3>2, <4>2, <4>3, OthersKeepListed
    <3> QED BY <3>1, <3>2
  <2> QED BY <2>3, <2>4 DEF WillBeListed
<1>2. CASE SayGoodbye(t) \/ Lapse(t)
  <2>1. /\ Emit(Removed(t)) /\ UNCHANGED <<addr, browsing, table>> /\ t \notin up'
        /\ up' \subseteq up /\ lapsing' \subseteq lapsing
    BY <1>2, <1>t DEF SayGoodbye, Lapse
  <2>2. Apart'
    BY <1>t, <2>1 DEF Apart, SameDevice
  <2>3. ASSUME NEW s \in Services, Running(s)' PROVE \E n \in Nat : ListedBy(s, n)'
    <3>1. Running(s) /\ s # t
      BY <2>1, <2>3 DEF Running
    <3>2. PICK n \in Nat : ListedBy(s, n)
      BY <3>1 DEF OInv, WillBeListed
    <3>3. ~Displaces(Removed(t), s)
      BY <3>1 DEF Displaces, Removed
    <3>4. Removed(t) \in Notices
      BY DEF Removed, Notices
    <3> QED BY <1>t, <2>1, <3>2, <3>3, <3>4, OthersKeepListed
  <2> QED BY <2>2, <2>3 DEF WillBeListed
<1>3. CASE Vanish(t)
  <2>1. up' = up \ {t} /\ lapsing' = lapsing \cup {t} /\ UNCHANGED <<addr, browsing, pending, table>>
    BY <1>3 DEF Vanish
  <2>2. Apart'
    BY <1>t, <2>1 DEF Apart, SameDevice
  <2>3. ASSUME NEW s \in Services, Running(s)' PROVE \E n \in Nat : ListedBy(s, n)'
    <3>1. Running(s)
      BY <2>1, <2>3 DEF Running
    <3>2. PICK n \in Nat : ListedBy(s, n)
      BY <3>1 DEF OInv, WillBeListed
    <3> QED BY <2>1, <3>2 DEF ListedBy, Displaces, Entry, Key, Resolved
  <2> QED BY <2>2, <2>3 DEF WillBeListed
<1> QED BY <1>1, <1>2, <1>3

LEMMA BrowseKeepsListed ==
    ASSUME OInv, Browse PROVE WillBeListed' /\ Apart'
<1> DEFINE head == Head(pending)
<1>1. /\ pending \in Seq(Notices) /\ pending # <<>> /\ pending' = Tail(pending)
      /\ Len(pending) \in Nat /\ head = pending[1] /\ head \in Notices
      /\ UNCHANGED <<up, lapsing, addr, browsing>>
  BY DEF OInv, DInv, TypeOK, Browse, network
<1>2. /\ DOMAIN pending = 1 .. Len(pending) /\ DOMAIN pending' = 1 .. Len(pending) - 1
      /\ \A m \in 1 .. Len(pending) - 1 : pending'[m] = pending[m + 1]
      /\ head.service \in Services
  BY <1>1 DEF Notices
<1>3. Apart'
  BY <1>1 DEF OInv, Apart, SameDevice
<1>4. ASSUME NEW s \in Services, Running(s)' PROVE \E n \in Nat : ListedBy(s, n)'
  <2>1. Running(s)
    BY <1>1, <1>4 DEF Running
  <2>2. PICK n \in Nat : ListedBy(s, n)
    BY <2>1 DEF OInv, WillBeListed
  <2>3. ASSUME NEW k \in Nat, k >= n - 1, NEW m \in DOMAIN pending', m > k
        PROVE  ~Displaces(pending'[m], s)
    <3>1. m + 1 \in DOMAIN pending /\ pending'[m] = pending[m + 1] /\ m + 1 > n
      BY <1>1, <1>2, <2>3
    <3> QED BY <2>2, <3>1 DEF ListedBy
  <2>4. CASE n > 1
    <3>1. n - 1 \in DOMAIN pending' /\ pending'[n - 1] = Resolved(s, addr[s]) /\ n - 1 # 0 /\ n - 1 \in Nat
      BY <1>1, <1>2, <2>2, <2>4 DEF ListedBy
    <3>2. ListedBy(s, n - 1)'
      BY <1>1, <2>3, <3>1 DEF ListedBy, Displaces, Key
    <3> QED BY <3>1, <3>2
  <2>5. CASE n = 1
    <3>1. head = Resolved(s, addr[s])
      BY <1>1, <2>2, <2>5 DEF ListedBy
    <3>2. Entry(s) \in table'
      BY <2>1, <3>1 DEF Browse, WithResolved, Running, Resolved, Entry
    <3>3. ListedBy(s, 0)'
      BY <1>1, <2>3, <2>5, <3>2 DEF ListedBy, Displaces, Key, Entry
    <3> QED BY <3>3
  <2>6. CASE n = 0
    <3>1. Entry(s) \in table /\ ~Displaces(head, s)
      <4>1. 1 \in DOMAIN pending
        BY <1>1, <1>2
      <4> QED BY <1>1, <2>2, <2>6, <4>1 DEF ListedBy
    <3>2. Entry(s) \in table'
      <4>1. Entry(s).service = s
        BY DEF Entry
      <4>2. CASE head.kind = "resolved"
        BY <3>1, <4>1, <4>2 DEF Browse, WithResolved, Displaces
      <4>3. CASE head.kind # "resolved"
        <5>1. <<s, head.service>> \notin NameIn
          BY <1>2, <2>1, <3>1, <4>3 DEF Running, NameIsItsOwn, Displaces
        <5> QED BY <3>1, <4>1, <4>3, <5>1 DEF Browse, WithoutRemoved
      <4> QED BY <4>2, <4>3
    <3>3. ListedBy(s, 0)'
      BY <1>1, <2>3, <2>6, <3>2 DEF ListedBy, Displaces, Key, Entry
    <3> QED BY <3>3
  <2> QED BY <2>4, <2>5, <2>6
<1> QED BY <1>3, <1>4 DEF WillBeListed

\* Whoever comes, moves, leaves or lapses, and in whatever order the thread is
\* told: a running service whose name is its own is listed where it is.
THEOREM OwnNamesStay == Spec => []OwnNameStaysListed
<1>1. Init => OInv
  BY CapAssumption
  DEF Init, OInv, DInv, TypeOK, ListedFresh, NoticesFresh, Offline, WillBeListed, Running, Apart
<1>2. OInv /\ [Next]_vars => OInv'
  <2> SUFFICES ASSUME OInv, [Next]_vars PROVE OInv'
    OBVIOUS
  <2>1. CASE UNCHANGED vars
    BY <2>1 DEF vars, OInv, DInv, TypeOK, ListedFresh, NoticesFresh, Offline, Fresh, WillBeListed,
                Running, ListedBy, Displaces, Entry, Resolved, Key, Apart, SameDevice
  <2>2. CASE Browse
    BY <2>2, BrowseKeeps, BrowseKeepsListed DEF OInv
  <2>3. ASSUME NEW s \in Services,
               Announce(s) \/ Move(s) \/ SayGoodbye(s) \/ Vanish(s) \/ Lapse(s)
        PROVE  OInv'
    BY <2>3, NetworkKeeps, NetworkKeepsListed DEF OInv
  <2> QED BY <2>1, <2>2, <2>3 DEF Next
<1>3. OInv => OwnNameStaysListed
  <2> SUFFICES ASSUME OInv, pending = <<>>, browsing, NEW s \in up, NameIsItsOwn(s), FpOf[s] # OwnFp
               PROVE  Entry(s) \in table
    BY DEF OwnNameStaysListed, Entry
  <2>1. s \in Services /\ Running(s)
    BY DEF OInv, DInv, TypeOK, Running
  <2>2. PICK n \in Nat : ListedBy(s, n)
    BY <2>1 DEF OInv, WillBeListed
  <2> QED BY <2>2 DEF ListedBy
<1> QED BY <1>1, <1>2, <1>3, PTL DEF Spec

(***************************************************************************)
(* The devices trusted.                                                    *)
(***************************************************************************)
\* The store starts empty, as its file does.
LEMMA InitInv == StoreInit => StoreInv
BY DEF StoreInit, StoreInv, StoreTypeOK, SerialSavesPersist, SerialSave, Files, Load

\* A thread that changes the memory while others are at work ends the
\* seriality; one that does so alone is the only one at work.
LEMMA ChangeInv ==
    ASSUME StoreInv, NEW t \in Threads, NEW devices \in SUBSET Devices, Change(t, devices)
    PROVE  StoreInv'
<1> USE DEF StoreInv
<1>1. StoreTypeOK'
  BY DEF StoreTypeOK, Change
<1>2. SerialSavesPersist'
  <2>1. pc'[t] = "changed"
    BY DEF StoreTypeOK, Change
  <2>2. ~Quiet'
    BY <2>1 DEF Quiet
  <2> QED BY <2>2 DEF SerialSavesPersist
<1>3. SerialSave'
  <2>1. CASE Quiet
    BY <2>1 DEF Quiet, SerialSave, StoreTypeOK, Change
  <2>2. CASE ~Quiet
    BY <2>2 DEF SerialSave, Serial, Change
  <2> QED BY <2>1, <2>2
<1> QED BY <1>1, <1>2, <1>3

\* The steps of a save.
LEMMA SaveInv ==
    ASSUME StoreInv, NEW t \in Threads,
           Snapshot(t) \/ Truncate(t) \/ Write(t) \/ SaveFails(t)
    PROVE  StoreInv'
<1> USE DEF StoreInv
<1>1. CASE Snapshot(t)
  <2>1. StoreTypeOK'
    BY <1>1 DEF StoreTypeOK, Snapshot
  <2>2. SerialSavesPersist'
    <3>1. pc'[t] = "saving"
      BY <1>1 DEF StoreTypeOK, Snapshot
    <3> QED BY <3>1 DEF SerialSavesPersist, Quiet
  <2>3. SerialSave'
    BY <1>1 DEF Snapshot, SerialSave, Serial, StoreTypeOK
  <2> QED BY <2>1, <2>2, <2>3
<1>2. CASE Truncate(t)
  <2>1. StoreTypeOK'
    BY <1>2 DEF StoreTypeOK, Truncate, Files
  <2>2. SerialSavesPersist'
    <3>1. pc'[t] = "writing"
      BY <1>2 DEF StoreTypeOK, Truncate
    <3> QED BY <3>1 DEF SerialSavesPersist, Quiet
  <2>3. SerialSave'
    BY <1>2 DEF Truncate, SerialSave, Serial, StoreTypeOK
  <2> QED BY <2>1, <2>2, <2>3
<1>3. CASE Write(t)
  <2>1. StoreTypeOK'
    BY <1>3 DEF StoreTypeOK, Write, Files
  <2>2. SerialSavesPersist'
    <3>1. SUFFICES ASSUME Serial' PROVE Load(disk') = mem'
      BY DEF SerialSavesPersist
    <3>2. snap[t] = mem
      BY <1>3, <3>1 DEF Write, SerialSave, Serial
    <3> QED BY <1>3, <3>2 DEF Write, Load
  <2>3. SerialSave'
    BY <1>3 DEF Write, SerialSave, Serial, StoreTypeOK
  <2> QED BY <2>1, <2>2, <2>3
<1>4. CASE SaveFails(t)
  <2>1. StoreTypeOK'
    BY <1>4 DEF StoreTypeOK, SaveFails
  <2>2. ~Serial'
    BY <1>4 DEF SaveFails, Serial
  <2> QED BY <2>1, <2>2 DEF SerialSavesPersist, SerialSave
<1> QED BY <1>1, <1>2, <1>3, <1>4

\* After a restart the memory is what the file held, be it nothing.
LEMMA RestartInv == ASSUME StoreInv, Restart PROVE StoreInv'
<1>1. Load(disk) \in SUBSET Devices
  BY DEF StoreInv, StoreTypeOK, Files, Torn, Load
<1>2. StoreTypeOK'
  BY <1>1 DEF StoreInv, StoreTypeOK, Restart
<1>3. SerialSavesPersist'
  BY DEF Restart, SerialSavesPersist, Load
<1>4. SerialSave'
  BY DEF Restart, SerialSave
<1> QED BY <1>2, <1>3, <1>4 DEF StoreInv

\* Whatever a step of the store does, the invariant survives it.
LEMMA StepInv == StoreInv /\ [StoreNext]_storeVars => StoreInv'
<1> SUFFICES ASSUME StoreInv, [StoreNext]_storeVars PROVE StoreInv'
  OBVIOUS
<1>1. CASE Restart
  BY <1>1, RestartInv
<1>2. ASSUME NEW t \in Threads, Operation(t) PROVE StoreInv'
  <2>1. ASSUME NEW d \in Devices, Trust(t, d) PROVE StoreInv'
    <3>1. mem \cup {d} \in SUBSET Devices
      BY DEF StoreInv, StoreTypeOK
    <3> QED BY <2>1, <3>1, ChangeInv DEF Trust
  <2>2. ASSUME NEW d \in Devices, Revoke(t, d) PROVE StoreInv'
    <3>1. mem \ {d} \in SUBSET Devices
      BY DEF StoreInv, StoreTypeOK
    <3> QED BY <2>2, <3>1, ChangeInv DEF Revoke
  <2>3. CASE Snapshot(t) \/ Truncate(t) \/ Write(t) \/ SaveFails(t)
    BY <2>3, SaveInv
  <2> QED BY <1>2, <2>1, <2>2, <2>3 DEF Operation
<1>3. CASE UNCHANGED storeVars
  BY <1>3 DEF storeVars, StoreInv, StoreTypeOK, SerialSavesPersist, SerialSave, Serial, Quiet
<1> QED BY <1>1, <1>2, <1>3 DEF StoreNext

\* The invariant of the trust store holds in every state.
THEOREM StoreInvariant == StoreSpec => []StoreInv
<1>1. StoreInit => StoreInv
  BY InitInv
<1>2. StoreInv /\ [StoreNext]_storeVars => StoreInv'
  BY StepInv
<1> QED BY <1>1, <1>2, PTL DEF StoreSpec

\* Once an operation has run alone and been saved, a restart finds exactly what
\* the memory holds, whatever went wrong before (TrustStore::save and load).
THEOREM SavesPersist == StoreSpec => []SerialSavesPersist
<1>1. StoreInv => SerialSavesPersist
  BY DEF StoreInv
<1> QED BY <1>1, StoreInvariant, PTL
=============================================================================
