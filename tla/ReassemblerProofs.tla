------------------------ MODULE ReassemblerProofs -------------------------
(***************************************************************************)
(* For any range of frame numbers, any delay the range is wide enough for  *)
(* and any sizes of the frames: completed frames are whole, frames do not  *)
(* mix, and only newer ones displace the one in assembly.                  *)
(***************************************************************************)
EXTENDS Reassembler, FiniteSetTheorems, TLAPS

(***************************************************************************)
(* Numbers that wrap around.                                               *)
(***************************************************************************)
LEMMA Division ==
    ASSUME NEW w \in Nat \ {0}, NEW a \in Int
    PROVE  /\ a % w \in 0 .. w - 1 /\ a \div w \in Int
           /\ a = w * (a \div w) + (a % w)
<1>1. w \in Int /\ w > 0
  OBVIOUS
<1>2. a = w * (a \div w) + (a % w)
  BY <1>1, Z3
<1>3. a % w \in 0 .. w - 1
  OBVIOUS
<1>4. a \div w \in Int
  OBVIOUS
<1> QED BY <1>2, <1>3, <1>4

LEMMA SmallRemainder ==
    ASSUME NEW w \in Int, w > 0, NEW a \in Int, a >= 0, a < w
    PROVE  a % w = a /\ (a - w) % w = a
OBVIOUS

\* Of two numbers less than w apart, the later one's remainder is ahead of the
\* earlier one's by their distance, and behind it by what is left of the circle.
LEMMA Distance ==
    ASSUME NEW w \in Nat \ {0}, NEW k \in Int, NEW n \in Int, k < n, n - k < w
    PROVE  /\ n % w # k % w
           /\ ((n % w) - (k % w)) % w = n - k
           /\ ((k % w) - (n % w)) % w = w - (n - k)
<1>1. PICK a \in 0 .. w - 1, q \in Int : a = n % w /\ n = w * q + a
  BY Division
<1>2. PICK b \in 0 .. w - 1, r \in Int : b = k % w /\ k = w * r + b
  BY Division
<1>3. PICK t \in Int : t = r - q
  OBVIOUS
<1>4. a - b = (n - k) + w * t
  <2>1. w * t = w * r - w * q
    BY <1>3
  <2> QED BY <1>1, <1>2, <2>1
<1>5. t = 0 \/ t = -1
  <2>1. t < 1
    <3>1. CASE t >= 1
      <4>1. w * t >= w
        BY <3>1
      <4> QED BY <1>4, <4>1
    <3> QED BY <3>1
  <2>2. t > -2
    <3>1. CASE t <= -2
      <4>1. w * t <= -(2 * w)
        BY <3>1
      <4> QED BY <1>4, <4>1
    <3> QED BY <3>1
  <2> QED BY <2>1, <2>2
<1>6. a - b = n - k \/ a - b = (n - k) - w
  <2>1. CASE t = 0
    BY <1>4, <2>1
  <2>2. CASE t = -1
    BY <1>4, <2>2
  <2> QED BY <1>5, <2>1, <2>2
<1>7. /\ (n - k) % w = n - k /\ ((n - k) - w) % w = n - k
      /\ (w - (n - k)) % w = w - (n - k) /\ ((w - (n - k)) - w) % w = w - (n - k)
  BY SmallRemainder
<1>8. a # b
  BY <1>6
<1>9. (a - b) % w = n - k
  BY <1>6, <1>7
<1>10. (b - a) % w = w - (n - k)
  <2>1. b - a = (w - (n - k)) - w \/ b - a = w - (n - k)
    BY <1>6
  <2> QED BY <1>7, <2>1
<1> QED BY <1>1, <1>2, <1>8, <1>9, <1>10

\* Frames that are not further apart than delivery allows are told apart, and put
\* in order, by the numbers they carry (is_newer).
LEMMA IdsTell ==
    ASSUME NEW n \in Int, NEW k \in Int, n - k <= 2 * Lag, k - n <= 2 * Lag
    PROVE  /\ FrameId(n) = FrameId(k) => n = k
           /\ IsNewer(FrameId(n), FrameId(k)) <=> n > k
           /\ FrameId(n) \in 0 .. Wrap - 1
<1>1. Wrap \in Nat \ {0} /\ Lag \in Nat /\ 2 * Lag < (Wrap - 1) \div 2
  BY WrapAssumption
<1>2. PICK h \in Int : h = (Wrap - 1) \div 2 /\ 2 * h <= Wrap - 1
  BY <1>1
<1>3. PICK x \in Int, y \in Int :
         x = n - 1 /\ y = k - 1 /\ FrameId(n) = x % Wrap /\ FrameId(k) = y % Wrap
  BY DEF FrameId
<1>4. FrameId(n) \in 0 .. Wrap - 1
  BY <1>1, <1>3, Division
<1>5. CASE n = k
  BY <1>4, <1>5 DEF IsNewer
<1>6. CASE n > k
  <2>1. FrameId(n) # FrameId(k) /\ (FrameId(n) - FrameId(k)) % Wrap = n - k
    <3>1. y < x /\ x - y < Wrap /\ x - y = n - k
      BY <1>1, <1>2, <1>3, <1>6
    <3>2. x % Wrap # y % Wrap /\ ((x % Wrap) - (y % Wrap)) % Wrap = x - y
      BY <1>1, <3>1, Distance
    <3> QED BY <1>3, <3>1, <3>2
  <2>2. n - k < (Wrap - 1) \div 2
    BY <1>1, <1>2
  <2> QED BY <1>4, <1>6, <2>1, <2>2 DEF IsNewer
<1>7. CASE n < k
  <2>1. FrameId(n) # FrameId(k) /\ (FrameId(n) - FrameId(k)) % Wrap = Wrap - (k - n)
    <3>1. x < y /\ y - x < Wrap /\ y - x = k - n
      BY <1>1, <1>2, <1>3, <1>7
    <3>2. y % Wrap # x % Wrap /\ ((x % Wrap) - (y % Wrap)) % Wrap = Wrap - (y - x)
      BY <1>1, <3>1, Distance
    <3> QED BY <1>3, <3>1, <3>2
  <2>2. ~(Wrap - (k - n) < (Wrap - 1) \div 2)
    BY <1>1, <1>2
  <2> QED BY <1>4, <1>7, <2>1, <2>2 DEF IsNewer
<1> QED BY <1>5, <1>6, <1>7, <1>4
-----------------------------------------------------------------------------
(***************************************************************************)
(* Frames and their chunks.                                                *)
(***************************************************************************)
LEMMA ChunksOfFrame ==
    ASSUME NEW n \in 1 .. MaxFrames
    PROVE  /\ IsFiniteSet(SplitFrame(n)) /\ Cardinality(SplitFrame(n)) = Chunks[n]
           /\ SplitFrame(n) \subseteq Chunk
           /\ \A c \in SplitFrame(n) : c.frame = n
<1>1. Chunks[n] \in Nat \ {0} /\ MaxFrames \in Nat
  BY ChunksAssumption
<1> DEFINE I == 0 .. Chunks[n] - 1
           f == [i \in I |-> [frame |-> n, index |-> i]]
<1>2. f \in Surjection(I, SplitFrame(n)) /\ f \in Injection(I, SplitFrame(n))
  BY <1>1 DEF Surjection, Injection, IsInjective, SplitFrame
<1>3. IsFiniteSet(I) /\ Cardinality(I) = Chunks[n]
  <2>1. PICK last \in Int : last = Chunks[n] - 1 /\ last >= 0
    BY <1>1
  <2>2. IsFiniteSet(0 .. last) /\ Cardinality(0 .. last) = last + 1
    <3>1. IsFiniteSet(0 .. last) /\ Cardinality(0 .. last) = IF 0 > last THEN 0 ELSE last - 0 + 1
      BY FS_Interval
    <3> QED BY <2>1, <3>1
  <2>3. last + 1 = Chunks[n]
    BY <1>1, <2>1
  <2> QED BY <2>1, <2>2, <2>3
<1>4. SplitFrame(n) \subseteq Chunk /\ \A c \in SplitFrame(n) : c.frame = n
  BY <1>1 DEF SplitFrame, Chunk
<1> QED BY <1>2, <1>3, <1>4, FS_Surjection

\* As many chunks of a frame as it has are all of them.
LEMMA AllChunks ==
    ASSUME NEW n \in 1 .. MaxFrames, NEW kept \in SUBSET SplitFrame(n),
           Cardinality(kept) = Chunks[n]
    PROVE  kept = SplitFrame(n)
BY ChunksOfFrame, FS_Subset

(***************************************************************************)
(* The invariant: how far chunks on the way and the frame in assembly are  *)
(* from the newest frame.                                                  *)
(***************************************************************************)
WireIsRecent ==
    /\ newest <= sent /\ sent <= newest + Lag
    /\ \A c \in wire : /\ c.frame \in 1 .. sent /\ c \in SplitFrame(c.frame)
                       /\ newest <= c.frame + Lag

AssemblyIsRecent ==
    frameId # None =>
        /\ current \in 1 .. newest /\ newest <= current + Lag
        /\ frameId = FrameId(current)

RInv == TypeOK /\ WireIsRecent /\ AssemblyIsRecent /\ AssemblyIsPure /\ FramesAreWhole

LEMMA SendKeeps == RInv /\ SendFrame => RInv'
<1> SUFFICES ASSUME RInv, SendFrame PROVE RInv'
  OBVIOUS
<1>1. /\ sent \in 0 .. MaxFrames /\ newest \in 0 .. MaxFrames /\ MaxFrames \in Nat /\ Lag \in Nat
      /\ sent' = sent + 1 /\ sent < MaxFrames /\ sent < newest + Lag
      /\ newest' = newest /\ newest <= sent
      /\ wire' = {c \in wire \cup SplitFrame(sent') : newest <= c.frame + Lag}
  BY ChunksAssumption, WrapAssumption DEF RInv, TypeOK, WireIsRecent, SendFrame
<1>2. UNCHANGED <<newest, frameId, count, parts, current, shown>>
  BY DEF SendFrame
<1>3. sent' \in 1 .. MaxFrames
  BY <1>1
<1>4. /\ SplitFrame(sent') \subseteq Chunk
      /\ \A c \in SplitFrame(sent') : c.frame = sent' /\ c \in SplitFrame(c.frame)
  BY <1>3, ChunksOfFrame
<1>5. TypeOK'
  BY <1>1, <1>2, <1>3, <1>4 DEF RInv, TypeOK
<1>6. WireIsRecent'
  <2>1. ASSUME NEW c \in wire' PROVE c.frame \in 1 .. sent' /\ c \in SplitFrame(c.frame)
    <3>1. CASE c \in wire
      BY <1>1, <3>1 DEF RInv, WireIsRecent
    <3>2. CASE c \in SplitFrame(sent')
      BY <1>3, <1>4, <3>2
    <3> QED BY <1>1, <2>1, <3>1, <3>2
  <2>2. \A c \in wire' : newest <= c.frame + Lag
    BY <1>1
  <2> QED BY <1>1, <2>1, <2>2 DEF WireIsRecent
<1>7. AssemblyIsRecent' /\ AssemblyIsPure' /\ FramesAreWhole'
  BY <1>2 DEF RInv, AssemblyIsRecent, AssemblyIsPure, FramesAreWhole
<1> QED BY <1>5, <1>6, <1>7 DEF RInv

\* The frame of a chunk that arrives, compared with the one in assembly.
LEMMA Compared ==
    ASSUME RInv, frameId # None, NEW c \in wire
    PROVE  /\ Starts(FrameId(c.frame)) <=> c.frame > current
           /\ Belongs(FrameId(c.frame)) => c.frame = current
<1>1. /\ sent \in Nat /\ newest \in Nat /\ Lag \in Nat
      /\ c.frame \in 1 .. sent /\ newest <= c.frame + Lag /\ sent <= newest + Lag
      /\ current \in 1 .. newest /\ newest <= current + Lag /\ frameId = FrameId(current)
  BY ChunksAssumption, WrapAssumption DEF RInv, TypeOK, WireIsRecent, AssemblyIsRecent
<1>2. c.frame - current <= 2 * Lag /\ current - c.frame <= 2 * Lag
  BY <1>1
<1>3. c.frame \in Int /\ current \in Int
  BY <1>1
<1> QED BY <1>1, <1>2, <1>3, IdsTell DEF Starts, Belongs

\* Taking chunk c into its own frame.
LEMMA KeepKeeps ==
    ASSUME RInv, NEW c \in wire, NEW kept \in SUBSET SplitFrame(c.frame),
           Keep(c, Chunks[c.frame], kept), current' = c.frame
    PROVE  /\ count' \in Nat /\ parts' \subseteq Chunk
           /\ frameId' \in (0 .. Wrap - 1) \cup {None} /\ current' \in 1 .. MaxFrames
           /\ shown'.frame \in 0 .. MaxFrames /\ shown'.parts \subseteq Chunk
           /\ frameId' # None => frameId' = FrameId(current')
           /\ AssemblyIsPure' /\ FramesAreWhole'
<1>1. /\ c.frame \in 1 .. MaxFrames /\ c \in SplitFrame(c.frame) /\ MaxFrames \in Nat /\ Lag \in Nat
      /\ sent \in 0 .. MaxFrames
  BY ChunksAssumption, WrapAssumption DEF RInv, TypeOK, WireIsRecent
<1>2. Chunks[c.frame] \in Nat /\ SplitFrame(c.frame) \subseteq Chunk
  BY <1>1, ChunksAssumption, ChunksOfFrame
<1>3. PICK now \in SUBSET SplitFrame(c.frame) :
         /\ count' = Chunks[c.frame] /\ parts' = now
         /\ IF Cardinality(now) = Chunks[c.frame]
              THEN frameId' = None /\ shown' = [frame |-> c.frame, parts |-> now]
              ELSE frameId' = FrameId(c.frame) /\ UNCHANGED shown
  BY <1>1 DEF Keep
<1>4. FrameId(c.frame) \in 0 .. Wrap - 1
  BY <1>1, IdsTell
<1>5. CASE Cardinality(now) = Chunks[c.frame]
  <2>1. now = SplitFrame(c.frame)
    BY <1>1, <1>5, AllChunks
  <2>2. shown'.frame = c.frame /\ shown'.parts = SplitFrame(c.frame) /\ frameId' = None
    BY <1>3, <1>5, <2>1
  <2> QED BY <1>1, <1>2, <1>3, <2>2 DEF AssemblyIsPure, FramesAreWhole
<1>6. CASE Cardinality(now) # Chunks[c.frame]
  BY <1>1, <1>2, <1>3, <1>4, <1>6 DEF RInv, TypeOK, AssemblyIsPure, FramesAreWhole
<1> QED BY <1>5, <1>6

LEMMA DeliverKeeps ==
    ASSUME RInv, NEW c \in wire, Deliver(c)
    PROVE  RInv' /\ (frameId # None /\ current' # current => current' > current)
<1>1. /\ sent \in 0 .. MaxFrames /\ newest \in 0 .. MaxFrames /\ MaxFrames \in Nat /\ Lag \in Nat
      /\ c.frame \in 1 .. sent /\ c \in SplitFrame(c.frame) /\ newest <= c.frame + Lag
      /\ newest <= sent /\ sent <= newest + Lag /\ wire \subseteq Chunk
  BY ChunksAssumption, WrapAssumption DEF RInv, TypeOK, WireIsRecent
<1>2. /\ newest' \in newest .. sent /\ c.frame <= newest'
      /\ newest' = newest \/ newest' = c.frame
      /\ wire' = {d \in wire \ {c} : newest' <= d.frame + Lag} /\ sent' = sent /\ Push(c)
  BY <1>1 DEF Deliver
<1>3. WireIsRecent'
  <2>1. \A d \in wire' : /\ d.frame \in 1 .. sent' /\ d \in SplitFrame(d.frame)
                         /\ newest' <= d.frame + Lag
    BY <1>2 DEF RInv, WireIsRecent
  <2>2. newest' <= sent' /\ sent' <= newest' + Lag
    <3>1. newest \in Int /\ sent \in Int /\ Lag \in Int /\ newest' \in Int
      BY <1>1, <1>2
    <3>2. newest <= newest' /\ newest' <= sent /\ sent <= newest + Lag
      BY <1>1, <1>2
    <3>3. sent' = sent
      BY <1>2
    <3>4. ASSUME NEW a \in Int, NEW b \in Int, NEW d \in Int, NEW e \in Int,
                 a <= b + d, b <= e
          PROVE  a <= e + d
      BY <3>4
    <3>5. sent <= newest' + Lag
      BY <3>1, <3>2, <3>4
    <3> QED BY <3>2, <3>3, <3>5
  <2> QED BY <2>1, <2>2 DEF WireIsRecent
<1>4. newest' <= c.frame + Lag /\ c.frame \in 1 .. newest' /\ wire' \subseteq Chunk
      /\ sent' \in 0 .. MaxFrames /\ newest' \in 0 .. MaxFrames
  BY <1>1, <1>2
\* The chunk starts a frame, or goes into the one in assembly.
<1>5. ASSUME NEW kept \in SUBSET SplitFrame(c.frame), Keep(c, Chunks[c.frame], kept),
             current' = c.frame
      PROVE  RInv'
  <2>1. /\ count' \in Nat /\ parts' \subseteq Chunk
        /\ frameId' \in (0 .. Wrap - 1) \cup {None} /\ current' \in 1 .. MaxFrames
        /\ shown'.frame \in 0 .. MaxFrames /\ shown'.parts \subseteq Chunk
        /\ frameId' # None => frameId' = FrameId(current')
        /\ AssemblyIsPure' /\ FramesAreWhole'
    BY <1>5, KeepKeeps
  <2>2. AssemblyIsRecent'
    BY <1>4, <1>5, <2>1 DEF AssemblyIsRecent, FrameId
  <2>3. TypeOK'
    BY <1>1, <1>4, <2>1 DEF TypeOK
  <2> QED BY <1>3, <2>1, <2>2, <2>3 DEF RInv
<1>6. CASE /\ Starts(FrameId(c.frame)) /\ current' = c.frame
           /\ Keep(c, Chunks[c.frame], {})
  <2>1. RInv'
    BY <1>5, <1>6
  <2>2. frameId # None => current' > current
    BY <1>6, Compared
  <2> QED BY <2>1, <2>2
<1>7. CASE /\ Belongs(FrameId(c.frame)) /\ Keep(c, count, parts) /\ UNCHANGED current
  <2>1. frameId # None
    <3>1. FrameId(c.frame) \in 0 .. Wrap - 1
      BY <1>1, IdsTell
    <3> QED BY <1>7, <3>1, WrapAssumption DEF Belongs, None
  <2>2. c.frame = current /\ parts \in SUBSET SplitFrame(c.frame) /\ count = Chunks[c.frame]
    BY <1>7, <2>1, Compared DEF RInv, AssemblyIsPure
  <2> QED BY <1>5, <1>7, <2>2
<1>8. CASE /\ ~Starts(FrameId(c.frame)) /\ ~Belongs(FrameId(c.frame))
           /\ UNCHANGED <<frameId, count, parts, current, shown>>
  <2>1. frameId # None /\ c.frame <= current
    <3>1. frameId # None
      BY <1>8 DEF Starts
    <3>2. ~(c.frame > current) /\ current \in Int
      BY <1>1, <1>8, <3>1, Compared DEF RInv, TypeOK
    <3> QED BY <1>1, <3>1, <3>2
  <2>2. current \in 1 .. newest /\ newest <= current + Lag /\ frameId = FrameId(current)
    BY <2>1 DEF RInv, AssemblyIsRecent
  <2>3. newest' = newest
    BY <1>1, <1>2, <2>1, <2>2
  <2>4. AssemblyIsRecent' /\ AssemblyIsPure' /\ FramesAreWhole'
    BY <1>8, <2>2, <2>3 DEF RInv, AssemblyIsRecent, AssemblyIsPure, FramesAreWhole, FrameId
  <2>5. TypeOK'
    BY <1>4, <1>8 DEF RInv, TypeOK
  <2> QED BY <1>3, <1>8, <2>4, <2>5 DEF RInv
<1> QED BY <1>2, <1>6, <1>7, <1>8 DEF Push

LEMMA RInvHolds == Spec => []RInv
<1>1. Init => RInv
  BY ChunksAssumption, WrapAssumption
  DEF Init, RInv, TypeOK, WireIsRecent, AssemblyIsRecent, AssemblyIsPure, FramesAreWhole
<1>2. RInv /\ [Next]_vars => RInv'
  <2>1. ASSUME RInv, UNCHANGED vars PROVE RInv'
    BY <2>1 DEF vars, RInv, TypeOK, WireIsRecent, AssemblyIsRecent, AssemblyIsPure,
                FramesAreWhole, Chunk, FrameId, SplitFrame
  <2> QED BY <2>1, SendKeeps, DeliverKeeps DEF Next
<1> QED BY <1>1, <1>2, PTL DEF Spec

\* A completed frame is all the chunks of one frame, whatever is lost, late or
\* wraps around (Reassembler::push).
THEOREM CompletedFramesAreWhole == Spec => []FramesAreWhole
<1>1. RInv => FramesAreWhole
  BY DEF RInv
<1> QED BY <1>1, RInvHolds, PTL

\* What is kept belongs to the frame in assembly (Reassembler::push).
THEOREM FramesNeverMix == Spec => []AssemblyIsPure
<1>1. RInv => AssemblyIsPure
  BY DEF RInv
<1> QED BY <1>1, RInvHolds, PTL

\* A frame in assembly gives way to newer ones only, across the wrap-around of
\* the numbers (is_newer).
THEOREM NewerDisplaces == Spec => NewerFramesOnly
<1>1. RInv /\ [Next]_vars => [frameId # None /\ current' # current => current' > current]_vars
  <2>1. SendFrame => current' = current
    BY DEF SendFrame
  <2> QED BY <2>1, DeliverKeeps DEF Next
<1> QED BY <1>1, RInvHolds, PTL DEF Spec, NewerFramesOnly
=============================================================================
