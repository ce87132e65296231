---------------------------- MODULE Reassembler -----------------------------
(***************************************************************************)
(* Reassembling mirrored video frames from datagrams                       *)
(* (crates/video/src/transport.rs).  The sender numbers its frames with a  *)
(* wrapping u32 and splits each into chunks; the network loses and         *)
(* reorders them.  The replay window under the chunks drops duplicates and *)
(* whatever is too far behind, so a chunk is delivered at most once and    *)
(* only if its frame is at most Lag behind the newest one delivered.       *)
(*                                                                         *)
(* A chunk is modelled by the true number of its frame, 1, 2, ..., and its *)
(* index; the code sees the number modulo Wrap only.                       *)
(***************************************************************************)
EXTENDS Integers, FiniteSets

CONSTANTS
    Wrap,        \* 2^32 in the code
    Lag,         \* how far delivery strays from order, in frames
    MaxFrames,   \* bound: frames sent
    Chunks       \* the number of chunks of each frame

ASSUME WrapAssumption == Wrap \in Nat \ {0} /\ Lag \in Nat /\ 2 * Lag < (Wrap - 1) \div 2
ASSUME ChunksAssumption == MaxFrames \in Nat /\ Chunks \in [1 .. MaxFrames -> Nat \ {0}]

Chunk == [frame : 1 .. MaxFrames, index : Nat]
None == -1

\* The number a chunk carries on the wire; the sender counts from 0.
FrameId(n) == (n - 1) % Wrap

\* split_frame
SplitFrame(n) == {[frame |-> n, index |-> i] : i \in 0 .. Chunks[n] - 1}

\* Mutant of IsNewer: the numbers are compared as they are.
IsNewerUnwrapped(a, b) == a > b

\* is_newer: a is ahead of b by less than half the numbers.
IsNewer(a, b) == a # b /\ (a - b) % Wrap < (Wrap - 1) \div 2

VARIABLES
    sent,        \* the frames sent so far
    wire,        \* chunks that may still arrive
    newest,      \* the newest frame a chunk of which arrived
    frameId,     \* Reassembler.frame_id, None between frames
    count,       \* Reassembler.count
    parts,       \* Reassembler.parts: the chunks kept, received is their number
    current,     \* history: the true number of the frame in assembly
    shown        \* history: the chunks and the number of the last frame completed

vars == <<sent, wire, newest, frameId, count, parts, current, shown>>

Init ==
    /\ sent = 0 /\ wire = {} /\ newest = 0
    /\ frameId = None /\ count = 0 /\ parts = {}
    /\ current = 0
    /\ shown = [frame |-> 0, parts |-> {}]

\* The sender captures, encodes and splits the next frame.  Not more than Lag
\* frames are lost altogether in a row.
SendFrame ==
    /\ sent < MaxFrames /\ sent < newest + Lag
    /\ sent' = sent + 1
    /\ wire' = {c \in wire \cup SplitFrame(sent') : c.frame + Lag >= newest}
    /\ UNCHANGED <<newest, frameId, count, parts, current, shown>>

\* push: the chunk starts a frame (the first, or a newer one than the one in
\* assembly, which is then dropped), or belongs to the one in assembly.
Starts(id) == frameId = None \/ IsNewer(id, frameId)
\* Mutant of Belongs: every chunk belongs to the frame in assembly.
BelongsAnyway(id) == frameId # None

Belongs(id) == id = frameId

\* push, once the frame of chunk c is the one in assembly: size is its chunk
\* count and kept what is there of it.  The last chunk completes it.
Keep(c, size, kept) ==
    LET fits == c.index < size /\ \A k \in kept : k.index # c.index
        now == IF fits THEN kept \cup {c} ELSE kept
    IN  /\ count' = size
        /\ parts' = now
        /\ IF Cardinality(now) = size
             THEN frameId' = None /\ shown' = [frame |-> c.frame, parts |-> now]
             ELSE frameId' = FrameId(c.frame) /\ UNCHANGED shown

\* Mutant of Push: a newer frame finds the chunks of the one it replaces.
PushKeepsParts(c) ==
    \/ /\ Starts(FrameId(c.frame))
       /\ current' = c.frame
       /\ Keep(c, Chunks[c.frame], parts)
    \/ /\ Belongs(FrameId(c.frame))
       /\ Keep(c, count, parts)
       /\ UNCHANGED current
    \/ /\ ~Starts(FrameId(c.frame)) /\ ~Belongs(FrameId(c.frame))
       /\ UNCHANGED <<frameId, count, parts, current, shown>>

Push(c) ==
    \/ /\ Starts(FrameId(c.frame))
       /\ current' = c.frame
       /\ Keep(c, Chunks[c.frame], {})
    \/ /\ Belongs(FrameId(c.frame))
       /\ Keep(c, count, parts)
       /\ UNCHANGED current
    \/ /\ ~Starts(FrameId(c.frame)) /\ ~Belongs(FrameId(c.frame))
       /\ UNCHANGED <<frameId, count, parts, current, shown>>

\* A chunk arrives.
Deliver(c) ==
    /\ newest' = IF c.frame > newest THEN c.frame ELSE newest
    /\ wire' = {d \in wire \ {c} : d.frame + Lag >= newest'}
    /\ Push(c)
    /\ UNCHANGED sent

Next == SendFrame \/ \E c \in wire : Deliver(c)

Spec == Init /\ [][Next]_vars
-----------------------------------------------------------------------------
TypeOK ==
    /\ sent \in 0 .. MaxFrames /\ newest \in 0 .. MaxFrames
    /\ wire \subseteq Chunk /\ parts \subseteq Chunk
    /\ frameId \in (0 .. Wrap - 1) \cup {None} /\ count \in Nat
    /\ current \in 0 .. MaxFrames
    /\ shown.frame \in 0 .. MaxFrames /\ shown.parts \subseteq Chunk

\* A completed frame is exactly the chunks of one frame, all of them: frames
\* whose numbers are equal modulo the wrap-around never mix, and a chunk count
\* is never that of another frame.
FramesAreWhole == shown.frame # 0 => shown.parts = SplitFrame(shown.frame)

\* A frame in assembly gives way to newer frames only, across the wrap-around
\* of the numbers too, and so a late chunk never costs a frame that is coming
\* in ("dropping incomplete frames when a newer one starts").
NewerFramesOnly ==
    [][frameId # None /\ current' # current => current' > current]_vars

\* What is kept belongs to the frame in assembly, so that a chunk that arrives
\* is never refused a place an earlier frame's chunk holds.
AssemblyIsPure == frameId # None => parts \subseteq SplitFrame(current) /\ count = Chunks[current]
-----------------------------------------------------------------------------
\* A chunk of a frame older than one already shown is ignored (transport.rs:
\* "stale chunk from an older frame; ignore").
ShowsForward == [][shown'.frame >= shown.frame]_vars
=============================================================================
