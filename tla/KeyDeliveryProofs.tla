------------------------- MODULE KeyDeliveryProofs --------------------------
(***************************************************************************)
(* For any keys and any table of the injector, any number of copies and    *)
(* fewer losses than that, any number of overtakings and any wire: what    *)
(* the peer holds follows what the loop believes it holds.                 *)
(*                                                                         *)
(* For every native key there is something the wire says last about it,    *)
(* pressed or released, which is true of the loop's list.  KeyInv says     *)
(* why the losses to come cannot change it: it is said by a datagram whose *)
(* loss would be held against the key, or more often than losses are left, *)
(* or the peer was told already and nothing on the wire says otherwise.    *)
(***************************************************************************)
EXTENDS KeyDelivery, FiniteSetTheorems, SequenceTheorems, TLAPS

Datagrams == [key : Keys, pressed : BOOLEAN, repeated : BOOLEAN]

\* The datagrams of w about a native key, and those from which on all of these
\* say v.
About(w, n) == {i \in DOMAIN w : n \in Image(w[i].key)}
Run(w, n, v) == {i \in About(w, n) : \A j \in About(w, n) : i <= j => w[j].pressed = v}

(***************************************************************************)
(* Sequences of datagrams.                                                 *)
(***************************************************************************)
LEMMA RunIsFinite ==
    ASSUME NEW w \in Seq(Datagrams), NEW n, NEW v
    PROVE  /\ IsFiniteSet(Run(w, n, v)) /\ Cardinality(Run(w, n, v)) \in Nat
           /\ Run(w, n, v) \subseteq About(w, n) /\ About(w, n) \subseteq DOMAIN w
           /\ DOMAIN w = 1 .. Len(w) /\ Len(w) \in Nat
<1>1. DOMAIN w = 1 .. Len(w) /\ Len(w) \in Nat
  OBVIOUS
<1>2. Run(w, n, v) \subseteq About(w, n) /\ About(w, n) \subseteq DOMAIN w
  BY DEF Run, About
<1>3. IsFiniteSet(1 .. Len(w))
  BY <1>1, FS_Interval
<1>4. Run(w, n, v) \in SUBSET (1 .. Len(w))
  BY <1>1, <1>2
<1>5. IsFiniteSet(Run(w, n, v))
  BY <1>3, <1>4, FS_Subset
<1> QED BY <1>1, <1>2, <1>5, FS_CardinalityType

\* The datagrams of w at the places in S go to other places in u, those about
\* n in their order, and nothing else about n is in u.
Carries(w, u, n, S, f) ==
    /\ w \in Seq(Datagrams) /\ u \in Seq(Datagrams)
    /\ S \in SUBSET DOMAIN w /\ f \in [S -> DOMAIN u]
    /\ \A j \in S : u[f[j]] = w[j]
    /\ \A j, k \in S \cap About(w, n) : j < k => f[j] < f[k]
    /\ \A m \in About(u, n) : \E j \in S \cap About(w, n) : f[j] = m

\* The runs go along.
CarriesRuns(w, u, n, v, S, f) ==
    /\ \A j \in S \cap Run(w, n, v) : f[j] \in Run(u, n, v)
    /\ Cardinality(S \cap Run(w, n, v)) <= Cardinality(Run(u, n, v))
    /\ About(w, n) = Run(w, n, v) => About(u, n) = Run(u, n, v)

LEMMA RunsGoAlong ==
    ASSUME NEW w, NEW u, NEW n, NEW v, NEW S, NEW f, Carries(w, u, n, S, f)
    PROVE  CarriesRuns(w, u, n, v, S, f)
<1>a. /\ w \in Seq(Datagrams) /\ u \in Seq(Datagrams)
      /\ S \in SUBSET DOMAIN w /\ f \in [S -> DOMAIN u]
      /\ \A j \in S : u[f[j]] = w[j]
      /\ \A j, k \in S \cap About(w, n) : j < k => f[j] < f[k]
      /\ \A m \in About(u, n) : \E j \in S \cap About(w, n) : f[j] = m
  BY DEF Carries
<1>0. /\ About(w, n) \subseteq DOMAIN w /\ DOMAIN w \subseteq Nat
      /\ About(u, n) \subseteq DOMAIN u /\ DOMAIN u \subseteq Nat
      /\ Run(w, n, v) \subseteq About(w, n) /\ Run(u, n, v) \subseteq About(u, n)
  BY <1>a DEF About, Run
<1>1. ASSUME NEW j \in S \cap Run(w, n, v) PROVE f[j] \in Run(u, n, v)
  <2>1. f[j] \in About(u, n)
    BY <1>a, <1>0, <1>1 DEF About
  <2>2. ASSUME NEW m \in About(u, n), f[j] <= m PROVE u[m].pressed = v
    <3>1. PICK k \in S \cap About(w, n) : f[k] = m
      BY <1>a
    <3>2. j \in S \cap About(w, n) /\ j \in Nat /\ k \in Nat /\ f[j] \in Nat /\ f[k] \in Nat
      BY <1>a, <1>0, <1>1
    <3>3. ~(k < j)
      <4>1. k < j => f[k] < f[j]
        BY <1>a, <3>2
      <4> QED BY <2>2, <3>1, <3>2, <4>1
    <3>4. w[k].pressed = v
      BY <1>1, <3>2, <3>3 DEF Run
    <3> QED BY <1>a, <3>1, <3>4
  <2> QED BY <2>1, <2>2 DEF Run
<1>2. Cardinality(S \cap Run(w, n, v)) <= Cardinality(Run(u, n, v))
  <2> DEFINE P == S \cap Run(w, n, v)
             Q == Run(u, n, v)
             g == [j \in P |-> f[j]]
  <2>1. IsFiniteSet(P) /\ IsFiniteSet(Q)
    <3>1. IsFiniteSet(Run(w, n, v)) /\ P \in SUBSET Run(w, n, v) /\ IsFiniteSet(Q)
      BY <1>a, RunIsFinite
    <3> QED BY <3>1, FS_Subset
  <2>2. Cardinality(P) \in Nat /\ Cardinality(Q) \in Nat
    BY <2>1, FS_CardinalityType
  <2>3. g \in [P -> Q]
    BY <1>a, <1>1
  <2>4. ASSUME NEW j \in P, NEW k \in P, j # k PROVE g[j] # g[k]
    <3>1. j \in S \cap About(w, n) /\ k \in S \cap About(w, n) /\ j \in Nat /\ k \in Nat
      BY <1>a, <1>0
    <3>2. f[j] \in Nat /\ f[k] \in Nat
      BY <1>a, <1>0
    <3>3. j < k \/ k < j
      BY <2>4, <3>1
    <3>4. f[j] < f[k] \/ f[k] < f[j]
      BY <1>a, <3>1, <3>3
    <3> QED BY <3>2, <3>4
  <2> HIDE DEF P, Q, g
  <2>5. ~(Cardinality(Q) < Cardinality(P))
    BY <2>1, <2>3, <2>4, FS_PigeonHole
  <2> QED BY <2>2, <2>5 DEF P, Q
<1>3. ASSUME About(w, n) = Run(w, n, v) PROVE About(u, n) = Run(u, n, v)
  <2>1. ASSUME NEW m \in About(u, n) PROVE m \in Run(u, n, v)
    <3>1. PICK j \in S \cap About(w, n) : f[j] = m
      BY <1>a
    <3> QED BY <1>1, <1>3, <3>1
  <2> QED BY <1>0, <2>1
<1> QED BY <1>1, <1>2, <1>3 DEF CarriesRuns

LEMMA RemovedAt ==
    ASSUME NEW w \in Seq(Datagrams), NEW i \in DOMAIN w
    PROVE  /\ RemoveAt(w, i) \in Seq(Datagrams) /\ Len(RemoveAt(w, i)) = Len(w) - 1
           /\ \A j \in 1 .. Len(w) - 1 :
                 RemoveAt(w, i)[j] = IF j < i THEN w[j] ELSE w[j + 1]
<1> DEFINE s == SubSeq(w, 1, i - 1)
           t == SubSeq(w, i + 1, Len(w))
           m == Len(w)
<1>1. i \in 1 .. m /\ m \in Nat /\ i \in Int
  OBVIOUS
<1>2. s \in Seq(Datagrams) /\ Len(s) = i - 1 /\ \A j \in 1 .. i - 1 : s[j] = w[j]
  <2>1. \A j \in 1 .. i - 1 : w[j] \in Datagrams
    BY <1>1
  <2> QED BY <1>1, <2>1
<1>3. t \in Seq(Datagrams) /\ Len(t) = m - i /\ \A j \in 1 .. m - i : t[j] = w[j + i]
  <2>1. \A j \in i + 1 .. m : w[j] \in Datagrams
    BY <1>1
  <2> QED BY <1>1, <2>1
<1> HIDE DEF s, t, m
<1>4. /\ s \o t \in Seq(Datagrams) /\ Len(s \o t) = m - 1
      /\ \A j \in 1 .. m - 1 : (s \o t)[j] = IF j <= i - 1 THEN s[j] ELSE t[j - (i - 1)]
  BY <1>1, <1>2, <1>3, ConcatProperties
<1>5. \A j \in 1 .. m - 1 : (s \o t)[j] = IF j < i THEN w[j] ELSE w[j + 1]
  <2> SUFFICES ASSUME NEW j \in 1 .. m - 1 PROVE (s \o t)[j] = IF j < i THEN w[j] ELSE w[j + 1]
    OBVIOUS
  <2>1. CASE j < i
    BY <1>1, <1>2, <1>4, <2>1
  <2>2. CASE j >= i
    <3>1. j - (i - 1) \in 1 .. m - i /\ (j - (i - 1)) + i = j + 1
      BY <1>1, <2>2
    <3>2. (s \o t)[j] = t[j - (i - 1)]
      BY <1>1, <1>4, <2>2
    <3>3. t[j - (i - 1)] = w[j + 1]
      BY <1>3, <3>1
    <3> QED BY <1>1, <2>2, <3>2, <3>3
  <2>3. j < i \/ j >= i
    BY <1>1
  <2> QED BY <2>1, <2>2, <2>3
<1> QED BY <1>4, <1>5 DEF RemoveAt, s, t, m

\* What losing, overtaking and delivering do to the runs: but for the datagrams
\* at P they are in u what they were in w.
KeepsRuns(w, u, n, v, P) ==
    /\ u \in Seq(Datagrams)
    /\ \A j \in Run(w, n, v) \ P : \E m \in Run(u, n, v) : u[m] = w[j]
    /\ Cardinality(Run(w, n, v) \ P) <= Cardinality(Run(u, n, v))
    /\ About(w, n) = Run(w, n, v) => About(u, n) = Run(u, n, v)

LEMMA LossKeepsRuns ==
    ASSUME NEW w \in Seq(Datagrams), NEW i \in DOMAIN w, NEW n, NEW v
    PROVE  KeepsRuns(w, RemoveAt(w, i), n, v, {i})
<1> DEFINE u == RemoveAt(w, i)
           S == DOMAIN w \ {i}
           f == [j \in S |-> IF j < i THEN j ELSE j - 1]
<1>1. /\ u \in Seq(Datagrams) /\ Len(u) = Len(w) - 1
      /\ \A j \in 1 .. Len(w) - 1 : u[j] = IF j < i THEN w[j] ELSE w[j + 1]
  BY RemovedAt
<1>2. DOMAIN w = 1 .. Len(w) /\ Len(w) \in Nat /\ DOMAIN u = 1 .. Len(w) - 1 /\ i \in 1 .. Len(w)
  BY <1>1
<1> HIDE DEF u
<1>3. f \in [S -> DOMAIN u]
  BY <1>2
<1>4. \A j \in S : u[f[j]] = w[j]
  <2> SUFFICES ASSUME NEW j \in S PROVE u[f[j]] = w[j]
    OBVIOUS
  <2>1. CASE j < i
    BY <1>1, <1>2, <2>1
  <2>2. CASE j > i
    <3>1. f[j] = j - 1 /\ j - 1 \in 1 .. Len(w) - 1 /\ ~(j - 1 < i) /\ (j - 1) + 1 = j
      BY <1>2, <2>2
    <3> QED BY <1>1, <3>1
  <2>3. j < i \/ j > i
    BY <1>2
  <2> QED BY <2>1, <2>2, <2>3
<1>5. \A j, k \in S \cap About(w, n) : j < k => f[j] < f[k]
  BY <1>2
<1>6. \A m \in About(u, n) : \E j \in S \cap About(w, n) : f[j] = m
  <2> SUFFICES ASSUME NEW m \in About(u, n) PROVE \E j \in S \cap About(w, n) : f[j] = m
    OBVIOUS
  <2>1. m \in 1 .. Len(w) - 1 /\ n \in Image(u[m].key)
    BY <1>2 DEF About
  <2>2. CASE m < i
    <3>1. m \in S /\ f[m] = m /\ u[m] = w[m]
      BY <1>1, <1>2, <2>1, <2>2
    <3> QED BY <2>1, <3>1 DEF About
  <2>3. CASE m >= i
    <3>1. m + 1 \in S /\ f[m + 1] = m /\ u[m] = w[m + 1]
      BY <1>1, <1>2, <2>1, <2>3
    <3>2. m + 1 \in About(w, n)
      BY <2>1, <3>1 DEF About
    <3> QED BY <3>1, <3>2
  <2>4. m < i \/ m >= i
    BY <1>2, <2>1
  <2> QED BY <2>2, <2>3, <2>4
<1>7. Run(w, n, v) \ {i} = S \cap Run(w, n, v)
  BY RunIsFinite
<1>9. S \in SUBSET DOMAIN w
  OBVIOUS
<1> HIDE DEF f, S
<1>8. /\ \A j \in S \cap Run(w, n, v) : f[j] \in Run(u, n, v)
      /\ Cardinality(S \cap Run(w, n, v)) <= Cardinality(Run(u, n, v))
      /\ About(w, n) = Run(w, n, v) => About(u, n) = Run(u, n, v)
  <2>1. Carries(w, u, n, S, f)
    BY <1>1, <1>3, <1>4, <1>5, <1>6, <1>9 DEF Carries
  <2>2. CarriesRuns(w, u, n, v, S, f)
    BY <2>1, RunsGoAlong
  <2> QED BY <2>2 DEF CarriesRuns
<1> QED BY <1>1, <1>4, <1>7, <1>8 DEF u, KeepsRuns

LEMMA OvertakingKeepsRuns ==
    ASSUME NEW w \in Seq(Datagrams), NEW i \in DOMAIN w, i < Len(w), NEW u,
           u = [w EXCEPT ![i] = w[i + 1], ![i + 1] = w[i]], NEW n, NEW v,
           ~(n \in Image(w[i].key) /\ n \in Image(w[i + 1].key))
    PROVE  KeepsRuns(w, u, n, v, {})
<1> DEFINE S == DOMAIN w
           f == [j \in S |-> IF j = i THEN i + 1 ELSE IF j = i + 1 THEN i ELSE j]
<1>1. /\ DOMAIN w = 1 .. Len(w) /\ Len(w) \in Nat /\ i \in 1 .. Len(w) /\ i + 1 \in 1 .. Len(w)
      /\ w \in [1 .. Len(w) -> Datagrams]
  OBVIOUS
<1>2. /\ DOMAIN u = 1 .. Len(w) /\ u \in [1 .. Len(w) -> Datagrams]
      /\ \A j \in 1 .. Len(w) : u[j] = IF j = i THEN w[i + 1] ELSE IF j = i + 1 THEN w[i] ELSE w[j]
  BY <1>1
<1>3. u \in Seq(Datagrams)
  BY <1>1, <1>2
<1>4. f \in [S -> DOMAIN u] /\ \A j \in S : u[f[j]] = w[j]
  BY <1>1, <1>2
<1>5. \A j, k \in S \cap About(w, n) : j < k => f[j] < f[k]
  <2> SUFFICES ASSUME NEW j \in S \cap About(w, n), NEW k \in S \cap About(w, n), j < k PROVE f[j] < f[k]
    OBVIOUS
  <2>1. ~(j = i /\ k = i + 1)
    BY DEF About
  <2> QED BY <1>1, <2>1
<1>6. \A m \in About(u, n) : \E j \in S \cap About(w, n) : f[j] = m
  <2> SUFFICES ASSUME NEW m \in About(u, n) PROVE \E j \in S \cap About(w, n) : f[j] = m
    OBVIOUS
  <2>1. m \in 1 .. Len(w) /\ n \in Image(u[m].key)
    BY <1>2 DEF About
  <2>2. PICK j \in S : f[j] = m
    <3>1. f[m] \in S /\ f[f[m]] = m
      BY <1>1, <2>1
    <3> QED BY <3>1
  <2>3. n \in Image(w[j].key)
    BY <1>4, <2>1, <2>2
  <2> QED BY <2>2, <2>3 DEF About
<1>7. S \cap Run(w, n, v) = Run(w, n, v) \ {}
  BY RunIsFinite
<1>9. S \in SUBSET DOMAIN w
  OBVIOUS
<1> HIDE DEF f, S
<1>8. /\ \A j \in S \cap Run(w, n, v) : f[j] \in Run(u, n, v)
      /\ Cardinality(S \cap Run(w, n, v)) <= Cardinality(Run(u, n, v))
      /\ About(w, n) = Run(w, n, v) => About(u, n) = Run(u, n, v)
  <2>1. Carries(w, u, n, S, f)
    BY <1>3, <1>4, <1>5, <1>6, <1>9 DEF Carries
  <2>2. CarriesRuns(w, u, n, v, S, f)
    BY <2>1, RunsGoAlong
  <2> QED BY <2>2 DEF CarriesRuns
<1> QED BY <1>3, <1>4, <1>7, <1>8 DEF KeepsRuns

LEMMA DeliveryKeepsRuns ==
    ASSUME NEW w \in Seq(Datagrams), w # <<>>, NEW n, NEW v
    PROVE  KeepsRuns(w, Tail(w), n, v, {1})
<1> DEFINE u == Tail(w)
           S == DOMAIN w \ {1}
           f == [j \in S |-> j - 1]
<1>1. u \in Seq(Datagrams) /\ Len(u) = Len(w) - 1 /\ \A j \in 1 .. Len(w) - 1 : u[j] = w[j + 1]
  OBVIOUS
<1>2. DOMAIN w = 1 .. Len(w) /\ Len(w) \in Nat /\ DOMAIN u = 1 .. Len(w) - 1
  BY <1>1
<1> HIDE DEF u
<1>3. f \in [S -> DOMAIN u]
  BY <1>2
<1>4. \A j \in S : u[f[j]] = w[j]
  <2> SUFFICES ASSUME NEW j \in S PROVE u[f[j]] = w[j]
    OBVIOUS
  <2>1. f[j] = j - 1 /\ j - 1 \in 1 .. Len(w) - 1 /\ (j - 1) + 1 = j
    BY <1>2
  <2> QED BY <1>1, <2>1
<1>5. \A j, k \in S \cap About(w, n) : j < k => f[j] < f[k]
  BY <1>2
<1>6. \A m \in About(u, n) : \E j \in S \cap About(w, n) : f[j] = m
  <2> SUFFICES ASSUME NEW m \in About(u, n) PROVE \E j \in S \cap About(w, n) : f[j] = m
    OBVIOUS
  <2>1. m \in 1 .. Len(w) - 1 /\ n \in Image(u[m].key)
    BY <1>2 DEF About
  <2>2. m + 1 \in S /\ f[m + 1] = m /\ u[m] = w[m + 1]
    BY <1>1, <1>2, <2>1
  <2>3. m + 1 \in About(w, n)
    BY <2>1, <2>2 DEF About
  <2> QED BY <2>2, <2>3
<1>7. Run(w, n, v) \ {1} = S \cap Run(w, n, v)
  BY RunIsFinite
<1>9. S \in SUBSET DOMAIN w
  OBVIOUS
<1> HIDE DEF f, S
<1>8. /\ \A j \in S \cap Run(w, n, v) : f[j] \in Run(u, n, v)
      /\ Cardinality(S \cap Run(w, n, v)) <= Cardinality(Run(u, n, v))
      /\ About(w, n) = Run(w, n, v) => About(u, n) = Run(u, n, v)
  <2>1. Carries(w, u, n, S, f)
    BY <1>1, <1>3, <1>4, <1>5, <1>6, <1>9 DEF Carries
  <2>2. CarriesRuns(w, u, n, v, S, f)
    BY <2>1, RunsGoAlong
  <2> QED BY <2>2 DEF CarriesRuns
<1> QED BY <1>1, <1>4, <1>7, <1>8 DEF u, KeepsRuns

(***************************************************************************)
(* What sending appends.                                                   *)
(***************************************************************************)
LEMMA Quotient ==
    ASSUME NEW c \in Nat \ {0}, NEW q \in Int, NEW a \in Int, c * q <= a, a < c * q + c
    PROVE  a \div c = q
<1>1. PICK p \in Int, r \in 0 .. c - 1 : p = a \div c /\ a = c * p + r
  <2>1. c \in Int /\ c > 0
    OBVIOUS
  <2>2. a = c * (a \div c) + (a % c)
    BY <2>1, Z3
  <2>3. a % c \in 0 .. c - 1 /\ a \div c \in Int
    OBVIOUS
  <2> QED BY <2>2, <2>3
<1>2. PICK d \in Int : d = p - q
  OBVIOUS
<1>3. c * p = c * q + c * d /\ c * d \in Int /\ c * q \in Int
  <2>1. p = q + d
    BY <1>2
  <2> QED BY <2>1
<1>4. c * d > -c /\ c * d < c
  BY <1>1, <1>3
<1>5. ~(d >= 1)
  <2> SUFFICES ASSUME d >= 1 PROVE c * d >= c
    BY <1>4
  <2> QED OBVIOUS
<1>6. ~(d <= -1)
  <2> SUFFICES ASSUME d <= -1 PROVE c * d <= -c
    BY <1>4
  <2> QED OBVIOUS
<1>7. d = 0
  BY <1>5, <1>6
<1> QED BY <1>1, <1>2, <1>7

\* A burst says pressed or not of the keys of its order and of no others, of
\* each of them as often as it is to be said.
Says(b, order, pressed, repeated, times) ==
    /\ b \in Seq(Datagrams)
    /\ \A i \in DOMAIN b : /\ \E m \in DOMAIN order : b[i].key = order[m]
                           /\ b[i].pressed = pressed /\ b[i].repeated = repeated
    /\ \A m \in DOMAIN order : \E P \in SUBSET DOMAIN b :
          /\ \A i \in P : b[i].key = order[m]
          /\ IsFiniteSet(P) /\ Cardinality(P) = times

LEMMA BurstSays ==
    ASSUME NEW order \in Seq(Keys), NEW pressed \in BOOLEAN, NEW repeated \in BOOLEAN,
           NEW times, times = IF repeated THEN Copies ELSE 1
    PROVE  Says(Burst(order, pressed, repeated), order, pressed, repeated, times)
<1> DEFINE b == Burst(order, pressed, repeated)
           c == Len(order)
<1>1. times \in Nat \ {0}
  BY CopiesAssumption
<1>2. order \in [1 .. c -> Keys] /\ c \in Nat /\ DOMAIN order = 1 .. c
  OBVIOUS
<1>3. PICK l \in Nat : l = times * c
  BY <1>1
<1>4. b = [i \in 1 .. l |->
             [key |-> order[((i - 1) \div times) + 1], pressed |-> pressed, repeated |-> repeated]]
  BY <1>2, <1>3 DEF Burst
<1> HIDE DEF b, c
<1>5. ASSUME NEW m \in 1 .. c, NEW i \in Int, times * (m - 1) < i, i <= times * (m - 1) + times
      PROVE  i \in 1 .. l /\ ((i - 1) \div times) + 1 = m
  <2>1. (i - 1) \div times = m - 1
    <3>1. m - 1 \in Int /\ times * (m - 1) \in Int
      BY <1>1
    <3>2. times * (m - 1) <= i - 1 /\ i - 1 < times * (m - 1) + times /\ i - 1 \in Int
      BY <1>1, <1>5, <3>1
    <3> QED BY <1>1, <3>1, <3>2, Quotient
  <2>2. PICK e \in Nat : c = m + e
    <3>1. c - m \in Nat /\ c = m + (c - m)
      BY <1>2
    <3> QED BY <3>1
  <2>3. l = times * (m - 1) + times + times * e /\ times * e >= 0 /\ times * (m - 1) >= 0
    BY <1>1, <1>3, <2>2
  <2> QED BY <1>1, <1>5, <2>1, <2>3
<1>6. ASSUME NEW i \in 1 .. l PROVE ((i - 1) \div times) + 1 \in 1 .. c
  <2>1. PICK p \in Int, r \in 0 .. times - 1 : p = (i - 1) \div times /\ i - 1 = times * p + r
    <3>1. times \in Int /\ times > 0 /\ i - 1 \in Int
      BY <1>1
    <3>2. i - 1 = times * ((i - 1) \div times) + ((i - 1) % times)
      BY <3>1, Z3
    <3>3. (i - 1) % times \in 0 .. times - 1 /\ (i - 1) \div times \in Int
      BY <1>1
    <3> QED BY <3>2, <3>3
  <2>2. ~(p <= -1)
    <3> SUFFICES ASSUME p <= -1 PROVE times * p <= -times
      BY <1>1, <2>1
    <3> QED BY <1>1
  <2>3. ~(p >= c)
    <3> SUFFICES ASSUME p >= c PROVE times * p >= l
      BY <1>1, <2>1
    <3>1. PICK e \in Nat : p = c + e
      <4>1. p - c \in Nat /\ p = c + (p - c)
        BY <1>2
      <4> QED BY <4>1
    <3>2. times * p = l + times * e /\ times * e >= 0
      BY <1>1, <1>2, <1>3, <3>1
    <3> QED BY <1>1, <3>2
  <2> QED BY <1>2, <2>1, <2>2, <2>3
<1>7. \A i \in 1 .. l : /\ b[i] \in Datagrams /\ \E m \in 1 .. c : b[i].key = order[m]
                        /\ b[i].pressed = pressed /\ b[i].repeated = repeated
  <2> SUFFICES ASSUME NEW i \in 1 .. l
               PROVE  /\ b[i] \in Datagrams /\ \E m \in 1 .. c : b[i].key = order[m]
                      /\ b[i].pressed = pressed /\ b[i].repeated = repeated
    OBVIOUS
  <2>1. PICK q \in 1 .. c : q = ((i - 1) \div times) + 1
    BY <1>6
  <2>2. b[i] = [key |-> order[q], pressed |-> pressed, repeated |-> repeated]
    BY <1>4, <2>1
  <2> QED BY <1>2, <2>2 DEF Datagrams
<1>8. b \in Seq(Datagrams) /\ DOMAIN b = 1 .. l
  BY <1>4, <1>7
<1>9. ASSUME NEW m \in 1 .. c
      PROVE  \E P \in SUBSET DOMAIN b : /\ \A i \in P : b[i].key = order[m]
                                        /\ IsFiniteSet(P) /\ Cardinality(P) = times
  <2>1. PICK a \in Nat : a = times * (m - 1)
    BY <1>1
  <2> DEFINE P == a + 1 .. a + times
  <2>2. IsFiniteSet(P) /\ Cardinality(P) = times
    <3>1. a + 1 \in Int /\ a + times \in Int /\ ~(a + 1 > a + times)
          /\ (a + times) - (a + 1) + 1 = times
      BY <1>1
    <3> QED BY <3>1, FS_Interval
  <2>3. ASSUME NEW i \in P PROVE i \in DOMAIN b /\ b[i].key = order[m]
    <3>1. i \in 1 .. l /\ ((i - 1) \div times) + 1 = m
      <4>1. times * (m - 1) < i /\ i <= times * (m - 1) + times /\ i \in Int
        BY <1>1, <2>1, <2>3
      <4> QED BY <1>5, <4>1
    <3>2. b[i] = [key |-> order[m], pressed |-> pressed, repeated |-> repeated]
      BY <1>4, <3>1
    <3> QED BY <1>8, <3>1, <3>2
  <2> QED BY <2>2, <2>3
<1> QED BY <1>2, <1>7, <1>8, <1>9 DEF Says, b

\* Behind a wire w: of what is appended nothing is about n, or all of it that is
\* says v.
SaysSo(w, b, n, v) ==
    /\ \A i \in About(b, n) : Len(w) + i \in Run(w \o b, n, v) /\ (w \o b)[Len(w) + i] = b[i]
    /\ Cardinality(About(b, n)) <= Cardinality(Run(w \o b, n, v))

SaysNothing(w, b, n, v) ==
    /\ About(w \o b, n) = About(w, n)
    /\ Run(w \o b, n, v) = Run(w, n, v)
    /\ \A i \in Run(w, n, v) : (w \o b)[i] = w[i]

LEMMA AppendingSaysSo ==
    ASSUME NEW w \in Seq(Datagrams), NEW b \in Seq(Datagrams), NEW n, NEW v,
           \A i \in About(b, n) : b[i].pressed = v
    PROVE  SaysSo(w, b, n, v)
<1>1. /\ w \o b \in Seq(Datagrams) /\ DOMAIN (w \o b) = 1 .. Len(w) + Len(b)
      /\ \A i \in 1 .. Len(b) : (w \o b)[Len(w) + i] = b[i]
  <2>1. Len(w) \in Nat /\ Len(b) \in Nat
    OBVIOUS
  <2>2. /\ w \o b \in Seq(Datagrams) /\ Len(w \o b) = Len(w) + Len(b)
        /\ \A i \in 1 .. Len(w) + Len(b) :
              (w \o b)[i] = IF i <= Len(w) THEN w[i] ELSE b[i - Len(w)]
    BY ConcatProperties
  <2>3. ASSUME NEW i \in 1 .. Len(b) PROVE (w \o b)[Len(w) + i] = b[i]
    <3>1. Len(w) + i \in 1 .. Len(w) + Len(b) /\ ~(Len(w) + i <= Len(w)) /\ (Len(w) + i) - Len(w) = i
      BY <2>1
    <3> QED BY <2>2, <3>1
  <2> QED BY <2>2, <2>3
<1>2. Len(w) \in Nat /\ Len(b) \in Nat /\ DOMAIN b = 1 .. Len(b)
  OBVIOUS
<1>3. About(b, n) \subseteq 1 .. Len(b)
  BY <1>2 DEF About
<1>4. ASSUME NEW i \in About(b, n) PROVE Len(w) + i \in Run(w \o b, n, v)
  <2>1. i \in 1 .. Len(b) /\ n \in Image(b[i].key)
    BY <1>2 DEF About
  <2>2. Len(w) + i \in About(w \o b, n)
    BY <1>1, <1>2, <2>1 DEF About
  <2>3. ASSUME NEW j \in About(w \o b, n), Len(w) + i <= j PROVE (w \o b)[j].pressed = v
    <3>1. j \in 1 .. Len(w) + Len(b) /\ n \in Image((w \o b)[j].key)
      BY <1>1 DEF About
    <3>2. j - Len(w) \in 1 .. Len(b) /\ Len(w) + (j - Len(w)) = j
      BY <1>2, <2>1, <2>3, <3>1
    <3>3. (w \o b)[j] = b[j - Len(w)]
      BY <1>1, <3>2
    <3>4. j - Len(w) \in About(b, n)
      BY <1>2, <3>1, <3>2, <3>3 DEF About
    <3> QED BY <3>3, <3>4
  <2> QED BY <2>2, <2>3 DEF Run
<1>5. Cardinality(About(b, n)) <= Cardinality(Run(w \o b, n, v))
  <2> DEFINE A == About(b, n)
             R == Run(w \o b, n, v)
             g == [i \in A |-> Len(w) + i]
  <2>1. IsFiniteSet(A)
    <3>1. IsFiniteSet(1 .. Len(b)) /\ About(b, n) \in SUBSET (1 .. Len(b))
      BY <1>2, <1>3, FS_Interval
    <3> QED BY <3>1, FS_Subset
  <2>2. IsFiniteSet(R)
    BY <1>1, RunIsFinite
  <2>3. g \in [A -> R]
    BY <1>4
  <2>4. \A i, j \in A : i # j => g[i] # g[j]
    BY <1>2, <1>3
  <2>5. Cardinality(A) \in Nat /\ Cardinality(R) \in Nat
    BY <2>1, <2>2, FS_CardinalityType
  <2> HIDE DEF A, R, g
  <2>6. ~(Cardinality(R) < Cardinality(A))
    BY <2>1, <2>2, <2>3, <2>4, FS_PigeonHole
  <2> QED BY <2>5, <2>6 DEF A, R
<1> QED BY <1>1, <1>3, <1>4, <1>5 DEF SaysSo

LEMMA AppendingSaysNothing ==
    ASSUME NEW w \in Seq(Datagrams), NEW b \in Seq(Datagrams), NEW n, NEW v, About(b, n) = {}
    PROVE  SaysNothing(w, b, n, v)
<1>1. Len(w) \in Nat /\ Len(b) \in Nat /\ DOMAIN b = 1 .. Len(b) /\ DOMAIN w = 1 .. Len(w)
  OBVIOUS
<1>2. /\ w \o b \in Seq(Datagrams) /\ DOMAIN (w \o b) = 1 .. Len(w) + Len(b)
      /\ \A i \in 1 .. Len(w) + Len(b) :
            (w \o b)[i] = IF i <= Len(w) THEN w[i] ELSE b[i - Len(w)]
  <2>1. /\ w \o b \in Seq(Datagrams) /\ Len(w \o b) = Len(w) + Len(b)
        /\ \A i \in 1 .. Len(w) + Len(b) :
              (w \o b)[i] = IF i <= Len(w) THEN w[i] ELSE b[i - Len(w)]
    BY ConcatProperties
  <2> QED BY <2>1
<1>3. \A i \in DOMAIN w : i \in DOMAIN (w \o b) /\ (w \o b)[i] = w[i]
  BY <1>1, <1>2
<1>4. \A i \in DOMAIN (w \o b) : i \in DOMAIN w \/ ~(n \in Image((w \o b)[i].key))
  <2> SUFFICES ASSUME NEW i \in DOMAIN (w \o b), i \notin DOMAIN w
               PROVE  ~(n \in Image((w \o b)[i].key))
    OBVIOUS
  <2>1. i - Len(w) \in DOMAIN b /\ (w \o b)[i] = b[i - Len(w)]
    BY <1>1, <1>2
  <2> QED BY <2>1 DEF About
<1>5. About(w \o b, n) = About(w, n)
  BY <1>3, <1>4 DEF About
<1>6. Run(w \o b, n, v) = Run(w, n, v)
  BY <1>3, <1>5 DEF Run, About
<1>7. Run(w, n, v) \subseteq DOMAIN w
  BY DEF Run, About
<1> QED BY <1>2, <1>3, <1>5, <1>6, <1>7 DEF SaysNothing

\* What send_rt of a set of keys does to the runs about n: nothing, or it says
\* so, once for good or as often as no losses undo.
SaysOf(w, u, keys, pressed, repeated, n) ==
    /\ u \in Seq(Datagrams)
    /\ (\A k \in keys : n \notin Image(k)) =>
          /\ About(u, n) = About(w, n)
          /\ \A v \in BOOLEAN : /\ Run(u, n, v) = Run(w, n, v)
                                /\ \A i \in Run(w, n, v) : u[i] = w[i]
    /\ (\E k \in keys : n \in Image(k)) =>
          /\ repeated => Cardinality(Run(u, n, pressed)) >= Copies
          /\ ~repeated => \E i \in Run(u, n, pressed) : ~u[i].repeated

LEMMA SendingSaysSo ==
    ASSUME NEW w \in Seq(Datagrams), NEW keys \in SUBSET Keys,
           NEW order \in [1 .. Cardinality(keys) -> keys],
           keys = {order[m] : m \in DOMAIN order},
           NEW pressed \in BOOLEAN, NEW repeated \in BOOLEAN, NEW n,
           NEW u, u = w \o Burst(order, pressed, repeated)
    PROVE  SaysOf(w, u, keys, pressed, repeated, n)
<1> DEFINE b == Burst(order, pressed, repeated)
           c == Cardinality(keys)
           times == IF repeated THEN Copies ELSE 1
<1>1. c \in Nat
  BY KeysAssumption, FS_Subset, FS_CardinalityType
<1>2. /\ b \in Seq(Datagrams)
      /\ \A i \in DOMAIN b :
            b[i].key \in keys /\ b[i].pressed = pressed /\ b[i].repeated = repeated
      /\ \A m \in DOMAIN order : \E P \in SUBSET DOMAIN b :
            /\ \A i \in P : b[i].key = order[m]
            /\ IsFiniteSet(P) /\ Cardinality(P) = times
  <2>1. order \in Seq(Keys)
    <3>1. order \in [1 .. c -> Keys] /\ c \in Nat
      BY <1>1
    <3> HIDE DEF c
    <3> QED BY <3>1
  <2> HIDE DEF c, b
  <2>2. Says(Burst(order, pressed, repeated), order, pressed, repeated, times)
    BY <2>1, BurstSays
  <2> QED BY <2>2 DEF Says, b
<1> HIDE DEF b
<1>3. u = w \o b
  BY DEF b
<1>4. u \in Seq(Datagrams)
  BY <1>2, <1>3, ConcatProperties
<1>5. ASSUME \A k \in keys : n \notin Image(k)
      PROVE  /\ About(u, n) = About(w, n)
             /\ \A v \in BOOLEAN : /\ Run(u, n, v) = Run(w, n, v)
                                   /\ \A i \in Run(w, n, v) : u[i] = w[i]
  <2>1. About(b, n) = {}
    BY <1>2, <1>5 DEF About
  <2>2. \A v \in BOOLEAN : SaysNothing(w, b, n, v)
    BY <1>2, <2>1, AppendingSaysNothing
  <2>3. About(w \o b, n) = About(w, n)
    BY <2>2 DEF SaysNothing
  <2> QED BY <1>3, <2>2, <2>3 DEF SaysNothing
<1>6. ASSUME NEW k \in keys, n \in Image(k)
      PROVE  /\ repeated => Cardinality(Run(u, n, pressed)) >= Copies
             /\ ~repeated => \E i \in Run(u, n, pressed) : ~u[i].repeated
  <2>1. PICK m \in DOMAIN order : order[m] = k
    OBVIOUS
  <2>2. PICK P \in SUBSET DOMAIN b : /\ \A i \in P : b[i].key = k
                                     /\ IsFiniteSet(P) /\ Cardinality(P) = times
    BY <1>2, <2>1
  <2>3. P \subseteq About(b, n)
    BY <1>6, <2>2 DEF About
  <2>4. \A i \in About(b, n) : b[i].pressed = pressed /\ b[i].repeated = repeated
    BY <1>2 DEF About
  <2>5. /\ \A i \in About(b, n) : Len(w) + i \in Run(u, n, pressed) /\ u[Len(w) + i] = b[i]
        /\ Cardinality(About(b, n)) <= Cardinality(Run(u, n, pressed))
    <3>1. SaysSo(w, b, n, pressed)
      BY <1>2, <2>4, AppendingSaysSo
    <3> QED BY <1>3, <3>1 DEF SaysSo
  <2>6. times \in Nat \ {0}
    BY CopiesAssumption
  <2>7. CASE repeated
    <3>1. IsFiniteSet(About(b, n)) /\ About(b, n) \subseteq DOMAIN b
      <4>1. DOMAIN b = 1 .. Len(b) /\ Len(b) \in Nat
        BY <1>2
      <4>2. About(b, n) \in SUBSET (1 .. Len(b))
        BY <4>1 DEF About
      <4>3. IsFiniteSet(1 .. Len(b))
        <5>1. 1 \in Int /\ Len(b) \in Int
          BY <4>1
        <5> QED BY <5>1, FS_Interval
      <4> QED BY <4>1, <4>2, <4>3, FS_Subset
    <3>2. Cardinality(P) <= Cardinality(About(b, n))
      BY <2>3, <3>1, FS_Subset
    <3>3. Cardinality(P) = Copies
      BY <2>2, <2>7
    <3>4. /\ Cardinality(About(b, n)) \in Nat /\ Cardinality(Run(u, n, pressed)) \in Nat
          /\ Copies \in Nat
      BY <1>4, <3>1, RunIsFinite, FS_CardinalityType, CopiesAssumption
    <3>5. Cardinality(Run(u, n, pressed)) >= Copies
      BY <2>5, <3>2, <3>3, <3>4
    <3> QED BY <2>7, <3>5
  <2>8. CASE ~repeated
    <3>1. P # {}
      <4>1. Cardinality(P) # 0
        BY <2>2, <2>6
      <4> QED BY <4>1, FS_EmptySet
    <3>2. PICK i \in About(b, n) : TRUE
      BY <2>3, <3>1
    <3> QED BY <2>4, <2>5, <2>8, <3>2
  <2> QED BY <2>7, <2>8
<1> QED BY <1>4, <1>5, <1>6 DEF SaysOf

(***************************************************************************)
(* The type invariant, and the abstract loop.                              *)
(***************************************************************************)
HomeHoldsNothing == site = "Local" => held = {}

LEMMA InitType == Init => TypeOK /\ HomeHoldsNothing
<1> SUFFICES ASSUME Init PROVE TypeOK /\ HomeHoldsNothing
  OBVIOUS
<1>1. wire \in Seq([key : Keys, pressed : BOOLEAN, repeated : BOOLEAN])
  BY DEF Init
<1>2. losses \in 0 .. MaxLosses /\ swaps \in 0 .. MaxSwaps
  BY NetworkAssumption DEF Init
<1> QED BY <1>1, <1>2 DEF Init, TypeOK, HomeHoldsNothing

\* Whatever is sent, the wire stays one of datagrams.
LEMMA SendType ==
    ASSUME TypeOK, NEW keys \in SUBSET Keys, NEW pressed \in BOOLEAN, NEW repeated \in BOOLEAN,
           Send(keys, pressed, repeated)
    PROVE  wire' \in Seq(Datagrams)
<1>1. PICK order \in [1 .. Cardinality(keys) -> keys] :
         keys = {order[m] : m \in DOMAIN order} /\ wire' = wire \o Burst(order, pressed, repeated)
  BY DEF Send
<1>2. wire \in Seq(Datagrams)
  BY DEF TypeOK, Datagrams
<1> DEFINE u == wire'
<1>3. u = wire \o Burst(order, pressed, repeated)
  BY <1>1
<1> HIDE DEF u
<1>4. SaysOf(wire, u, keys, pressed, repeated, 0)
  BY <1>1, <1>2, <1>3, SendingSaysSo
<1> QED BY <1>4 DEF u, SaysOf

LEMMA StepType ==
    ASSUME TypeOK, HomeHoldsNothing, [Next]_vars
    PROVE  TypeOK' /\ HomeHoldsNothing'
<1>0. /\ wire \in Seq(Datagrams) /\ held \subseteq Keys /\ down \subseteq Mods /\ Mods \subseteq Keys
      /\ DOMAIN wire = 1 .. Len(wire) /\ Len(wire) \in Nat
      /\ \A i \in DOMAIN wire : wire[i] \in Datagrams /\ wire[i].key \in Keys
  <2>1. wire \in Seq(Datagrams) /\ held \subseteq Keys /\ down \subseteq Mods
    BY DEF TypeOK, Datagrams
  <2>2. \A i \in DOMAIN wire : wire[i] \in Datagrams
    BY <2>1
  <2>3. \A d \in Datagrams : d.key \in Keys
    BY DEF Datagrams
  <2> QED BY <2>1, <2>2, <2>3, KeysAssumption
<1>1. ASSUME NEW k \in Mods, LocalModifier(k) PROVE TypeOK' /\ HomeHoldsNothing'
  BY <1>1 DEF LocalModifier, TypeOK, HomeHoldsNothing
<1>2. ASSUME Cross PROVE TypeOK' /\ HomeHoldsNothing'
  <2>1. wire' \in Seq(Datagrams)
    BY <1>0, <1>2, SendType DEF Cross
  <2> QED BY <1>0, <1>2, <2>1 DEF Cross, TypeOK, HomeHoldsNothing, Datagrams
<1>3. ASSUME NEW k \in Keys, NEW pressed \in BOOLEAN, Relay(k, pressed)
      PROVE  TypeOK' /\ HomeHoldsNothing'
  <2>1. wire' \in Seq(Datagrams)
    BY <1>0, <1>3, SendType DEF Relay
  <2> QED BY <1>0, <1>3, <2>1 DEF Relay, TypeOK, HomeHoldsNothing, Datagrams
<1>4. ASSUME GoHome PROVE TypeOK' /\ HomeHoldsNothing'
  <2>1. wire' \in Seq(Datagrams)
    BY <1>0, <1>4, SendType DEF GoHome
  <2> QED BY <1>0, <1>4, <2>1 DEF GoHome, TypeOK, HomeHoldsNothing, Datagrams
<1>5. ASSUME NEW i \in DOMAIN wire, Lose(i) PROVE TypeOK' /\ HomeHoldsNothing'
  <2>1. wire' \in Seq(Datagrams)
    BY <1>0, <1>5, RemovedAt DEF Lose
  <2>2. losses' \in 0 .. MaxLosses /\ bare' \subseteq Keys
    BY <1>0, <1>5, NetworkAssumption DEF Lose, TypeOK
  <2> QED BY <1>5, <2>1, <2>2 DEF Lose, TypeOK, HomeHoldsNothing, Datagrams
<1>6. ASSUME NEW i \in DOMAIN wire, Swap(i) PROVE TypeOK' /\ HomeHoldsNothing'
  <2>1. i + 1 \in DOMAIN wire
    BY <1>0, <1>6 DEF Swap
  <2>2. wire' \in Seq(Datagrams)
    BY <1>0, <1>6, <2>1 DEF Swap
  <2>3. swaps' \in 0 .. MaxSwaps /\ overtaken' \subseteq Keys
    BY <1>0, <1>6, <2>1, NetworkAssumption DEF Swap, TypeOK
  <2> QED BY <1>6, <2>2, <2>3 DEF Swap, TypeOK, HomeHoldsNothing, Datagrams
<1>7. ASSUME Deliver PROVE TypeOK' /\ HomeHoldsNothing'
  <2>1. wire' \in Seq(Datagrams) /\ Head(wire).key \in Keys
    BY <1>0, <1>7 DEF Deliver
  <2>2. remote' \subseteq UNION {Image(k) : k \in Keys}
    BY <1>7, <2>1 DEF Deliver, TypeOK
  <2> QED BY <1>7, <2>1, <2>2 DEF Deliver, TypeOK, HomeHoldsNothing, Datagrams
<1>8. CASE UNCHANGED vars
  BY <1>8 DEF vars, TypeOK, HomeHoldsNothing
<1> QED BY <1>1, <1>2, <1>3, <1>4, <1>5, <1>6, <1>7, <1>8 DEF Next

\* Whatever the network does, the types hold, and the loop holds nothing of the
\* peer's while control is home.
THEOREM TypesHold == Spec => [](TypeOK /\ HomeHoldsNothing)
<1>1. Init => TypeOK /\ HomeHoldsNothing
  BY InitType
<1>2. TypeOK /\ HomeHoldsNothing /\ [Next]_vars => TypeOK' /\ HomeHoldsNothing'
  BY StepType
<1> QED BY <1>1, <1>2, PTL DEF Spec

\* The site and the two lists change as Handover says they do, whatever is sent,
\* lost or overtaken.
THEOREM KeysFollowHandover == Spec => ImplementsHandover
<1>1. Init => Promise!Init
  BY DEF Init, Promise!Init
<1>2. TypeOK /\ HomeHoldsNothing /\ [Next]_vars => [Promise!Next]_(Promise!vars)
  <2> SUFFICES ASSUME TypeOK, HomeHoldsNothing, [Next]_vars
               PROVE  Promise!Next \/ UNCHANGED Promise!vars
    OBVIOUS
  <2>1. ASSUME NEW k \in Mods, LocalModifier(k) PROVE Promise!Next
    <3>1. Promise!Note(k, k \notin down)
      BY <2>1 DEF LocalModifier, Promise!Note, Promise!With
    <3>2. (k \notin down) \in BOOLEAN
      OBVIOUS
    <3> QED BY <3>1, <3>2 DEF Promise!Next
  <2>2. ASSUME Cross PROVE Promise!Next
    <3>1. site = "Local" /\ held' = down
      BY <2>2 DEF Cross, HomeHoldsNothing
    <3> QED BY <2>2, <3>1 DEF Cross, Promise!Leave, Promise!Next
  <2>3. ASSUME NEW k \in Keys, NEW pressed \in BOOLEAN, Relay(k, pressed) PROVE Promise!Next
    <3>1. Promise!Pass(k, pressed)
      BY <2>3 DEF Relay, Promise!Pass, Promise!With
    <3> QED BY <3>1 DEF Promise!Next
  <2>4. ASSUME GoHome PROVE Promise!Next
    BY <2>4 DEF GoHome, Promise!Return, Promise!Next
  <2>5. ASSUME NEW i \in DOMAIN wire, Lose(i) \/ Swap(i) PROVE UNCHANGED Promise!vars
    BY <2>5 DEF Lose, Swap, Promise!vars
  <2>6. CASE Deliver
    BY <2>6 DEF Deliver, Promise!vars
  <2>7. CASE UNCHANGED vars
    BY <2>7 DEF vars, Promise!vars
  <2> QED BY <2>1, <2>2, <2>3, <2>4, <2>5, <2>6, <2>7 DEF Next
<1> QED BY <1>1, <1>2, TypesHold, PTL DEF Spec, ImplementsHandover, Promise!Spec

(***************************************************************************)
(* The last word about every native key.                                   *)
(***************************************************************************)
\* The wire w says v of n last, and r losses do not change that; or the peer,
\* which holds the keys of set, was told.
Backed(w, set, r, n, v) ==
    \/ \E i \in Run(w, n, v) : ~w[i].repeated
    \/ Cardinality(Run(w, n, v)) > r
    \/ About(w, n) = Run(w, n, v) /\ (n \in set <=> v)

\* What may be said of n when the loop holds the keys of set.
MayBeSaid(set, n, v) ==
    IF v THEN KeysOf(n) \cap set # {} ELSE ~(KeysOf(n) \subseteq set)

LastWord(w, pressed, r, list, n) ==
    \E v \in BOOLEAN : Backed(w, pressed, r, n, v) /\ MayBeSaid(list, n, v)

LastWordsAreTrue ==
    \A n \in Intact : LastWord(wire, remote, MaxLosses - losses, held, n)

KeyInv == TypeOK /\ HomeHoldsNothing /\ LastWordsAreTrue

\* A native key stays intact only if it was.
LEMMA IntactShrinks ==
    ASSUME bare \subseteq bare', overtaken \subseteq overtaken'
    PROVE  Intact' \subseteq Intact
BY DEF Intact, KeysOf

LEMMA KeysOfIntact ==
    ASSUME NEW n \in Intact
    PROVE  /\ KeysOf(n) # {} /\ KeysOf(n) \subseteq Keys
           /\ \A k \in Keys : n \in Image(k) => k \in KeysOf(n)
           /\ \A k \in KeysOf(n) : n \in Image(k)
BY DEF Intact, KeysOf

\* A set of keys is sent, and the list becomes new: of n nothing is said, or what
\* may be said from now on.
MaySay(keys, pressed, n, list, new) ==
    /\ (\E k \in keys : n \in Image(k)) => MayBeSaid(new, n, pressed)
    /\ (\A k \in keys : n \notin Image(k)) =>
          \A v \in BOOLEAN : MayBeSaid(list, n, v) => MayBeSaid(new, n, v)

LEMMA SendKeepsWord ==
    ASSUME NEW w, NEW u, NEW keys, NEW pressed \in BOOLEAN, NEW repeated \in BOOLEAN,
           NEW r \in Int, r < Copies, NEW set, NEW n, NEW list, NEW new,
           SaysOf(w, u, keys, pressed, repeated, n), MaySay(keys, pressed, n, list, new),
           LastWord(w, set, r, list, n)
    PROVE  LastWord(u, set, r, new, n)
<1>1. CASE \A k \in keys : n \notin Image(k)
  <2>1. PICK v \in BOOLEAN : Backed(w, set, r, n, v) /\ MayBeSaid(list, n, v)
    BY DEF LastWord
  <2>2. MayBeSaid(new, n, v)
    BY <1>1, <2>1 DEF MaySay
  <2>3. /\ About(u, n) = About(w, n) /\ Run(u, n, v) = Run(w, n, v)
        /\ \A i \in Run(w, n, v) : u[i] = w[i]
    BY <1>1 DEF SaysOf
  <2>4. Backed(u, set, r, n, v)
    BY <2>1, <2>3 DEF Backed
  <2> QED BY <2>2, <2>4 DEF LastWord
<1>2. CASE \E k \in keys : n \in Image(k)
  <2>1. MayBeSaid(new, n, pressed)
    BY <1>2 DEF MaySay
  <2>2. Backed(u, set, r, n, pressed)
    <3>1. CASE repeated
      <4>1. Cardinality(Run(u, n, pressed)) >= Copies /\ Cardinality(Run(u, n, pressed)) \in Nat
        BY <1>2, <3>1, RunIsFinite DEF SaysOf
      <4>2. Cardinality(Run(u, n, pressed)) > r
        BY <4>1, CopiesAssumption
      <4> QED BY <4>2 DEF Backed
    <3>2. CASE ~repeated
      BY <1>2, <3>2 DEF Backed, SaysOf
    <3> QED BY <3>1, <3>2
  <2> QED BY <2>1, <2>2 DEF LastWord
<1> QED BY <1>1, <1>2

\* What is kept but for repeated datagrams, which take losses with them, stays
\* backed.
Affords(w, n, v, i, r, s) ==
    /\ r \in Int /\ s \in Int /\ s <= r
    /\ i \in Run(w, n, v) => w[i].repeated /\ s <= r - 1

LEMMA KeptRunsBack ==
    ASSUME NEW w \in Seq(Datagrams), NEW u, NEW n, NEW v, NEW i, KeepsRuns(w, u, n, v, {i}),
           NEW r, NEW s, Affords(w, n, v, i, r, s),
           NEW set, NEW new, n \in set <=> n \in new, Backed(w, set, r, n, v)
    PROVE  Backed(u, new, s, n, v)
<1>0. /\ r \in Int /\ s \in Int /\ s <= r
      /\ i \in Run(w, n, v) => w[i].repeated /\ s <= r - 1
  BY DEF Affords
<1>1. /\ u \in Seq(Datagrams)
      /\ \A j \in Run(w, n, v) \ {i} : \E m \in Run(u, n, v) : u[m] = w[j]
      /\ Cardinality(Run(w, n, v) \ {i}) <= Cardinality(Run(u, n, v))
      /\ About(w, n) = Run(w, n, v) => About(u, n) = Run(u, n, v)
  BY DEF KeepsRuns
<1>2. CASE \E j \in Run(w, n, v) : ~w[j].repeated
  <2>1. PICK j \in Run(w, n, v) : ~w[j].repeated
    BY <1>2
  <2>2. PICK m \in Run(u, n, v) : u[m] = w[j]
    BY <1>0, <1>1, <2>1
  <2> QED BY <2>1, <2>2 DEF Backed
<1>3. CASE Cardinality(Run(w, n, v)) > r
  <2>1. /\ IsFiniteSet(Run(w, n, v)) /\ Cardinality(Run(w, n, v)) \in Nat
        /\ Cardinality(Run(u, n, v)) \in Nat
    BY <1>1, RunIsFinite
  <2>2. Cardinality(Run(u, n, v)) > s
    <3>1. CASE i \in Run(w, n, v)
      <4>1. Cardinality(Run(w, n, v) \ {i}) = Cardinality(Run(w, n, v)) - 1
        <5> DEFINE R == Run(w, n, v)
        <5>1. IsFiniteSet(R) /\ i \in R
          BY <2>1, <3>1
        <5> HIDE DEF R
        <5>2. Cardinality(R \ {i}) = Cardinality(R) - 1
          BY <5>1, FS_RemoveElement
        <5> QED BY <5>2 DEF R
      <4> QED BY <1>0, <1>1, <1>3, <2>1, <3>1, <4>1
    <3>2. CASE i \notin Run(w, n, v)
      <4>1. Run(w, n, v) \ {i} = Run(w, n, v)
        BY <3>2
      <4>2. Cardinality(Run(w, n, v)) <= Cardinality(Run(u, n, v))
        BY <1>1, <4>1
      <4> QED BY <1>0, <1>3, <2>1, <4>2
    <3> QED BY <3>1, <3>2
  <2> QED BY <2>2 DEF Backed
<1>4. CASE About(w, n) = Run(w, n, v) /\ (n \in set <=> v)
  BY <1>1, <1>4 DEF Backed
<1> QED BY <1>2, <1>3, <1>4 DEF Backed

\* A datagram is lost that is repeated, or is not about n.
LEMMA LossKeepsWord ==
    ASSUME NEW w \in Seq(Datagrams), NEW i \in DOMAIN w, NEW r \in Int, NEW set, NEW list, NEW n,
           LastWord(w, set, r, list, n), w[i].repeated \/ n \notin Image(w[i].key)
    PROVE  LastWord(RemoveAt(w, i), set, r - 1, list, n)
<1> DEFINE u == RemoveAt(w, i)
           s == r - 1
<1>1. PICK v \in BOOLEAN : Backed(w, set, r, n, v) /\ MayBeSaid(list, n, v)
  BY DEF LastWord
<1>2. KeepsRuns(w, u, n, v, {i})
  BY LossKeepsRuns
<1>3. i \in Run(w, n, v) => w[i].repeated
  BY DEF Run, About
<1>4. s \in Int /\ s <= r /\ s <= r - 1
  OBVIOUS
<1> HIDE DEF u, s
<1>5. Backed(u, set, s, n, v)
  <2>1. Affords(w, n, v, i, r, s)
    BY <1>3, <1>4 DEF Affords
  <2> QED BY <1>1, <1>2, <2>1, KeptRunsBack
<1> QED BY <1>1, <1>5 DEF LastWord, u, s

\* Two datagrams change places that are not both about n.
LEMMA OvertakingKeepsWord ==
    ASSUME NEW w \in Seq(Datagrams), NEW i \in DOMAIN w, i < Len(w), NEW u,
           u = [w EXCEPT ![i] = w[i + 1], ![i + 1] = w[i]],
           NEW r \in Int, NEW set, NEW list, NEW n, LastWord(w, set, r, list, n),
           ~(n \in Image(w[i].key) /\ n \in Image(w[i + 1].key))
    PROVE  LastWord(u, set, r, list, n)
<1>1. PICK v \in BOOLEAN : Backed(w, set, r, n, v) /\ MayBeSaid(list, n, v)
  BY DEF LastWord
<1>2. KeepsRuns(w, u, n, v, {})
  BY OvertakingKeepsRuns
<1>3. 0 \notin Run(w, n, v)
  <2>1. DOMAIN w = 1 .. Len(w) /\ Len(w) \in Nat
    OBVIOUS
  <2> QED BY <2>1 DEF Run, About
<1>4. KeepsRuns(w, u, n, v, {0})
  <2>1. Run(w, n, v) \ {0} = Run(w, n, v) \ {}
    BY <1>3
  <2> QED BY <1>2, <2>1 DEF KeepsRuns
<1>5. Backed(u, set, r, n, v)
  <2>1. Affords(w, n, v, 0, r, r)
    BY <1>3 DEF Affords
  <2> QED BY <1>1, <1>4, <2>1, KeptRunsBack
<1> QED BY <1>1, <1>5 DEF LastWord

\* The first datagram arrives, after which the peer holds new.
LEMMA DeliveryKeepsWord ==
    ASSUME NEW w \in Seq(Datagrams), w # <<>>, NEW r \in Int, NEW set, NEW list, NEW n,
           NEW new, new = IF Head(w).pressed THEN set \cup Image(Head(w).key)
                                             ELSE set \ Image(Head(w).key),
           LastWord(w, set, r, list, n)
    PROVE  LastWord(Tail(w), new, r, list, n)
<1> DEFINE u == Tail(w)
<1>0. /\ 1 \in DOMAIN w /\ Head(w) = w[1] /\ DOMAIN w = 1 .. Len(w) /\ Len(w) \in Nat
      /\ w[1].pressed \in BOOLEAN
  <2>1. 1 \in DOMAIN w /\ Head(w) = w[1] /\ DOMAIN w = 1 .. Len(w) /\ Len(w) \in Nat
    OBVIOUS
  <2>2. w[1] \in Datagrams
    BY <2>1
  <2> QED BY <2>1, <2>2 DEF Datagrams
<1>1. PICK v \in BOOLEAN : Backed(w, set, r, n, v) /\ MayBeSaid(list, n, v)
  BY DEF LastWord
<1>2. KeepsRuns(w, u, n, v, {1})
  BY DeliveryKeepsRuns
<1> HIDE DEF u
<1>3. CASE 1 \in Run(w, n, v)
  <2>1. About(w, n) \subseteq Run(w, n, v)
    BY <1>0, <1>3 DEF Run, About
  <2>2. About(w, n) = Run(w, n, v)
    BY <2>1 DEF Run
  <2>3. n \in Image(w[1].key) /\ (w[1].pressed <=> v)
    BY <1>0, <1>3 DEF Run, About
  <2>4. n \in new <=> v
    <3>1. CASE v
      BY <1>0, <2>3, <3>1
    <3>2. CASE ~v
      BY <1>0, <2>3, <3>2
    <3> QED BY <3>1, <3>2
  <2>5. About(u, n) = Run(u, n, v)
    BY <1>2, <2>2 DEF KeepsRuns
  <2>6. Backed(u, new, r, n, v)
    BY <2>4, <2>5 DEF Backed
  <2> QED BY <1>1, <2>6 DEF LastWord, u
<1>4. CASE 1 \notin Run(w, n, v) /\ n \notin Image(w[1].key)
  <2>1. n \in set <=> n \in new
    BY <1>0, <1>4
  <2>2. Backed(u, new, r, n, v)
    <3>1. Affords(w, n, v, 1, r, r)
      BY <1>4 DEF Affords
    <3> QED BY <1>1, <1>2, <2>1, <3>1, KeptRunsBack
  <2> QED BY <1>1, <2>2 DEF LastWord, u
<1>5. CASE 1 \notin Run(w, n, v) /\ n \in Image(w[1].key)
  <2>1. About(w, n) # Run(w, n, v)
    BY <1>0, <1>5 DEF About
  <2>2. Backed(w, new, r, n, v)
    BY <1>1, <2>1 DEF Backed
  <2>3. Backed(u, new, r, n, v)
    <3>1. Affords(w, n, v, 1, r, r)
      BY <1>5 DEF Affords
    <3> QED BY <1>2, <2>2, <3>1, KeptRunsBack
  <2> QED BY <1>1, <2>3 DEF LastWord, u
<1> QED BY <1>3, <1>4, <1>5

LEMMA InitWords == Init => LastWordsAreTrue
<1> SUFFICES ASSUME Init, NEW n \in Intact
             PROVE  LastWord(wire, remote, MaxLosses - losses, held, n)
  BY DEF LastWordsAreTrue
<1>1. About(wire, n) = {} /\ Run(wire, n, FALSE) = {}
  BY DEF Init, About, Run
<1>2. Backed(wire, remote, MaxLosses - losses, n, FALSE)
  BY <1>1 DEF Init, Backed
<1>3. MayBeSaid(held, n, FALSE)
  BY KeysOfIntact DEF Init, MayBeSaid
<1> QED BY <1>2, <1>3 DEF LastWord

\* A step that sends a set of keys and loses and overtakes nothing.
LEMMA SendKeepsWords ==
    ASSUME KeyInv, MaxLosses < Copies,
           NEW keys \in SUBSET Keys, NEW pressed \in BOOLEAN, NEW repeated \in BOOLEAN,
           Send(keys, pressed, repeated), UNCHANGED <<remote, losses, bare, overtaken>>,
           \A n \in Intact : MaySay(keys, pressed, n, held, held')
    PROVE  LastWordsAreTrue'
<1>1. PICK order \in [1 .. Cardinality(keys) -> keys] :
         keys = {order[m] : m \in DOMAIN order} /\ wire' = wire \o Burst(order, pressed, repeated)
  BY DEF Send
<1>2. /\ wire \in Seq(Datagrams)
      /\ MaxLosses - losses \in Int /\ MaxLosses - losses < Copies
  <2>1. wire \in Seq(Datagrams) /\ losses \in 0 .. MaxLosses
    BY DEF KeyInv, TypeOK, Datagrams
  <2> QED BY <2>1, CopiesAssumption, NetworkAssumption
<1>3. Intact' = Intact
  BY DEF Intact, KeysOf
<1> SUFFICES ASSUME NEW n \in Intact
             PROVE  LastWord(wire', remote, MaxLosses - losses, held', n)
  BY <1>3 DEF LastWordsAreTrue
<1> DEFINE u == wire'
           new == held'
           r == MaxLosses - losses
<1>4. LastWord(wire, remote, r, held, n)
  BY DEF KeyInv, LastWordsAreTrue
<1>5. /\ u = wire \o Burst(order, pressed, repeated)
      /\ r \in Int /\ r < Copies /\ MaySay(keys, pressed, n, held, new)
  BY <1>1, <1>2
<1> HIDE DEF u, new, r
<1>6. LastWord(u, remote, r, new, n)
  <2>1. SaysOf(wire, u, keys, pressed, repeated, n)
    BY <1>1, <1>2, <1>5, SendingSaysSo
  <2> QED BY <1>4, <1>5, <2>1, SendKeepsWord
<1> QED BY <1>6 DEF u, new, r

LEMMA WordsStayTrue ==
    ASSUME KeyInv, MaxLosses < Copies, [Next]_vars
    PROVE  LastWordsAreTrue'
<1>0. /\ wire \in Seq(Datagrams) /\ held \subseteq Keys /\ down \subseteq Keys
      /\ MaxLosses - losses \in Int
      /\ DOMAIN wire = 1 .. Len(wire) /\ Len(wire) \in Nat
      /\ \A i \in DOMAIN wire : wire[i].key \in Keys
      /\ site = "Local" => held = {}
  <2>1. wire \in Seq(Datagrams) /\ held \subseteq Keys /\ down \subseteq Mods /\ losses \in 0 .. MaxLosses
    BY DEF KeyInv, TypeOK, Datagrams
  <2>2. \A i \in DOMAIN wire : wire[i] \in Datagrams
    BY <2>1
  <2>3. \A d \in Datagrams : d.key \in Keys
    BY DEF Datagrams
  <2> QED BY <2>1, <2>2, <2>3, KeysAssumption, NetworkAssumption DEF KeyInv, HomeHoldsNothing
<1>1. ASSUME NEW k \in Mods, LocalModifier(k) PROVE LastWordsAreTrue'
  BY <1>1 DEF LocalModifier, KeyInv, LastWordsAreTrue, Intact, KeysOf
<1>2. ASSUME Cross PROVE LastWordsAreTrue'
  <2>1. held = {} /\ held' = down /\ Send(down, TRUE, TRUE)
    <3>1. site = "Local" /\ Send(down \ held, TRUE, TRUE) /\ held' = held \cup down
      BY <1>2 DEF Cross
    <3>2. down \ held = down
      BY <1>0, <3>1
    <3> QED BY <1>0, <3>1, <3>2
  <2>2. ASSUME NEW n \in Intact
        PROVE  MaySay(down, TRUE, n, held, held')
    BY <1>0, <2>1, KeysOfIntact DEF MaySay, MayBeSaid
  <2>3. UNCHANGED <<remote, losses, bare, overtaken>>
    BY <1>2 DEF Cross
  <2> QED BY <1>0, <2>1, <2>2, <2>3, SendKeepsWords
<1>3. ASSUME NEW k \in Keys, NEW pressed \in BOOLEAN, Relay(k, pressed) PROVE LastWordsAreTrue'
  <2>1. /\ Send({k}, pressed, FALSE)
        /\ held' = IF pressed THEN held \cup {k} ELSE held \ {k}
        /\ UNCHANGED <<remote, losses, bare, overtaken>>
    BY <1>3 DEF Relay
  <2>2. ASSUME NEW n \in Intact
        PROVE  MaySay({k}, pressed, n, held, held')
    <3>1. CASE n \in Image(k)
      BY <2>1, <3>1, KeysOfIntact DEF MaySay, MayBeSaid
    <3>2. CASE n \notin Image(k)
      <4>1. k \notin KeysOf(n)
        BY <3>2, KeysOfIntact
      <4>2. KeysOf(n) \cap held' = KeysOf(n) \cap held
            /\ (KeysOf(n) \subseteq held' <=> KeysOf(n) \subseteq held)
        BY <2>1, <4>1
      <4> QED BY <3>2, <4>2 DEF MaySay, MayBeSaid
    <3> QED BY <3>1, <3>2
  <2>3. {k} \in SUBSET Keys
    OBVIOUS
  <2> QED BY <2>1, <2>2, <2>3, SendKeepsWords
<1>4. ASSUME GoHome PROVE LastWordsAreTrue'
  <2>1. held' = {} /\ Send(held, FALSE, TRUE) /\ UNCHANGED <<remote, losses, bare, overtaken>>
    BY <1>4 DEF GoHome
  <2>2. ASSUME NEW n \in Intact
        PROVE  MaySay(held, FALSE, n, held, held')
    BY <1>0, <2>1, KeysOfIntact DEF MaySay, MayBeSaid
  <2> QED BY <1>0, <2>1, <2>2, SendKeepsWords
<1>5. ASSUME NEW i \in DOMAIN wire, Lose(i) PROVE LastWordsAreTrue'
  <2> SUFFICES ASSUME NEW n \in Intact'
               PROVE  LastWord(wire, remote, MaxLosses - losses, held, n)'
    BY DEF LastWordsAreTrue
  <2>1. /\ wire' = RemoveAt(wire, i) /\ losses' = losses + 1 /\ remote' = remote /\ held' = held
        /\ bare \subseteq bare' /\ overtaken' = overtaken
        /\ ~wire[i].repeated => wire[i].key \in bare'
    BY <1>5 DEF Lose
  <2>2. n \in Intact
    BY <2>1, IntactShrinks
  <2>3. wire[i].repeated \/ n \notin Image(wire[i].key)
    BY <1>0, <2>1 DEF Intact, KeysOf
  <2>4. LastWord(wire, remote, MaxLosses - losses, held, n)
    BY <2>2 DEF KeyInv, LastWordsAreTrue
  <2> DEFINE r == MaxLosses - losses
  <2>5. r \in Int /\ LastWord(wire, remote, r, held, n)
    BY <1>0, <2>4
  <2> HIDE DEF r
  <2>6. LastWord(RemoveAt(wire, i), remote, r - 1, held, n)
    BY <1>0, <2>3, <2>5, LossKeepsWord
  <2>7. r - 1 = MaxLosses - losses'
    <3>1. losses \in Nat /\ MaxLosses \in Nat
      BY NetworkAssumption DEF KeyInv, TypeOK
    <3> QED BY <2>1, <3>1 DEF r
  <2> QED BY <2>1, <2>6, <2>7
<1>6. ASSUME NEW i \in DOMAIN wire, Swap(i) PROVE LastWordsAreTrue'
  <2> SUFFICES ASSUME NEW n \in Intact'
               PROVE  LastWord(wire, remote, MaxLosses - losses, held, n)'
    BY DEF LastWordsAreTrue
  <2>1. /\ i < Len(wire) /\ wire' = [wire EXCEPT ![i] = wire[i + 1], ![i + 1] = wire[i]]
        /\ remote' = remote /\ held' = held /\ losses' = losses
        /\ bare' = bare /\ overtaken \subseteq overtaken'
        /\ Image(wire[i].key) = Image(wire[i + 1].key) => wire[i].key \in overtaken'
    BY <1>6 DEF Swap
  <2>2. n \in Intact
    BY <2>1, IntactShrinks
  <2>3. ~(n \in Image(wire[i].key) /\ n \in Image(wire[i + 1].key))
    <3>1. ASSUME n \in Image(wire[i].key), n \in Image(wire[i + 1].key)
          PROVE  Image(wire[i].key) = Image(wire[i + 1].key)
      BY <3>1 DEF Image
    <3>2. n \in Image(wire[i].key) => wire[i].key \notin overtaken'
      BY <1>0 DEF Intact, KeysOf
    <3> QED BY <2>1, <3>1, <3>2
  <2>4. LastWord(wire, remote, MaxLosses - losses, held, n)
    BY <2>2 DEF KeyInv, LastWordsAreTrue
  <2> DEFINE r == MaxLosses - losses
             u == wire'
  <2>5. r \in Int /\ LastWord(wire, remote, r, held, n)
        /\ u = [wire EXCEPT ![i] = wire[i + 1], ![i + 1] = wire[i]]
    BY <1>0, <2>1, <2>4
  <2> HIDE DEF r, u
  <2>6. LastWord(u, remote, r, held, n)
    BY <1>0, <2>1, <2>3, <2>5, OvertakingKeepsWord
  <2> QED BY <2>1, <2>6 DEF r, u
<1>7. ASSUME Deliver PROVE LastWordsAreTrue'
  <2>1. /\ wire # <<>> /\ wire' = Tail(wire)
        /\ remote' = IF Head(wire).pressed THEN remote \cup Image(Head(wire).key)
                                           ELSE remote \ Image(Head(wire).key)
        /\ held' = held /\ losses' = losses /\ bare' = bare /\ overtaken' = overtaken
    BY <1>7 DEF Deliver
  <2>2. Intact' = Intact
    BY <2>1 DEF Intact, KeysOf
  <2> SUFFICES ASSUME NEW n \in Intact
               PROVE  LastWord(wire', remote', MaxLosses - losses, held, n)
    BY <2>1, <2>2 DEF LastWordsAreTrue
  <2> DEFINE r == MaxLosses - losses
             new == remote'
  <2>3. /\ r \in Int /\ LastWord(wire, remote, r, held, n)
        /\ new = IF Head(wire).pressed THEN remote \cup Image(Head(wire).key)
                                       ELSE remote \ Image(Head(wire).key)
    BY <1>0, <2>1 DEF KeyInv, LastWordsAreTrue
  <2> HIDE DEF r, new
  <2>4. LastWord(Tail(wire), new, r, held, n)
    BY <1>0, <2>1, <2>3, DeliveryKeepsWord
  <2> QED BY <2>1, <2>4 DEF r, new
<1>8. CASE UNCHANGED vars
  BY <1>8 DEF vars, KeyInv, LastWordsAreTrue, Intact, KeysOf
<1> QED BY <1>1, <1>2, <1>3, <1>4, <1>5, <1>6, <1>7, <1>8 DEF Next

\* The network loses fewer datagrams than a transition sends copies of each.
LEMMA KeyInvHolds == ASSUME MaxLosses < Copies PROVE Spec => []KeyInv
<1>1. Init => KeyInv
  BY InitType, InitWords DEF KeyInv
<1>2. KeyInv /\ [Next]_vars => KeyInv'
  BY StepType, WordsStayTrue DEF KeyInv
<1> QED BY <1>1, <1>2, PTL DEF Spec

\* When nothing is in flight the last word is the one the peer was told.
LEMMA NothingInFlight ==
    ASSUME KeyInv, wire = <<>>, NEW n \in Intact
    PROVE  /\ n \in remote => KeysOf(n) \cap held # {}
           /\ KeysOf(n) \subseteq held => n \in remote
<1>1. PICK v \in BOOLEAN : /\ Backed(wire, remote, MaxLosses - losses, n, v)
                           /\ MayBeSaid(held, n, v)
  BY DEF KeyInv, LastWordsAreTrue, LastWord
<1>2. Run(wire, n, v) = {}
  BY DEF Run, About
<1>3. Cardinality(Run(wire, n, v)) = 0
  BY <1>2, FS_EmptySet
<1>4. ~(0 > MaxLosses - losses)
  BY NetworkAssumption DEF KeyInv, TypeOK
<1>5. n \in remote <=> v
  BY <1>1, <1>2, <1>3, <1>4 DEF Backed
<1> QED BY <1>1, <1>5, KeysOfIntact DEF MayBeSaid

\* Once control is home and the wire is empty the peer holds nothing, but for
\* the keys the network was unfair to (inputloop.rs: ReleaseHeld, send_rt).
THEOREM PeerLetsGo == ASSUME MaxLosses < Copies PROVE Spec => []HomeReleases
<1>1. KeyInv => HomeReleases
  <2> SUFFICES ASSUME KeyInv, site = "Local", wire = <<>>, NEW n \in Intact
               PROVE  n \notin remote
    BY DEF HomeReleases
  <2>1. held = {}
    BY DEF KeyInv, HomeHoldsNothing
  <2> QED BY <2>1, NothingInFlight
<1> QED BY <1>1, KeyInvHolds, PTL

\* While control is remote and the wire is empty the peer holds what the loop
\* believes it holds.
THEOREM PeerHoldsWhatIsHeld == ASSUME MaxLosses < Copies PROVE Spec => []PeerFollows
<1>1. KeyInv => PeerFollows
  BY NothingInFlight DEF PeerFollows
<1> QED BY <1>1, KeyInvHolds, PTL
=============================================================================
