-------------------------- MODULE PcapReport_proofs --------------------------
(***************************************************************************)
(* Every packet of a capture is counted, in the right flow and direction   *)
(* (EveryPacketIsCounted), and the frames of a flow are those that occur   *)
(* in the bytes of its packets, of frames that overlap the first           *)
(* (FramesAreFound), for any bytes, checksum, packets and filters and      *)
(* captures of any length.                                                 *)
(*                                                                         *)
(* FlowsInv ties what Flow.observe has counted to the packets read:        *)
(* another packet is of one flow only, OneKey, because CanonicalFlow       *)
(* orders its ends, and adds one number to one of the flow's sets of       *)
(* numbers.  FramesInv says of each flow that all its bytes were searched  *)
(* up to what is pending: every place before it is Settled, that is        *)
(* hidden by a frame that was found, or searched with all the bytes that   *)
(* decide there.  Feed searches from each place on, FeedIsGood, by going   *)
(* through its branches from the last byte to the first.  A call of it     *)
(* keeps FramesInv by SearchedOn: to search what is pending and then a     *)
(* payload finds what one search of all the bytes does, because what       *)
(* decided at a place before the pending bytes, MoreBytes, decides the     *)
(* same when more bytes follow.  Feed and Joined are recursive functions;  *)
(* what the rule of each says holds of what its CHOOSE picks once there    *)
(* is a function that follows the rule, which SetInduction over the        *)
(* length shows.                                                           *)
(***************************************************************************)
EXTENDS PcapReport, SequenceTheorems, FiniteSetTheorems, WellFoundedInduction, TLAPS

-----------------------------------------------------------------------------
(* Induction, by sets instead of predicates *)

\* Of the intervals from 0 to the members of a set of numbers one is the least.
LEMMA LeastNumber ==
  ASSUME NEW T, T \subseteq Nat, T # {}
  PROVE  \E x \in T : \A y \in T : ~(y < x)
<1> DEFINE I == {0..n : n \in T}
<1>1. I \subseteq FiniteSubsetsOf(Nat) /\ I # {}
  <2>1. \A n \in Nat : 0..n \in FiniteSubsetsOf(Nat)
    BY FS_Interval DEF FiniteSubsetsOf
  <2> QED
    BY <2>1
<1> HIDE DEF I
<1>2. PICK s \in I : \A t \in I : ~(<<t, s>> \in StrictSubsetOrdering(Nat))
  BY <1>1, FS_StrictSubsetOrderingWellFounded, WFMin
<1>3. PICK x \in T : s = 0..x
  BY DEF I
<1>4. ASSUME NEW y \in T, y < x PROVE FALSE
  <2>1. x \in Nat /\ y \in Nat
    OBVIOUS
  <2>2. 0..y \subseteq 0..x /\ x \in 0..x /\ x \notin 0..y
    BY <1>4, <2>1
  <2>3. 0..y \in SUBSET Nat /\ 0..x \in SUBSET Nat
    BY <2>1
  <2>4. <<0..y, 0..x>> \in StrictSubsetOrdering(Nat)
    BY <2>2, <2>3 DEF StrictSubsetOrdering
  <2> QED
    BY <1>2, <1>3, <2>4 DEF I
<1> QED
  BY <1>4

LEMMA SetInduction ==
  ASSUME NEW P, 0 \in P, \A n \in Nat : n \in P => n + 1 \in P
  PROVE  Nat \subseteq P
<1> SUFFICES ASSUME Nat \ P # {} PROVE FALSE
  OBVIOUS
<1>1. PICK x \in Nat \ P : \A y \in Nat \ P : ~(y < x)
  BY LeastNumber
<1>2. x - 1 \in Nat /\ x - 1 < x /\ x - 1 + 1 = x
  OBVIOUS
<1> QED
  BY <1>1, <1>2

-----------------------------------------------------------------------------
(* Joined *)

\* What the definition of Joined chooses.
Joins(g, parts, which) ==
  /\ g[0] = <<>>
  /\ \A n \in 1..Len(parts) : g[n] = IF n \in which THEN g[n - 1] \o parts[n] ELSE g[n - 1]

\* Nothing of a stretch is chosen; the same is chosen of two stretches.
NoneIn(which, from, to) == \A n \in from..to : n \notin which
Agree(parts, which, others, some, d, m) ==
  \A n \in 1..m : (d + n \in which <=> n \in some) /\ (n \in some => parts[d + n] = others[n])
AgreeTo(parts, which, others, some, m) ==
  \A n \in 1..m : (n \in which <=> n \in some) /\ (n \in some => parts[n] = others[n])
Same(which, some, from, to) == \A n \in from..to : n \in which <=> n \in some

LEMMA JoinedIs ==
  ASSUME NEW parts, Len(parts) \in Nat, NEW which
  PROVE  \E g : Joins(g, parts, which) /\ Joined(parts, which) = g[Len(parts)]
<1> DEFINE N == Len(parts)
           Next1(g, n) == IF n = 0 THEN <<>>
                          ELSE IF n \in which THEN g[n - 1] \o parts[n] ELSE g[n - 1]
           P == {m \in Nat : \E g : g = [n \in 0..m |-> Next1(g, n)]}
           Right(g) == g = [n \in 0..N |-> Next1(g, n)]
           c == CHOOSE g : Right(g)
<1>1. 0 \in P
  <2> DEFINE g == [n \in 0..0 |-> <<>>]
  <2>1. g = [n \in 0..0 |-> Next1(g, n)]
    OBVIOUS
  <2> HIDE DEF g
  <2> QED
    BY <2>1
<1>2. ASSUME NEW m \in Nat, m \in P PROVE m + 1 \in P
  <2>1. PICK g : g = [n \in 0..m |-> Next1(g, n)]
    BY <1>2
  <2> DEFINE h == [n \in 0 .. m + 1 |-> IF n <= m THEN g[n] ELSE Next1(g, m + 1)]
             k == [n \in 0 .. m + 1 |-> Next1(h, n)]
  <2>2. ASSUME NEW n \in 0 .. m + 1 PROVE h[n] = Next1(h, n)
    <3>1. CASE n = 0
      <4>1. h[n] = g[n] /\ n \in 0..m
        BY <3>1
      <4> QED
        BY <2>1, <3>1, <4>1
    <3>2. CASE n # 0
      <4>1. n - 1 \in 0..m /\ n - 1 \in 0 .. m + 1 /\ n - 1 <= m
        BY <3>2
      <4>2. h[n - 1] = g[n - 1]
        BY <4>1
      <4>3. Next1(h, n) = Next1(g, n)
        BY <4>2
      <4>4. h[n] = Next1(g, n)
        <5>1. CASE n <= m
          <6>1. n \in 0..m /\ h[n] = g[n]
            BY <5>1
          <6> HIDE DEF Next1
          <6> QED
            BY <2>1, <6>1
        <5>2. CASE ~(n <= m)
          <6>1. n = m + 1
            BY <5>2
          <6> QED
            BY <5>2, <6>1
        <5> QED
          BY <5>1, <5>2
      <4> QED
        BY <4>3, <4>4
    <3> QED
      BY <3>1, <3>2
  <2> HIDE DEF Next1
  <2>3. h = k
    <3>1. \A n \in 0 .. m + 1 : h[n] = k[n]
      BY <2>2
    <3> QED
      BY <3>1
  <2> HIDE DEF h
  <2>4. \E x : x = [n \in 0 .. m + 1 |-> Next1(x, n)]
    BY <2>3
  <2>5. m + 1 \in Nat
    OBVIOUS
  <2> QED
    BY <2>4, <2>5
<1> HIDE DEF P
<1>3. N \in P
  BY <1>1, <1>2, SetInduction
<1>4. Right(c)
  BY <1>3 DEF P
<1>5. Joined(parts, which) = c[N]
  BY DEF Joined
<1> HIDE DEF c
<1>6. c[0] = <<>>
  BY <1>4
<1>7. ASSUME NEW n \in 1..N
      PROVE  c[n] = IF n \in which THEN c[n - 1] \o parts[n] ELSE c[n - 1]
  BY <1>4
<1>8. Joins(c, parts, which)
  BY <1>6, <1>7 DEF Joins
<1> QED
  BY <1>5, <1>8

\* Parts that are left out add nothing.
LEMMA JoinsStays ==
  ASSUME NEW parts, Len(parts) \in Nat, NEW which, NEW g, Joins(g, parts, which),
         NEW a \in Nat, NEW b \in Nat, a <= b, b <= Len(parts),
         NoneIn(which, a + 1, b)
  PROVE  g[b] = g[a]
<1> DEFINE P == {n \in Nat : a + n <= b => g[a + n] = g[a]}
<1>1. 0 \in P
  OBVIOUS
<1>2. ASSUME NEW n \in Nat, n \in P PROVE n + 1 \in P
  <2> SUFFICES ASSUME a + (n + 1) <= b PROVE g[a + (n + 1)] = g[a]
    OBVIOUS
  <2>1. /\ a + (n + 1) \in 1..Len(parts) /\ a + (n + 1) - 1 = a + n /\ a + n <= b
        /\ a + (n + 1) \in a + 1 .. b
    OBVIOUS
  <2>2. g[a + (n + 1)] = g[a + (n + 1) - 1]
    <3>1. a + (n + 1) \notin which
      BY <2>1 DEF NoneIn
    <3> QED
      BY <2>1, <3>1 DEF Joins
  <2> QED
    BY <1>2, <2>1, <2>2
<1> HIDE DEF P
<1>3. Nat \subseteq P
  BY <1>1, <1>2, SetInduction
<1>4. PICK m \in Nat : a + m = b
  <2>1. b - a \in Nat /\ a + (b - a) = b
    OBVIOUS
  <2> QED
    BY <2>1
<1> QED
  BY <1>3, <1>4 DEF P

LEMMA JoinsNone ==
  ASSUME NEW parts, Len(parts) \in Nat, NEW which, NEW g, Joins(g, parts, which),
         NEW b \in Nat, b <= Len(parts), NoneIn(which, 1, b)
  PROVE  g[b] = <<>>
<1>1. PICK z \in Nat : z = 0
  OBVIOUS
<1>2. z <= b /\ NoneIn(which, z + 1, b)
  BY <1>1 DEF NoneIn
<1>3. g[b] = g[z]
  BY <1>2, JoinsStays
<1>4. g[0] = <<>>
  BY DEF Joins
<1> QED
  BY <1>1, <1>3, <1>4

\* The same parts, `d` places further on, add the same.
LEMMA JoinsShift ==
  ASSUME NEW parts, Len(parts) \in Nat, NEW which, NEW g, Joins(g, parts, which),
         NEW others, Len(others) \in Nat, NEW some, NEW h, Joins(h, others, some),
         NEW d \in Nat, NEW m \in Nat, NEW e \in Nat, e = d + m, e <= Len(parts),
         m <= Len(others), g[d] = <<>>,
         Agree(parts, which, others, some, d, m)
  PROVE  g[e] = h[m]
<1> DEFINE P == {n \in Nat : n <= m => g[d + n] = h[n]}
<1>1. 0 \in P
  BY DEF Joins
<1>2. ASSUME NEW n \in Nat, n \in P PROVE n + 1 \in P
  <2> SUFFICES ASSUME n + 1 <= m PROVE g[d + (n + 1)] = h[n + 1]
    OBVIOUS
  <2>1. /\ d + (n + 1) \in 1..Len(parts) /\ d + (n + 1) - 1 = d + n
        /\ n + 1 \in 1..m /\ n + 1 \in 1..Len(others) /\ n <= m /\ n + 1 - 1 = n
    OBVIOUS
  <2>2. g[d + (n + 1)] = IF d + (n + 1) \in which THEN g[d + n] \o parts[d + (n + 1)] ELSE g[d + n]
    <3>1. g[d + (n + 1)] = IF d + (n + 1) \in which THEN g[d + (n + 1) - 1] \o parts[d + (n + 1)]
                           ELSE g[d + (n + 1) - 1]
      BY <2>1 DEF Joins
    <3> QED
      BY <2>1, <3>1
  <2>3. h[n + 1] = IF n + 1 \in some THEN h[n] \o others[n + 1] ELSE h[n]
    <3>1. h[n + 1] = IF n + 1 \in some THEN h[n + 1 - 1] \o others[n + 1] ELSE h[n + 1 - 1]
      BY <2>1 DEF Joins
    <3> QED
      BY <2>1, <3>1
  <2>4. /\ d + (n + 1) \in which <=> n + 1 \in some
        /\ n + 1 \in some => parts[d + (n + 1)] = others[n + 1]
    BY <2>1 DEF Agree
  <2>5. g[d + n] = h[n]
    BY <1>2, <2>1
  <2> QED
    BY <2>2, <2>3, <2>4, <2>5
<1> HIDE DEF P
<1>3. m \in P
  BY <1>1, <1>2, SetInduction
<1> QED
  BY <1>3 DEF P

\* Said of `\o` by name, so that a fact of it can be cited.
IsConcat(z, x, y) == z = x \o y

\* What is known of joining the members of `Q`; parts that are all of `Q`.
Chains(Q) ==
  /\ <<>> \in Q /\ \A x, y \in Q : x \o y \in Q
  /\ \A x, y, z \in Q : (x \o y) \o z = x \o (y \o z)
  /\ \A x \in Q : x \o <<>> = x /\ <<>> \o x = x
PartsIn(parts, Q) == Len(parts) \in Nat /\ \A n \in 1..Len(parts) : parts[n] \in Q

LEMMA SequencesChain ==
  ASSUME NEW S
  PROVE  Chains(Seq(S))
<1>1. <<>> \in Seq(S)
  BY EmptySeq
<1>2. ASSUME NEW x \in Seq(S), NEW y \in Seq(S) PROVE x \o y \in Seq(S)
  BY ConcatProperties
<1>3. ASSUME NEW x \in Seq(S), NEW y \in Seq(S), NEW z \in Seq(S)
      PROVE  (x \o y) \o z = x \o (y \o z)
  BY ConcatAssociative
<1>4. ASSUME NEW x \in Seq(S) PROVE x \o <<>> = x /\ <<>> \o x = x
  BY ConcatEmptySeq
<1> QED
  BY <1>1, <1>2, <1>3, <1>4 DEF Chains

LEMMA JoinsType ==
  ASSUME NEW Q, Chains(Q), NEW parts, PartsIn(parts, Q), NEW which, NEW g,
         Joins(g, parts, which), NEW m \in 0..Len(parts)
  PROVE  g[m] \in Q
<1> DEFINE P == {n \in Nat : n <= Len(parts) => g[n] \in Q}
<1>1. /\ Len(parts) \in Nat /\ \A n \in 1..Len(parts) : parts[n] \in Q
      /\ <<>> \in Q /\ \A x, y \in Q : x \o y \in Q
  BY DEF PartsIn, Chains
<1>2. 0 \in P
  BY <1>1 DEF Joins
<1>3. ASSUME NEW n \in Nat, n \in P PROVE n + 1 \in P
  <2> SUFFICES ASSUME n + 1 <= Len(parts) PROVE g[n + 1] \in Q
    OBVIOUS
  <2>1. n + 1 \in 1..Len(parts) /\ n + 1 - 1 = n /\ n <= Len(parts)
    BY <1>1
  <2>2. g[n + 1] = IF n + 1 \in which THEN g[n + 1 - 1] \o parts[n + 1] ELSE g[n + 1 - 1]
    BY <2>1 DEF Joins
  <2>3. g[n] \in Q
    BY <1>3, <2>1
  <2> QED
    BY <1>1, <2>1, <2>2, <2>3
<1> HIDE DEF P
<1>4. Nat \subseteq P
  BY <1>2, <1>3, SetInduction
<1>5. m \in Nat /\ m <= Len(parts)
  BY <1>1
<1> QED
  BY <1>4, <1>5 DEF P

\* `h` joins the same as `g`, but only behind the first `a` parts.
Continues(h, rest, g, which, parts, a) ==
  /\ Joins(g, parts, which) /\ Joins(h, parts, rest)
  /\ NoneIn(rest, 1, a) /\ Same(rest, which, a + 1, Len(parts))

\* What is joined of two stretches is what is joined of the one and then the other.
LEMMA JoinsSplit ==
  ASSUME NEW Q, Chains(Q), NEW parts, PartsIn(parts, Q), NEW which, NEW g, NEW rest, NEW h,
         NEW a \in Nat, NEW b \in Nat, a <= b, b <= Len(parts),
         Continues(h, rest, g, which, parts, a)
  PROVE  IsConcat(g[b], g[a], h[b])
<1> USE DEF Continues, IsConcat
<1> DEFINE Holds(n) == g[a + n] = g[a] \o h[a + n]
           P == {n \in Nat : a + n <= b => Holds(n)}
<1> SUFFICES \A n \in Nat : a + n <= b => Holds(n)
  <2>1. PICK n \in Nat : a + n = b
    <3>1. b - a \in Nat /\ a + (b - a) = b
      OBVIOUS
    <3> QED
      BY <3>1
  <2>2. a + n <= b
    BY <2>1
  <2>3. Holds(n)
    <3> HIDE DEF Holds
    <3> QED
      BY <2>2
  <2> QED
    BY <2>1, <2>3
<1>1. /\ Len(parts) \in Nat /\ \A n \in 1..Len(parts) : parts[n] \in Q
      /\ \A n \in 0..Len(parts) : g[n] \in Q /\ h[n] \in Q
      /\ \A x, y, z \in Q : (x \o y) \o z = x \o (y \o z)
      /\ \A x \in Q : x \o <<>> = x
  BY JoinsType DEF PartsIn, Chains
<1>0. Len(parts) \in Nat
  BY <1>1
<1>2. h[a] = <<>>
  <2>1. a <= Len(parts)
    BY <1>0
  <2> QED
    BY <1>0, <2>1, JoinsNone
<1>3. 0 \in P
  <2>1. h[a] = <<>> /\ a \in 0..Len(parts) /\ a + 0 = a
    BY <1>1, <1>2 DEF Joins
  <2> QED
    BY <1>1, <2>1
<1> HIDE DEF Holds
<1>4. ASSUME NEW n \in Nat, n \in P PROVE n + 1 \in P
  <2> SUFFICES ASSUME a + (n + 1) <= b PROVE Holds(n + 1)
    OBVIOUS
  <2>1. /\ a + (n + 1) \in 1..Len(parts) /\ a + (n + 1) - 1 = a + n /\ a + n <= b
        /\ a \in 0..Len(parts) /\ a + n \in 0..Len(parts)
    BY <1>1
  <2>2. g[a + (n + 1)] = IF a + (n + 1) \in which THEN g[a + n] \o parts[a + (n + 1)] ELSE g[a + n]
    <3>1. g[a + (n + 1)] = IF a + (n + 1) \in which THEN g[a + (n + 1) - 1] \o parts[a + (n + 1)]
                           ELSE g[a + (n + 1) - 1]
      BY <2>1 DEF Joins
    <3> QED
      BY <2>1, <3>1
  <2>3. h[a + (n + 1)] = IF a + (n + 1) \in which THEN h[a + n] \o parts[a + (n + 1)] ELSE h[a + n]
    <3>1. h[a + (n + 1)] = IF a + (n + 1) \in rest
                           THEN h[a + (n + 1) - 1] \o parts[a + (n + 1)]
                           ELSE h[a + (n + 1) - 1]
      BY <2>1 DEF Joins
    <3>2. a + (n + 1) \in rest <=> a + (n + 1) \in which
      <4>1. a + (n + 1) \in a + 1 .. Len(parts)
        BY <2>1
      <4> QED
        BY <4>1 DEF Same
    <3> QED
      BY <2>1, <3>1, <3>2
  <2>4. g[a + n] = g[a] \o h[a + n]
    BY <1>4, <2>1 DEF Holds
  <2>5. g[a] \in Q /\ h[a + n] \in Q /\ parts[a + (n + 1)] \in Q
    BY <1>1, <2>1
  <2>6. (g[a] \o h[a + n]) \o parts[a + (n + 1)] = g[a] \o (h[a + n] \o parts[a + (n + 1)])
    BY <1>1, <2>5
  <2> QED
    BY <2>2, <2>3, <2>4, <2>6 DEF Holds
<1>5. Nat \subseteq P
  <2> HIDE DEF P
  <2> QED
    BY <1>3, <1>4, SetInduction
<1> QED
  BY <1>5

LEMMA JoinedNone ==
  ASSUME NEW parts, Len(parts) \in Nat, NEW which, NoneIn(which, 1, Len(parts))
  PROVE  Joined(parts, which) = <<>>
<1>1. PICK g : Joins(g, parts, which) /\ Joined(parts, which) = g[Len(parts)]
  BY JoinedIs
<1>2. Len(parts) <= Len(parts)
  OBVIOUS
<1> QED
  BY <1>1, <1>2, JoinsNone

LEMMA JoinedType ==
  ASSUME NEW Q, Chains(Q), NEW parts, PartsIn(parts, Q), NEW which
  PROVE  Joined(parts, which) \in Q
<1>1. Len(parts) \in Nat
  BY DEF PartsIn
<1>2. PICK g : Joins(g, parts, which) /\ Joined(parts, which) = g[Len(parts)]
  BY <1>1, JoinedIs
<1>3. Len(parts) \in 0..Len(parts)
  BY <1>1
<1> QED
  BY <1>2, <1>3, JoinsType

\* The same parts further on, with nothing chosen before or behind them.
LEMMA JoinedShift ==
  ASSUME NEW parts, Len(parts) \in Nat, NEW which, NEW others, Len(others) \in Nat, NEW some,
         NEW d \in Nat, NEW m \in Nat, NEW e \in Nat, e = d + m, e <= Len(parts),
         m <= Len(others), Agree(parts, which, others, some, d, m),
         NoneIn(which, 1, d), NoneIn(which, e + 1, Len(parts)), NoneIn(some, m + 1, Len(others))
  PROVE  Joined(parts, which) = Joined(others, some)
<1>1. PICK g : Joins(g, parts, which) /\ Joined(parts, which) = g[Len(parts)]
  BY JoinedIs
<1>2. PICK h : Joins(h, others, some) /\ Joined(others, some) = h[Len(others)]
  BY JoinedIs
<1>3. g[d] = <<>>
  <2>1. d <= Len(parts)
    OBVIOUS
  <2> QED
    BY <1>1, <2>1, JoinsNone
<1>4. g[e] = h[m]
  BY <1>1, <1>2, <1>3, JoinsShift
<1>5. g[Len(parts)] = g[e]
  <2>1. Len(parts) <= Len(parts)
    OBVIOUS
  <2> QED
    BY <1>1, <2>1, JoinsStays
<1>6. h[Len(others)] = h[m]
  <2>1. Len(others) <= Len(others)
    OBVIOUS
  <2> QED
    BY <1>2, <2>1, JoinsStays
<1> QED
  BY <1>1, <1>2, <1>4, <1>5, <1>6

\* Nothing is chosen behind the parts that agree.
LEMMA JoinedSame ==
  ASSUME NEW parts, Len(parts) \in Nat, NEW which, NEW others, Len(others) \in Nat, NEW some,
         NEW m \in Nat, m <= Len(parts), m <= Len(others),
         AgreeTo(parts, which, others, some, m),
         NoneIn(which, m + 1, Len(parts)), NoneIn(some, m + 1, Len(others))
  PROVE  Joined(parts, which) = Joined(others, some)
<1>1. PICK d \in Nat : d = 0
  OBVIOUS
<1>2. m = d + m /\ Agree(parts, which, others, some, d, m) /\ NoneIn(which, 1, d)
  <2>1. \A n \in 1..m : d + n = n
    BY <1>1
  <2> QED
    BY <1>1, <2>1 DEF Agree, AgreeTo, NoneIn
<1> QED
  BY <1>2, JoinedShift

\* One part more.
LEMMA JoinedMore ==
  ASSUME NEW parts, Len(parts) \in Nat, NEW which, NEW others, Len(others) = Len(parts) + 1,
         NEW some, AgreeTo(parts, which, others, some, Len(parts))
  PROVE  /\ Len(others) \in some =>
              IsConcat(Joined(others, some), Joined(parts, which), others[Len(others)])
         /\ Len(others) \notin some => Joined(others, some) = Joined(parts, which)
<1>1. PICK g : Joins(g, parts, which) /\ Joined(parts, which) = g[Len(parts)]
  BY JoinedIs
<1>2. Len(others) \in Nat /\ Len(others) \in 1..Len(others) /\ Len(others) - 1 = Len(parts)
  OBVIOUS
<1>3. PICK h : Joins(h, others, some) /\ Joined(others, some) = h[Len(others)]
  BY <1>2, JoinedIs
<1>4. h[Len(parts)] = g[Len(parts)]
  <2>1. PICK d \in Nat, m \in Nat : d = 0 /\ m = Len(parts)
    OBVIOUS
  <2>2. /\ m = d + m /\ m <= Len(others) /\ m <= Len(parts) /\ h[d] = <<>>
        /\ Agree(others, some, parts, which, d, m)
    <3>1. \A n \in 1..m : d + n = n
      BY <2>1
    <3>2. h[0] = <<>>
      BY <1>3 DEF Joins
    <3> QED
      BY <2>1, <3>1, <3>2 DEF Agree, AgreeTo
  <2>3. h[m] = g[m]
    BY <1>1, <1>2, <1>3, <2>2, JoinsShift
  <2> QED
    BY <2>1, <2>3
<1>5. h[Len(others)] = IF Len(others) \in some THEN h[Len(others) - 1] \o others[Len(others)]
                       ELSE h[Len(others) - 1]
  BY <1>2, <1>3 DEF Joins
<1> QED
  BY <1>1, <1>2, <1>3, <1>4, <1>5 DEF IsConcat

\* What is joined of two stretches.
LEMMA JoinedSplit ==
  ASSUME NEW Q, Chains(Q), NEW parts, PartsIn(parts, Q), NEW which, NEW a \in Nat, a <= Len(parts),
         NEW first, NEW rest,
         Same(first, which, 1, a), NoneIn(first, a + 1, Len(parts)),
         NoneIn(rest, 1, a), Same(rest, which, a + 1, Len(parts))
  PROVE  IsConcat(Joined(parts, which), Joined(parts, first), Joined(parts, rest))
<1>0. Len(parts) \in Nat
  BY DEF PartsIn
<1>1. PICK g : Joins(g, parts, which) /\ Joined(parts, which) = g[Len(parts)]
  BY <1>0, JoinedIs
<1>2. PICK h : Joins(h, parts, rest) /\ Joined(parts, rest) = h[Len(parts)]
  BY <1>0, JoinedIs
<1>3. PICK e : Joins(e, parts, first) /\ Joined(parts, first) = e[Len(parts)]
  BY <1>0, JoinedIs
<1>4. Len(parts) <= Len(parts)
  BY <1>0
<1>5. IsConcat(g[Len(parts)], g[a], h[Len(parts)])
  <2>1. Continues(h, rest, g, which, parts, a)
    BY <1>1, <1>2 DEF Continues
  <2> QED
    BY <1>0, <1>4, <2>1, JoinsSplit
<1>6. e[Len(parts)] = e[a]
  BY <1>0, <1>3, <1>4, JoinsStays
<1>7. e[a] = g[a]
  <2>1. PICK d \in Nat : d = 0
    OBVIOUS
  <2>2. a = d + a /\ e[d] = <<>> /\ Agree(parts, first, parts, which, d, a)
    <3>1. \A n \in 1..a : d + n = n
      BY <2>1
    <3>2. e[0] = <<>>
      BY <1>3 DEF Joins
    <3> QED
      BY <2>1, <3>1, <3>2 DEF Agree, Same
  <2> QED
    BY <1>0, <1>1, <1>3, <2>2, JoinsShift
<1> QED
  BY <1>1, <1>2, <1>3, <1>5, <1>6, <1>7 DEF IsConcat

LEMMA JoinedOne ==
  ASSUME NEW Q, Chains(Q), NEW parts, PartsIn(parts, Q), NEW i \in 1..Len(parts), NEW which,
         i \in which, \A n \in 1..Len(parts) : n \in which => n = i
  PROVE  Joined(parts, which) = parts[i]
<1>0. Len(parts) \in Nat /\ parts[i] \in Q /\ i \in Nat
  BY DEF PartsIn
<1>1. PICK g : Joins(g, parts, which) /\ Joined(parts, which) = g[Len(parts)]
  BY <1>0, JoinedIs
<1>2. i - 1 \in Nat /\ i - 1 <= Len(parts) /\ i <= Len(parts) /\ Len(parts) <= Len(parts)
      /\ NoneIn(which, 1, i - 1) /\ NoneIn(which, i + 1, Len(parts))
  BY <1>0 DEF NoneIn
<1>3. g[i - 1] = <<>>
  BY <1>0, <1>1, <1>2, JoinsNone
<1>4. g[i] = parts[i]
  <2>1. g[i] = g[i - 1] \o parts[i]
    BY <1>1 DEF Joins
  <2>2. <<>> \o parts[i] = parts[i]
    BY <1>0 DEF Chains
  <2> QED
    BY <1>3, <2>1, <2>2
<1>5. g[Len(parts)] = g[i]
  BY <1>0, <1>1, <1>2, JoinsStays
<1> QED
  BY <1>1, <1>4, <1>5

-----------------------------------------------------------------------------
(* Packets and their payloads *)

PayloadsOf(c) == [i \in 1..Len(c) |-> LayerPayload(c[i])]
Tally(c, which) ==
  [packets |-> Cardinality(which), bytes |-> Len(Joined(PayloadsOf(c), which))]
BytesSeqs == Seq(Alphabet)

LEMMA FunIsSeq ==
  ASSUME NEW S, NEW n \in Nat, NEW f \in [1..n -> S]
  PROVE  f \in Seq(S) /\ Len(f) = n
<1>1. f \in Seq(S)
  BY SeqDef
<1> QED
  BY <1>1, LenProperties

LEMMA ByteSeqsChain == Chains(BytesSeqs)
BY SequencesChain DEF BytesSeqs

LEMMA LenOfBytes ==
  ASSUME NEW x \in BytesSeqs, NEW y \in BytesSeqs
  PROVE  Len(x) \in Nat /\ Len(x \o y) = Len(x) + Len(y)
BY LenProperties, ConcatProperties DEF BytesSeqs

LEMMA LayerPayloadType ==
  ASSUME NEW p \in Packets
  PROVE  LayerPayload(p) \in BytesSeqs
<1>1. p.payload \in BytesSeqs
  BY PacketAssumption DEF BytesSeqs
<1>2. Padding(p) \in BytesSeqs
  <2>1. CASE p.padded /\ Len(p.payload) < PadTo
    <3>1. Len(p.payload) \in Nat
      BY <1>1, LenProperties DEF BytesSeqs
    <3>2. PadTo \in Nat /\ PaddingByte \in Alphabet
      BY PcapAssumption
    <3>3. PadTo - Len(p.payload) \in Nat
      BY <2>1, <3>1, <3>2
    <3>4. [i \in 1 .. PadTo - Len(p.payload) |-> PaddingByte]
            \in [1 .. PadTo - Len(p.payload) -> Alphabet]
      BY <3>2
    <3> QED
      BY <2>1, <3>3, <3>4, FunIsSeq DEF Padding, BytesSeqs
  <2>2. CASE ~(p.padded /\ Len(p.payload) < PadTo)
    BY <2>2, EmptySeq DEF Padding, BytesSeqs
  <2> QED
    BY <2>1, <2>2
<1> QED
  BY <1>1, <1>2, ByteSeqsChain DEF LayerPayload, Chains

LEMMA Appended ==
  ASSUME NEW c \in Seq(Packets), NEW p \in Packets
  PROVE  /\ Append(c, p) \in Seq(Packets) /\ Len(c) \in Nat
         /\ Len(Append(c, p)) = Len(c) + 1
         /\ \A i \in 1..Len(c) : Append(c, p)[i] = c[i] /\ c[i] \in Packets
         /\ Append(c, p)[Len(c) + 1] = p
<1>1. Len(c) \in Nat
  BY LenProperties
<1>2. \A i \in 1..Len(c) : c[i] \in Packets
  BY ElementOfSeq
<1>3. Append(c, p) \in Seq(Packets) /\ Len(Append(c, p)) = Len(c) + 1
  BY AppendProperties
<1>4. \A i \in 1..Len(c) : Append(c, p)[i] = c[i]
  BY AppendProperties
<1>5. Append(c, p)[Len(c) + 1] = p
  BY AppendProperties
<1> QED
  BY <1>1, <1>2, <1>3, <1>4, <1>5

LEMMA PayloadsType ==
  ASSUME NEW c \in Seq(Packets)
  PROVE  /\ Len(PayloadsOf(c)) = Len(c) /\ Len(c) \in Nat
         /\ PartsIn(PayloadsOf(c), BytesSeqs)
         /\ \A i \in 1..Len(c) : PayloadsOf(c)[i] = LayerPayload(c[i])
<1>1. Len(c) \in Nat /\ \A i \in 1..Len(c) : c[i] \in Packets
  BY LenProperties, ElementOfSeq
<1>2. PayloadsOf(c) \in [1..Len(c) -> BytesSeqs]
  BY <1>1, LayerPayloadType DEF PayloadsOf
<1>3. Len(PayloadsOf(c)) = Len(c)
  BY <1>1, <1>2, FunIsSeq
<1>4. \A i \in 1..Len(c) : PayloadsOf(c)[i] = LayerPayload(c[i]) /\ PayloadsOf(c)[i] \in BytesSeqs
  BY <1>2 DEF PayloadsOf
<1> QED
  BY <1>1, <1>3, <1>4 DEF PartsIn

LEMMA JoinedPayloadsType ==
  ASSUME NEW c \in Seq(Packets), NEW which
  PROVE  Joined(PayloadsOf(c), which) \in BytesSeqs
BY PayloadsType, ByteSeqsChain, JoinedType

LEMMA PayloadsMore ==
  ASSUME NEW c \in Seq(Packets), NEW p \in Packets, NEW which, which \subseteq 1..Len(c)
  PROVE  /\ Joined(PayloadsOf(Append(c, p)), which) = Joined(PayloadsOf(c), which)
         /\ IsConcat(Joined(PayloadsOf(Append(c, p)), which \cup {Len(c) + 1}),
                     Joined(PayloadsOf(c), which), LayerPayload(p))
<1> DEFINE old == PayloadsOf(c)
           new == PayloadsOf(Append(c, p))
           more == which \cup {Len(c) + 1}
<1>1. /\ Append(c, p) \in Seq(Packets) /\ Len(c) \in Nat /\ Len(Append(c, p)) = Len(c) + 1
      /\ \A i \in 1..Len(c) : Append(c, p)[i] = c[i]
      /\ Append(c, p)[Len(c) + 1] = p
  BY Appended
<1>2. Len(old) = Len(c) /\ \A i \in 1..Len(c) : old[i] = LayerPayload(c[i])
  BY PayloadsType
<1>3. Len(new) = Len(c) + 1 /\ \A i \in 1 .. Len(c) + 1 : new[i] = LayerPayload(Append(c, p)[i])
  BY <1>1, PayloadsType
<1>4. \A i \in 1..Len(old) : old[i] = new[i]
  BY <1>1, <1>2, <1>3
<1>5. new[Len(c) + 1] = LayerPayload(p)
  BY <1>1, <1>3
<1>6. /\ Len(old) \in Nat /\ Len(new) = Len(old) + 1
      /\ AgreeTo(old, which, new, which, Len(old)) /\ AgreeTo(old, which, new, more, Len(old))
      /\ Len(new) \in more /\ Len(new) \notin which
  BY <1>1, <1>2, <1>3, <1>4 DEF AgreeTo
<1> HIDE DEF old, new, more
<1>7. Joined(new, which) = Joined(old, which)
  BY <1>6, JoinedMore
<1>8. IsConcat(Joined(new, more), Joined(old, which), new[Len(new)])
  BY <1>6, JoinedMore
<1> QED
  BY <1>1, <1>3, <1>5, <1>7, <1>8 DEF old, new, more, IsConcat

LEMMA TallyNone ==
  ASSUME NEW c \in Seq(Packets)
  PROVE  Tally(c, {}) = [packets |-> 0, bytes |-> 0] /\ Joined(PayloadsOf(c), {}) = <<>>
<1>1. Len(PayloadsOf(c)) \in Nat /\ NoneIn({}, 1, Len(PayloadsOf(c)))
  BY PayloadsType DEF NoneIn
<1>2. Joined(PayloadsOf(c), {}) = <<>>
  BY <1>1, JoinedNone
<1> QED
  BY <1>2, FS_EmptySet DEF Tally

LEMMA TallyMore ==
  ASSUME NEW c \in Seq(Packets), NEW p \in Packets, NEW which, which \subseteq 1..Len(c)
  PROVE  /\ Tally(Append(c, p), which) = Tally(c, which)
         /\ Tally(Append(c, p), which \cup {Len(c) + 1}) = Counted(Tally(c, which), LayerPayload(p))
<1>1. Len(c) \in Nat
  BY Appended
<1>2. IsFiniteSet(which) /\ Len(c) + 1 \notin which
  <2>1. IsFiniteSet(1..Len(c))
    BY <1>1, FS_Interval
  <2>2. IsFiniteSet(which)
    BY <2>1, FS_Subset
  <2>3. Len(c) + 1 \notin 1..Len(c)
    BY <1>1
  <2> QED
    BY <2>2, <2>3
<1>3. Cardinality(which \cup {Len(c) + 1}) = Cardinality(which) + 1
  BY <1>2, FS_AddElement
<1>4. /\ Joined(PayloadsOf(Append(c, p)), which) = Joined(PayloadsOf(c), which)
      /\ IsConcat(Joined(PayloadsOf(Append(c, p)), which \cup {Len(c) + 1}),
                  Joined(PayloadsOf(c), which), LayerPayload(p))
  BY PayloadsMore
<1>5. Len(Joined(PayloadsOf(Append(c, p)), which \cup {Len(c) + 1}))
        = Len(Joined(PayloadsOf(c), which)) + Len(LayerPayload(p))
  BY <1>4, JoinedPayloadsType, LayerPayloadType, LenOfBytes DEF IsConcat
<1> QED
  BY <1>3, <1>4, <1>5 DEF Tally, Counted

-----------------------------------------------------------------------------
(* Keys *)

Streams == {p \in Packets : p.kind \in {"tcp", "udp"}}
Keys == {CanonicalFlow(p) : p \in Streams}

LEMMA PrecedesOrders ==
  ASSUME NEW e \in Endpoints, NEW f \in Endpoints
  PROVE  /\ Precedes(e, f) \/ Precedes(f, e)
         /\ Precedes(e, f) /\ Precedes(f, e) => e = f
<1>1. e.ip \in Nat /\ e.port \in Nat /\ f.ip \in Nat /\ f.port \in Nat
  BY DEF Endpoints
<1>2. e.ip = f.ip /\ e.port = f.port => e = f
  BY DEF Endpoints
<1> QED
  BY <1>1, <1>2 DEF Precedes

LEMMA CanonicalParts ==
  ASSUME NEW p \in Packets
  PROVE  LET key == CanonicalFlow(p) IN
         /\ key.protocol = p.kind /\ {key.a, key.b} = {p.src, p.dst}
         /\ {key.a, key.b} \subseteq Endpoints /\ Precedes(key.a, key.b)
         /\ key = [protocol |-> key.protocol, a |-> key.a, b |-> key.b]
<1>1. p.src \in Endpoints /\ p.dst \in Endpoints
  BY PacketAssumption
<1>2. Precedes(p.src, p.dst) \/ Precedes(p.dst, p.src)
  BY <1>1, PrecedesOrders
<1>3. CASE Precedes(p.src, p.dst)
  BY <1>1, <1>3 DEF CanonicalFlow
<1>4. CASE ~Precedes(p.src, p.dst)
  BY <1>1, <1>2, <1>4 DEF CanonicalFlow
<1> QED
  BY <1>3, <1>4

\* A packet is between the two ends of one key only.
LEMMA OneKey ==
  ASSUME NEW p \in Packets, NEW key \in Keys
  PROVE  Between(p, key) <=> key = CanonicalFlow(p)
<1>1. PICK q \in Packets : key = CanonicalFlow(q)
  BY DEF Keys, Streams
<1> DEFINE own == CanonicalFlow(p)
<1>2. /\ own.protocol = p.kind /\ {own.a, own.b} = {p.src, p.dst}
      /\ {own.a, own.b} \subseteq Endpoints /\ Precedes(own.a, own.b)
      /\ own = [protocol |-> own.protocol, a |-> own.a, b |-> own.b]
  BY CanonicalParts
<1>3. /\ {key.a, key.b} \subseteq Endpoints /\ Precedes(key.a, key.b)
      /\ key = [protocol |-> key.protocol, a |-> key.a, b |-> key.b]
  BY <1>1, CanonicalParts
<1> HIDE DEF own
<1>4. ASSUME Between(p, key) PROVE key = own
  <2>1. key.protocol = own.protocol /\ {key.a, key.b} = {own.a, own.b}
    BY <1>2, <1>4 DEF Between
  <2>2. (key.a = own.a /\ key.b = own.b) \/ (key.a = own.b /\ key.b = own.a)
    BY <2>1
  <2>3. CASE key.a = own.b /\ key.b = own.a
    <3>1. own.a \in Endpoints /\ own.b \in Endpoints
      BY <1>2
    <3>2. own.a = own.b
      BY <1>2, <1>3, <2>3, <3>1, PrecedesOrders
    <3> QED
      BY <1>2, <1>3, <2>1, <2>3, <3>2
  <2> QED
    BY <1>2, <1>3, <2>1, <2>2, <2>3
<1>5. key = own => Between(p, key)
  BY <1>2 DEF Between
<1> QED
  BY <1>4, <1>5 DEF own

LEMMA WantedIsInvolved ==
  ASSUME MacBesideIp, NEW p
  PROVE  Wanted(p) <=> Involved(p)
BY DEF Wanted, Involved, MacBesideIp

-----------------------------------------------------------------------------
(* The invariant *)

Sent(key) == {i \in Of(key) : capture[i].src = key.a}
Got(key) == Of(key) \ Sent(key)

TypesInv ==
  /\ capture \in Seq(Packets) /\ count = Len(capture)
  /\ DOMAIN flows \subseteq Keys
Covered ==
  \A i \in 1..Len(capture) :
    capture[i].kind \in {"tcp", "udp"} /\ Wanted(capture[i]) =>
      CanonicalFlow(capture[i]) \in DOMAIN flows
KeysInv == Covered /\ \A key \in DOMAIN flows : Of(key) # {}
CountsInv ==
  \A key \in DOMAIN flows :
    flows[key].aToB = Tally(capture, Sent(key)) /\ flows[key].bToA = Tally(capture, Got(key))
FlowsInv == TypesInv /\ (MacBesideIp => KeysInv /\ CountsInv)

LEMMA OfRange ==
  ASSUME NEW key
  PROVE  Of(key) \subseteq 1..Len(capture) /\ Sent(key) \subseteq Of(key) /\ Got(key) \subseteq Of(key)
BY DEF Of, Sent, Got

LEMMA YieldStep ==
  ASSUME TypesInv, NEW p \in Packets, Yield(p)
  PROVE  capture' \in Seq(Packets) /\ count' = Len(capture')
<1>1. capture \in Seq(Packets) /\ capture' = Append(capture, p) /\ count = Len(capture)
  BY DEF TypesInv, Yield
<1> QED
  BY <1>1, Appended DEF Yield

\* What a packet read changes of the numbers of a flow.
LEMMA OfGrows ==
  ASSUME TypesInv, MacBesideIp, NEW p \in Packets, Yield(p), NEW key
  PROVE  /\ Of(key)' = IF Between(p, key) /\ Involved(p) THEN Of(key) \cup {Len(capture) + 1} ELSE Of(key)
         /\ Sent(key)' = IF Between(p, key) /\ Involved(p) /\ FromA(key, p)
                         THEN Sent(key) \cup {Len(capture) + 1} ELSE Sent(key)
         /\ Got(key)' = IF Between(p, key) /\ Involved(p) /\ ~FromA(key, p)
                        THEN Got(key) \cup {Len(capture) + 1} ELSE Got(key)
<1> DEFINE n == Len(capture)
<1>1. capture \in Seq(Packets) /\ capture' = Append(capture, p) /\ options' = options
  BY DEF TypesInv, Yield
<1>2. /\ capture' \in Seq(Packets) /\ n \in Nat /\ Len(capture') = n + 1
      /\ \A i \in 1..n : capture'[i] = capture[i]
      /\ capture'[n + 1] = p
  BY <1>1, Appended
<1> HIDE DEF n
<1>4. 1 .. n + 1 = (1..n) \cup {n + 1} /\ n + 1 \notin 1..n
  BY <1>2
<1>5. \A q : Wanted(q)' <=> Wanted(q)
  BY <1>1 DEF Wanted
<1>6. Of(key)' = {i \in 1 .. n + 1 : Between(capture'[i], key) /\ Wanted(capture'[i])}
  BY <1>2, <1>5 DEF Of, Wanted
<1>7. Of(key) = {i \in 1..n : Between(capture[i], key) /\ Wanted(capture[i])}
  BY DEF Of, n
<1>8. Of(key)' = IF Between(p, key) /\ Involved(p) THEN Of(key) \cup {n + 1} ELSE Of(key)
  BY <1>2, <1>4, <1>6, <1>7, WantedIsInvolved
<1>9. \A i \in Of(key) : i \in 1..n /\ capture'[i] = capture[i]
  BY <1>2, <1>7
<1>10. Sent(key)' = {i \in Of(key)' : capture'[i].src = key.a}
  BY DEF Sent
<1>11. Sent(key)' = IF Between(p, key) /\ Involved(p) /\ FromA(key, p)
                    THEN Sent(key) \cup {n + 1} ELSE Sent(key)
  BY <1>2, <1>4, <1>8, <1>9, <1>10 DEF Sent, FromA
<1>12. Got(key)' = Of(key)' \ Sent(key)'
  BY DEF Got
<1>13. Got(key)' = IF Between(p, key) /\ Involved(p) /\ ~FromA(key, p)
                    THEN Got(key) \cup {n + 1} ELSE Got(key)
  <2>1. n + 1 \notin Of(key) /\ n + 1 \notin Sent(key) /\ Sent(key) \subseteq Of(key)
    BY <1>4, <1>9 DEF Sent
  <2> QED
    BY <1>8, <1>11, <1>12, <2>1 DEF Got
<1> QED
  BY <1>8, <1>11, <1>13 DEF n

\* The flow that a packet is added to.
FlowOf(key) == IF key \in DOMAIN flows THEN flows[key] ELSE NewFlow

LEMMA FlowOfNone ==
  ASSUME FlowsInv, MacBesideIp, NEW key \in Keys, key \notin DOMAIN flows
  PROVE  Of(key) = {} /\ Sent(key) = {} /\ Got(key) = {}
<1>1. ASSUME NEW i \in Of(key) PROVE FALSE
  <2>1. i \in 1..Len(capture) /\ Between(capture[i], key) /\ Wanted(capture[i])
    BY <1>1 DEF Of
  <2>2. capture[i] \in Packets
    BY <2>1, ElementOfSeq DEF FlowsInv, TypesInv
  <2>3. key = CanonicalFlow(capture[i])
    BY <2>1, <2>2, OneKey
  <2>4. key.protocol \in {"tcp", "udp"}
    BY CanonicalParts DEF Keys, Streams
  <2>5. capture[i].kind \in {"tcp", "udp"}
    BY <2>1, <2>4 DEF Between
  <2> QED
    BY <2>1, <2>3, <2>5 DEF FlowsInv, KeysInv, Covered
<1> QED
  BY <1>1 DEF Sent, Got

LEMMA CountsOfFlow ==
  ASSUME FlowsInv, MacBesideIp, NEW key \in Keys
  PROVE  FlowOf(key).aToB = Tally(capture, Sent(key)) /\ FlowOf(key).bToA = Tally(capture, Got(key))
<1>1. CASE key \in DOMAIN flows
  BY <1>1 DEF FlowsInv, CountsInv, FlowOf
<1>2. CASE key \notin DOMAIN flows
  <2>1. Sent(key) = {} /\ Got(key) = {}
    BY <1>2, FlowOfNone
  <2>2. Tally(capture, {}) = [packets |-> 0, bytes |-> 0]
    BY TallyNone DEF FlowsInv, TypesInv
  <2> QED
    BY <1>2, <2>1, <2>2 DEF FlowOf, NewFlow
<1> QED
  BY <1>1, <1>2

LEMMA ObserveFlowStep ==
  ASSUME TypesInv, NEW p \in Packets, ObserveFlow(p), NEW own, own = CanonicalFlow(p)
  PROVE  /\ own \in Keys /\ Between(p, own) /\ Involved(p) /\ Yield(p)
         /\ DOMAIN flows' = DOMAIN flows \cup {own}
         /\ flows'[own] = Observe(FlowOf(own), own, p)
         /\ \A key \in DOMAIN flows \ {own} : flows'[key] = flows[key] /\ ~Between(p, key)
<1>1. own \in Keys
  BY DEF Keys, Streams, ObserveFlow
<1>2. Between(p, own)
  BY <1>1, OneKey
<1>3. flows' = [k \in DOMAIN flows \cup {own} |-> IF k = own THEN Observe(FlowOf(own), own, p) ELSE flows[k]]
  BY DEF ObserveFlow, FlowOf
<1>4. ASSUME NEW key \in DOMAIN flows \ {own} PROVE flows'[key] = flows[key] /\ ~Between(p, key)
  BY <1>3, OneKey DEF FlowsInv, TypesInv
<1> QED
  BY <1>1, <1>2, <1>3, <1>4 DEF ObserveFlow

\* A packet that goes into no flow is of none.
LEMMA OtherStep ==
  ASSUME TypesInv, NEW p \in Packets, SkipPacket(p) \/ ObserveArp(p)
  PROVE  /\ Yield(p) /\ flows' = flows
         /\ ~(p.kind \in {"tcp", "udp"} /\ Involved(p))
         /\ \A key \in DOMAIN flows : ~(Between(p, key) /\ Involved(p))
<1>1. Yield(p) /\ flows' = flows /\ ~(p.kind \in {"tcp", "udp"} /\ Involved(p))
  BY DEF SkipPacket, ObserveArp
<1>2. ASSUME NEW key \in DOMAIN flows, Between(p, key) PROVE p.kind \in {"tcp", "udp"}
  <2>1. key \in Keys
    BY DEF FlowsInv, TypesInv
  <2>2. key.protocol \in {"tcp", "udp"}
    BY <2>1, CanonicalParts DEF Keys, Streams
  <2> QED
    BY <1>2, <2>2 DEF Between
<1> QED
  BY <1>1, <1>2

LEMMA KeysStep ==
  ASSUME FlowsInv, MacBesideIp, NEW p \in Packets, Yield(p),
         \A key \in DOMAIN flows : key \in DOMAIN flows',
         p.kind \in {"tcp", "udp"} /\ Involved(p) => CanonicalFlow(p) \in DOMAIN flows'
  PROVE  Covered'
<1>1. capture \in Seq(Packets) /\ capture' = Append(capture, p) /\ options' = options
  BY DEF FlowsInv, TypesInv, Yield
<1>2. /\ Len(capture) \in Nat /\ Len(capture') = Len(capture) + 1
      /\ \A i \in 1..Len(capture) : capture'[i] = capture[i]
      /\ capture'[Len(capture) + 1] = p
  BY <1>1, Appended
<1>4. ASSUME NEW i \in 1..Len(capture'), capture'[i].kind \in {"tcp", "udp"}, Wanted(capture[i])'
      PROVE  CanonicalFlow(capture'[i]) \in DOMAIN flows'
  <2>1. Wanted(capture'[i])
    BY <1>1, <1>4 DEF Wanted
  <2>2. CASE i \in 1..Len(capture)
    <3>1. capture[i].kind \in {"tcp", "udp"} /\ Wanted(capture[i])
      BY <1>2, <1>4, <2>1, <2>2
    <3> QED
      BY <1>2, <2>2, <3>1 DEF FlowsInv, KeysInv, Covered
  <2>3. CASE i = Len(capture) + 1
    BY <1>2, <1>4, <2>1, <2>3, WantedIsInvolved
  <2> QED
    BY <1>2, <2>2, <2>3
<1> QED
  BY <1>4 DEF Covered

\* The counts of a flow that a packet does, or does not, belong to.
LEMMA TallyStep ==
  ASSUME TypesInv, MacBesideIp, NEW p \in Packets, Yield(p), NEW key
  PROVE  /\ ~(Between(p, key) /\ Involved(p)) =>
              /\ Tally(capture', Sent(key)') = Tally(capture, Sent(key))
              /\ Tally(capture', Got(key)') = Tally(capture, Got(key))
         /\ Between(p, key) /\ Involved(p) =>
              /\ Tally(capture', Sent(key)')
                   = IF FromA(key, p) THEN Counted(Tally(capture, Sent(key)), LayerPayload(p))
                     ELSE Tally(capture, Sent(key))
              /\ Tally(capture', Got(key)')
                   = IF FromA(key, p) THEN Tally(capture, Got(key))
                     ELSE Counted(Tally(capture, Got(key)), LayerPayload(p))
<1>1. capture \in Seq(Packets) /\ capture' = Append(capture, p)
  BY DEF TypesInv, Yield
<1>2. Sent(key) \subseteq 1..Len(capture) /\ Got(key) \subseteq 1..Len(capture)
  BY OfRange
<1>3. ASSUME NEW which \in {Sent(key), Got(key)}
      PROVE  /\ Tally(capture', which) = Tally(capture, which)
             /\ Tally(capture', which \cup {Len(capture) + 1})
                  = Counted(Tally(capture, which), LayerPayload(p))
  BY <1>1, <1>2, TallyMore
<1>4. /\ Sent(key)' = IF Between(p, key) /\ Involved(p) /\ FromA(key, p)
                      THEN Sent(key) \cup {Len(capture) + 1} ELSE Sent(key)
      /\ Got(key)' = IF Between(p, key) /\ Involved(p) /\ ~FromA(key, p)
                     THEN Got(key) \cup {Len(capture) + 1} ELSE Got(key)
  BY OfGrows
<1> QED
  BY <1>3, <1>4

LEMMA FlowsInvHolds == Spec => []FlowsInv
<1>1. Init => FlowsInv
  <2> SUFFICES ASSUME Init PROVE FlowsInv
    OBVIOUS
  <2>1. capture = <<>> /\ capture \in Seq(Packets) /\ Len(capture) = 0 /\ DOMAIN flows = {} /\ count = 0
    BY EmptySeq DEF Init
  <2>2. TypesInv
    BY <2>1 DEF TypesInv
  <2>3. KeysInv
    BY <2>1 DEF KeysInv, Covered
  <2>4. CountsInv
    BY <2>1 DEF CountsInv
  <2> QED
    BY <2>2, <2>3, <2>4 DEF FlowsInv
<1>2. FlowsInv /\ [Next]_vars => FlowsInv'
  <2> SUFFICES ASSUME FlowsInv, [Next]_vars PROVE FlowsInv'
    OBVIOUS
  <2>0. TypesInv /\ (MacBesideIp => KeysInv /\ CountsInv)
    BY DEF FlowsInv
  <2>1. ASSUME NEW p \in Packets, SkipPacket(p) \/ ObserveArp(p) PROVE FlowsInv'
    <3>1. /\ Yield(p) /\ flows' = flows /\ ~(p.kind \in {"tcp", "udp"} /\ Involved(p))
          /\ \A key \in DOMAIN flows : ~(Between(p, key) /\ Involved(p))
      BY <2>0, <2>1, OtherStep
    <3>2. TypesInv' /\ (MacBesideIp' <=> MacBesideIp)
      BY <2>0, <3>1, YieldStep DEF TypesInv, MacBesideIp, Yield
    <3>3. ASSUME MacBesideIp PROVE KeysInv'
      <4>1. \A key \in DOMAIN flows : Of(key)' = Of(key)
        BY <2>0, <3>1, <3>3, OfGrows
      <4>2. Covered'
        BY <3>1, <3>3, KeysStep
      <4> QED
        BY <2>0, <3>1, <3>3, <4>1, <4>2 DEF KeysInv
    <3>4. ASSUME MacBesideIp PROVE CountsInv'
      <4>1. \A key \in DOMAIN flows : /\ Tally(capture', Sent(key)') = Tally(capture, Sent(key))
                                      /\ Tally(capture', Got(key)') = Tally(capture, Got(key))
        BY <2>0, <3>1, <3>4, TallyStep
      <4> QED
        BY <2>0, <3>1, <3>4, <4>1 DEF CountsInv
    <3> QED
      BY <3>2, <3>3, <3>4 DEF FlowsInv
  <2>2. ASSUME NEW p \in Packets, ObserveFlow(p) PROVE FlowsInv'
    <3>1. PICK own : own = CanonicalFlow(p)
      OBVIOUS
    <3>2. /\ own \in Keys /\ Between(p, own) /\ Involved(p) /\ Yield(p)
          /\ DOMAIN flows' = DOMAIN flows \cup {own}
          /\ flows'[own] = Observe(FlowOf(own), own, p)
          /\ \A key \in DOMAIN flows \ {own} : flows'[key] = flows[key] /\ ~Between(p, key)
      BY <2>0, <2>2, <3>1, ObserveFlowStep
    <3>3. TypesInv' /\ (MacBesideIp' <=> MacBesideIp)
      BY <2>0, <3>2, YieldStep DEF TypesInv, MacBesideIp, Yield
    <3>4. ASSUME MacBesideIp PROVE KeysInv'
      <4>1. \A key \in DOMAIN flows \ {own} : Of(key)' = Of(key)
        BY <2>0, <3>2, <3>4, OfGrows
      <4>2. Of(own)' # {}
        BY <2>0, <3>2, <3>4, OfGrows
      <4>3. Covered'
        BY <3>1, <3>2, <3>4, KeysStep
      <4> QED
        BY <2>0, <3>2, <3>4, <4>1, <4>2, <4>3 DEF KeysInv
    <3>5. ASSUME MacBesideIp PROVE CountsInv'
      <4>1. ASSUME NEW key \in DOMAIN flows \ {own}
            PROVE  flows'[key].aToB = Tally(capture, Sent(key))' /\ flows'[key].bToA = Tally(capture, Got(key))'
        <5>1. /\ Tally(capture', Sent(key)') = Tally(capture, Sent(key))
              /\ Tally(capture', Got(key)') = Tally(capture, Got(key))
          BY <2>0, <3>2, <3>5, <4>1, TallyStep
        <5> QED
          BY <2>0, <3>2, <3>5, <5>1 DEF CountsInv
      <4>2. flows'[own].aToB = Tally(capture', Sent(own)') /\ flows'[own].bToA = Tally(capture', Got(own)')
        <5>1. FlowOf(own).aToB = Tally(capture, Sent(own)) /\ FlowOf(own).bToA = Tally(capture, Got(own))
          BY <3>2, <3>5, CountsOfFlow
        <5>2. /\ Tally(capture', Sent(own)')
                   = IF FromA(own, p) THEN Counted(Tally(capture, Sent(own)), LayerPayload(p))
                     ELSE Tally(capture, Sent(own))
              /\ Tally(capture', Got(own)')
                   = IF FromA(own, p) THEN Tally(capture, Got(own))
                     ELSE Counted(Tally(capture, Got(own)), LayerPayload(p))
          BY <2>0, <3>2, <3>5, TallyStep
        <5>3. /\ flows'[own].aToB = IF FromA(own, p) THEN Counted(FlowOf(own).aToB, LayerPayload(p))
                                    ELSE FlowOf(own).aToB
              /\ flows'[own].bToA = IF FromA(own, p) THEN FlowOf(own).bToA
                                    ELSE Counted(FlowOf(own).bToA, LayerPayload(p))
          BY <3>2 DEF Observe
        <5> QED
          BY <5>1, <5>2, <5>3
      <4> QED
        BY <3>2, <4>1, <4>2 DEF CountsInv
    <3> QED
      BY <3>3, <3>4, <3>5 DEF FlowsInv
  <2>3. CASE EndOfFile \/ BadFile \/ UNCHANGED vars
    <3>1. flows' = flows /\ capture' = capture /\ options' = options /\ count' = count
      BY <2>3 DEF EndOfFile, BadFile, vars
    <3>2. \A q : Wanted(q)' <=> Wanted(q)
      BY <3>1 DEF Wanted
    <3>3. \A key : Of(key)' = Of(key) /\ Sent(key)' = Sent(key) /\ Got(key)' = Got(key)
      BY <3>1, <3>2 DEF Of, Sent, Got, Wanted
    <3>4. TypesInv' /\ (MacBesideIp' <=> MacBesideIp)
      BY <2>0, <3>1 DEF TypesInv, MacBesideIp
    <3>5. ASSUME MacBesideIp PROVE KeysInv'
      BY <2>0, <3>1, <3>2, <3>3, <3>5 DEF KeysInv, Covered, Wanted
    <3>6. ASSUME MacBesideIp PROVE CountsInv'
      BY <2>0, <3>1, <3>3, <3>6 DEF CountsInv
    <3> QED
      BY <3>4, <3>5, <3>6 DEF FlowsInv
  <2> QED
    BY <2>1, <2>2, <2>3 DEF Next
<1> QED
  BY <1>1, <1>2, PTL DEF Spec

\* Every packet is counted, and every one with an end that the command line names is
\* counted once more, in one flow and one direction: Flow.observe, canonical_flow and
\* the filter of analyze agree, unless a MAC is named and no IP.
THEOREM EveryPacketIsCounted == Spec => []DirectionsAreAccounted
<1>1. FlowsInv => DirectionsAreAccounted
  <2> SUFFICES ASSUME FlowsInv PROVE DirectionsAreAccounted
    OBVIOUS
  <2>1. count = Len(capture) /\ TypesInv
    BY DEF FlowsInv, TypesInv
  <2>2. ASSUME MacBesideIp PROVE \A key \in DOMAIN flows : Of(key) # {}
    BY <2>2 DEF FlowsInv, KeysInv
  <2>3. ASSUME MacBesideIp, NEW i \in 1..Len(capture), capture[i].kind \in {"tcp", "udp"},
               Wanted(capture[i])
        PROVE  Cardinality({key \in DOMAIN flows : Between(capture[i], key)}) = 1
    <3>1. capture[i] \in Packets
      BY <2>1, ElementOfSeq DEF TypesInv
    <3>2. {key \in DOMAIN flows : Between(capture[i], key)} = {CanonicalFlow(capture[i])}
      BY <2>1, <2>3, <3>1, OneKey DEF FlowsInv, TypesInv, KeysInv, Covered
    <3> QED
      BY <3>2, FS_Singleton
  <2>4. ASSUME MacBesideIp, NEW key \in DOMAIN flows
        PROVE  LET sent == {i \in Of(key) : capture[i].src = key.a}
                   got == Of(key) \ sent
               IN /\ flows[key].aToB = [packets |-> Cardinality(sent), bytes |-> Len(Bytes(sent))]
                  /\ flows[key].bToA = [packets |-> Cardinality(got), bytes |-> Len(Bytes(got))]
    BY <2>4 DEF FlowsInv, CountsInv, Tally, Sent, Got, Bytes, Payloads, PayloadsOf
  <2> QED
    BY <2>1, <2>2, <2>3, <2>4 DEF DirectionsAreAccounted
<1> QED
  BY <1>1, FlowsInvHolds, PTL

-----------------------------------------------------------------------------
(* SumFunction *)

Picked(s) == CHOOSE x \in s : TRUE
SumRule(g, f, s) == IF s = {} THEN 0 ELSE f[Picked(s)] + g[s \ {Picked(s)}]
SumsUp(g, f) == \A s \in SUBSET (DOMAIN f) : g[s] = SumRule(g, f, s)

LEMMA PickedIsOne ==
  ASSUME NEW s, s # {}
  PROVE  Picked(s) \in s
BY DEF Picked

LEMMA OneLess ==
  ASSUME NEW s, IsFiniteSet(s), s # {}
  PROVE  /\ IsFiniteSet(s \ {Picked(s)}) /\ Cardinality(s) \in Nat
         /\ Cardinality(s \ {Picked(s)}) = Cardinality(s) - 1
BY PickedIsOne, FS_RemoveElement, FS_CardinalityType

LEMMA SumIs ==
  ASSUME NEW f, IsFiniteSet(DOMAIN f)
  PROVE  \E g : SumsUp(g, f) /\ SumFunction(f) = g[DOMAIN f]
<1> DEFINE D == DOMAIN f
           Right(g) == g = [s \in SUBSET D |-> IF s = {} THEN 0 ELSE f[Picked(s)] + g[s \ {Picked(s)}]]
           UpTo(g, m) == \A s \in SUBSET D : Cardinality(s) <= m => g[s] = SumRule(g, f, s)
           P == {m \in Nat : \E g : UpTo(g, m)}
           c == CHOOSE g : Right(g)
<1>1. \A s \in SUBSET D : IsFiniteSet(s) /\ Cardinality(s) \in Nat
  BY FS_Subset, FS_CardinalityType
<1>2. 0 \in P
  <2> DEFINE g == [s \in SUBSET D |-> 0]
  <2>1. ASSUME NEW s \in SUBSET D, Cardinality(s) <= 0 PROVE g[s] = SumRule(g, f, s)
    <3>1. s = {}
      BY <1>1, <2>1, FS_EmptySet
    <3> QED
      BY <3>1 DEF SumRule
  <2> HIDE DEF g
  <2> QED
    BY <2>1
<1>3. ASSUME NEW m \in Nat, m \in P PROVE m + 1 \in P
  <2>1. PICK g : UpTo(g, m)
    BY <1>3
  <2> DEFINE h == [s \in SUBSET D |-> IF Cardinality(s) <= m THEN g[s] ELSE SumRule(g, f, s)]
  <2>2. ASSUME NEW s \in SUBSET D, Cardinality(s) <= m + 1 PROVE h[s] = SumRule(h, f, s)
    <3>1. h[s] = SumRule(g, f, s)
      BY <2>1
    <3>2. SumRule(h, f, s) = SumRule(g, f, s)
      <4>1. CASE s = {}
        BY <4>1 DEF SumRule
      <4>2. CASE s # {}
        <5>1. Cardinality(s \ {Picked(s)}) = Cardinality(s) - 1 /\ Cardinality(s) \in Nat
          BY <1>1, <4>2, OneLess
        <5>2. Cardinality(s \ {Picked(s)}) <= m /\ s \ {Picked(s)} \in SUBSET D
          BY <2>2, <5>1
        <5>3. h[s \ {Picked(s)}] = g[s \ {Picked(s)}]
          BY <5>2
        <5> HIDE DEF h
        <5> QED
          BY <5>3 DEF SumRule
      <4> QED
        BY <4>1, <4>2
    <3> QED
      BY <3>1, <3>2
  <2> HIDE DEF h
  <2> QED
    BY <2>2
<1> HIDE DEF P
<1>4. Cardinality(D) \in P
  BY <1>1, <1>2, <1>3, SetInduction
<1>5. PICK g : UpTo(g, Cardinality(D))
  BY <1>4 DEF P
<1> DEFINE k == [s \in SUBSET D |-> IF s = {} THEN 0 ELSE g[s]]
<1>6. \A s \in SUBSET D : g[s] = SumRule(g, f, s)
  <2>1. \A s \in SUBSET D : Cardinality(s) <= Cardinality(D)
    BY FS_Subset
  <2> QED
    BY <1>5, <2>1
<1>7. k = [s \in SUBSET D |-> IF s = {} THEN 0 ELSE f[Picked(s)] + k[s \ {Picked(s)}]]
  <2>1. ASSUME NEW s \in SUBSET D
        PROVE  k[s] = IF s = {} THEN 0 ELSE f[Picked(s)] + k[s \ {Picked(s)}]
    <3>1. CASE s = {}
      BY <3>1
    <3>2. CASE s # {}
      <4>1. k[s] = f[Picked(s)] + g[s \ {Picked(s)}]
        BY <1>6, <3>2 DEF SumRule
      <4>2. k[s \ {Picked(s)}] = g[s \ {Picked(s)}]
        <5>1. s \ {Picked(s)} \in SUBSET D
          OBVIOUS
        <5>2. {} \in SUBSET D /\ g[{}] = 0
          BY <1>6 DEF SumRule
        <5>3. CASE s \ {Picked(s)} = {}
          BY <5>2, <5>3
        <5>4. CASE s \ {Picked(s)} # {}
          BY <5>1, <5>4
        <5> QED
          BY <5>3, <5>4
      <4> HIDE DEF k
      <4> QED
        BY <3>2, <4>1, <4>2
    <3> QED
      BY <3>1, <3>2
  <2> DEFINE r == [s \in SUBSET D |-> IF s = {} THEN 0 ELSE f[Picked(s)] + k[s \ {Picked(s)}]]
  <2>2. DOMAIN k = SUBSET D /\ k = [s \in SUBSET D |-> k[s]]
    OBVIOUS
  <2> HIDE DEF k
  <2> QED
    BY <2>1, <2>2
<1>8. Right(c)
  <2> HIDE DEF k
  <2> QED
    BY <1>7
<1>9. SumFunction(f) = c[D]
  BY DEF SumFunction, SumFunctionOnSet, FoldFunctionOnSet, MapThenFoldSet, Picked
<1> HIDE DEF c
<1>10. SumsUp(c, f)
  BY <1>8 DEF SumsUp, SumRule
<1> QED
  BY <1>9, <1>10

\* A sum of lengths is zero when all of them are.
LEMMA SumIsZero ==
  ASSUME NEW f, IsFiniteSet(DOMAIN f), \A x \in DOMAIN f : f[x] \in Nat
  PROVE  SumFunction(f) = 0 <=> \A x \in DOMAIN f : f[x] = 0
<1> DEFINE D == DOMAIN f
           Fine(g, s) == g[s] \in Nat /\ (g[s] = 0 <=> \A x \in s : f[x] = 0)
<1>1. PICK g : SumsUp(g, f) /\ SumFunction(f) = g[D]
  BY SumIs
<1> DEFINE P == {m \in Nat : \A s \in SUBSET D : Cardinality(s) = m => Fine(g, s)}
<1>2. \A s \in SUBSET D : IsFiniteSet(s) /\ Cardinality(s) \in Nat
  BY FS_Subset, FS_CardinalityType
<1>3. 0 \in P
  <2>1. ASSUME NEW s \in SUBSET D, Cardinality(s) = 0 PROVE Fine(g, s)
    <3>1. s = {}
      BY <1>2, <2>1, FS_EmptySet
    <3>2. {} \in SUBSET D
      OBVIOUS
    <3>3. g[{}] = 0
      BY <1>1, <3>2 DEF SumsUp, SumRule
    <3> QED
      BY <3>1, <3>3
  <2> QED
    BY <2>1
<1>4. ASSUME NEW m \in Nat, m \in P PROVE m + 1 \in P
  <2>1. ASSUME NEW s \in SUBSET D, Cardinality(s) = m + 1 PROVE Fine(g, s)
    <3>1. s # {}
      BY <2>1, FS_EmptySet
    <3> DEFINE r == s \ {Picked(s)}
    <3>2. Cardinality(r) = m /\ r \in SUBSET D
      BY <1>2, <2>1, <3>1, OneLess
    <3>3. g[s] = f[Picked(s)] + g[r] /\ Picked(s) \in s /\ f[Picked(s)] \in Nat
      BY <1>1, <3>1, PickedIsOne DEF SumsUp, SumRule
    <3>4. g[r] \in Nat /\ (g[r] = 0 <=> \A x \in r : f[x] = 0)
      BY <1>4, <3>2
    <3>5. (\A x \in s : f[x] = 0) <=> f[Picked(s)] = 0 /\ \A x \in r : f[x] = 0
      BY <3>3
    <3> HIDE DEF r
    <3>6. g[s] \in Nat /\ (g[s] = 0 <=> f[Picked(s)] = 0 /\ g[r] = 0)
      BY <3>3, <3>4
    <3> QED
      BY <3>4, <3>5, <3>6
  <2> QED
    BY <2>1
<1> HIDE DEF P
<1>5. Cardinality(D) \in P
  BY <1>2, <1>3, <1>4, SetInduction
<1>6. Fine(g, D)
  BY <1>5 DEF P
<1> QED
  BY <1>1, <1>6

-----------------------------------------------------------------------------
(* Bytes, and what they begin with *)

LEMMA BytesAre ==
  ASSUME NEW bytes \in BytesSeqs
  PROVE  Len(bytes) \in Nat /\ \A i \in 1..Len(bytes) : bytes[i] \in Alphabet
BY LenProperties, ElementOfSeq DEF BytesSeqs

LEMMA PieceIs ==
  ASSUME NEW bytes \in BytesSeqs, NEW a \in Nat \ {0}, NEW b \in Nat, b <= Len(bytes)
  PROVE  /\ SubSeq(bytes, a, b) \in BytesSeqs
         /\ Len(SubSeq(bytes, a, b)) = IF a <= b THEN b - a + 1 ELSE 0
         /\ \A k \in 1 .. b - a + 1 : SubSeq(bytes, a, b)[k] = bytes[a + k - 1]
<1>1. \A i \in a..b : bytes[i] \in Alphabet
  <2>1. \A i \in a..b : i \in 1..Len(bytes)
    BY BytesAre
  <2> QED
    BY <2>1, BytesAre
<1>2. /\ SubSeq(bytes, a, b) \in Seq(Alphabet)
      /\ Len(SubSeq(bytes, a, b)) = IF a <= b THEN b - a + 1 ELSE 0
      /\ \A i \in 1 .. b - a + 1 : SubSeq(bytes, a, b)[i] = bytes[a + i - 1]
  BY <1>1, SubSeqProperties
<1> QED
  BY <1>2 DEF BytesSeqs

LEMMA BytesEqual ==
  ASSUME NEW s \in BytesSeqs, NEW t \in BytesSeqs, Len(s) = Len(t),
         \A i \in 1..Len(s) : s[i] = t[i]
  PROVE  s = t
BY SeqEqual DEF BytesSeqs

LEMMA FromIs ==
  ASSUME NEW bytes \in BytesSeqs, NEW i \in 1 .. Len(bytes) + 1
  PROVE  /\ From(bytes, i) \in BytesSeqs /\ Len(From(bytes, i)) = Len(bytes) + 1 - i
         /\ Len(bytes) \in Nat /\ Len(bytes) + 1 - i \in Nat
         /\ \A k \in 1 .. Len(bytes) + 1 - i : From(bytes, i)[k] = bytes[i + k - 1]
<1>1. PICK n \in Nat : n = Len(bytes)
  BY BytesAre
<1>2. i \in Nat \ {0} /\ n <= Len(bytes) /\ n - i + 1 = n + 1 - i /\ n + 1 - i \in Nat
      /\ (~(i <= n) => n + 1 - i = 0)
  BY <1>1
<1>3. /\ SubSeq(bytes, i, n) \in BytesSeqs
      /\ Len(SubSeq(bytes, i, n)) = IF i <= n THEN n - i + 1 ELSE 0
      /\ \A k \in 1 .. n - i + 1 : SubSeq(bytes, i, n)[k] = bytes[i + k - 1]
  BY <1>2, PieceIs
<1>4. From(bytes, i) = SubSeq(bytes, i, n)
  BY <1>1 DEF From
<1> HIDE DEF From
<1> QED
  BY <1>1, <1>2, <1>3, <1>4

\* A preamble whose frame, if it is one, is not all there.
Undecided(s) == s[1] = Preamble /\ Incomplete(s)

LEMMA HeaderIs ==
  ASSUME NEW s \in BytesSeqs, Len(s) >= 3
  PROVE  /\ PayloadLength(s) \in Nat /\ FrameLength(s) \in Nat /\ FrameLength(s) >= 4
         /\ FrameLength(s) >= 3 + CrcSize /\ CrcSize \in Nat
         /\ HeaderIsRight(s) <=> ReservedBits(s) = 0
<1>1. 2 \in 1..Len(s) /\ 3 \in 1..Len(s)
  BY BytesAre
<1> DEFINE high == s[2]
           low == s[3]
<1>2. high \in 0..255 /\ low \in 0..255
  BY <1>1, BytesAre, FrameAssumption
<1>3. PayloadLength(s) = (high % 4) * 256 + low
  BY DEF PayloadLength
<1> HIDE DEF high, low
<1>4. high % 4 \in 0..3
  BY <1>2
<1>5. PayloadLength(s) \in 0..1023
  BY <1>2, <1>3, <1>4
<1>6. PICK n \in 0..1023 : n = PayloadLength(s)
  BY ZenonT(60), <1>5
<1>7. PICK c \in Nat : c = CrcSize /\ c > 0
  BY FrameAssumption
<1>8. FrameLength(s) = 3 + n + c
  BY <1>6, <1>7 DEF FrameLength
<1>9. /\ 3 + n + c \in Nat /\ 3 + n + c >= 4 /\ 3 + n + c >= 3 + c
      /\ n \in Nat /\ n <= 1023
  BY <1>7
<1>10. HeaderIsRight(s) <=> ReservedBits(s) = 0 /\ n <= 1023
  BY <1>6, FrameAssumption DEF HeaderIsRight
<1> QED
  BY <1>6, <1>7, <1>8, <1>9, <1>10

LEMMA CandidateIs ==
  ASSUME NEW s \in BytesSeqs, Len(s) >= 3, FrameLength(s) <= Len(s)
  PROVE  /\ Candidate(s) \in BytesSeqs /\ Len(Candidate(s)) = FrameLength(s)
         /\ FrameLength(s) \in 4..Len(s)
         /\ \A k \in 1..FrameLength(s) : Candidate(s)[k] = s[k]
         /\ PayloadLength(Candidate(s)) = PayloadLength(s)
         /\ IsFrame(Candidate(s)) <=>
              s[1] = Preamble /\ ReservedBits(s) = 0 /\ CrcIsRight(Candidate(s))
<1>1. /\ FrameLength(s) \in Nat /\ FrameLength(s) >= 4 /\ FrameLength(s) >= 3 + CrcSize
      /\ CrcSize \in Nat
  BY HeaderIs
<1>2. PICK n \in Nat : n = FrameLength(s) /\ n >= 4 /\ n <= Len(s)
  BY <1>1
<1>3. PICK raw : raw = Candidate(s)
  OBVIOUS
<1>4. raw = SubSeq(s, 1, n)
  BY <1>2, <1>3 DEF Candidate
<1>5. raw \in BytesSeqs /\ Len(raw) = n /\ \A k \in 1..n : raw[k] = s[k]
  <2>1. 1 \in Nat \ {0} /\ n - 1 + 1 = n /\ 1 <= n /\ \A k \in 1..n : 1 + k - 1 = k
    BY <1>2
  <2>2. /\ SubSeq(s, 1, n) \in BytesSeqs
        /\ Len(SubSeq(s, 1, n)) = IF 1 <= n THEN n - 1 + 1 ELSE 0
        /\ \A k \in 1 .. n - 1 + 1 : SubSeq(s, 1, n)[k] = s[1 + k - 1]
    BY <1>2, <2>1, PieceIs
  <2> QED
    BY <1>4, <2>1, <2>2
<1>6. raw[1] = s[1] /\ raw[2] = s[2] /\ raw[3] = s[3]
  BY <1>2, <1>5
<1>7. PayloadLength(raw) = PayloadLength(s) /\ ReservedBits(raw) = ReservedBits(s)
  BY <1>6 DEF PayloadLength, ReservedBits
<1>8. FrameLength(raw) = n
  BY <1>2, <1>7 DEF FrameLength
<1>9. n \in 4..Len(s)
  BY <1>2, BytesAre
<1>10. IsFrame(raw) <=> s[1] = Preamble /\ ReservedBits(s) = 0 /\ CrcIsRight(raw)
  <2>1. Len(raw) >= 3 + CrcSize /\ Len(raw) = FrameLength(raw)
    BY <1>1, <1>2, <1>5, <1>8
  <2> QED
    BY <1>6, <1>7, <2>1 DEF IsFrame
<1> QED
  BY <1>2, <1>3, <1>5, <1>7, <1>9, <1>10

\* What the parser looks at decides whether a frame begins.
LEMMA BeginsIs ==
  ASSUME NEW s \in BytesSeqs
  PROVE  /\ BeginsFrame(s) <=>
              /\ s[1] = Preamble /\ ~Incomplete(s) /\ HeaderIsRight(s)
              /\ CrcIsRight(Candidate(s))
         /\ BeginsFrame(s) => ~Undecided(s)
         /\ ~Incomplete(s) => Len(s) >= 3
         /\ ~Incomplete(s) /\ HeaderIsRight(s) => FrameLength(s) <= Len(s)
<1>0. Len(s) \in Nat
  BY BytesAre
<1>1. CASE Len(s) < 3
  <2>1. Incomplete(s) /\ ~BeginsFrame(s)
    BY <1>0, <1>1 DEF Incomplete, BeginsFrame
  <2> QED
    BY <2>1
<1>2. CASE Len(s) >= 3
  <2>1. FrameLength(s) \in Nat /\ (HeaderIsRight(s) <=> ReservedBits(s) = 0)
    BY <1>2, HeaderIs
  <2>2. Incomplete(s) <=> HeaderIsRight(s) /\ ~(FrameLength(s) <= Len(s))
    BY <1>0, <1>2, <2>1 DEF Incomplete
  <2>3. FrameLength(s) <= Len(s) =>
          (IsFrame(Candidate(s)) <=> s[1] = Preamble /\ HeaderIsRight(s) /\ CrcIsRight(Candidate(s)))
    BY <1>2, <2>1, CandidateIs
  <2>4. BeginsFrame(s) <=> FrameLength(s) <= Len(s) /\ IsFrame(Candidate(s))
    BY <1>2 DEF BeginsFrame
  <2> QED
    BY <1>2, <2>2, <2>3, <2>4 DEF Undecided
<1> QED
  BY <1>0, <1>1, <1>2

LEMMA OccurrenceIs ==
  ASSUME NEW bytes \in BytesSeqs, NEW i \in Occurrences(bytes)
  PROVE  /\ i \in 1..Len(bytes) /\ BeginsFrame(From(bytes, i)) /\ ~Undecided(From(bytes, i))
         /\ FrameLength(From(bytes, i)) \in Nat /\ FrameLength(From(bytes, i)) >= 4
         /\ i + FrameLength(From(bytes, i)) <= Len(bytes) + 1
<1>1. i \in 1..Len(bytes) /\ BeginsFrame(From(bytes, i))
  BY DEF Occurrences
<1>2. PICK s : s = From(bytes, i)
  OBVIOUS
<1>3. s \in BytesSeqs /\ Len(s) = Len(bytes) + 1 - i /\ Len(bytes) \in Nat
  <2>1. i \in 1 .. Len(bytes) + 1
    BY <1>1, BytesAre
  <2> QED
    BY <1>2, <2>1, FromIs
<1>4. Len(s) >= 3 /\ FrameLength(s) <= Len(s)
  BY <1>1, <1>2 DEF BeginsFrame
<1>5. ~Undecided(s)
  BY <1>1, <1>2, <1>3, BeginsIs
<1>6. PICK n \in Nat : n = FrameLength(s) /\ n >= 4
  BY <1>3, <1>4, HeaderIs
<1>7. i + n <= Len(bytes) + 1
  BY <1>1, <1>3, <1>4, <1>6
<1> QED
  BY <1>1, <1>2, <1>5, <1>6, <1>7

-----------------------------------------------------------------------------
(* Feed *)

\* What the definition of Feed chooses.
FeedRule(found, bytes, i) ==
  LET s == From(bytes, i)
      raw == Candidate(s)
  IN IF i > Len(bytes) THEN [left |-> <<>>, frames |-> <<>>, errors |-> 0]
     ELSE IF s[1] # Preamble THEN found[i + 1]
     ELSE IF Incomplete(s) THEN [left |-> s, frames |-> <<>>, errors |-> 0]
     ELSE IF ~HeaderIsRight(s) THEN found[i + 1]
     ELSE IF CrcIsRight(raw)
     THEN [found[i + Len(raw)] EXCEPT !.frames = Returned(raw) \o @]
     ELSE [found[ResumeAfterPreamble(i, raw)] EXCEPT !.errors = @ + 1]
Feeds(g, bytes) == \A i \in 1 .. Len(bytes) + 1 : g[i] = FeedRule(g, bytes, i)

\* It has one case where a frame begins and two where none does.
RuleGives(r, g, bytes, i, s) ==
  /\ i > Len(bytes) => r = [left |-> <<>>, frames |-> <<>>, errors |-> 0]
  /\ i <= Len(bytes) /\ Undecided(s) => r = [left |-> s, frames |-> <<>>, errors |-> 0]
  /\ i <= Len(bytes) /\ ~Undecided(s) /\ ~BeginsFrame(s) =>
       r = g[i + 1] \/ r = [g[i + 1] EXCEPT !.errors = @ + 1]
  /\ i <= Len(bytes) /\ BeginsFrame(s) =>
       r = [g[i + FrameLength(s)] EXCEPT !.frames = Typed(bytes)[i] \o @]

LEMMA FeedRuleCases ==
  ASSUME NEW bytes \in BytesSeqs, NEW i \in 1 .. Len(bytes) + 1, NEW g, NEW s, s = From(bytes, i)
  PROVE  RuleGives(FeedRule(g, bytes, i), g, bytes, i, s)
<1>0. Len(bytes) \in Nat /\ s \in BytesSeqs
  BY FromIs
<1>1. CASE i > Len(bytes)
  <2>1. FeedRule(g, bytes, i) = [left |-> <<>>, frames |-> <<>>, errors |-> 0]
    BY <1>1 DEF FeedRule
  <2>2. ~(i <= Len(bytes))
    BY <1>0, <1>1
  <2> QED
    BY <2>1, <2>2 DEF RuleGives
<1>2. CASE i <= Len(bytes)
  <2>0. ~(i > Len(bytes)) /\ i \in 1..Len(bytes)
    BY <1>0, <1>2
  <2>1. PICK raw : raw = Candidate(s)
    OBVIOUS
  <2>2. FeedRule(g, bytes, i) =
          IF s[1] # Preamble THEN g[i + 1]
          ELSE IF Incomplete(s) THEN [left |-> s, frames |-> <<>>, errors |-> 0]
          ELSE IF ~HeaderIsRight(s) THEN g[i + 1]
          ELSE IF CrcIsRight(raw)
          THEN [g[i + Len(raw)] EXCEPT !.frames = Returned(raw) \o @]
          ELSE [g[i + 1] EXCEPT !.errors = @ + 1]
    BY <2>0, <2>1 DEF FeedRule, ResumeAfterPreamble
  <2>3. /\ BeginsFrame(s) <=>
             s[1] = Preamble /\ ~Incomplete(s) /\ HeaderIsRight(s) /\ CrcIsRight(raw)
        /\ BeginsFrame(s) => ~Undecided(s)
        /\ ~Incomplete(s) => Len(s) >= 3
        /\ ~Incomplete(s) /\ HeaderIsRight(s) => FrameLength(s) <= Len(s)
    BY <1>0, <2>1, BeginsIs
  <2>4. Undecided(s) => FeedRule(g, bytes, i) = [left |-> s, frames |-> <<>>, errors |-> 0]
    BY <2>2 DEF Undecided
  <2>5. ~Undecided(s) /\ ~BeginsFrame(s) =>
          \/ FeedRule(g, bytes, i) = g[i + 1]
          \/ FeedRule(g, bytes, i) = [g[i + 1] EXCEPT !.errors = @ + 1]
    BY <2>2, <2>3 DEF Undecided
  <2>6. ASSUME BeginsFrame(s)
        PROVE  FeedRule(g, bytes, i) = [g[i + FrameLength(s)] EXCEPT !.frames = Typed(bytes)[i] \o @]
    <3>1. FeedRule(g, bytes, i) = [g[i + Len(raw)] EXCEPT !.frames = Returned(raw) \o @]
      BY <2>2, <2>3, <2>6
    <3>2. Len(raw) = FrameLength(s) /\ PayloadLength(raw) = PayloadLength(s) /\ PayloadLength(s) \in Nat
      BY <1>0, <2>1, <2>3, <2>6, CandidateIs, HeaderIs
    <3>3. Typed(bytes)[i] = IF BeginsTyped(s) THEN <<raw>> ELSE <<>>
      BY <2>0, <2>1 DEF Typed
    <3>4. BeginsTyped(s) <=> ~(PayloadLength(raw) < TypeBytes)
      <4>1. PICK k \in Nat : k = PayloadLength(s)
        BY <3>2
      <4> QED
        BY <2>6, <3>2, <4>1, FrameAssumption DEF BeginsTyped
    <3>5. Returned(raw) = Typed(bytes)[i]
      BY <3>3, <3>4 DEF Returned
    <3> QED
      BY <3>1, <3>2, <3>5
  <2> QED
    BY <2>0, <2>4, <2>5, <2>6 DEF RuleGives
<1> QED
  BY <1>0, <1>1, <1>2

\* The rule looks ahead only.
LEMMA FeedLooksAhead ==
  ASSUME NEW bytes \in BytesSeqs, NEW i \in 1 .. Len(bytes) + 1, NEW g, NEW h,
         \A j \in i + 1 .. Len(bytes) + 1 : g[j] = h[j]
  PROVE  FeedRule(g, bytes, i) = FeedRule(h, bytes, i)
<1>1. PICK s : s = From(bytes, i)
  OBVIOUS
<1>2. s \in BytesSeqs /\ Len(s) = Len(bytes) + 1 - i /\ Len(bytes) \in Nat
  BY <1>1, FromIs
<1>3. CASE i > Len(bytes)
  BY <1>3 DEF FeedRule
<1>4. CASE ~(i > Len(bytes))
  <2>1. i + 1 \in i + 1 .. Len(bytes) + 1
    BY <1>2, <1>4
  <2>2. g[i + 1] = h[i + 1]
    BY <2>1
  <2>3. ~Incomplete(s) /\ HeaderIsRight(s) =>
          g[i + Len(Candidate(s))] = h[i + Len(Candidate(s))]
    <3> SUFFICES ASSUME ~Incomplete(s), HeaderIsRight(s)
                 PROVE  i + Len(Candidate(s)) \in i + 1 .. Len(bytes) + 1
      OBVIOUS
    <3>1. Len(s) >= 3 /\ FrameLength(s) <= Len(s)
      BY <1>2, BeginsIs
    <3>2. PICK n \in 4..Len(s) : n = Len(Candidate(s))
      BY <1>2, <3>1, CandidateIs
    <3> QED
      BY <1>2, <3>2
  <2> QED
    BY <1>1, <1>4, <2>2, <2>3 DEF FeedRule, ResumeAfterPreamble
<1> QED
  BY <1>3, <1>4

\* So there is a function that follows it.
LEMMA FeedsExist ==
  ASSUME NEW bytes \in BytesSeqs
  PROVE  \E g : g = [i \in 1 .. Len(bytes) + 1 |-> FeedRule(g, bytes, i)]
<1> DEFINE N == Len(bytes) + 1
           Follows(g, m) == \A i \in m..N : g[i] = FeedRule(g, bytes, i)
           P == {m \in Nat : m < N => \E g : Follows(g, N - m)}
<1>0. Len(bytes) \in Nat /\ N \in Nat /\ N = Len(bytes) + 1
  BY BytesAre
<1> HIDE DEF N
<1>1. 0 \in P
  <2> DEFINE g == [i \in 1..N |-> FeedRule(<<>>, bytes, i)]
  <2>1. ASSUME NEW i \in N - 0 .. N PROVE g[i] = FeedRule(g, bytes, i)
    <3>1. i = N /\ i \in 1..N /\ i > Len(bytes)
      BY <1>0
    <3> QED
      BY <3>1 DEF FeedRule
  <2> HIDE DEF g
  <2> QED
    BY <2>1
<1>2. ASSUME NEW m \in Nat, m \in P PROVE m + 1 \in P
  <2> SUFFICES ASSUME m + 1 < N PROVE \E g : Follows(g, N - (m + 1))
    OBVIOUS
  <2>1. PICK g : Follows(g, N - m)
    BY <1>0, <1>2
  <2>2. PICK e \in 1..N : e = N - (m + 1) /\ e + 1 = N - m
    <3>1. N - (m + 1) \in 1..N /\ N - (m + 1) + 1 = N - m
      BY <1>0
    <3> QED
      BY <3>1
  <2> DEFINE h == [i \in 1..N |-> IF i = e THEN FeedRule(g, bytes, e) ELSE g[i]]
  <2>3. ASSUME NEW i \in e..N PROVE h[i] = FeedRule(h, bytes, i)
    <3>1. i \in 1..N /\ i \in 1 .. Len(bytes) + 1
      BY <1>0
    <3>2. \A j \in i + 1 .. Len(bytes) + 1 : h[j] = g[j]
      BY <1>0, <3>1
    <3>3. h[i] = FeedRule(g, bytes, i)
      <4>1. CASE i = e
        BY <3>1, <4>1
      <4>2. CASE i # e
        <5>1. i \in N - m .. N
          BY <1>0, <2>2, <4>2
        <5>2. h[i] = g[i]
          BY <3>1, <4>2
        <5> QED
          BY <2>1, <5>1, <5>2
      <4> QED
        BY <4>1, <4>2
    <3> HIDE DEF h
    <3>4. FeedRule(h, bytes, i) = FeedRule(g, bytes, i)
      BY <3>1, <3>2, FeedLooksAhead
    <3> QED
      BY <3>3, <3>4
  <2> HIDE DEF h
  <2>4. Follows(h, N - (m + 1))
    BY <2>2, <2>3
  <2> QED
    BY <2>4
<1> HIDE DEF P
<1>3. PICK g : Follows(g, 1)
  <2>1. Nat \subseteq P
    BY <1>1, <1>2, SetInduction
  <2>2. Len(bytes) \in P /\ Len(bytes) < N /\ N - Len(bytes) = 1
    BY <1>0, <2>1
  <2> QED
    BY <2>2 DEF P
<1> DEFINE k == [i \in 1..N |-> g[i]]
<1>4. \A i \in 1..N : k[i] = FeedRule(k, bytes, i)
  <2> SUFFICES ASSUME NEW i \in 1..N PROVE k[i] = FeedRule(k, bytes, i)
    OBVIOUS
  <2>1. \A j \in i + 1 .. Len(bytes) + 1 : k[j] = g[j]
    BY <1>0
  <2>2. k[i] = g[i] /\ i \in 1 .. Len(bytes) + 1
    BY <1>0
  <2> HIDE DEF k
  <2>3. FeedRule(k, bytes, i) = FeedRule(g, bytes, i)
    BY <2>1, <2>2, FeedLooksAhead
  <2> QED
    BY <1>3, <2>2, <2>3
<1>5. k = [i \in 1..N |-> FeedRule(k, bytes, i)]
  <2>1. k = [i \in 1..N |-> k[i]]
    OBVIOUS
  <2> HIDE DEF k
  <2> QED
    BY <1>4, <2>1
<1> HIDE DEF k
<1>6. \E x : x = [i \in 1..N |-> FeedRule(x, bytes, i)]
  BY <1>5
<1> QED
  BY <1>6 DEF N

LEMMA FeedIs ==
  ASSUME NEW bytes \in BytesSeqs
  PROVE  \E g : Feeds(g, bytes) /\ Feed(bytes) = g[1]
<1> DEFINE n == Len(bytes)
           c == CHOOSE g : g = [i \in 1 .. n + 1 |-> FeedRule(g, bytes, i)]
<1>1. Feed(bytes) = c[1]
  BY DEF Feed, FeedRule
<1>2. c = [i \in 1 .. n + 1 |-> FeedRule(c, bytes, i)]
  BY FeedsExist
<1> HIDE DEF c
<1>3. \A i \in 1 .. n + 1 : c[i] = FeedRule(c, bytes, i)
  BY <1>2
<1>4. Feeds(c, bytes)
  BY <1>3 DEF Feeds
<1> QED
  BY <1>1, <1>4

-----------------------------------------------------------------------------
(* What Feed finds *)

FrameSeqs == Seq(BytesSeqs)
Results == [left : BytesSeqs, frames : FrameSeqs, errors : Nat]

\* A frame that was found is in the way of one; what is known of a searched byte.
Hidden(bytes, found, k) == \E i \in found : Overlaps(bytes, i, k)
Settled(bytes, found, k) ==
  IF Hidden(bytes, found, k) THEN k \notin found
  ELSE ~Undecided(From(bytes, k)) /\ (k \in found <=> k \in Occurrences(bytes))

\* What is left begins with a preamble that waits; what is before was searched from
\* `from` on, and of the frames that begin there those of `found` were returned.
Finds(bytes, from, to, found) ==
  /\ to \in Nat /\ from <= to + 1 /\ to <= Len(bytes) /\ found \subseteq Occurrences(bytes)
  /\ \A i \in found : from <= i /\ i + FrameLength(From(bytes, i)) <= to + 1
  /\ \A k \in from..to : Settled(bytes, found, k)
Searched(bytes, from, to, left, frames, found) ==
  /\ Finds(bytes, from, to, found)
  /\ left = From(bytes, to + 1) /\ (to < Len(bytes) => Undecided(left))
  /\ frames = Joined(Typed(bytes), found)

LEMMA FrameSeqsChain == Chains(FrameSeqs)
BY SequencesChain DEF FrameSeqs

LEMMA TypedIs ==
  ASSUME NEW bytes \in BytesSeqs
  PROVE  /\ PartsIn(Typed(bytes), FrameSeqs) /\ Len(Typed(bytes)) = Len(bytes)
         /\ \A i \in 1..Len(bytes) :
              Typed(bytes)[i] = IF BeginsTyped(From(bytes, i)) THEN <<Candidate(From(bytes, i))>>
                                ELSE <<>>
<1>0. Len(bytes) \in Nat
  BY BytesAre
<1>1. \A i \in 1..Len(bytes) :
        Typed(bytes)[i] = IF BeginsTyped(From(bytes, i)) THEN <<Candidate(From(bytes, i))>> ELSE <<>>
  BY DEF Typed
<1>2. ASSUME NEW i \in 1..Len(bytes) PROVE Typed(bytes)[i] \in FrameSeqs
  <2>1. PICK s : s = From(bytes, i)
    OBVIOUS
  <2>2. i \in 1 .. Len(bytes) + 1
    BY <1>0
  <2>3. s \in BytesSeqs
    BY <2>1, <2>2, FromIs
  <2>4. CASE BeginsTyped(s)
    <3>1. Len(s) >= 3 /\ FrameLength(s) <= Len(s)
      BY <2>4 DEF BeginsTyped, BeginsFrame
    <3>2. PICK raw \in BytesSeqs : raw = Candidate(s)
      BY <2>3, <3>1, CandidateIs
    <3>3. <<raw>> \in Seq(BytesSeqs)
      OBVIOUS
    <3> QED
      BY <1>1, <2>1, <2>4, <3>2, <3>3 DEF FrameSeqs
  <2>5. CASE ~BeginsTyped(s)
    BY <1>1, <2>1, <2>5, EmptySeq DEF FrameSeqs
  <2> QED
    BY <2>4, <2>5
<1>3. Typed(bytes) \in [1..Len(bytes) -> FrameSeqs]
  BY <1>1, <1>2 DEF Typed
<1>4. Len(Typed(bytes)) = Len(bytes)
  BY <1>0, <1>3, FunIsSeq
<1> QED
  BY <1>0, <1>1, <1>2, <1>4 DEF PartsIn

LEMMA TypedJoined ==
  ASSUME NEW bytes \in BytesSeqs, NEW found
  PROVE  Joined(Typed(bytes), found) \in FrameSeqs
BY TypedIs, FrameSeqsChain, JoinedType

Good(r, bytes, i) ==
  r \in Results /\ \E to : \E found : Searched(bytes, i, to, r.left, r.frames, found)

LEMMA GoodEnd ==
  ASSUME NEW bytes \in BytesSeqs, NEW to \in Nat, to <= Len(bytes),
         NEW left, left = From(bytes, to + 1), to < Len(bytes) => Undecided(left),
         NEW r, r = [left |-> left, frames |-> <<>>, errors |-> 0]
  PROVE  Good(r, bytes, to + 1)
<1>1. Len(bytes) \in Nat /\ to + 1 \in 1 .. Len(bytes) + 1
  BY BytesAre
<1>2. left \in BytesSeqs
  BY <1>1, FromIs
<1>3. r \in Results /\ r.left = left /\ r.frames = <<>>
  BY <1>2, EmptySeq DEF Results, FrameSeqs
<1>4. Joined(Typed(bytes), {}) = <<>>
  <2>1. NoneIn({}, 1, Len(Typed(bytes)))
    BY DEF NoneIn
  <2> QED
    BY <1>1, <2>1, TypedIs, JoinedNone
<1>5. Finds(bytes, to + 1, to, {})
  <2>1. \A k \in to + 1 .. to : FALSE
    OBVIOUS
  <2>2. to + 1 <= to + 1
    OBVIOUS
  <2> QED
    BY <2>1, <2>2 DEF Finds
<1>6. Searched(bytes, to + 1, to, r.left, r.frames, {})
  BY <1>3, <1>4, <1>5 DEF Searched
<1> QED
  BY <1>3, <1>6 DEF Good

\* Where no frame begins and none can, the search goes on with the next byte.
LEMMA GoodSkip ==
  ASSUME NEW bytes \in BytesSeqs, NEW i \in 1..Len(bytes), ~BeginsFrame(From(bytes, i)),
         ~Undecided(From(bytes, i)), NEW r, Good(r, bytes, i + 1)
  PROVE  Good(r, bytes, i)
<1>1. PICK to : \E found : Searched(bytes, i + 1, to, r.left, r.frames, found)
  BY DEF Good
<1>2. PICK found : Searched(bytes, i + 1, to, r.left, r.frames, found)
  BY <1>1
<1>3. Finds(bytes, i + 1, to, found)
  BY <1>2 DEF Searched
<1>4. /\ to \in Nat /\ i \in Nat /\ i <= to + 1 /\ found \subseteq Occurrences(bytes)
      /\ Occurrences(bytes) \subseteq Nat
  BY <1>3, BytesAre DEF Finds, Occurrences
<1>5. \A j \in found : i <= j /\ i < j
  BY <1>3, <1>4 DEF Finds
<1>6. Settled(bytes, found, i)
  <2>1. ~Hidden(bytes, found, i)
    BY <1>4, <1>5 DEF Hidden, Overlaps
  <2>2. i \notin found /\ i \notin Occurrences(bytes)
    BY <1>4, <1>5 DEF Occurrences
  <2> QED
    BY <2>1, <2>2 DEF Settled
<1>7. \A k \in i..to : k = i \/ k \in i + 1 .. to
  BY <1>4
<1>8. Finds(bytes, i, to, found)
  BY <1>3, <1>4, <1>5, <1>6, <1>7 DEF Finds
<1>9. Searched(bytes, i, to, r.left, r.frames, found)
  BY <1>2, <1>8 DEF Searched
<1> QED
  BY <1>9 DEF Good

\* One frame more, in front of those found behind it.
LEMMA FindsOneMore ==
  ASSUME NEW bytes \in BytesSeqs, NEW i \in Occurrences(bytes), NEW e,
         e = i + FrameLength(From(bytes, i)), NEW to, NEW found, Finds(bytes, e, to, found)
  PROVE  Finds(bytes, i, to, found \cup {i}) /\ \A j \in found : i < j
<1>1. /\ i \in 1..Len(bytes) /\ ~Undecided(From(bytes, i))
      /\ FrameLength(From(bytes, i)) \in Nat /\ FrameLength(From(bytes, i)) >= 4
  BY OccurrenceIs
<1>2. /\ to \in Nat /\ e <= to + 1 /\ to <= Len(bytes) /\ found \subseteq Occurrences(bytes)
      /\ \A j \in found : e <= j /\ j + FrameLength(From(bytes, j)) <= to + 1
      /\ \A k \in e..to : Settled(bytes, found, k)
  BY DEF Finds
<1>3. i \in Nat /\ e \in Nat /\ i < e /\ i <= to + 1 /\ Occurrences(bytes) \subseteq Nat
  BY <1>1, <1>2, BytesAre DEF Occurrences
<1>4. ASSUME NEW j \in found PROVE i < j /\ i <= j /\ j \in Nat /\ e <= j
  BY <1>2, <1>3
<1>5. \A k \in Nat : Overlaps(bytes, i, k) <=> i < k /\ k < e
  BY <1>1, <1>3 DEF Overlaps
<1>10. PICK more : more = found \cup {i}
  OBVIOUS
<1>6. \A k \in Nat : Hidden(bytes, more, k) <=> Hidden(bytes, found, k) \/ (i < k /\ k < e)
  BY <1>5, <1>10 DEF Hidden
<1>7. \A k \in Nat : k < e => ~Hidden(bytes, found, k)
  BY <1>3, <1>4 DEF Hidden, Overlaps
<1>8. ASSUME NEW k \in i..to PROVE Settled(bytes, more, k)
  <2>1. k \in Nat
    BY <1>3
  <2>2. CASE k = i
    <3>1. ~Hidden(bytes, more, k)
      <4>1. ~Hidden(bytes, found, k) /\ ~(i < k)
        BY <1>3, <1>7, <2>1, <2>2
      <4> QED
        BY <1>6, <2>1, <4>1
    <3> QED
      BY <1>1, <1>10, <2>2, <3>1 DEF Settled
  <2>3. CASE i < k /\ k < e
    <3>1. Hidden(bytes, more, k)
      BY <1>6, <2>1, <2>3
    <3>2. k \notin found /\ k # i
      BY <1>3, <1>4, <2>1, <2>3
    <3> QED
      BY <1>10, <3>1, <3>2 DEF Settled
  <2>4. CASE e <= k
    <3>1. k # i /\ k \in e..to /\ ~(i < k /\ k < e)
      BY <1>2, <1>3, <2>1, <2>4
    <3>2. Hidden(bytes, more, k) <=> Hidden(bytes, found, k)
      BY <1>6, <2>1, <3>1
    <3>3. Settled(bytes, found, k)
      BY <1>2, <3>1
    <3> QED
      BY <1>10, <3>1, <3>2, <3>3 DEF Settled
  <2> QED
    BY <1>3, <2>1, <2>2, <2>3, <2>4
<1>9. \A j \in found \cup {i} : i <= j /\ j + FrameLength(From(bytes, j)) <= to + 1
  BY <1>2, <1>3, <1>4
<1> QED
  BY <1>2, <1>3, <1>4, <1>8, <1>9, <1>10 DEF Finds

LEMMA GoodFrame ==
  ASSUME NEW bytes \in BytesSeqs, NEW i \in 1..Len(bytes), BeginsFrame(From(bytes, i)), NEW e,
         e = i + FrameLength(From(bytes, i)), NEW s, Good(s, bytes, e),
         NEW r, r = [s EXCEPT !.frames = Typed(bytes)[i] \o @]
  PROVE  Good(r, bytes, i)
<1>1. PICK to : \E found : Searched(bytes, e, to, s.left, s.frames, found)
  BY DEF Good
<1>2. PICK found : Searched(bytes, e, to, s.left, s.frames, found)
  BY <1>1
<1>3. s \in Results /\ i \in Occurrences(bytes)
  BY DEF Good, Occurrences
<1>4. Finds(bytes, i, to, found \cup {i}) /\ \A j \in found : i < j
  BY <1>2, <1>3, FindsOneMore DEF Searched
<1>5. /\ Len(bytes) \in Nat /\ i \in Nat /\ i <= Len(bytes) /\ i \in 1..Len(Typed(bytes))
      /\ PartsIn(Typed(bytes), FrameSeqs) /\ Len(Typed(bytes)) = Len(bytes)
  BY BytesAre, TypedIs
<1>6. found \subseteq Nat
  BY <1>2, BytesAre DEF Searched, Finds, Occurrences
<1>7. IsConcat(Joined(Typed(bytes), found \cup {i}), Typed(bytes)[i], Joined(Typed(bytes), found))
  <2>1. /\ Same({i}, found \cup {i}, 1, i) /\ NoneIn({i}, i + 1, Len(bytes))
        /\ NoneIn(found, 1, i) /\ Same(found, found \cup {i}, i + 1, Len(bytes))
    BY <1>4, <1>5, <1>6 DEF Same, NoneIn
  <2>2. IsConcat(Joined(Typed(bytes), found \cup {i}), Joined(Typed(bytes), {i}),
                 Joined(Typed(bytes), found))
    BY <1>5, <2>1, FrameSeqsChain, JoinedSplit
  <2>3. Joined(Typed(bytes), {i}) = Typed(bytes)[i]
    BY <1>5, FrameSeqsChain, JoinedOne
  <2> QED
    BY <2>2, <2>3
<1>8. s.frames = Joined(Typed(bytes), found)
  BY <1>2 DEF Searched
<1>9. /\ r = [left |-> s.left, frames |-> Typed(bytes)[i] \o s.frames, errors |-> s.errors]
      /\ Typed(bytes)[i] \o s.frames = Joined(Typed(bytes), found \cup {i})
  BY <1>3, <1>7, <1>8 DEF Results, IsConcat
<1>10. Joined(Typed(bytes), found \cup {i}) \in FrameSeqs
  BY TypedJoined
<1>11. r \in Results /\ r.left = s.left /\ r.frames = Joined(Typed(bytes), found \cup {i})
  BY <1>3, <1>9, <1>10 DEF Results
<1>12. Searched(bytes, i, to, r.left, r.frames, found \cup {i})
  BY <1>2, <1>4, <1>11 DEF Searched
<1> QED
  BY <1>11, <1>12 DEF Good

LEMMA GoodRule ==
  ASSUME NEW bytes \in BytesSeqs, NEW g, NEW i \in 1 .. Len(bytes) + 1,
         \A j \in i + 1 .. Len(bytes) + 1 : Good(g[j], bytes, j)
  PROVE  Good(FeedRule(g, bytes, i), bytes, i)
<1>0. Len(bytes) \in Nat /\ i \in Nat
  BY BytesAre
<1>1. PICK r, s : r = FeedRule(g, bytes, i) /\ s = From(bytes, i)
  OBVIOUS
<1>2. s \in BytesSeqs /\ Len(s) = Len(bytes) + 1 - i
  BY <1>1, FromIs
<1>6. RuleGives(r, g, bytes, i, s)
  BY <1>1, FeedRuleCases
<1>3. CASE i > Len(bytes) \/ (i <= Len(bytes) /\ Undecided(s))
  <2>1. PICK to \in Nat : to + 1 = i /\ to <= Len(bytes)
    <3>1. i - 1 \in Nat /\ i - 1 + 1 = i /\ i - 1 <= Len(bytes)
      BY <1>0
    <3> QED
      BY <3>1
  <2>2. i > Len(bytes) => s = <<>>
    <3>1. i > Len(bytes) => Len(s) = 0
      BY <1>0, <1>2
    <3> QED
      BY <1>2, <3>1, EmptySeq DEF BytesSeqs
  <2>3. r = [left |-> s, frames |-> <<>>, errors |-> 0]
    BY <1>3, <1>6, <2>2 DEF RuleGives
  <2>4. s = From(bytes, to + 1) /\ (to < Len(bytes) => Undecided(s))
    BY <1>0, <1>1, <1>3, <2>1
  <2>5. Good(r, bytes, to + 1)
    BY <2>1, <2>3, <2>4, GoodEnd
  <2> QED
    BY <1>1, <2>1, <2>5
<1>4. CASE i <= Len(bytes) /\ ~Undecided(s) /\ ~BeginsFrame(s)
  <2>1. i + 1 \in i + 1 .. Len(bytes) + 1 /\ i \in 1..Len(bytes)
    BY <1>0, <1>4
  <2>2. Good(g[i + 1], bytes, i + 1)
    BY <2>1
  <2>3. Good(r, bytes, i + 1)
    <3>1. CASE r = g[i + 1]
      BY <2>2, <3>1
    <3>2. CASE r = [g[i + 1] EXCEPT !.errors = @ + 1]
      <4>1. r \in Results /\ r.left = g[i + 1].left /\ r.frames = g[i + 1].frames
        BY <2>2, <3>2 DEF Good, Results
      <4> QED
        BY <2>2, <4>1 DEF Good
    <3> QED
      BY <1>4, <1>6, <3>1, <3>2 DEF RuleGives
  <2>4. Good(r, bytes, i)
    BY <1>1, <1>4, <2>1, <2>3, GoodSkip
  <2> QED
    BY <1>1, <2>4
<1>5. CASE i <= Len(bytes) /\ BeginsFrame(s)
  <2>1. PICK e : e = i + FrameLength(s)
    OBVIOUS
  <2>2. i \in 1..Len(bytes) /\ i \in Occurrences(bytes)
    BY <1>0, <1>1, <1>5 DEF Occurrences
  <2>3. PICK n \in Nat : n = FrameLength(s) /\ n >= 4 /\ i + n <= Len(bytes) + 1
    BY <1>1, <2>2, OccurrenceIs
  <2>4. e \in i + 1 .. Len(bytes) + 1
    BY <1>0, <2>1, <2>3
  <2>5. Good(g[e], bytes, e)
    BY <2>4
  <2>6. r = [g[e] EXCEPT !.frames = Typed(bytes)[i] \o @]
    BY <1>5, <1>6, <2>1 DEF RuleGives
  <2>7. Good(r, bytes, i)
    BY <1>1, <1>5, <2>1, <2>2, <2>5, <2>6, GoodFrame
  <2> QED
    BY <1>1, <2>7
<1> QED
  BY <1>0, <1>3, <1>4, <1>5

LEMMA FeedIsGood ==
  ASSUME NEW bytes \in BytesSeqs
  PROVE  Good(Feed(bytes), bytes, 1)
<1> DEFINE N == Len(bytes) + 1
<1>1. PICK g : Feeds(g, bytes) /\ Feed(bytes) = g[1]
  BY FeedIs
<1>2. Len(bytes) \in Nat /\ N = Len(bytes) + 1 /\ N \in Nat /\ 1 \in 1..N
  BY BytesAre
<1> HIDE DEF N
<1>3. \A i \in 1..N : g[i] = FeedRule(g, bytes, i)
  BY <1>1, <1>2 DEF Feeds
<1> DEFINE P == {m \in Nat : \A i \in 1..N : N - m <= i => Good(g[i], bytes, i)}
<1>4. 0 \in P
  <2>1. ASSUME NEW i \in 1..N, N - 0 <= i PROVE Good(g[i], bytes, i)
    <3>1. i \in 1 .. Len(bytes) + 1 /\ \A j \in i + 1 .. Len(bytes) + 1 : Good(g[j], bytes, j)
      BY <1>2, <2>1
    <3> QED
      BY <1>3, <3>1, GoodRule
  <2> QED
    BY <2>1
<1>5. ASSUME NEW m \in Nat, m \in P PROVE m + 1 \in P
  <2>1. ASSUME NEW i \in 1..N, N - (m + 1) <= i PROVE Good(g[i], bytes, i)
    <3>1. ASSUME NEW j \in i + 1 .. Len(bytes) + 1 PROVE Good(g[j], bytes, j)
      <4>1. j \in 1..N /\ N - m <= j
        BY <1>2, <2>1
      <4> QED
        BY <1>5, <4>1
    <3>2. i \in 1 .. Len(bytes) + 1
      BY <1>2
    <3> QED
      BY <1>3, <3>1, <3>2, GoodRule
  <2> QED
    BY <2>1
<1>6. N \in P
  <2> HIDE DEF P
  <2> QED
    BY <1>2, <1>4, <1>5, SetInduction
<1> QED
  BY <1>1, <1>2, <1>6

-----------------------------------------------------------------------------
(* A payload behind what was left of those before *)

LEMMA ConcatIs ==
  ASSUME NEW s \in BytesSeqs, NEW t \in BytesSeqs
  PROVE  /\ s \o t \in BytesSeqs /\ Len(s \o t) = Len(s) + Len(t)
         /\ Len(s) \in Nat /\ Len(t) \in Nat
         /\ \A i \in 1..Len(s) : (s \o t)[i] = s[i]
         /\ \A i \in 1..Len(t) : (s \o t)[Len(s) + i] = t[i]
<1>1. s \in Seq(Alphabet) /\ t \in Seq(Alphabet)
  BY DEF BytesSeqs
<1>2. s \o t \in BytesSeqs /\ Len(s \o t) = Len(s) + Len(t) /\ Len(s) \in Nat /\ Len(t) \in Nat
  BY <1>1, ConcatProperties, LenProperties DEF BytesSeqs
<1>3. \A i \in 1 .. Len(s) + Len(t) : (s \o t)[i] = IF i <= Len(s) THEN s[i] ELSE t[i - Len(s)]
  BY <1>1, ConcatProperties
<1>4. \A i \in 1..Len(s) : (s \o t)[i] = s[i]
  BY <1>2, <1>3
<1>5. ASSUME NEW i \in 1..Len(t) PROVE (s \o t)[Len(s) + i] = t[i]
  <2>1. Len(s) + i \in 1 .. Len(s) + Len(t) /\ ~(Len(s) + i <= Len(s)) /\ Len(s) + i - Len(s) = i
    BY <1>2
  <2> QED
    BY <1>3, <2>1
<1> QED
  BY <1>2, <1>4, <1>5

\* All bytes are those of before and more, and from a certain place on the rest.
Behind(all, bytes, rest, a) ==
  /\ {all, bytes, rest} \subseteq BytesSeqs
  /\ a \in Nat /\ a <= Len(bytes) /\ Len(bytes) <= Len(all) /\ Len(all) = a + Len(rest)
  /\ \A k \in 1..Len(bytes) : all[k] = bytes[k]
  /\ \A k \in 1..Len(rest) : all[a + k] = rest[k]

LEMMA BehindIs ==
  ASSUME NEW bytes \in BytesSeqs, NEW payload \in BytesSeqs, NEW a \in Nat, a <= Len(bytes),
         NEW pending, pending = From(bytes, a + 1), NEW all, all = bytes \o payload,
         NEW rest, rest = pending \o payload
  PROVE  Behind(all, bytes, rest, a)
<1>0. PICK n \in Nat, m \in Nat : n = Len(bytes) /\ n = a + m
  <2>1. Len(bytes) \in Nat /\ Len(bytes) - a \in Nat /\ Len(bytes) = a + (Len(bytes) - a)
    BY BytesAre
  <2> QED
    BY <2>1
<1>1. pending \in BytesSeqs /\ Len(pending) = m /\ \A k \in 1..m : pending[k] = bytes[a + k]
  <2>1. /\ a + 1 \in 1 .. Len(bytes) + 1 /\ Len(bytes) + 1 - (a + 1) = m
        /\ \A k \in 1..m : a + 1 + k - 1 = a + k
    BY <1>0
  <2>2. /\ pending \in BytesSeqs /\ Len(pending) = Len(bytes) + 1 - (a + 1)
        /\ \A k \in 1 .. Len(bytes) + 1 - (a + 1) : pending[k] = bytes[a + 1 + k - 1]
    BY <2>1, FromIs
  <2> QED
    BY <2>1, <2>2
<1>2. /\ rest \in BytesSeqs /\ Len(rest) = m + Len(payload) /\ Len(payload) \in Nat
      /\ \A k \in 1..m : rest[k] = pending[k]
      /\ \A k \in 1..Len(payload) : rest[m + k] = payload[k]
  <2>1. LET x == pending \o payload IN
        /\ x \in BytesSeqs /\ Len(x) = Len(pending) + Len(payload) /\ Len(payload) \in Nat
        /\ \A k \in 1..Len(pending) : x[k] = pending[k]
        /\ \A k \in 1..Len(payload) : x[Len(pending) + k] = payload[k]
    BY <1>1, ConcatIs
  <2> QED
    BY <1>1, <2>1
<1>3. /\ all \in BytesSeqs /\ Len(all) = n + Len(payload)
      /\ \A k \in 1..n : all[k] = bytes[k]
      /\ \A k \in 1..Len(payload) : all[n + k] = payload[k]
  <2>1. LET x == bytes \o payload IN
        /\ x \in BytesSeqs /\ Len(x) = Len(bytes) + Len(payload) /\ Len(payload) \in Nat
        /\ \A k \in 1..Len(bytes) : x[k] = bytes[k]
        /\ \A k \in 1..Len(payload) : x[Len(bytes) + k] = payload[k]
    BY ConcatIs
  <2> QED
    BY <1>0, <2>1
<1>4. ASSUME NEW k \in 1..Len(rest) PROVE all[a + k] = rest[k]
  <2>1. CASE k <= m
    <3>1. k \in 1..m /\ a + k \in 1..n
      BY <1>0, <2>1
    <3> QED
      BY <1>1, <1>2, <1>3, <3>1
  <2>2. CASE ~(k <= m)
    <3>1. PICK i \in 1..Len(payload) : k = m + i /\ a + k = n + i
      <4>1. k - m \in 1..Len(payload) /\ k = m + (k - m) /\ a + k = n + (k - m)
        BY <1>0, <1>2, <2>2
      <4> QED
        BY <4>1
    <3>2. rest[m + i] = payload[i] /\ all[n + i] = payload[i]
      BY <1>2, <1>3
    <3> QED
      BY <3>1, <3>2
  <2> QED
    BY <2>1, <2>2
<1>5. Len(bytes) <= Len(all) /\ Len(all) = a + Len(rest)
  <2>1. PICK p \in Nat : p = Len(payload)
    BY <1>2
  <2>2. n <= n + p /\ n + p = a + (m + p)
    BY <1>0
  <2> QED
    BY <1>0, <1>2, <1>3, <2>1, <2>2
<1>6. \A k \in 1..Len(bytes) : all[k] = bytes[k]
  BY <1>0, <1>3
<1> QED
  BY <1>2, <1>3, <1>4, <1>5, <1>6 DEF Behind

LEMMA BehindTypes ==
  ASSUME NEW all, NEW bytes, NEW rest, NEW a, Behind(all, bytes, rest, a)
  PROVE  /\ all \in BytesSeqs /\ bytes \in BytesSeqs /\ rest \in BytesSeqs /\ a \in Nat
         /\ Len(all) \in Nat /\ Len(bytes) \in Nat /\ Len(rest) \in Nat
         /\ a <= Len(bytes) /\ Len(bytes) <= Len(all) /\ Len(all) = a + Len(rest)
         /\ a + Len(rest) \in Nat
<1>1. /\ all \in BytesSeqs /\ bytes \in BytesSeqs /\ rest \in BytesSeqs /\ a \in Nat
      /\ a <= Len(bytes) /\ Len(bytes) <= Len(all) /\ Len(all) = a + Len(rest)
  BY DEF Behind
<1> QED
  BY <1>1, BytesAre

LEMMA SameRest ==
  ASSUME NEW all, NEW bytes, NEW rest, NEW a, Behind(all, bytes, rest, a),
         NEW k \in 1 .. Len(rest) + 1, NEW e, e = a + k
  PROVE  From(all, e) = From(rest, k)
<1>1. PICK n \in Nat, w \in Nat : n = Len(all) /\ w = Len(rest) /\ n = a + w
  BY BehindTypes
<1>2. a \in Nat /\ all \in BytesSeqs /\ rest \in BytesSeqs
  BY BehindTypes
<1>3. PICK m \in Nat : m = w + 1 - k /\ m = n + 1 - e /\ k \in Nat /\ e \in 1 .. n + 1 /\ k \in 1 .. w + 1
  <2>1. w + 1 - k \in Nat /\ w + 1 - k = n + 1 - e /\ k \in Nat /\ e \in 1 .. n + 1
    BY <1>1, <1>2
  <2> QED
    BY <1>1, <2>1
<1>4. /\ From(rest, k) \in BytesSeqs /\ Len(From(rest, k)) = m
      /\ \A i \in 1..m : From(rest, k)[i] = rest[k + i - 1]
  BY <1>1, <1>2, <1>3, FromIs
<1>5. /\ From(all, e) \in BytesSeqs /\ Len(From(all, e)) = m
      /\ \A i \in 1..m : From(all, e)[i] = all[e + i - 1]
  <2>1. \A x \in 1 .. Len(all) + 1 :
          /\ From(all, x) \in BytesSeqs /\ Len(From(all, x)) = Len(all) + 1 - x
          /\ \A i \in 1 .. Len(all) + 1 - x : From(all, x)[i] = all[x + i - 1]
    BY <1>2, FromIs
  <2>2. PICK x : x = e
    OBVIOUS
  <2>3. x \in 1 .. Len(all) + 1 /\ Len(all) + 1 - x = m
    BY <1>1, <1>3, <2>2
  <2>4. /\ From(all, x) \in BytesSeqs /\ Len(From(all, x)) = m
        /\ \A i \in 1..m : From(all, x)[i] = all[x + i - 1]
    BY <2>1, <2>3
  <2> QED
    BY <2>2, <2>4
<1>6. ASSUME NEW i \in 1..m PROVE all[e + i - 1] = rest[k + i - 1]
  <2>1. PICK j \in 1..w : j = k + i - 1 /\ a + j = e + i - 1
    <3>1. k + i - 1 \in 1..w /\ a + (k + i - 1) = e + i - 1
      BY <1>1, <1>2, <1>3
    <3> QED
      BY <3>1
  <2>2. all[a + j] = rest[j]
    BY <1>1 DEF Behind
  <2> QED
    BY <2>1, <2>2
<1>7. \A i \in 1..m : From(all, e)[i] = From(rest, k)[i]
  BY <1>4, <1>5, <1>6
<1> QED
  BY <1>4, <1>5, <1>7, BytesEqual

\* What the first bytes decide, more bytes do not change.
SameStart(t, s) ==
  /\ ~Undecided(t) /\ (BeginsFrame(t) <=> BeginsFrame(s))
  /\ BeginsFrame(s) => /\ FrameLength(t) = FrameLength(s) /\ Candidate(t) = Candidate(s)
                       /\ PayloadLength(t) = PayloadLength(s)

LEMMA MoreBytes ==
  ASSUME NEW s \in BytesSeqs, NEW t \in BytesSeqs, 1 <= Len(s), Len(s) <= Len(t),
         \A k \in 1..Len(s) : t[k] = s[k], ~Undecided(s)
  PROVE  SameStart(t, s)
<1>0. Len(s) \in Nat /\ Len(t) \in Nat /\ t[1] = s[1]
  BY BytesAre
<1>1. CASE s[1] # Preamble
  <2>1. ~BeginsFrame(s) /\ ~BeginsFrame(t) /\ ~Undecided(t)
    BY <1>0, <1>1, BeginsIs DEF Undecided
  <2> QED
    BY <2>1 DEF SameStart
<1>2. CASE s[1] = Preamble
  <2>1. ~Incomplete(s) /\ Len(s) >= 3
    BY <1>2, BeginsIs DEF Undecided
  <2>2. t[2] = s[2] /\ t[3] = s[3] /\ Len(t) >= 3
    BY <1>0, <2>1
  <2>3. ReservedBits(t) = ReservedBits(s) /\ PayloadLength(t) = PayloadLength(s)
    BY <2>2 DEF ReservedBits, PayloadLength
  <2>4. FrameLength(t) = FrameLength(s) /\ (HeaderIsRight(t) <=> HeaderIsRight(s))
    BY <2>3 DEF FrameLength, HeaderIsRight
  <2>5. CASE ~HeaderIsRight(s)
    <3>1. ~BeginsFrame(s) /\ ~BeginsFrame(t)
      BY <2>4, <2>5, BeginsIs
    <3>2. ~Incomplete(t)
      BY <1>0, <2>2, <2>4, <2>5 DEF Incomplete
    <3> QED
      BY <3>1, <3>2 DEF SameStart, Undecided
  <2>6. CASE HeaderIsRight(s)
    <3>1. PICK n \in Nat : n = FrameLength(s) /\ n <= Len(s) /\ n <= Len(t)
      BY <1>0, <2>1, <2>6, BeginsIs, HeaderIs
    <3>2. ~Incomplete(t)
      BY <1>0, <2>2, <2>4, <3>1 DEF Incomplete
    <3>3. /\ Candidate(s) \in BytesSeqs /\ Len(Candidate(s)) = n
          /\ \A k \in 1..n : Candidate(s)[k] = s[k]
      BY <2>1, <3>1, CandidateIs
    <3>4. /\ Candidate(t) \in BytesSeqs /\ Len(Candidate(t)) = n
          /\ \A k \in 1..n : Candidate(t)[k] = t[k]
      BY <2>2, <2>4, <3>1, CandidateIs
    <3>5. Candidate(t) = Candidate(s)
      <4>1. \A k \in 1..n : k \in 1..Len(s)
        BY <1>0, <3>1
      <4>2. \A k \in 1..n : Candidate(t)[k] = Candidate(s)[k]
        BY <3>3, <3>4, <4>1
      <4> QED
        BY <3>3, <3>4, <4>2, BytesEqual
    <3>6. BeginsFrame(t) <=> BeginsFrame(s)
      BY <1>0, <2>1, <2>4, <3>2, <3>5, BeginsIs
    <3> QED
      BY <2>3, <2>4, <3>2, <3>5, <3>6 DEF SameStart, Undecided
  <2> QED
    BY <2>5, <2>6
<1> QED
  BY <1>1, <1>2

LEMMA SameFirst ==
  ASSUME NEW all, NEW bytes, NEW rest, NEW a, Behind(all, bytes, rest, a),
         NEW k \in 1..Len(bytes), ~Undecided(From(bytes, k))
  PROVE  SameStart(From(all, k), From(bytes, k))
<1>1. PICK n \in Nat, u \in Nat : n = Len(bytes) /\ u = Len(all) /\ n <= u
  BY BehindTypes
<1>2. all \in BytesSeqs /\ bytes \in BytesSeqs /\ k \in 1..n
  BY <1>1, BehindTypes
<1>3. PICK s, t : s = From(bytes, k) /\ t = From(all, k)
  OBVIOUS
<1>4. PICK m \in Nat, v \in Nat : m = n + 1 - k /\ v = u + 1 - k /\ 1 <= m /\ m <= v
                                /\ k \in 1 .. n + 1 /\ k \in 1 .. u + 1
  <2>1. /\ n + 1 - k \in Nat /\ u + 1 - k \in Nat /\ 1 <= n + 1 - k /\ n + 1 - k <= u + 1 - k
        /\ k \in 1 .. n + 1 /\ k \in 1 .. u + 1
    BY <1>1, <1>2
  <2> QED
    BY <2>1
<1>5. s \in BytesSeqs /\ Len(s) = m /\ \A i \in 1..m : s[i] = bytes[k + i - 1]
  BY <1>1, <1>2, <1>3, <1>4, FromIs
<1>6. t \in BytesSeqs /\ Len(t) = v /\ \A i \in 1..v : t[i] = all[k + i - 1]
  BY <1>1, <1>2, <1>3, <1>4, FromIs
<1>7. ASSUME NEW i \in 1..m PROVE t[i] = s[i]
  <2>1. i \in 1..v /\ k + i - 1 \in 1..n
    BY <1>2, <1>4
  <2>2. all[k + i - 1] = bytes[k + i - 1]
    BY <1>1, <2>1 DEF Behind
  <2> QED
    BY <1>5, <1>6, <2>1, <2>2
<1>8. 1 <= Len(s) /\ Len(s) <= Len(t) /\ \A i \in 1..Len(s) : t[i] = s[i]
  BY <1>4, <1>5, <1>6, <1>7
<1>9. ~Undecided(s)
  BY <1>3
<1>10. SameStart(t, s)
  BY <1>5, <1>6, <1>8, <1>9, MoreBytes
<1> QED
  BY <1>3, <1>10

\* What is found in the rest, by its places in all bytes.
Further(found, a) == {a + j : j \in found}

\* What was found in the bytes of before is found in all of them ...
LEMMA FirstFound ==
  ASSUME NEW all, NEW bytes, NEW rest, NEW a, Behind(all, bytes, rest, a),
         NEW first, Finds(bytes, 1, a, first), NEW i \in first
  PROVE  /\ i \in Nat /\ 1 <= i /\ i <= a /\ i \in Occurrences(all) /\ i \in Occurrences(bytes)
         /\ FrameLength(From(all, i)) = FrameLength(From(bytes, i))
         /\ FrameLength(From(all, i)) \in Nat /\ i + FrameLength(From(all, i)) <= a + 1
         /\ SameStart(From(all, i), From(bytes, i))
<1>1. /\ bytes \in BytesSeqs /\ a \in Nat /\ Len(bytes) \in Nat /\ Len(all) \in Nat
      /\ Len(bytes) <= Len(all) /\ a <= Len(bytes)
  BY BehindTypes
<1>2. i \in Occurrences(bytes) /\ i + FrameLength(From(bytes, i)) <= a + 1
  BY DEF Finds
<1>3. /\ i \in 1..Len(bytes) /\ BeginsFrame(From(bytes, i)) /\ ~Undecided(From(bytes, i))
      /\ FrameLength(From(bytes, i)) \in Nat /\ FrameLength(From(bytes, i)) >= 4
  BY <1>1, <1>2, OccurrenceIs
<1>4. SameStart(From(all, i), From(bytes, i))
  BY <1>3, SameFirst
<1>5. /\ BeginsFrame(From(all, i))
      /\ FrameLength(From(all, i)) = FrameLength(From(bytes, i))
  BY <1>3, <1>4 DEF SameStart
<1>6. PICK n \in Nat : n = FrameLength(From(bytes, i)) /\ n >= 4
  BY <1>3
<1>7. i \in Nat /\ 1 <= i /\ i <= a /\ i \in 1..Len(all) /\ i + n <= a + 1
  BY <1>1, <1>2, <1>3, <1>6
<1>8. i \in Occurrences(all)
  BY <1>5, <1>7 DEF Occurrences
<1> QED
  BY <1>2, <1>4, <1>5, <1>6, <1>7, <1>8

\* ... and what is found in the rest, further on.
LEMMA MoreFound ==
  ASSUME NEW all, NEW bytes, NEW rest, NEW a, Behind(all, bytes, rest, a),
         NEW b, NEW more, Finds(rest, 1, b, more), NEW j \in more, NEW e, e = a + j
  PROVE  /\ j \in Nat /\ 1 <= j /\ j <= Len(rest) /\ e \in Nat /\ a < e
         /\ e \in Occurrences(all) /\ From(all, e) = From(rest, j)
         /\ FrameLength(From(rest, j)) \in Nat /\ e + FrameLength(From(all, e)) <= a + b + 1
<1>1. rest \in BytesSeqs /\ a \in Nat /\ Len(rest) \in Nat /\ Len(all) = a + Len(rest)
  BY BehindTypes
<1>2. j \in Occurrences(rest) /\ b \in Nat /\ j + FrameLength(From(rest, j)) <= b + 1
  BY DEF Finds
<1>3. j \in 1..Len(rest) /\ BeginsFrame(From(rest, j)) /\ FrameLength(From(rest, j)) \in Nat
  BY <1>1, <1>2, OccurrenceIs
<1>4. From(all, e) = From(rest, j)
  <2>1. j \in 1 .. Len(rest) + 1
    BY <1>1, <1>3
  <2> QED
    BY <2>1, SameRest
<1>5. PICK n \in Nat : n = FrameLength(From(rest, j))
  BY <1>3
<1>6. /\ j \in Nat /\ 1 <= j /\ j <= Len(rest) /\ e \in Nat /\ a < e /\ e \in 1..Len(all)
      /\ e + n <= a + b + 1
  BY <1>1, <1>2, <1>3, <1>5
<1>7. e \in Occurrences(all)
  BY <1>3, <1>4, <1>6 DEF Occurrences
<1> QED
  BY <1>3, <1>4, <1>5, <1>6, <1>7

LEMMA SettledFirst ==
  ASSUME NEW all, NEW bytes, NEW rest, NEW a, Behind(all, bytes, rest, a),
         NEW first, Finds(bytes, 1, a, first), NEW b, NEW more, Finds(rest, 1, b, more),
         NEW found, found = first \cup Further(more, a), NEW k \in 1..a
  PROVE  Settled(all, found, k)
<1>1. /\ bytes \in BytesSeqs /\ a \in Nat /\ Len(bytes) \in Nat /\ Len(all) \in Nat
      /\ Len(bytes) <= Len(all) /\ a <= Len(bytes)
  BY BehindTypes
<1>2. ASSUME NEW i \in found PROVE i \in first \/ (i \in Nat /\ a < i)
  BY <1>2, MoreFound DEF Further
<1>3. k \in Nat /\ k \in 1..Len(bytes) /\ k \in 1..Len(all)
  BY <1>1
<1>4. k \in found <=> k \in first
  <2>1. ~(a < k)
    BY <1>1, <1>3
  <2> QED
    BY <1>2, <2>1
<1>5. ASSUME NEW i \in first PROVE Overlaps(all, i, k) <=> Overlaps(bytes, i, k)
  BY FirstFound DEF Overlaps
<1>6. Hidden(all, found, k) <=> Hidden(bytes, first, k)
  <2>1. ASSUME NEW i \in found, Overlaps(all, i, k) PROVE i \in first
    <3>1. i < k
      BY <2>1 DEF Overlaps
    <3>2. i \in Nat => ~(a < i)
      BY <1>1, <1>3, <3>1
    <3> QED
      BY <1>2, <3>2
  <2> QED
    BY <1>5, <2>1 DEF Hidden
<1>7. Settled(bytes, first, k)
  BY <1>3 DEF Finds
<1>8. CASE Hidden(bytes, first, k)
  BY <1>4, <1>6, <1>7, <1>8 DEF Settled
<1>9. CASE ~Hidden(bytes, first, k)
  <2>1. ~Undecided(From(bytes, k)) /\ (k \in first <=> k \in Occurrences(bytes))
    BY <1>7, <1>9 DEF Settled
  <2>2. SameStart(From(all, k), From(bytes, k))
    BY <1>3, <2>1, SameFirst
  <2>3. ~Undecided(From(all, k)) /\ (k \in Occurrences(all) <=> k \in Occurrences(bytes))
    BY <1>3, <2>2 DEF SameStart, Occurrences
  <2> QED
    BY <1>4, <1>6, <1>9, <2>1, <2>3 DEF Settled
<1> QED
  BY <1>8, <1>9

LEMMA SettledMore ==
  ASSUME NEW all, NEW bytes, NEW rest, NEW a, Behind(all, bytes, rest, a),
         NEW first, Finds(bytes, 1, a, first), NEW b, NEW more, Finds(rest, 1, b, more),
         NEW found, found = first \cup Further(more, a), NEW j \in 1..b, NEW k, k = a + j
  PROVE  Settled(all, found, k)
<1>1. /\ a \in Nat /\ Len(rest) \in Nat /\ Len(all) = a + Len(rest) /\ b \in Nat /\ b <= Len(rest)
  BY BehindTypes DEF Finds
<1>2. /\ j \in Nat /\ k \in Nat /\ a < k /\ j \in 1..Len(rest) /\ j \in 1 .. Len(rest) + 1
      /\ k \in 1..Len(all)
  BY <1>1
<1>3. From(all, k) = From(rest, j)
  BY <1>2, SameRest
<1>4. k \in Occurrences(all) <=> j \in Occurrences(rest)
  BY <1>2, <1>3 DEF Occurrences
<1>5. ASSUME NEW i \in first PROVE i # k /\ ~Overlaps(all, i, k)
  <2>1. PICK n \in Nat : n = FrameLength(From(all, i)) /\ i + n <= a + 1
    BY FirstFound
  <2>2. i \in Nat /\ i <= a
    BY FirstFound
  <2>3. ~(k < i + n) /\ i # k
    BY <1>1, <1>2, <2>1, <2>2
  <2> QED
    BY <2>1, <2>3 DEF Overlaps
<1>6. ASSUME NEW i \in more PROVE Overlaps(all, a + i, k) <=> Overlaps(rest, i, j)
  <2>1. PICK e : e = a + i
    OBVIOUS
  <2>2. i \in Nat /\ From(all, e) = From(rest, i) /\ FrameLength(From(rest, i)) \in Nat
    BY <2>1, MoreFound
  <2>3. PICK n \in Nat : n = FrameLength(From(rest, i)) /\ n = FrameLength(From(all, e))
    BY <2>2
  <2>4. (e < k /\ k < e + n) <=> (i < j /\ j < i + n)
    BY <1>1, <1>2, <2>1, <2>2
  <2> QED
    BY <2>1, <2>3, <2>4 DEF Overlaps
<1>7. k \in found <=> j \in more
  <2>1. ASSUME NEW i \in more, a + i = k PROVE i = j
    <3>1. i \in Nat
      BY MoreFound
    <3> QED
      BY <1>1, <1>2, <2>1, <3>1
  <2> QED
    BY <1>5, <2>1 DEF Further
<1>8. Hidden(all, found, k) <=> Hidden(rest, more, j)
  BY <1>5, <1>6 DEF Hidden, Further
<1>9. Settled(rest, more, j)
  BY DEF Finds
<1> QED
  BY <1>3, <1>4, <1>7, <1>8, <1>9 DEF Settled

LEMMA FindsOn ==
  ASSUME NEW all, NEW bytes, NEW rest, NEW a, Behind(all, bytes, rest, a),
         NEW first, Finds(bytes, 1, a, first), NEW b, NEW more, Finds(rest, 1, b, more),
         NEW found, found = first \cup Further(more, a), NEW c, c = a + b
  PROVE  Finds(all, 1, c, found)
<1>1. /\ a \in Nat /\ Len(rest) \in Nat /\ Len(all) = a + Len(rest) /\ b \in Nat /\ b <= Len(rest)
  BY BehindTypes DEF Finds
<1>2. c \in Nat /\ 1 <= c + 1 /\ c <= Len(all) /\ a <= c
  BY <1>1
<1>3. ASSUME NEW i \in found
      PROVE  /\ i \in Nat /\ 1 <= i /\ i \in Occurrences(all)
             /\ i + FrameLength(From(all, i)) <= c + 1
  <2>1. CASE i \in first
    <3>1. PICK n \in Nat : n = FrameLength(From(all, i)) /\ i + n <= a + 1
      BY <2>1, FirstFound
    <3>2. i \in Nat /\ 1 <= i /\ i \in Occurrences(all)
      BY <2>1, FirstFound
    <3>3. i + n <= c + 1
      BY <1>1, <1>2, <3>1, <3>2
    <3> QED
      BY <3>1, <3>2, <3>3
  <2>2. CASE i \notin first
    <3>1. PICK j \in more : i = a + j
      BY <1>3, <2>2 DEF Further
    <3>2. /\ i \in Nat /\ a < i /\ i \in Occurrences(all)
          /\ i + FrameLength(From(all, i)) <= a + b + 1
      BY <3>1, MoreFound
    <3>3. 1 <= i /\ a + b + 1 = c + 1
      BY <1>1, <3>2
    <3> QED
      BY <3>2, <3>3
  <2> QED
    BY <2>1, <2>2
<1>4. ASSUME NEW k \in 1..c PROVE Settled(all, found, k)
  <2>1. CASE k <= a
    <3>1. k \in 1..a
      BY <1>1, <2>1
    <3> QED
      BY <3>1, SettledFirst
  <2>2. CASE ~(k <= a)
    <3>1. PICK j \in 1..b : k = a + j
      <4>1. k - a \in 1..b /\ k = a + (k - a)
        BY <1>1, <1>2, <2>2
      <4> QED
        BY <4>1
    <3> QED
      BY <3>1, SettledMore
  <2> QED
    BY <2>1, <2>2
<1> QED
  BY <1>2, <1>3, <1>4 DEF Finds

\* The frames of both stretches, one behind the other.
LEMMA JoinedOn ==
  ASSUME NEW all, NEW bytes, NEW rest, NEW a, Behind(all, bytes, rest, a),
         NEW first, Finds(bytes, 1, a, first), NEW b, NEW more, Finds(rest, 1, b, more),
         NEW found, found = first \cup Further(more, a)
  PROVE  IsConcat(Joined(Typed(all), found), Joined(Typed(bytes), first), Joined(Typed(rest), more))
<1>1. /\ a \in Nat /\ Len(rest) \in Nat /\ Len(bytes) \in Nat /\ Len(all) \in Nat
      /\ Len(all) = a + Len(rest) /\ a <= Len(bytes) /\ Len(bytes) <= Len(all)
      /\ all \in BytesSeqs /\ bytes \in BytesSeqs /\ rest \in BytesSeqs
  BY BehindTypes
<1>2. PICK further : further = Further(more, a)
  OBVIOUS
<1>3. PICK ta, tb, tr : ta = Typed(all) /\ tb = Typed(bytes) /\ tr = Typed(rest)
  OBVIOUS
<1>4. /\ PartsIn(ta, FrameSeqs) /\ Len(ta) = Len(all) /\ Len(tb) = Len(bytes) /\ Len(tr) = Len(rest)
  BY <1>1, <1>3, TypedIs
<1>5. \A i \in first : i \in Nat /\ i <= a
  BY FirstFound
<1>6. \A i \in further : i \in Nat /\ a < i
  BY <1>2, MoreFound DEF Further
<1>7. IsConcat(Joined(ta, found), Joined(ta, first), Joined(ta, further))
  <2>1. \A k \in 1..a : (k \in first <=> k \in found) /\ k \notin further
    BY <1>1, <1>2, <1>6
  <2>2. \A k \in a + 1 .. Len(ta) : k \notin first /\ (k \in further <=> k \in found)
    BY <1>1, <1>2, <1>4, <1>5
  <2>3. /\ Same(first, found, 1, a) /\ NoneIn(first, a + 1, Len(ta))
        /\ NoneIn(further, 1, a) /\ Same(further, found, a + 1, Len(ta))
    BY <2>1, <2>2 DEF Same, NoneIn
  <2>4. a <= Len(ta)
    BY <1>1, <1>4
  <2> QED
    BY <1>1, <1>4, <2>3, <2>4, FrameSeqsChain, JoinedSplit
<1>8. Joined(ta, first) = Joined(tb, first)
  <2>1. ASSUME NEW i \in 1..a, i \in first PROVE ta[i] = tb[i]
    <3>1. /\ SameStart(From(all, i), From(bytes, i)) /\ i \in Occurrences(all)
          /\ i \in Occurrences(bytes)
      BY <2>1, FirstFound
    <3>2. i \in 1..Len(all) /\ i \in 1..Len(bytes) /\ BeginsFrame(From(bytes, i))
      BY <3>1 DEF Occurrences
    <3>3. /\ Candidate(From(all, i)) = Candidate(From(bytes, i))
          /\ BeginsTyped(From(all, i)) <=> BeginsTyped(From(bytes, i))
      BY <3>1, <3>2 DEF SameStart, BeginsTyped
    <3> QED
      BY <1>3, <3>2, <3>3 DEF Typed
  <2>2. AgreeTo(ta, first, tb, first, a)
    BY <2>1 DEF AgreeTo
  <2>3. NoneIn(first, a + 1, Len(ta)) /\ NoneIn(first, a + 1, Len(tb))
    BY <1>1, <1>4, <1>5 DEF NoneIn
  <2>4. a <= Len(ta) /\ a <= Len(tb) /\ Len(ta) \in Nat /\ Len(tb) \in Nat
    BY <1>1, <1>4
  <2> QED
    BY <1>1, <2>2, <2>3, <2>4, JoinedSame
<1>9. Joined(ta, further) = Joined(tr, more)
  <2>1. PICK w \in Nat, e \in Nat : w = Len(rest) /\ e = a + w /\ e = Len(all)
    BY <1>1
  <2>2. ASSUME NEW k \in 1..w
        PROVE  (a + k \in further <=> k \in more) /\ (k \in more => ta[a + k] = tr[k])
    <3>1. ASSUME NEW i \in more, a + i = a + k PROVE i = k
      <4>1. i \in Nat
        BY MoreFound
      <4> QED
        BY <1>1, <3>1, <4>1
    <3>2. a + k \in further <=> k \in more
      BY <1>2, <3>1 DEF Further
    <3>3. PICK d : d = a + k
      OBVIOUS
    <3>4. d \in 1..Len(all) /\ k \in 1..Len(rest) /\ k \in 1 .. Len(rest) + 1
      BY <1>1, <2>1, <3>3
    <3>5. From(all, d) = From(rest, k)
      BY <3>3, <3>4, SameRest
    <3>6. ta[d] = tr[k]
      BY <1>3, <3>4, <3>5 DEF Typed
    <3> QED
      BY <3>2, <3>3, <3>6
  <2>3. Agree(ta, further, tr, more, a, w)
    BY <2>2 DEF Agree
  <2>4. NoneIn(further, 1, a) /\ NoneIn(further, e + 1, Len(ta)) /\ NoneIn(more, w + 1, Len(tr))
    <3>1. \A k \in 1..a : k \notin further
      BY <1>1, <1>6
    <3>2. \A k \in e + 1 .. Len(ta) : FALSE
      BY <1>4, <2>1
    <3>3. \A k \in w + 1 .. Len(tr) : FALSE
      BY <1>4, <2>1
    <3> QED
      BY <3>1, <3>2, <3>3 DEF NoneIn
  <2>5. e <= Len(ta) /\ w <= Len(tr) /\ Len(ta) \in Nat /\ Len(tr) \in Nat
    BY <1>4, <2>1
  <2>6. a \in Nat /\ w \in Nat /\ e \in Nat /\ e = a + w
    BY <1>1, <2>1
  <2> QED
    BY <2>3, <2>4, <2>5, <2>6, JoinedShift
<1> QED
  BY <1>3, <1>7, <1>8, <1>9

\* A payload searched behind what was left is as good as all searched at once.
LEMMA SearchedOn ==
  ASSUME NEW bytes \in BytesSeqs, NEW payload \in BytesSeqs, NEW a, NEW pending, NEW frames,
         NEW first, Searched(bytes, 1, a, pending, frames, first),
         NEW b, NEW left, NEW returned, NEW more,
         Searched(pending \o payload, 1, b, left, returned, more)
  PROVE  \E c : \E found : Searched(bytes \o payload, 1, c, left, frames \o returned, found)
<1>1. PICK all, rest : all = bytes \o payload /\ rest = pending \o payload
  OBVIOUS
<1>2. /\ Finds(bytes, 1, a, first) /\ pending = From(bytes, a + 1)
      /\ frames = Joined(Typed(bytes), first) /\ a \in Nat /\ a <= Len(bytes)
  BY DEF Searched, Finds
<1>3. /\ Finds(rest, 1, b, more) /\ left = From(rest, b + 1) /\ (b < Len(rest) => Undecided(left))
      /\ returned = Joined(Typed(rest), more) /\ b \in Nat /\ b <= Len(rest)
  BY <1>1 DEF Searched, Finds
<1>4. Behind(all, bytes, rest, a)
  BY <1>1, <1>2, BehindIs
<1>5. PICK c, found : c = a + b /\ found = first \cup Further(more, a)
  OBVIOUS
<1>6. Finds(all, 1, c, found)
  BY <1>2, <1>3, <1>4, <1>5, FindsOn
<1>7. Joined(Typed(all), found) = frames \o returned
  <2>1. IsConcat(Joined(Typed(all), found), Joined(Typed(bytes), first), Joined(Typed(rest), more))
    BY <1>2, <1>3, <1>4, <1>5, JoinedOn
  <2> QED
    BY <1>2, <1>3, <2>1 DEF IsConcat
<1>8. left = From(all, c + 1) /\ (c < Len(all) => Undecided(left))
  <2>1. Len(all) = a + Len(rest) /\ Len(rest) \in Nat
    BY <1>4, BehindTypes
  <2>2. b + 1 \in 1 .. Len(rest) + 1 /\ c + 1 = a + (b + 1) /\ (c < Len(all) => b < Len(rest))
    BY <1>2, <1>3, <1>5, <2>1
  <2>3. From(all, c + 1) = From(rest, b + 1)
    BY <1>4, <2>2, SameRest
  <2> QED
    BY <1>3, <2>2, <2>3
<1>9. Searched(all, 1, c, left, frames \o returned, found)
  BY <1>6, <1>7, <1>8 DEF Searched
<1> QED
  BY <1>1, <1>9

-----------------------------------------------------------------------------
(* Whether there is a frame *)

\* Something is joined when one of the parts is something, and nothing when none is.
LEMMA JoinedHas ==
  ASSUME NEW parts, PartsIn(parts, FrameSeqs), NEW which,
         NEW k \in 1..Len(parts), k \in which, parts[k] # <<>>
  PROVE  Joined(parts, which) # <<>>
<1>0. PICK n \in Nat : n = Len(parts)
  BY DEF PartsIn
<1>1. PICK b \in Nat : b + 1 = k
  <2>1. k - 1 \in Nat /\ k - 1 + 1 = k
    BY <1>0
  <2> QED
    BY <2>1
<1>2. PICK first, rest, last : /\ first = {i \in which : i \in 1..b}
                               /\ rest = {i \in which : i \in k..n}
                               /\ last = {i \in which : i \in k + 1 .. n}
  OBVIOUS
<1>3. /\ Same(first, which, 1, b) /\ NoneIn(first, b + 1, Len(parts))
      /\ NoneIn(rest, 1, b) /\ Same(rest, which, b + 1, Len(parts))
      /\ Same({k}, rest, k, k) /\ NoneIn({k}, k + 1, Len(parts)) /\ NoneIn(rest, 1, b)
      /\ NoneIn(last, 1, k) /\ Same(last, rest, k + 1, Len(parts)) /\ NoneIn({k}, 1, b)
  BY <1>0, <1>1, <1>2 DEF Same, NoneIn
<1>4. Same({k}, rest, 1, k)
  <2>1. \A i \in 1..k : i = k \/ i \in 1..b
    BY <1>0, <1>1
  <2>2. k \in rest
    BY <1>0, <1>2
  <2> QED
    BY <1>3, <2>1, <2>2 DEF Same, NoneIn
<1>5. b <= Len(parts) /\ k \in Nat /\ k <= Len(parts)
  BY <1>0, <1>1
<1>6. IsConcat(Joined(parts, which), Joined(parts, first), Joined(parts, rest))
  BY <1>3, <1>5, FrameSeqsChain, JoinedSplit
<1>7. IsConcat(Joined(parts, rest), Joined(parts, {k}), Joined(parts, last))
  BY <1>3, <1>4, <1>5, FrameSeqsChain, JoinedSplit
<1>8. Joined(parts, {k}) = parts[k]
  BY FrameSeqsChain, JoinedOne
<1>9. PICK x, y, z, u : /\ x = Joined(parts, first) /\ y = Joined(parts, rest)
                        /\ z = Joined(parts, last) /\ u = parts[k]
  OBVIOUS
<1>10. x \in FrameSeqs /\ y \in FrameSeqs /\ z \in FrameSeqs /\ u \in FrameSeqs
  BY <1>9, FrameSeqsChain, JoinedType DEF PartsIn
<1>11. Len(x) \in Nat /\ Len(z) \in Nat /\ Len(u) \in Nat /\ Len(u) # 0
  BY <1>9, <1>10, LenProperties, EmptySeq DEF FrameSeqs
<1>12. Len(y) = Len(u) + Len(z)
  <2>1. y = u \o z
    BY <1>7, <1>8, <1>9 DEF IsConcat
  <2>2. Len(u \o z) = Len(u) + Len(z)
    BY <1>10, ConcatProperties DEF FrameSeqs
  <2> QED
    BY <2>1, <2>2
<1>13. Len(Joined(parts, which)) = Len(x) + Len(y)
  BY <1>6, <1>9, <1>10, ConcatProperties DEF FrameSeqs, IsConcat
<1>14. Len(Joined(parts, which)) # 0
  BY <1>11, <1>12, <1>13
<1> QED
  BY <1>14, EmptySeq

LEMMA JoinedEmpty ==
  ASSUME NEW parts, Len(parts) \in Nat, NEW which,
         \A n \in 1..Len(parts) : parts[n] = <<>>
  PROVE  Joined(parts, which) = <<>>
<1>1. PICK g : Joins(g, parts, which) /\ Joined(parts, which) = g[Len(parts)]
  BY JoinedIs
<1> DEFINE P == {n \in Nat : n <= Len(parts) => g[n] = <<>>}
<1>2. 0 \in P
  BY <1>1 DEF Joins
<1>3. ASSUME NEW n \in Nat, n \in P PROVE n + 1 \in P
  <2> SUFFICES ASSUME n + 1 <= Len(parts) PROVE g[n + 1] = <<>>
    OBVIOUS
  <2>1. n + 1 \in 1..Len(parts) /\ n + 1 - 1 = n /\ n <= Len(parts)
    OBVIOUS
  <2>2. g[n + 1] = IF n + 1 \in which THEN g[n + 1 - 1] \o parts[n + 1] ELSE g[n + 1 - 1]
    BY <1>1, <2>1 DEF Joins
  <2>3. g[n] = <<>> /\ parts[n + 1] = <<>>
    BY <1>3, <2>1
  <2>4. <<>> \o <<>> = <<>>
    BY EmptySeq, ConcatEmptySeq
  <2> QED
    BY <2>1, <2>2, <2>3, <2>4
<1> HIDE DEF P
<1>4. Len(parts) \in P
  BY <1>2, <1>3, SetInduction
<1> QED
  BY <1>1, <1>4 DEF P

-----------------------------------------------------------------------------
(* What every flow has read *)

FlowRead(bytes, flow) ==
  \E to : \E found : Searched(bytes, 1, to, flow.pending, flow.frames, found)
ReadInv ==
  IsFiniteSet(DOMAIN flows) /\ \A key \in DOMAIN flows : FlowRead(Bytes(Of(key)), flows[key])
ExitInv ==
  /\ at = "no-rtcm" => \A key \in DOMAIN flows : flows[key].frames = <<>>
  /\ at = "reported" /\ options.requireRtcm => \E key \in DOMAIN flows : flows[key].frames # <<>>
FramesInv == MacBesideIp => ReadInv /\ ExitInv

LEMMA BytesType ==
  ASSUME TypesInv, NEW which
  PROVE  Bytes(which) \in BytesSeqs
BY JoinedPayloadsType DEF TypesInv, Bytes, Payloads, PayloadsOf

LEMMA BytesMore ==
  ASSUME TypesInv, NEW p \in Packets, Yield(p), NEW which, which \subseteq 1..Len(capture)
  PROVE  /\ Joined(Payloads', which) = Bytes(which)
         /\ IsConcat(Joined(Payloads', which \cup {Len(capture) + 1}), Bytes(which), LayerPayload(p))
<1>1. capture \in Seq(Packets) /\ capture' = Append(capture, p)
  BY DEF TypesInv, Yield
<1>2. Payloads = PayloadsOf(capture) /\ Payloads' = PayloadsOf(Append(capture, p))
  BY <1>1 DEF Payloads, PayloadsOf
<1> QED
  BY <1>1, <1>2, PayloadsMore DEF Bytes

LEMMA SearchedTypes ==
  ASSUME NEW bytes \in BytesSeqs, NEW to, NEW left, NEW frames, NEW found,
         Searched(bytes, 1, to, left, frames, found)
  PROVE  /\ left \in BytesSeqs /\ frames \in FrameSeqs /\ to \in Nat /\ to <= Len(bytes)
         /\ Len(bytes) \in Nat /\ Len(left) = Len(bytes) - to
<1>1. to \in Nat /\ to <= Len(bytes) /\ Len(bytes) \in Nat
  BY BytesAre DEF Searched, Finds
<1>2. /\ to + 1 \in 1 .. Len(bytes) + 1 /\ left = From(bytes, to + 1)
      /\ Len(bytes) + 1 - (to + 1) = Len(bytes) - to
  BY <1>1 DEF Searched
<1>3. left \in BytesSeqs /\ Len(left) = Len(bytes) + 1 - (to + 1)
  BY <1>2, FromIs
<1>4. frames \in FrameSeqs
  BY TypedJoined DEF Searched
<1> QED
  BY <1>1, <1>2, <1>3, <1>4

LEMMA NothingRead == FlowRead(<<>>, NewFlow)
<1>1. <<>> \in BytesSeqs /\ Len(<<>>) = 0
  BY EmptySeq DEF BytesSeqs
<1>2. PICK z \in Nat : z = 0
  OBVIOUS
<1>3. PICK left : left = From(<<>>, z + 1)
  OBVIOUS
<1>4. left = <<>>
  <2>1. z + 1 \in 1 .. Len(<<>>) + 1 /\ Len(<<>>) + 1 - (z + 1) = 0
    BY <1>1, <1>2
  <2>2. left \in BytesSeqs /\ Len(left) = Len(<<>>) + 1 - (z + 1)
    BY <1>1, <1>3, <2>1, FromIs
  <2> QED
    BY <2>1, <2>2, EmptySeq DEF BytesSeqs
<1>5. PICK r : r = [left |-> left, frames |-> <<>>, errors |-> 0]
  OBVIOUS
<1>6. z <= Len(<<>>) /\ ~(z < Len(<<>>))
  BY <1>1, <1>2
<1>7. Good(r, <<>>, z + 1)
  BY <1>1, <1>3, <1>5, <1>6, GoodEnd
<1>8. z + 1 = 1 /\ r.left = <<>> /\ r.frames = <<>>
  BY <1>2, <1>4, <1>5
<1>9. \E to : \E found : Searched(<<>>, 1, to, <<>>, <<>>, found)
  BY <1>7, <1>8 DEF Good
<1> QED
  BY <1>9 DEF FlowRead, NewFlow

LEMMA FlowOfRead ==
  ASSUME FlowsInv, MacBesideIp, ReadInv, NEW key \in Keys
  PROVE  FlowRead(Bytes(Of(key)), FlowOf(key))
<1>1. CASE key \in DOMAIN flows
  BY <1>1 DEF ReadInv, FlowOf
<1>2. CASE key \notin DOMAIN flows
  <2>1. Of(key) = {}
    BY <1>2, FlowOfNone
  <2>2. Bytes({}) = <<>>
    BY TallyNone DEF FlowsInv, TypesInv, Bytes, Payloads, PayloadsOf
  <2> QED
    BY <1>2, <2>1, <2>2, NothingRead DEF FlowOf
<1> QED
  BY <1>1, <1>2

\* Flow.observe goes on where it stopped.
LEMMA ObserveReads ==
  ASSUME NEW bytes \in BytesSeqs, NEW flow, FlowRead(bytes, flow), NEW key, NEW p \in Packets
  PROVE  FlowRead(bytes \o LayerPayload(p), Observe(flow, key, p))
<1> DEFINE rest == flow.pending \o LayerPayload(p)
           parsed == Feed(rest)
<1>1. PICK a, first : Searched(bytes, 1, a, flow.pending, flow.frames, first)
  BY DEF FlowRead
<1>2. flow.pending \in BytesSeqs /\ LayerPayload(p) \in BytesSeqs
  BY <1>1, SearchedTypes, LayerPayloadType
<1>3. rest \in BytesSeqs
  BY <1>2, ConcatIs
<1>4. PICK b, more : Searched(rest, 1, b, parsed.left, parsed.frames, more)
  <2> HIDE DEF rest
  <2> QED
    BY <1>3, FeedIsGood DEF Good
<1> HIDE DEF parsed
<1>5. \E c : \E found : Searched(bytes \o LayerPayload(p), 1, c, parsed.left,
                                flow.frames \o parsed.frames, found)
  BY <1>1, <1>2, <1>4, SearchedOn
<1>6. /\ Observe(flow, key, p).pending = parsed.left
      /\ Observe(flow, key, p).frames = flow.frames \o parsed.frames
  BY DEF Observe, parsed
<1> QED
  BY <1>5, <1>6 DEF FlowRead

LEMMA ReadStep ==
  ASSUME FlowsInv, MacBesideIp, ReadInv, NEW p \in Packets,
         SkipPacket(p) \/ ObserveArp(p) \/ ObserveFlow(p)
  PROVE  ReadInv'
<1>0. TypesInv /\ \A key : Of(key) \subseteq 1..Len(capture)
  BY OfRange DEF FlowsInv
<1>1. CASE SkipPacket(p) \/ ObserveArp(p)
  <2>1. Yield(p) /\ flows' = flows /\ \A key \in DOMAIN flows : ~(Between(p, key) /\ Involved(p))
    BY <1>0, <1>1, OtherStep
  <2>2. ASSUME NEW key \in DOMAIN flows PROVE Bytes(Of(key))' = Bytes(Of(key))
    <3>1. Of(key)' = Of(key)
      BY <1>0, <2>1, OfGrows
    <3>2. Joined(Payloads', Of(key)) = Bytes(Of(key))
      BY <1>0, <2>1, BytesMore
    <3> QED
      BY <3>1, <3>2 DEF Bytes
  <2> QED
    BY <2>1, <2>2 DEF ReadInv
<1>2. CASE ObserveFlow(p)
  <2>1. PICK own : own = CanonicalFlow(p)
    OBVIOUS
  <2>2. /\ own \in Keys /\ Between(p, own) /\ Involved(p) /\ Yield(p)
        /\ DOMAIN flows' = DOMAIN flows \cup {own}
        /\ flows'[own] = Observe(FlowOf(own), own, p)
        /\ \A key \in DOMAIN flows \ {own} : flows'[key] = flows[key] /\ ~Between(p, key)
    BY <1>0, <1>2, <2>1, ObserveFlowStep
  <2>3. ASSUME NEW key \in DOMAIN flows \ {own} PROVE FlowRead(Bytes(Of(key))', flows'[key])
    <3>1. Of(key)' = Of(key)
      BY <1>0, <2>2, <2>3, OfGrows
    <3>2. Joined(Payloads', Of(key)) = Bytes(Of(key))
      BY <1>0, <2>2, BytesMore
    <3> QED
      BY <2>2, <3>1, <3>2 DEF Bytes, ReadInv
  <2>4. FlowRead(Bytes(Of(own))', flows'[own])
    <3>1. Of(own)' = Of(own) \cup {Len(capture) + 1}
      BY <1>0, <2>2, OfGrows
    <3>2. IsConcat(Joined(Payloads', Of(own) \cup {Len(capture) + 1}), Bytes(Of(own)), LayerPayload(p))
      BY <1>0, <2>2, BytesMore
    <3>3. Bytes(Of(own))' = Bytes(Of(own)) \o LayerPayload(p)
      BY <3>1, <3>2 DEF Bytes, IsConcat
    <3>4. FlowRead(Bytes(Of(own)), FlowOf(own)) /\ Bytes(Of(own)) \in BytesSeqs
      BY <1>0, <2>2, FlowOfRead, BytesType
    <3>5. FlowRead(Bytes(Of(own)) \o LayerPayload(p), Observe(FlowOf(own), own, p))
      BY <3>4, ObserveReads
    <3> QED
      BY <2>2, <3>3, <3>5
  <2>5. IsFiniteSet(DOMAIN flows')
    BY <2>2, FS_AddElement DEF ReadInv
  <2> QED
    BY <2>2, <2>3, <2>4, <2>5 DEF ReadInv
<1> QED
  BY <1>1, <1>2

\* No valid frame in the whole report: none in any flow.
LEMMA NoRtcmMeans ==
  ASSUME TypesInv, ReadInv
  PROVE  NoRtcm <=> \A key \in DOMAIN flows : flows[key].frames = <<>>
<1> DEFINE f == [key \in DOMAIN flows |-> Len(flows[key].frames)]
<1>1. ASSUME NEW key \in DOMAIN flows
      PROVE  flows[key].frames \in FrameSeqs
  BY BytesType, SearchedTypes DEF ReadInv, FlowRead
<1>2. ASSUME NEW s \in FrameSeqs PROVE Len(s) \in Nat /\ (Len(s) = 0 <=> s = <<>>)
  BY LenProperties, EmptySeq DEF FrameSeqs
<1>3. \A key \in DOMAIN f : f[key] \in Nat /\ (f[key] = 0 <=> flows[key].frames = <<>>)
  BY <1>1, <1>2
<1>4. DOMAIN f = DOMAIN flows /\ IsFiniteSet(DOMAIN f)
  BY DEF ReadInv
<1>5. ValidRtcmFrames = SumFunction(f)
  BY DEF ValidRtcmFrames
<1> HIDE DEF f
<1>6. SumFunction(f) = 0 <=> \A key \in DOMAIN f : f[key] = 0
  BY <1>3, <1>4, SumIsZero
<1> QED
  BY <1>3, <1>4, <1>5, <1>6 DEF NoRtcm

LEMMA FramesInvHolds == Spec => []FramesInv
<1>1. Init => FramesInv
  <2> SUFFICES ASSUME Init PROVE FramesInv
    OBVIOUS
  <2>1. DOMAIN flows = {} /\ at = "reading"
    BY DEF Init
  <2> QED
    BY <2>1, FS_EmptySet DEF FramesInv, ReadInv, ExitInv
<1>2. FlowsInv /\ FramesInv /\ [Next]_vars => FramesInv'
  <2> SUFFICES ASSUME FlowsInv, FramesInv, [Next]_vars, MacBesideIp' PROVE ReadInv' /\ ExitInv'
    BY DEF FramesInv
  <2>0. options' = options
    BY DEF Next, SkipPacket, ObserveArp, ObserveFlow, Yield, EndOfFile, BadFile, vars
  <2>1. MacBesideIp /\ TypesInv /\ ReadInv /\ ExitInv
    <3>1. MacBesideIp
      BY <2>0 DEF MacBesideIp
    <3> QED
      BY <3>1 DEF FlowsInv, FramesInv
  <2>2. ASSUME NEW p \in Packets, SkipPacket(p) \/ ObserveArp(p) \/ ObserveFlow(p)
        PROVE  ReadInv' /\ ExitInv'
    <3>1. ReadInv'
      BY <2>1, <2>2, ReadStep
    <3>2. at' = "reading"
      BY <2>2 DEF SkipPacket, ObserveArp, ObserveFlow, Yield
    <3> QED
      BY <3>1, <3>2 DEF ExitInv
  <2>3. ASSUME flows' = flows, capture' = capture PROVE ReadInv'
    <3>1. \A key : Of(key)' = Of(key)
      BY <2>0, <2>3 DEF Of, Wanted
    <3>2. Payloads' = Payloads
      BY <2>3 DEF Payloads
    <3>3. \A key : Bytes(Of(key))' = Bytes(Of(key))
      BY <3>1, <3>2 DEF Bytes
    <3> QED
      BY <2>1, <2>3, <3>3 DEF ReadInv
  <2>4. CASE EndOfFile
    <3>1. flows' = flows /\ capture' = capture
      BY <2>4 DEF EndOfFile
    <3>2. at' = IF options.requireRtcm /\ NoRtcm THEN "no-rtcm" ELSE "reported"
      BY <2>4 DEF EndOfFile
    <3>3. NoRtcm <=> \A key \in DOMAIN flows : flows[key].frames = <<>>
      BY <2>1, NoRtcmMeans
    <3>4. at' = "no-rtcm" => NoRtcm
      BY <3>2
    <3>5. at' = "reported" /\ options.requireRtcm => ~NoRtcm
      BY <3>2
    <3>6. ExitInv'
      BY <2>0, <3>1, <3>3, <3>4, <3>5 DEF ExitInv
    <3> QED
      BY <2>3, <3>1, <3>6
  <2>5. CASE BadFile
    <3>1. flows' = flows /\ capture' = capture /\ at' = "failed"
      BY <2>5 DEF BadFile
    <3> QED
      BY <2>3, <3>1 DEF ExitInv
  <2>6. CASE UNCHANGED vars
    <3>1. flows' = flows /\ capture' = capture /\ at' = at
      BY <2>6 DEF vars
    <3>2. ExitInv'
      BY <2>0, <2>1, <3>1 DEF ExitInv
    <3> QED
      BY <2>3, <3>1, <3>2
  <2> QED
    BY <2>2, <2>4, <2>5, <2>6 DEF Next
<1> QED
  BY <1>1, <1>2, FlowsInvHolds, PTL DEF Spec

LEMMA FlowIsRead ==
  ASSUME FlowsInv, FramesInv, MacBesideIp, NEW key \in DOMAIN flows,
         NEW bytes, bytes = Bytes(Of(key))
  PROVE  /\ bytes \in BytesSeqs /\ Len(bytes) \in Nat /\ Parsed(key) \in Nat
         /\ Parsed(key) <= Len(bytes)
         /\ \E found : Searched(bytes, 1, Parsed(key), flows[key].pending, flows[key].frames, found)
<1>1. bytes \in BytesSeqs
  BY BytesType DEF FlowsInv
<1>2. PICK to, found : Searched(bytes, 1, to, flows[key].pending, flows[key].frames, found)
  BY DEF FramesInv, ReadInv, FlowRead
<1>3. /\ to \in Nat /\ to <= Len(bytes) /\ Len(bytes) \in Nat
      /\ Len(flows[key].pending) = Len(bytes) - to
  BY <1>1, <1>2, SearchedTypes
<1>4. Len(bytes) - (Len(bytes) - to) = to
  BY <1>3
<1>5. Parsed(key) = to
  BY <1>3, <1>4 DEF Parsed
<1> QED
  BY <1>1, <1>2, <1>3, <1>5

\* One parser per flow, fed packet by packet, finds the frames that occur in all the
\* bytes of the flow, of those that overlap the first, and --require-rtcm tells whether
\* it found one that has a type.
THEOREM FramesAreFound == Spec => []FramesAreThoseOfTheFlow
<1>1. FlowsInv /\ FramesInv => FramesAreThoseOfTheFlow
  <2> SUFFICES ASSUME FlowsInv, FramesInv, MacBesideIp PROVE FramesAreThoseOfTheFlow
    BY DEF FramesAreThoseOfTheFlow
  <2>0. ExitInv
    BY DEF FramesInv
  <2>1. ASSUME NEW key \in DOMAIN flows
        PROVE  LET bytes == Bytes(Of(key))
                   before == {i \in Occurrences(bytes) : i <= Parsed(key)}
                   pending == flows[key].pending
               IN /\ \E found \in SUBSET before :
                       /\ \A k \in before : k \in found <=> ~\E i \in found : Overlaps(bytes, i, k)
                       /\ flows[key].frames = Joined(Typed(bytes), found)
                  /\ pending = From(bytes, Parsed(key) + 1)
                  /\ pending # <<>> => pending[1] = Preamble /\ Incomplete(pending)
    <3>1. PICK bytes : bytes = Bytes(Of(key))
      OBVIOUS
    <3>2. PICK to, pending, frames : /\ to = Parsed(key) /\ pending = flows[key].pending
                                     /\ frames = flows[key].frames
      OBVIOUS
    <3>3. /\ bytes \in BytesSeqs /\ Len(bytes) \in Nat /\ to \in Nat /\ to <= Len(bytes)
          /\ \E found : Searched(bytes, 1, to, pending, frames, found)
      BY <2>1, <3>1, <3>2, FlowIsRead
    <3>4. PICK found : Searched(bytes, 1, to, pending, frames, found)
      BY <3>3
    <3>5. pending = From(bytes, to + 1) /\ frames = Joined(Typed(bytes), found) /\ Finds(bytes, 1, to, found)
      BY <3>4 DEF Searched
    <3>6. ASSUME NEW i \in found PROVE i \in Occurrences(bytes) /\ i <= to
      <4>1. i \in Occurrences(bytes) /\ i + FrameLength(From(bytes, i)) <= to + 1
        BY <3>5 DEF Finds
      <4>2. PICK n \in Nat : n = FrameLength(From(bytes, i)) /\ n >= 4
        BY <3>3, <4>1, OccurrenceIs
      <4>3. i \in Nat
        BY <3>3, <4>1, OccurrenceIs
      <4> QED
        BY <3>3, <4>1, <4>2, <4>3
    <3>7. ASSUME NEW k \in Occurrences(bytes), k <= to
          PROVE  k \in found <=> ~\E i \in found : Overlaps(bytes, i, k)
      <4>1. k \in 1..to
        BY <3>3, <3>7, OccurrenceIs
      <4>2. Settled(bytes, found, k)
        BY <3>5, <4>1 DEF Finds
      <4> QED
        BY <4>2 DEF Settled, Hidden
    <3>8. pending # <<>> => pending[1] = Preamble /\ Incomplete(pending)
      <4>1. to < Len(bytes) => Undecided(pending)
        BY <3>4 DEF Searched
      <4>2. to = Len(bytes) => pending = <<>>
        <5>1. /\ to + 1 \in 1 .. Len(bytes) + 1
              /\ to = Len(bytes) => Len(bytes) + 1 - (to + 1) = 0
          BY <3>3
        <5>2. pending \in BytesSeqs /\ Len(pending) = Len(bytes) + 1 - (to + 1)
          BY <3>3, <3>5, <5>1, FromIs
        <5> QED
          BY <5>1, <5>2, EmptySeq DEF BytesSeqs
      <4> QED
        BY <3>3, <4>1, <4>2 DEF Undecided
    <3>9. \E x \in SUBSET {i \in Occurrences(bytes) : i <= to} :
            /\ \A k \in {i \in Occurrences(bytes) : i <= to} :
                 k \in x <=> ~\E i \in x : Overlaps(bytes, i, k)
            /\ frames = Joined(Typed(bytes), x)
      <4>1. found \in SUBSET {i \in Occurrences(bytes) : i <= to}
        BY <3>6
      <4> QED
        BY <3>5, <3>7, <4>1
    <3> QED
      BY <3>1, <3>2, <3>5, <3>8, <3>9
  <2>2. ASSUME at = "no-rtcm", NEW key \in DOMAIN flows, NEW bytes, bytes = Bytes(Of(key)),
               NEW k \in 1..Parsed(key), BeginsTyped(From(bytes, k))
        PROVE  \E i \in Occurrences(bytes) : Overlaps(bytes, i, k) /\ ~BeginsTyped(From(bytes, i))
    <3>1. PICK to, frames : to = Parsed(key) /\ frames = flows[key].frames
      OBVIOUS
    <3>2. /\ bytes \in BytesSeqs /\ Len(bytes) \in Nat /\ to \in Nat /\ to <= Len(bytes)
          /\ \E found : Searched(bytes, 1, to, flows[key].pending, frames, found)
      BY <2>2, <3>1, FlowIsRead
    <3>3. PICK found : Searched(bytes, 1, to, flows[key].pending, frames, found)
      BY <3>2
    <3>4. frames = <<>> /\ frames = Joined(Typed(bytes), found) /\ Finds(bytes, 1, to, found)
      BY <2>0, <2>2, <3>1, <3>3 DEF ExitInv, Searched
    <3>5. /\ PartsIn(Typed(bytes), FrameSeqs) /\ Len(Typed(bytes)) = Len(bytes)
          /\ \A i \in 1..Len(bytes) : BeginsTyped(From(bytes, i)) => Typed(bytes)[i] # <<>>
      <4>1. \A x : <<x>> # <<>>
        OBVIOUS
      <4> QED
        BY <3>2, <4>1, TypedIs
    <3>6. ASSUME NEW i \in found PROVE i \in Occurrences(bytes) /\ ~BeginsTyped(From(bytes, i))
      <4>1. i \in Occurrences(bytes) /\ i \in 1..Len(bytes)
        BY <3>2, <3>4, OccurrenceIs DEF Finds
      <4> QED
        BY <3>4, <3>5, <4>1, JoinedHas
    <3>7. k \in Occurrences(bytes) /\ k \in 1..to
      <4>1. k \in 1..to /\ k \in 1..Len(bytes)
        BY <3>1, <3>2
      <4> QED
        BY <2>2, <4>1 DEF Occurrences, BeginsTyped
    <3>8. Settled(bytes, found, k)
      BY <3>4, <3>7 DEF Finds
    <3>9. k \notin found
      BY <2>2, <3>6
    <3>10. PICK i \in found : Overlaps(bytes, i, k)
      BY <3>7, <3>8, <3>9 DEF Settled, Hidden
    <3> QED
      BY <3>6, <3>10
  <2>3. ASSUME at = "reported", options.requireRtcm
        PROVE  \E key \in DOMAIN flows : LET bytes == Bytes(Of(key)) IN
                 \E k \in 1..Len(bytes) : BeginsTyped(From(bytes, k))
    <3>1. PICK key \in DOMAIN flows : flows[key].frames # <<>>
      BY <2>0, <2>3 DEF ExitInv
    <3>2. PICK bytes : bytes = Bytes(Of(key))
      OBVIOUS
    <3>3. /\ bytes \in BytesSeqs /\ Len(bytes) \in Nat
          /\ \E found : Searched(bytes, 1, Parsed(key), flows[key].pending, flows[key].frames, found)
      BY <3>2, FlowIsRead
    <3>4. PICK found : flows[key].frames = Joined(Typed(bytes), found)
      BY <3>3 DEF Searched
    <3>5. PICK k \in 1..Len(Typed(bytes)) : Typed(bytes)[k] # <<>>
      <4>1. Len(Typed(bytes)) \in Nat
        BY <3>3, TypedIs
      <4> QED
        BY <3>1, <3>4, <4>1, JoinedEmpty
    <3>6. k \in 1..Len(bytes) /\ BeginsTyped(From(bytes, k))
      BY <3>3, <3>5, TypedIs
    <3> QED
      BY <3>2, <3>6
  <2> QED
    BY <2>1, <2>2, <2>3 DEF FramesAreThoseOfTheFlow
<1> QED
  BY <1>1, FlowsInvHolds, FramesInvHolds, PTL
=============================================================================
