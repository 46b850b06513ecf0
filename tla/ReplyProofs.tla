---------------------------- MODULE ReplyProofs ----------------------------
(***************************************************************************)
(* Proofs about the replies of Handlers.tla as GlibcClient.tla reads them, *)
(* for strings, members, aliases, addresses and group lists of any length  *)
(* (that an i32 can hold: `as i32' is not modelled beyond that).           *)
(*                                                                         *)
(* A serialize_* function joins a header and a list of pieces; the client  *)
(* knows the lengths of the pieces from the header and cuts them apart.    *)
(* So: where the pieces of a list start (Offset), that concatenation and   *)
(* FlattenSeq lay them there (Tiled), that cutting by their lengths gives  *)
(* them back (TiledIsCut), that each kind of piece is read for what was    *)
(* written, and then one reply after the other.                            *)
(*                                                                         *)
(* Induction is by the least counterexample (WFMin), with a set where an   *)
(* induction theorem would have a predicate; a recursive function is first *)
(* shown to exist, then to be the function of its equation.                *)
(***************************************************************************)
EXTENDS GlibcClient, WellFoundedInduction, SequenceTheorems, TLAPS

\* A set of natural numbers that is not empty has a least element.
LEMMA LeastExists ==
  ASSUME NEW S \in SUBSET Nat, S # {}
  PROVE  \E x \in S : \A y \in S : x <= y
<1>1. PICK x \in S : \A y \in S : <<y, x>> \notin OpToRel(<, Nat)
  BY NatLessThanWellFounded, WFMin
<1>2. \A y \in S : ~(y < x)
  BY <1>1 DEF OpToRel
<1>3. \A y \in S : x <= y
  <2> SUFFICES ASSUME NEW y \in S PROVE x <= y
    OBVIOUS
  <2>1. x \in Nat /\ y \in Nat
    OBVIOUS
  <2> QED  BY <2>1, <1>2
<1> QED  BY <1>3

\* Induction up to n, for a set in the place of a predicate.
LEMMA InductUpTo ==
  ASSUME NEW n \in Nat, NEW S, 0 \in S,
         \A k \in 0 .. n - 1 : k \in S => k + 1 \in S
  PROVE  \A k \in 0 .. n : k \in S
<1> DEFINE T == {k \in 0 .. n : k \notin S}
<1> SUFFICES ASSUME T # {} PROVE FALSE
  OBVIOUS
<1>1. PICK m \in T : \A k \in T : m <= k
  <2>1. T \in SUBSET Nat
    OBVIOUS
  <2> HIDE DEF T
  <2> QED  BY <2>1, LeastExists
<1>2. m \in 0 .. n /\ m # 0
  BY <1>1
<1>3. m - 1 \in 0 .. n - 1 /\ m - 1 \in S
  BY <1>1, <1>2
<1>4. (m - 1) + 1 \in S
  BY <1>3
<1> QED  BY <1>2, <1>4

\* The elements of a concatenation.
LEMMA ConcatElements ==
  ASSUME NEW T, NEW c \in Seq(T), NEW d \in Seq(T)
  PROVE  /\ c \o d \in Seq(T) /\ Len(c \o d) = Len(c) + Len(d)
         /\ Len(c) \in Nat /\ Len(d) \in Nat
         /\ \A i \in 1 .. Len(c) : (c \o d)[i] = c[i]
         /\ \A i \in 1 .. Len(d) : (c \o d)[Len(c) + i] = d[i]
BY ConcatProperties

\* The recursive function in the client's Offset exists.
LEMMA OffsetExists ==
  ASSUME NEW lens \in Seq(Nat)
  PROVE  \E f \in [1 .. Len(lens) + 1 -> Nat] :
           \A i \in 1 .. Len(lens) + 1 :
             f[i] = IF i = 1 THEN 0 ELSE f[i - 1] + lens[i - 1]
<1> DEFINE Rec(f, k) == \A i \in 1 .. k + 1 :
                          f[i] = IF i = 1 THEN 0 ELSE f[i - 1] + lens[i - 1]
           S == {k \in 0 .. Len(lens) : \E f \in [1 .. k + 1 -> Nat] : Rec(f, k)}
<1>0. Len(lens) \in Nat
  OBVIOUS
<1>1. 0 \in S
  <2>1. [i \in 1 .. 0 + 1 |-> 0] \in [1 .. 0 + 1 -> Nat]
    OBVIOUS
  <2>2. Rec([i \in 1 .. 0 + 1 |-> 0], 0)
    OBVIOUS
  <2>3. 0 \in 0 .. Len(lens)
    BY <1>0
  <2> HIDE DEF Rec
  <2> QED  BY <2>1, <2>2, <2>3
<1>2. ASSUME NEW k \in 0 .. Len(lens) - 1, k \in S PROVE k + 1 \in S
  <2>1. PICK f \in [1 .. k + 1 -> Nat] : Rec(f, k)
    BY <1>2
  <2> DEFINE g == [i \in 1 .. (k + 1) + 1 |->
                     IF i <= k + 1 THEN f[i] ELSE f[k + 1] + lens[k + 1]]
  <2>2. g \in [1 .. (k + 1) + 1 -> Nat]
    BY <2>1
  <2>3. Rec(g, k + 1)
    BY <2>1
  <2>4. k + 1 \in 0 .. Len(lens)
    BY <1>0
  <2> HIDE DEF Rec, g
  <2> QED  BY <2>2, <2>3, <2>4
<1> HIDE DEF S
<1>3. \A k \in 0 .. Len(lens) : k \in S
  BY <1>0, <1>1, <1>2, InductUpTo
<1>4. Len(lens) \in S
  BY <1>0, <1>3
<1> QED  BY <1>4 DEF S

\* Each piece starts where the one before it ends.
LEMMA OffsetProperties ==
  ASSUME NEW lens \in Seq(Nat)
  PROVE  /\ Offset(lens) \in [1 .. Len(lens) + 1 -> Nat]
         /\ Offset(lens)[1] = 0
         /\ \A i \in 1 .. Len(lens) :
              Offset(lens)[i + 1] = Offset(lens)[i] + lens[i]
<1> DEFINE Rec(f) == f = [i \in 1 .. Len(lens) + 1 |->
                            IF i = 1 THEN 0 ELSE f[i - 1] + lens[i - 1]]
           off == Offset(lens)
           S == {k \in 0 .. Len(lens) : off[k + 1] \in Nat}
<1>1. \E f : Rec(f)
  BY OffsetExists
<1>2. off = CHOOSE g : Rec(g)
  BY Zenon DEF Offset
<1>3. Rec(off)
  BY <1>1, <1>2, Zenon
<1> HIDE DEF off
<1>4. /\ DOMAIN off = 1 .. Len(lens) + 1
      /\ off[1] = 0
      /\ \A i \in 1 .. Len(lens) : off[i + 1] = off[i] + lens[i]
      /\ Len(lens) \in Nat
  BY <1>3
<1>5. 0 \in S
  BY <1>4
<1>6. ASSUME NEW k \in 0 .. Len(lens) - 1, k \in S PROVE k + 1 \in S
  BY <1>4, <1>6
<1>7. \A k \in 0 .. Len(lens) : k \in S
  <2> HIDE DEF S
  <2> QED  BY <1>4, <1>5, <1>6, InductUpTo
<1>8. \A i \in 1 .. Len(lens) + 1 : off[i] \in Nat
  <2> SUFFICES ASSUME NEW i \in 1 .. Len(lens) + 1 PROVE off[i] \in Nat
    OBVIOUS
  <2>1. i - 1 \in 0 .. Len(lens) /\ (i - 1) + 1 = i
    BY <1>4
  <2> QED  BY <1>7, <2>1
<1>9. off \in [1 .. Len(lens) + 1 -> Nat]
  BY <1>3, <1>8
<1> QED  BY <1>4, <1>9 DEF off

\* No piece starts before an earlier one.
LEMMA OffsetGrows ==
  ASSUME NEW lens \in Seq(Nat), NEW j \in 1 .. Len(lens) + 1, NEW i \in 1 .. j
  PROVE  Offset(lens)[i] <= Offset(lens)[j]
<1> DEFINE off == Offset(lens)
           S == {k \in 0 .. Len(lens) : \A m \in 1 .. k + 1 : off[m] <= off[k + 1]}
<1>1. /\ off \in [1 .. Len(lens) + 1 -> Nat]
      /\ \A m \in 1 .. Len(lens) : off[m + 1] = off[m] + lens[m]
      /\ \A m \in 1 .. Len(lens) : lens[m] \in Nat
      /\ Len(lens) \in Nat
  BY OffsetProperties
<1> HIDE DEF off
<1>2. 0 \in S
  <2>1. 0 \in 0 .. Len(lens) /\ off[1] <= off[0 + 1]
    <3>1. 1 \in 1 .. Len(lens) + 1 /\ 0 \in 0 .. Len(lens) /\ 0 + 1 = 1
      BY <1>1
    <3>2. off[1] \in Nat
      BY <1>1, <3>1, Zenon
    <3> QED  BY <3>1, <3>2
  <2>2. \A m \in 1 .. 0 + 1 : m = 1
    OBVIOUS
  <2> QED  BY <2>1, <2>2, Zenon
<1>3. ASSUME NEW k \in 0 .. Len(lens) - 1, k \in S PROVE k + 1 \in S
  <2>1. off[(k + 1) + 1] = off[k + 1] + lens[k + 1] /\ lens[k + 1] \in Nat
    BY <1>1
  <2>2. ASSUME NEW m \in 1 .. (k + 1) + 1 PROVE off[m] <= off[(k + 1) + 1]
    <3>0. m \in 1 .. Len(lens) + 1 /\ k + 1 \in 1 .. Len(lens) + 1
      BY <1>1
    <3>1. off[m] \in Nat /\ off[k + 1] \in Nat
      BY <1>1, <3>0
    <3>2. CASE m = (k + 1) + 1
      BY <3>1, <3>2
    <3>3. CASE m \in 1 .. k + 1
      BY <1>3, <2>1, <3>1, <3>3
    <3> QED  BY <3>2, <3>3
  <2> QED  BY <1>1, <2>2
<1>4. \A k \in 0 .. Len(lens) : k \in S
  <2> HIDE DEF S
  <2> QED  BY <1>1, <1>2, <1>3, InductUpTo
<1>5. j - 1 \in 0 .. Len(lens) /\ (j - 1) + 1 = j
  BY <1>1
<1>6. j - 1 \in S
  BY <1>4, <1>5
<1> QED  BY <1>5, <1>6 DEF off

-----------------------------------------------------------------------------
\* The lengths of the pieces of a list.
Lens(ps) == [p \in 1 .. Len(ps) |-> Len(ps[p])]

\* The pieces lie one after the other in the cells, and fill them.
Tiled(cells, ps) ==
  /\ Len(cells) = Offset(Lens(ps))[Len(ps) + 1]
  /\ \A p \in 1 .. Len(ps) : \A i \in 1 .. Len(ps[p]) :
       cells[Offset(Lens(ps))[p] + i] = ps[p][i]

\* The lengths of a list of pieces.
LEMMA LensProperties ==
  ASSUME NEW T, NEW ps \in Seq(Seq(T))
  PROVE  /\ Lens(ps) \in Seq(Nat)
         /\ Len(Lens(ps)) = Len(ps)
         /\ Len(ps) \in Nat
         /\ \A p \in 1 .. Len(ps) : Lens(ps)[p] = Len(ps[p])
         /\ \A p \in 1 .. Len(ps) : ps[p] \in Seq(T) /\ Len(ps[p]) \in Nat
<1>1. Len(ps) \in Nat /\ \A p \in 1 .. Len(ps) : ps[p] \in Seq(T) /\ Len(ps[p]) \in Nat
  OBVIOUS
<1>2. Lens(ps) \in Seq(Nat) /\ Len(Lens(ps)) = Len(ps)
  BY <1>1 DEF Lens
<1> QED  BY <1>1, <1>2 DEF Lens

\* Where the pieces of a tiling start and end.
LEMMA PieceProperties ==
  ASSUME NEW T, NEW ps \in Seq(Seq(T))
  PROVE  LET off == Offset(Lens(ps))
         IN  /\ off \in [1 .. Len(ps) + 1 -> Nat]
             /\ off[1] = 0
             /\ off[Len(ps) + 1] \in Nat
             /\ \A p \in 1 .. Len(ps) :
                  /\ off[p + 1] = off[p] + Len(ps[p])
                  /\ off[p + 1] <= off[Len(ps) + 1]
                  /\ off[p] \in Nat
<1> DEFINE off == Offset(Lens(ps))
<1>1. /\ Lens(ps) \in Seq(Nat) /\ Len(Lens(ps)) = Len(ps) /\ Len(ps) \in Nat
      /\ \A p \in 1 .. Len(ps) : Lens(ps)[p] = Len(ps[p])
  BY LensProperties
<1>2. /\ off \in [1 .. Len(ps) + 1 -> Nat]
      /\ off[1] = 0
      /\ \A p \in 1 .. Len(ps) : off[p + 1] = off[p] + Len(ps[p])
  BY <1>1, OffsetProperties
<1>3. ASSUME NEW p \in 1 .. Len(ps) PROVE off[p + 1] <= off[Len(ps) + 1]
  <2>1. Len(ps) + 1 \in 1 .. Len(Lens(ps)) + 1 /\ p + 1 \in 1 .. Len(ps) + 1
    BY <1>1
  <2> QED  BY <1>1, <2>1, OffsetGrows
<1> HIDE DEF off
<1>4. ASSUME NEW p \in 1 .. Len(ps) PROVE off[p] \in Nat
  <2>1. p \in 1 .. Len(ps) + 1
    BY <1>1
  <2> QED  BY <1>2, <2>1
<1>5. off[Len(ps) + 1] \in Nat
  <2>1. Len(ps) + 1 \in 1 .. Len(ps) + 1
    BY <1>1
  <2> QED  BY <1>2, <2>1
<1> QED  BY <1>2, <1>3, <1>4, <1>5 DEF off

\* One piece fills itself.
LEMMA TiledByItself ==
  ASSUME NEW T, NEW c \in Seq(T)
  PROVE  <<c>> \in Seq(Seq(T)) /\ Tiled(c, <<c>>)
<1> DEFINE ps == <<c>>
           off == Offset(Lens(ps))
<1>1. ps \in Seq(Seq(T)) /\ Len(ps) = 1 /\ ps[1] = c /\ Len(c) \in Nat
  OBVIOUS
<1>2. off[1] = 0 /\ off[1 + 1] = off[1] + Len(ps[1])
  <2> HIDE DEF ps
  <2> QED  BY <1>1, PieceProperties
<1> HIDE DEF ps
<1>3. Len(c) = off[Len(ps) + 1]
  BY <1>1, <1>2
<1>4. ASSUME NEW p \in 1 .. Len(ps), NEW i \in 1 .. Len(ps[p])
      PROVE  c[off[p] + i] = ps[p][i]
  <2>1. p = 1
    BY <1>1
  <2> QED  BY <1>1, <1>2, <2>1
<1>5. Tiled(c, ps)
  BY <1>3, <1>4 DEF Tiled
<1> QED  BY <1>1, <1>5 DEF ps

\* The offsets of a concatenation: first those of the first, then those of the
\* second moved by the length of the first.
LEMMA OffsetsOfConcat ==
  ASSUME NEW T, NEW ps \in Seq(Seq(T)), NEW qs \in Seq(Seq(T))
  PROVE  LET off == Offset(Lens(ps \o qs))
             poff == Offset(Lens(ps))
             qoff == Offset(Lens(qs))
         IN  /\ \A k \in 0 .. Len(ps) : off[k + 1] = poff[k + 1]
             /\ \A k \in 0 .. Len(qs) :
                  off[Len(ps) + k + 1] = poff[Len(ps) + 1] + qoff[k + 1]
<1> DEFINE rs == ps \o qs
           off == Offset(Lens(rs))
           poff == Offset(Lens(ps))
           qoff == Offset(Lens(qs))
           m == Len(ps)
           n == Len(qs)
           P == {k \in 0 .. m : off[k + 1] = poff[k + 1]}
           Q == {k \in 0 .. n : off[m + k + 1] = poff[m + 1] + qoff[k + 1]}
<1>1. /\ rs \in Seq(Seq(T)) /\ Len(rs) = m + n /\ m \in Nat /\ n \in Nat
      /\ \A k \in 1 .. m : rs[k] = ps[k] /\ Len(ps[k]) \in Nat
      /\ \A k \in 1 .. n : rs[m + k] = qs[k] /\ Len(qs[k]) \in Nat
  BY ConcatProperties
<1> HIDE DEF rs
<1>2. /\ off[1] = 0
      /\ \A k \in 1 .. m + n : off[k + 1] = off[k] + Len(rs[k])
  BY <1>1, PieceProperties
<1>3. /\ poff[1] = 0
      /\ \A k \in 1 .. m : poff[k + 1] = poff[k] + Len(ps[k])
      /\ poff[m + 1] \in Nat
  BY PieceProperties
<1>4. /\ qoff[1] = 0
      /\ \A k \in 1 .. n : qoff[k + 1] = qoff[k] + Len(qs[k]) /\ qoff[k] \in Nat
  BY PieceProperties
<1> HIDE DEF off, poff, qoff, m, n
<1>5. \A k \in 0 .. m : k \in P
  <2>1. 0 \in P
    BY <1>1, <1>2, <1>3
  <2>2. ASSUME NEW k \in 0 .. m - 1, k \in P PROVE k + 1 \in P
    <3>1. k + 1 \in 1 .. m /\ k + 1 \in 1 .. m + n /\ k + 1 \in 0 .. m
      BY <1>1
    <3>2. off[(k + 1) + 1] = off[k + 1] + Len(rs[k + 1])
      BY <1>2, <3>1
    <3>3. poff[(k + 1) + 1] = poff[k + 1] + Len(ps[k + 1])
      BY <1>3, <3>1
    <3>4. rs[k + 1] = ps[k + 1]
      BY <1>1, <3>1
    <3> QED  BY <2>2, <3>1, <3>2, <3>3, <3>4
  <2> HIDE DEF P
  <2> QED  BY <1>1, <2>1, <2>2, InductUpTo
<1>6. \A k \in 0 .. n : k \in Q
  <2>1. 0 \in Q
    <3>1. m \in P
      BY <1>1, <1>5
    <3> QED  BY <1>1, <1>3, <1>4, <3>1
  <2>2. ASSUME NEW k \in 0 .. n - 1, k \in Q PROVE k + 1 \in Q
    <3>1. k + 1 \in 1 .. n /\ m + (k + 1) \in 1 .. m + n /\ k + 1 \in 0 .. n
      BY <1>1
    <3>2. off[(m + (k + 1)) + 1] = off[m + (k + 1)] + Len(rs[m + (k + 1)])
      BY <1>2, <3>1
    <3>3. qoff[(k + 1) + 1] = qoff[k + 1] + Len(qs[k + 1]) /\ qoff[k + 1] \in Nat
      BY <1>4, <3>1
    <3>4. rs[m + (k + 1)] = qs[k + 1] /\ Len(qs[k + 1]) \in Nat
      BY <1>1, <3>1
    <3>5. off[m + k + 1] = poff[m + 1] + qoff[k + 1]
      BY <2>2
    <3>6. m + k + 1 = m + (k + 1) /\ m + (k + 1) + 1 = (m + (k + 1)) + 1
      BY <1>1
    <3>7. off[m + (k + 1) + 1] = poff[m + 1] + qoff[(k + 1) + 1]
      BY <1>3, <3>2, <3>3, <3>4, <3>5, <3>6
    <3> QED  BY <3>1, <3>7
  <2> HIDE DEF Q
  <2> QED  BY <1>1, <2>1, <2>2, InductUpTo
<1> QED  BY <1>5, <1>6 DEF off, poff, qoff, m, n, rs

\* A position in a piece that ends before z is a position before z.
LEMMA InRange ==
  ASSUME NEW a \in Nat, NEW l \in Nat, NEW z \in Nat, NEW i \in 1 .. l, a + l <= z
  PROVE  a + i \in 1 .. z
OBVIOUS

\* Two lists of pieces, joined, fill what their cells make when joined.
LEMMA TiledConcat ==
  ASSUME NEW T, NEW c \in Seq(T), NEW d \in Seq(T),
         NEW ps \in Seq(Seq(T)), NEW qs \in Seq(Seq(T)),
         Tiled(c, ps), Tiled(d, qs)
  PROVE  /\ c \o d \in Seq(T)
         /\ ps \o qs \in Seq(Seq(T))
         /\ Tiled(c \o d, ps \o qs)
<1> DEFINE rs == ps \o qs
           off == Offset(Lens(rs))
           poff == Offset(Lens(ps))
           qoff == Offset(Lens(qs))
           m == Len(ps)
           n == Len(qs)
<1>1. /\ rs \in Seq(Seq(T)) /\ Len(rs) = m + n /\ m \in Nat /\ n \in Nat
      /\ \A k \in 1 .. m : rs[k] = ps[k] /\ Len(ps[k]) \in Nat
      /\ \A k \in 1 .. n : rs[m + k] = qs[k] /\ Len(qs[k]) \in Nat
  BY ConcatProperties
<1>2. /\ \A k \in 0 .. m : off[k + 1] = poff[k + 1]
      /\ \A k \in 0 .. n : off[m + k + 1] = poff[m + 1] + qoff[k + 1]
  BY OffsetsOfConcat
<1>3. \A k \in 1 .. m : /\ poff[k + 1] = poff[k] + Len(ps[k])
                        /\ poff[k + 1] <= poff[m + 1]
                        /\ poff[k] \in Nat
  BY PieceProperties
<1>4. \A k \in 1 .. n : /\ qoff[k + 1] = qoff[k] + Len(qs[k])
                        /\ qoff[k + 1] <= qoff[n + 1]
                        /\ qoff[k] \in Nat
  BY PieceProperties
<1>5. /\ Len(c) = poff[m + 1]
      /\ \A k \in 1 .. m : \A i \in 1 .. Len(ps[k]) : c[poff[k] + i] = ps[k][i]
  BY DEF Tiled
<1>6. /\ Len(d) = qoff[n + 1]
      /\ \A k \in 1 .. n : \A i \in 1 .. Len(qs[k]) : d[qoff[k] + i] = qs[k][i]
  BY DEF Tiled
<1>7. /\ c \o d \in Seq(T) /\ Len(c \o d) = Len(c) + Len(d)
      /\ Len(c) \in Nat /\ Len(d) \in Nat
      /\ \A i \in 1 .. Len(c) : (c \o d)[i] = c[i]
      /\ \A i \in 1 .. Len(d) : (c \o d)[Len(c) + i] = d[i]
  BY ConcatElements
<1> HIDE DEF rs, off, poff, qoff, m, n
<1>8. Len(c \o d) = off[Len(rs) + 1]
  BY <1>1, <1>2, <1>5, <1>6, <1>7
<1>9. ASSUME NEW k \in 1 .. Len(rs), NEW i \in 1 .. Len(rs[k])
      PROVE  (c \o d)[off[k] + i] = rs[k][i]
  <2>1. CASE k \in 1 .. m
    <3>1. rs[k] = ps[k] /\ Len(ps[k]) \in Nat
      BY <1>1, <2>1
    <3>2. off[k] = poff[k]
      <4>1. k - 1 \in 0 .. m /\ (k - 1) + 1 = k
        BY <1>1, <2>1
      <4> QED  BY <1>2, <4>1
    <3>3. poff[k] + Len(ps[k]) <= Len(c) /\ poff[k] \in Nat
      BY <1>3, <1>5, <2>1
    <3>4. i \in 1 .. Len(ps[k])
      BY <3>1, Zenon
    <3>5. Len(c) \in Nat
      BY <1>7
    <3>6. poff[k] + i \in 1 .. Len(c)
      BY <3>1, <3>3, <3>4, <3>5, InRange, Zenon
    <3>7. c[poff[k] + i] = ps[k][i]
      BY <1>5, <2>1, <3>4, Zenon
    <3>8. (c \o d)[poff[k] + i] = c[poff[k] + i]
      BY <1>7, <3>6, Zenon
    <3> QED  BY <3>1, <3>2, <3>7, <3>8, Zenon
  <2>2. CASE k \notin 1 .. m
    <3> DEFINE q == k - m
    <3>1. q \in 1 .. n /\ k = m + q /\ q - 1 \in 0 .. n
          /\ m + (q - 1) + 1 = k /\ (q - 1) + 1 = q
      BY <1>1, <2>2
    <3> HIDE DEF q
    <3>2. rs[k] = qs[q] /\ Len(qs[q]) \in Nat
      BY <1>1, <3>1
    <3>3. off[k] = Len(c) + qoff[q]
      BY <1>2, <1>5, <3>1
    <3>4. qoff[q] + Len(qs[q]) <= Len(d) /\ qoff[q] \in Nat
      BY <1>4, <1>6, <3>1
    <3>5. i \in 1 .. Len(qs[q])
      BY <3>2, Zenon
    <3>6. Len(c) \in Nat /\ Len(d) \in Nat
      BY <1>7
    <3>7. qoff[q] + i \in 1 .. Len(d)
      BY <3>2, <3>4, <3>5, <3>6, InRange, Zenon
    <3>8. off[k] + i = Len(c) + (qoff[q] + i)
      BY <3>2, <3>3, <3>4, <3>5, <3>6
    <3>9. d[qoff[q] + i] = qs[q][i]
      BY <1>6, <3>1, <3>5, Zenon
    <3>10. (c \o d)[Len(c) + (qoff[q] + i)] = d[qoff[q] + i]
      BY <1>7, <3>7, Zenon
    <3> QED  BY <3>2, <3>8, <3>9, <3>10, Zenon
  <2> QED  BY <2>1, <2>2
<1>10. Tiled(c \o d, rs)
  BY <1>8, <1>9 DEF Tiled, off
<1> QED  BY <1>1, <1>7, <1>10 DEF rs

\* The recursive function in FlattenSeq exists and is what it says.
LEMMA FlattenExists ==
  ASSUME NEW T, NEW ps \in Seq(Seq(T))
  PROVE  \E f \in [1 .. Len(ps) -> Seq(T)] :
           \A i \in 1 .. Len(ps) : f[i] = IF i = 1 THEN ps[i] ELSE f[i - 1] \o ps[i]
<1> DEFINE Rec(f, k) == \A i \in 1 .. k :
                          f[i] = IF i = 1 THEN ps[i] ELSE f[i - 1] \o ps[i]
           S == {k \in 0 .. Len(ps) : \E f \in [1 .. k -> Seq(T)] : Rec(f, k)}
<1>0. Len(ps) \in Nat /\ \A i \in 1 .. Len(ps) : ps[i] \in Seq(T)
  OBVIOUS
<1>1. 0 \in S
  <2>1. [i \in 1 .. 0 |-> <<>>] \in [1 .. 0 -> Seq(T)]
    OBVIOUS
  <2>2. Rec([i \in 1 .. 0 |-> <<>>], 0)
    OBVIOUS
  <2>3. 0 \in 0 .. Len(ps)
    BY <1>0
  <2> HIDE DEF Rec
  <2> QED  BY <2>1, <2>2, <2>3
<1>2. ASSUME NEW k \in 0 .. Len(ps) - 1, k \in S PROVE k + 1 \in S
  <2>1. PICK f \in [1 .. k -> Seq(T)] : Rec(f, k)
    BY <1>2
  <2> DEFINE new == IF k = 0 THEN ps[1] ELSE f[k] \o ps[k + 1]
             g == [i \in 1 .. k + 1 |-> IF i <= k THEN f[i] ELSE new]
  <2>2. new \in Seq(T)
    <3>1. k + 1 \in 1 .. Len(ps)
      BY <1>0
    <3>2. CASE k = 0
      BY <1>0, <3>1, <3>2
    <3>3. CASE k # 0
      <4>1. f[k] \in Seq(T) /\ ps[k + 1] \in Seq(T)
        BY <1>0, <3>1, <3>3
      <4> QED  BY <3>3, <4>1, ConcatProperties
    <3> QED  BY <3>2, <3>3
  <2>3. g \in [1 .. k + 1 -> Seq(T)]
    <3> HIDE DEF new
    <3> QED  BY <2>2
  <2>4. Rec(g, k + 1)
    <3> SUFFICES ASSUME NEW i \in 1 .. k + 1
                 PROVE  g[i] = IF i = 1 THEN ps[i] ELSE g[i - 1] \o ps[i]
      OBVIOUS
    <3>1. CASE i \in 1 .. k
      <4>0. g[i] = f[i]
        <5> HIDE DEF new
        <5> QED  BY <3>1
      <4>1. g[i] = f[i] /\ f[i] = IF i = 1 THEN ps[i] ELSE f[i - 1] \o ps[i]
        BY <2>1, <3>1, <4>0, Zenon
      <4>2. i # 1 => g[i - 1] = f[i - 1]
        BY <3>1
      <4> QED  BY <4>1, <4>2, Zenon
    <3>2. CASE i = k + 1
      <4>1. g[i] = new
        BY <3>2
      <4>2. i # 1 => g[i - 1] = f[k] /\ k # 0
        BY <3>2
      <4>3. i = 1 => k = 0
        BY <3>2
      <4> QED  BY <3>2, <4>1, <4>2, <4>3, Zenon
    <3> QED  BY <3>1, <3>2
  <2>5. k + 1 \in 0 .. Len(ps)
    BY <1>0
  <2> HIDE DEF Rec, g
  <2> QED  BY <2>3, <2>4, <2>5
<1> HIDE DEF S
<1>3. \A k \in 0 .. Len(ps) : k \in S
  BY <1>0, <1>1, <1>2, InductUpTo
<1>4. Len(ps) \in S
  BY <1>0, <1>3
<1> QED  BY <1>4 DEF S

\* FlattenSeq lays its pieces one after the other.
LEMMA FlattenTiles ==
  ASSUME NEW T, NEW ps \in Seq(Seq(T))
  PROVE  FlattenSeq(ps) \in Seq(T) /\ Tiled(FlattenSeq(ps), ps)
<1>0. Len(ps) \in Nat /\ \A i \in 1 .. Len(ps) : ps[i] \in Seq(T)
  OBVIOUS
<1>1. CASE Len(ps) = 0
  <2>1. FlattenSeq(ps) = ps /\ ps = <<>>
    BY <1>1 DEF FlattenSeq
  <2>2. Offset(Lens(ps))[1] = 0
    BY PieceProperties
  <2>3. Len(ps) = Offset(Lens(ps))[Len(ps) + 1]
    BY <1>1, <2>2
  <2> QED  BY <1>1, <2>1, <2>3 DEF Tiled
<1>2. CASE Len(ps) # 0
  <2> DEFINE Def(f, i) == IF i = 1 THEN ps[i] ELSE f[i - 1] \o ps[i]
             Rec(f) == f = [i \in 1 .. Len(ps) |-> Def(f, i)]
             flat == CHOOSE f : Rec(f)
  <2>1. \E f : Rec(f)
    <3>1. PICK f \in [1 .. Len(ps) -> Seq(T)] :
            \A i \in 1 .. Len(ps) : f[i] = Def(f, i)
      BY FlattenExists, Zenon
    <3> HIDE DEF Def
    <3>2. f = [i \in 1 .. Len(ps) |-> Def(f, i)]
      BY <3>1
    <3> QED  BY <3>2
  <2>2. FlattenSeq(ps) = flat[Len(ps)]
    BY <1>2, Zenon DEF FlattenSeq
  <2>3. Rec(flat)
    BY <2>1, Zenon
  <2> HIDE DEF flat
  <2>4. /\ flat[1] = ps[1]
        /\ \A i \in 1 .. Len(ps) - 1 : flat[i + 1] = flat[i] \o ps[i + 1]
    <3>1. \A i \in 1 .. Len(ps) : flat[i] = Def(flat, i)
      <4> HIDE DEF Def
      <4> QED  BY <2>3
    <3>2. 1 \in 1 .. Len(ps)
      BY <1>0, <1>2
    <3>3. ASSUME NEW i \in 1 .. Len(ps) - 1
          PROVE  flat[i + 1] = flat[i] \o ps[i + 1]
      <4>1. i + 1 \in 1 .. Len(ps) /\ i + 1 # 1 /\ (i + 1) - 1 = i
        BY <1>0
      <4> QED  BY <3>1, <4>1, Zenon
    <3> QED  BY <3>1, <3>2, <3>3, Zenon
  <2> HIDE DEF Rec
  <2> DEFINE Pre(k) == SubSeq(ps, 1, k)
             S == {k \in 0 .. Len(ps) - 1 :
                     /\ flat[k + 1] \in Seq(T)
                     /\ Pre(k + 1) \in Seq(Seq(T))
                     /\ Tiled(flat[k + 1], Pre(k + 1))}
  <2>5. 0 \in S
    <3>1. Pre(0 + 1) = <<ps[1]>>
      <4>1. Pre(1) \in Seq(Seq(T)) /\ Len(Pre(1)) = 1 /\ Pre(1)[1] = ps[1]
        BY <1>0, <1>2
      <4>2. <<ps[1]>> \in Seq(Seq(T)) /\ Len(<<ps[1]>>) = 1 /\ <<ps[1]>>[1] = ps[1]
        BY <1>0, <1>2
      <4>3. 0 + 1 = 1
        OBVIOUS
      <4> HIDE DEF Pre
      <4>4. \A i \in 1 .. Len(Pre(1)) : Pre(1)[i] = <<ps[1]>>[i]
        BY <4>1, <4>2
      <4>5. Pre(1) = <<ps[1]>>
        BY <4>1, <4>2, <4>4, SeqEqual
      <4> QED  BY <4>3, <4>5
    <3>2. ps[1] \in Seq(T)
      BY <1>0, <1>2
    <3>3. <<ps[1]>> \in Seq(Seq(T)) /\ Tiled(ps[1], <<ps[1]>>)
      BY <3>2, TiledByItself
    <3> HIDE DEF Pre
    <3>4. 0 \in 0 .. Len(ps) - 1 /\ flat[0 + 1] = ps[1]
      BY <1>0, <1>2, <2>4
    <3> QED  BY <3>1, <3>2, <3>3, <3>4
  <2>6. ASSUME NEW k \in 0 .. (Len(ps) - 1) - 1, k \in S PROVE k + 1 \in S
    <3>1. k + 1 \in 1 .. Len(ps) - 1 /\ (k + 1) + 1 \in 1 .. Len(ps)
          /\ k + 1 \in 0 .. Len(ps) - 1
      BY <1>0
    <3>2. flat[(k + 1) + 1] = flat[k + 1] \o ps[(k + 1) + 1]
      BY <2>4, <3>1
    <3>3. ps[(k + 1) + 1] \in Seq(T)
      BY <1>0, <3>1
    <3>4. Pre((k + 1) + 1) = Pre(k + 1) \o <<ps[(k + 1) + 1]>>
      <4>1. 1 \in 1 .. Len(ps) /\ (k + 1) + 1 \in 1 .. Len(ps)
            /\ ((k + 1) + 1) - 1 = k + 1
        BY <1>0, <3>1
      <4> QED  BY <4>1, SubSeqRecursiveSecond
    <3> HIDE DEF Pre
    <3>5. flat[k + 1] \in Seq(T) /\ Pre(k + 1) \in Seq(Seq(T))
          /\ Tiled(flat[k + 1], Pre(k + 1))
      BY <2>6
    <3>6. <<ps[(k + 1) + 1]>> \in Seq(Seq(T))
          /\ Tiled(ps[(k + 1) + 1], <<ps[(k + 1) + 1]>>)
      BY <3>3, TiledByItself
    <3>7. /\ flat[(k + 1) + 1] \in Seq(T)
          /\ Pre((k + 1) + 1) \in Seq(Seq(T))
          /\ Tiled(flat[(k + 1) + 1], Pre((k + 1) + 1))
      <4> DEFINE c == flat[k + 1]
                 d == ps[(k + 1) + 1]
                 us == Pre(k + 1)
                 vs == <<d>>
      <4>1. /\ c \in Seq(T) /\ d \in Seq(T)
            /\ us \in Seq(Seq(T)) /\ vs \in Seq(Seq(T))
            /\ Tiled(c, us) /\ Tiled(d, vs)
        BY <3>3, <3>5, <3>6
      <4> HIDE DEF c, d, us, vs
      <4>2. c \o d \in Seq(T) /\ us \o vs \in Seq(Seq(T)) /\ Tiled(c \o d, us \o vs)
        BY <4>1, TiledConcat, Zenon
      <4> QED  BY <3>2, <3>4, <4>2, Zenon DEF c, d, us, vs
    <3> QED  BY <3>1, <3>7
  <2>7. \A k \in 0 .. Len(ps) - 1 : k \in S
    <3>1. Len(ps) - 1 \in Nat
      BY <1>0, <1>2
    <3> HIDE DEF S
    <3> QED  BY <2>5, <2>6, <3>1, InductUpTo
  <2>8. Len(ps) - 1 \in S /\ (Len(ps) - 1) + 1 = Len(ps)
    <3>1. Len(ps) - 1 \in 0 .. Len(ps) - 1 /\ (Len(ps) - 1) + 1 = Len(ps)
      BY <1>0, <1>2
    <3> HIDE DEF S
    <3> QED  BY <2>7, <3>1
  <2>9. Pre(Len(ps)) = ps
    BY SubSeqFull
  <2> QED  BY <2>2, <2>8, <2>9
<1> QED  BY <1>1, <1>2

-----------------------------------------------------------------------------
\* A client that knows the lengths of the pieces gets the pieces back.
LEMMA PieceIsSubSeq ==
  ASSUME NEW T, NEW cells \in Seq(T), NEW ps \in Seq(Seq(T)),
         Tiled(cells, ps), NEW p \in 1 .. Len(ps)
  PROVE  SubSeq(cells, Offset(Lens(ps))[p] + 1, Offset(Lens(ps))[p + 1]) = ps[p]
<1> DEFINE off == Offset(Lens(ps))
           m == off[p] + 1
           n == off[p + 1]
           sub == SubSeq(cells, m, n)
<1>1. /\ off[p + 1] = off[p] + Len(ps[p])
      /\ off[p + 1] <= off[Len(ps) + 1]
      /\ off[p] \in Nat
  BY PieceProperties
<1>2. ps[p] \in Seq(T) /\ Len(ps[p]) \in Nat /\ Len(cells) \in Nat
  OBVIOUS
<1>3. /\ Len(cells) = off[Len(ps) + 1]
      /\ \A i \in 1 .. Len(ps[p]) : cells[off[p] + i] = ps[p][i]
  BY Zenon DEF Tiled
<1> HIDE DEF off
<1>4. m \in Nat /\ n \in Nat /\ m >= 1 /\ n <= Len(cells) /\ n - m + 1 = Len(ps[p])
      /\ \A i \in 1 .. Len(ps[p]) : m + i - 1 = off[p] + i
  <2> DEFINE a == off[p]
             b == Len(ps[p])
  <2>1. m = a + 1 /\ n = a + b /\ a \in Nat /\ b \in Nat /\ a + b <= Len(cells)
    BY <1>1, <1>2, <1>3, Zenon
  <2> HIDE DEF a, b, m, n
  <2>2. m \in Nat /\ n \in Nat /\ m >= 1 /\ n <= Len(cells) /\ n - m + 1 = b
        /\ \A i \in 1 .. b : m + i - 1 = a + i
    BY <2>1
  <2> QED  BY <2>2 DEF a, b
<1> HIDE DEF m, n
<1>5. \A i \in m .. n : cells[i] \in T
  <2> SUFFICES ASSUME NEW i \in m .. n PROVE cells[i] \in T
    OBVIOUS
  <2>1. i \in 1 .. Len(cells)
    BY <1>3, <1>4
  <2> QED  BY <2>1
<1>6. /\ sub \in Seq(T)
      /\ Len(sub) = IF m <= n THEN n - m + 1 ELSE 0
      /\ \A i \in 1 .. n - m + 1 : sub[i] = cells[m + i - 1]
  BY <1>4, <1>5, SubSeqProperties
<1>7. Len(sub) = Len(ps[p])
  BY <1>2, <1>4, <1>6
<1> HIDE DEF sub
<1>8. \A i \in 1 .. Len(sub) : sub[i] = ps[p][i]
  <2> SUFFICES ASSUME NEW i \in 1 .. Len(ps[p]) PROVE sub[i] = ps[p][i]
    BY <1>7
  <2>1. sub[i] = cells[m + i - 1] /\ m + i - 1 = off[p] + i
    BY <1>4, <1>6
  <2> QED  BY <1>3, <2>1
<1>9. sub = ps[p]
  BY <1>2, <1>6, <1>7, <1>8, SeqEqual
<1> QED  BY <1>9 DEF sub, m, n, off

\* All cells of a piece have the same width.
Uniform(ps) == \A p \in 1 .. Len(ps) : \A i, j \in 1 .. Len(ps[p]) :
                 ps[p][i].width = ps[p][j].width

\* So a reply made of pieces of one width each is used up exactly.
LEMMA TiledIsCut ==
  ASSUME NEW T, NEW cells \in Seq(T), NEW ps \in Seq(Seq(T)),
         Tiled(cells, ps), Uniform(ps)
  PROVE  /\ Fits(cells, Lens(ps))
         /\ Cut(cells, Lens(ps)) = [p \in 1 .. Len(ps) |-> Values(ps[p])]
<1> DEFINE off == Offset(Lens(ps))
<1>1. Len(Lens(ps)) = Len(ps) /\ Len(ps) \in Nat
  BY LensProperties
<1>2. \A p \in 1 .. Len(ps) : SubSeq(cells, off[p] + 1, off[p + 1]) = ps[p]
  BY PieceIsSubSeq
<1>3. Len(cells) = off[Len(ps) + 1]
  BY DEF Tiled
<1>4. ASSUME NEW p \in 1 .. Len(ps), NEW i \in off[p] + 1 .. off[p + 1]
      PROVE  \E k \in 1 .. Len(ps[p]) : cells[i] = ps[p][k]
  <2>1. /\ off[p + 1] = off[p] + Len(ps[p]) /\ off[p] \in Nat
        /\ ps[p] \in Seq(T) /\ Len(ps[p]) \in Nat
    BY PieceProperties
  <2> HIDE DEF off
  <2>2. i - off[p] \in 1 .. Len(ps[p]) /\ off[p] + (i - off[p]) = i
    BY <2>1
  <2>3. cells[off[p] + (i - off[p])] = ps[p][i - off[p]]
    BY <2>2 DEF Tiled, off
  <2> QED  BY <2>2, <2>3
<1>5. Cut(cells, Lens(ps)) = [p \in 1 .. Len(ps) |-> Values(ps[p])]
  <2> HIDE DEF off
  <2>1. Cut(cells, Lens(ps)) =
          [p \in 1 .. Len(ps) |-> Values(SubSeq(cells, off[p] + 1, off[p + 1]))]
    BY <1>1 DEF Cut, off
  <2> QED  BY <1>2, <2>1
<1>6. ASSUME NEW p \in 1 .. Len(ps),
             NEW i \in off[p] + 1 .. off[p + 1], NEW j \in off[p] + 1 .. off[p + 1]
      PROVE  cells[i].width = cells[j].width
  <2>1. PICK k \in 1 .. Len(ps[p]) : cells[i] = ps[p][k]
    BY <1>4
  <2>2. PICK l \in 1 .. Len(ps[p]) : cells[j] = ps[p][l]
    BY <1>4
  <2> QED  BY <2>1, <2>2 DEF Uniform
<1>7. Fits(cells, Lens(ps))
  BY <1>1, <1>3, <1>6 DEF Fits
<1> QED  BY <1>5, <1>7

-----------------------------------------------------------------------------
(* Cells: a byte or a word.                                                *)

Cell == [width : {1, 4}, value : Int]

\* Bytes are read for what was written.
LEMMA BytesProperties ==
  ASSUME NEW s \in Seq(Int)
  PROVE  /\ Bytes(s) \in Seq(Cell)
         /\ Len(Bytes(s)) = Len(s)
         /\ \A i \in 1 .. Len(s) : Bytes(s)[i].width = 1 /\ Bytes(s)[i].value = s[i]
         /\ Values(Bytes(s)) = s
<1>1. \A i \in 1 .. Len(s) : s[i] \in Int
  OBVIOUS
<1>2. /\ Bytes(s) \in Seq(Cell)
      /\ Len(Bytes(s)) = Len(s)
      /\ \A i \in 1 .. Len(s) : Bytes(s)[i].width = 1 /\ Bytes(s)[i].value = s[i]
  BY <1>1 DEF Bytes, Byte, Cell
<1>3. Values(Bytes(s)) = s
  BY <1>2 DEF Values
<1> QED  BY <1>2, <1>3

\* Words are read for what was written.
LEMMA IntsProperties ==
  ASSUME NEW s \in Seq(Int)
  PROVE  /\ Ints(s) \in Seq(Cell)
         /\ Len(Ints(s)) = Len(s)
         /\ \A i \in 1 .. Len(s) : Ints(s)[i].width = 4 /\ Ints(s)[i].value = s[i]
         /\ Values(Ints(s)) = s
<1>1. \A i \in 1 .. Len(s) : s[i] \in Int
  OBVIOUS
<1>2. /\ Ints(s) \in Seq(Cell)
      /\ Len(Ints(s)) = Len(s)
      /\ \A i \in 1 .. Len(s) : Ints(s)[i].width = 4 /\ Ints(s)[i].value = s[i]
  BY <1>1 DEF Ints, Word, Cell
<1>3. Values(Ints(s)) = s
  BY <1>2 DEF Values
<1> QED  BY <1>2, <1>3

\* A C string loses its NUL again.
LEMMA CStrProperties ==
  ASSUME NEW s \in CString
  PROVE  /\ CStr(s) \in Seq(Cell)
         /\ Len(CStr(s)) = LenWithNul(s)
         /\ LenWithNul(s) \in Nat
         /\ \A i \in 1 .. LenWithNul(s) : CStr(s)[i].width = 1
         /\ Front(Values(CStr(s))) = s
<1>1. s \in Seq(Int) /\ Len(s) \in Nat
  <2>1. 1 .. 255 \subseteq Int
    OBVIOUS
  <2>2. s \in Seq(Int)
    BY <2>1, SeqMonotonic, Zenon DEF CString
  <2> QED  BY <2>2
<1>2. /\ Append(s, 0) \in Seq(Int)
      /\ Len(Append(s, 0)) = Len(s) + 1
      /\ \A i \in 1 .. Len(s) : Append(s, 0)[i] = s[i]
  BY <1>1, AppendProperties
<1> DEFINE t == Append(s, 0)
<1> HIDE DEF t
<1>3. /\ t \in Seq(Int)
      /\ Len(t) = Len(s) + 1
      /\ \A i \in 1 .. Len(s) : t[i] = s[i]
      /\ CStr(s) = Bytes(t)
  BY <1>2 DEF t, CStr
<1>4. Front(t) = s
  <2>1. Front(t) = SubSeq(t, 1, Len(s))
    BY <1>1, <1>3 DEF Front
  <2>2. \A i \in 1 .. Len(s) : t[i] \in Int
    BY <1>1, <1>3
  <2>3. /\ Front(t) \in Seq(Int) /\ Len(Front(t)) = Len(s)
        /\ \A i \in 1 .. Len(s) : Front(t)[i] = t[i]
    BY <1>1, <1>3, <2>1, <2>2
  <2> QED  BY <1>1, <1>3, <2>3, SeqEqual
<1> QED  BY <1>1, <1>3, <1>4, BytesProperties DEF LenWithNul

\* The values of cells.
LEMMA ValuesProperties ==
  ASSUME NEW c \in Seq(Cell)
  PROVE  Values(c) \in Seq(Int) /\ Len(Values(c)) = Len(c)
<1>1. \A i \in 1 .. Len(c) : c[i] \in Cell
  OBVIOUS
<1>2. \A x \in Cell : x.value \in Int
  BY DEF Cell
<1>3. \A i \in 1 .. Len(c) : c[i].value \in Int
  BY <1>1, <1>2, Zenon
<1>4. Len(c) \in Nat
  OBVIOUS
<1> QED  BY <1>3, <1>4 DEF Values

\* A reply starts with the words of its header.
LEMMA HeaderProperties ==
  ASSUME NEW hdr \in Seq(Int), NEW rest \in Seq(Cell)
  PROVE  LET cells == Ints(hdr) \o rest
         IN  /\ cells \in Seq(Cell)
             /\ Len(cells) = Len(hdr) + Len(rest)
             /\ From(cells, Len(hdr) + 1) = rest
             /\ \A i \in 1 .. Len(hdr) :
                  cells[i].value = hdr[i] /\ Values(cells)[i] = hdr[i]
             /\ \A i \in 1 .. Len(rest) :
                  /\ Values(cells)[Len(hdr) + i] = rest[i].value
<1> DEFINE head == Ints(hdr)
           cells == head \o rest
           n == Len(hdr)
           m == Len(rest)
<1>1. /\ head \in Seq(Cell) /\ Len(head) = n /\ n \in Nat /\ m \in Nat
      /\ \A i \in 1 .. n : head[i].value = hdr[i]
  BY IntsProperties
<1> HIDE DEF head
<1>2. /\ cells \in Seq(Cell) /\ Len(cells) = n + m
      /\ \A i \in 1 .. n : cells[i] = head[i]
      /\ \A i \in 1 .. m : cells[n + i] = rest[i]
  <2> HIDE DEF n, m
  <2>1. /\ cells \in Seq(Cell) /\ Len(cells) = Len(head) + Len(rest)
        /\ \A i \in 1 .. Len(head) : cells[i] = head[i]
        /\ \A i \in 1 .. Len(rest) : cells[Len(head) + i] = rest[i]
    <3>1. head \in Seq(Cell)
      BY <1>1
    <3> QED  BY <3>1, ConcatElements
  <2> HIDE DEF cells
  <2> QED  BY <1>1, <2>1 DEF m
<1> HIDE DEF cells, n, m
<1>3. \A i \in 1 .. n + m : Values(cells)[i] = cells[i].value
  BY <1>1, <1>2 DEF Values
<1>4. ASSUME NEW i \in 1 .. n
      PROVE  cells[i].value = hdr[i] /\ Values(cells)[i] = hdr[i]
  <2>1. i \in 1 .. n + m
    BY <1>1
  <2> QED  BY <1>1, <1>2, <1>3, <2>1
<1>5. ASSUME NEW i \in 1 .. m PROVE Values(cells)[n + i] = rest[i].value
  <2>1. n + i \in 1 .. n + m
    BY <1>1
  <2> QED  BY <1>2, <1>3, <2>1
<1>6. From(cells, n + 1) = rest
  <2> DEFINE sub == SubSeq(cells, n + 1, n + m)
  <2>1. \A i \in n + 1 .. n + m : cells[i] \in Cell
    BY <1>1, <1>2
  <2>2. /\ sub \in Seq(Cell) /\ Len(sub) = m
        /\ \A i \in 1 .. m : sub[i] = cells[n + i]
    <3>1. n + 1 \in Int /\ n + m \in Int /\ (n + m) - (n + 1) + 1 = m
          /\ (n + 1 <= n + m <=> m # 0)
          /\ \A i \in 1 .. m : (n + 1) + i - 1 = n + i
      BY <1>1
    <3>2. /\ sub \in Seq(Cell)
          /\ Len(sub) = IF n + 1 <= n + m THEN (n + m) - (n + 1) + 1 ELSE 0
          /\ \A i \in 1 .. (n + m) - (n + 1) + 1 : sub[i] = cells[(n + 1) + i - 1]
      BY <2>1, <3>1, SubSeqProperties
    <3> HIDE DEF sub
    <3> QED  BY <3>1, <3>2
  <2> HIDE DEF sub
  <2>3. sub = rest
    BY <1>1, <1>2, <2>2, SeqEqual DEF m
  <2> QED  BY <1>2, <2>3 DEF From, sub
<1> QED  BY <1>2, <1>4, <1>5, <1>6 DEF cells, head, n, m

-----------------------------------------------------------------------------
(* The replies, one by one. *)

\* A tuple with one element more.
LEMMA OneLonger ==
  ASSUME NEW T, NEW s \in Seq(T), NEW t \in Seq(T), Len(t) = Len(s) + 1,
         \A i \in 1 .. Len(s) : t[i] = s[i]
  PROVE  s \o <<t[Len(t)]>> = t
<1> DEFINE x == t[Len(t)]
           r == s \o <<x>>
<1>1. Len(s) \in Nat /\ Len(t) \in Nat /\ Len(t) \in 1 .. Len(t) /\ x \in T
  OBVIOUS
<1>2. <<x>> \in Seq(T) /\ Len(<<x>>) = 1 /\ <<x>>[1] = x
  BY <1>1
<1>3. /\ r \in Seq(T) /\ Len(r) = Len(s) + 1
      /\ \A i \in 1 .. Len(s) : r[i] = s[i]
      /\ r[Len(s) + 1] = x
  <2> HIDE DEF x
  <2>1. /\ r \in Seq(T) /\ Len(r) = Len(s) + Len(<<x>>)
        /\ \A i \in 1 .. Len(s) : r[i] = s[i]
        /\ \A i \in 1 .. Len(<<x>>) : r[Len(s) + i] = <<x>>[i]
    BY <1>2, ConcatElements
  <2>2. 1 \in 1 .. Len(<<x>>)
    BY <1>2
  <2> HIDE DEF r
  <2> QED  BY <1>2, <2>1, <2>2
<1> HIDE DEF r
<1>4. \A i \in 1 .. Len(r) : r[i] = t[i]
  BY <1>1, <1>3
<1>5. r = t
  BY <1>3, <1>4, SeqEqual
<1> QED  BY <1>5 DEF r

\* Short tuples, one element at a time.
LEMMA TupleConcat ==
  ASSUME NEW T, NEW a \in T, NEW b \in T, NEW c \in T, NEW d \in T, NEW e \in T
  PROVE  /\ <<a>> \o <<b>> = <<a, b>>
         /\ <<a, b>> \o <<c>> = <<a, b, c>>
         /\ <<a, b, c>> \o <<d>> = <<a, b, c, d>>
         /\ <<a, b, c, d>> \o <<e>> = <<a, b, c, d, e>>
<1>1. <<a>> \o <<b>> = <<a, b>>
  <2> DEFINE s == <<a>>
             t == <<a, b>>
  <2>1. s \in Seq(T) /\ t \in Seq(T) /\ Len(s) = 1 /\ Len(t) = 2 /\ t[2] = b
        /\ \A i \in 1 .. 1 : t[i] = s[i]
    OBVIOUS
  <2> HIDE DEF s, t
  <2>2. Len(t) = Len(s) + 1 /\ \A i \in 1 .. Len(s) : t[i] = s[i]
    BY <2>1
  <2>3. s \o <<t[Len(t)]>> = t
    BY <2>1, <2>2, OneLonger, Zenon
  <2> QED  BY <2>1, <2>3 DEF s, t
<1>2. <<a, b>> \o <<c>> = <<a, b, c>>
  <2> DEFINE s == <<a, b>>
             t == <<a, b, c>>
  <2>1. s \in Seq(T) /\ t \in Seq(T) /\ Len(s) = 2 /\ Len(t) = 3 /\ t[3] = c
        /\ \A i \in 1 .. 2 : t[i] = s[i]
    OBVIOUS
  <2> HIDE DEF s, t
  <2>2. Len(t) = Len(s) + 1 /\ \A i \in 1 .. Len(s) : t[i] = s[i]
    BY <2>1
  <2>3. s \o <<t[Len(t)]>> = t
    BY <2>1, <2>2, OneLonger, Zenon
  <2> QED  BY <2>1, <2>3 DEF s, t
<1>3. <<a, b, c>> \o <<d>> = <<a, b, c, d>>
  <2> DEFINE s == <<a, b, c>>
             t == <<a, b, c, d>>
  <2>1. s \in Seq(T) /\ t \in Seq(T) /\ Len(s) = 3 /\ Len(t) = 4 /\ t[4] = d
        /\ \A i \in 1 .. 3 : t[i] = s[i]
    OBVIOUS
  <2> HIDE DEF s, t
  <2>2. Len(t) = Len(s) + 1 /\ \A i \in 1 .. Len(s) : t[i] = s[i]
    BY <2>1
  <2>3. s \o <<t[Len(t)]>> = t
    BY <2>1, <2>2, OneLonger, Zenon
  <2> QED  BY <2>1, <2>3 DEF s, t
<1>4. <<a, b, c, d>> \o <<e>> = <<a, b, c, d, e>>
  <2> DEFINE s == <<a, b, c, d>>
             t == <<a, b, c, d, e>>
  <2>1. s \in Seq(T) /\ t \in Seq(T) /\ Len(s) = 4 /\ Len(t) = 5 /\ t[5] = e
        /\ \A i \in 1 .. 4 : t[i] = s[i]
    OBVIOUS
  <2> HIDE DEF s, t
  <2>2. Len(t) = Len(s) + 1 /\ \A i \in 1 .. Len(s) : t[i] = s[i]
    BY <2>1
  <2>3. s \o <<t[Len(t)]>> = t
    BY <2>1, <2>2, OneLonger, Zenon
  <2> QED  BY <2>1, <2>3 DEF s, t
<1> QED  BY <1>1, <1>2, <1>3, <1>4

\* Cells that consist of pieces, each of one width.
Joined(cells, ps) == /\ cells \in Seq(Cell)
                     /\ ps \in Seq(Seq(Cell))
                     /\ Tiled(cells, ps)
                     /\ Uniform(ps)

\* A piece of one width.
LEMMA JoinedOne ==
  ASSUME NEW c \in Seq(Cell), NEW w, \A i \in 1 .. Len(c) : c[i].width = w
  PROVE  Joined(c, <<c>>)
<1>1. <<c>> \in Seq(Seq(Cell)) /\ Tiled(c, <<c>>)
  BY TiledByItself
<1>2. Uniform(<<c>>)
  BY DEF Uniform
<1> QED  BY <1>1, <1>2 DEF Joined

\* Pieces behind pieces.
LEMMA JoinedConcat ==
  ASSUME NEW c, NEW d, NEW ps, NEW qs, Joined(c, ps), Joined(d, qs)
  PROVE  Joined(c \o d, ps \o qs)
<1>1. /\ c \in Seq(Cell) /\ ps \in Seq(Seq(Cell)) /\ Tiled(c, ps)
      /\ d \in Seq(Cell) /\ qs \in Seq(Seq(Cell)) /\ Tiled(d, qs)
  BY DEF Joined
<1>2. /\ c \o d \in Seq(Cell)
      /\ ps \o qs \in Seq(Seq(Cell))
      /\ Tiled(c \o d, ps \o qs)
  BY <1>1, TiledConcat, Zenon
<1>3. Uniform(ps \o qs)
  <2> DEFINE rs == ps \o qs
  <2>1. /\ Len(rs) = Len(ps) + Len(qs) /\ Len(ps) \in Nat /\ Len(qs) \in Nat
        /\ \A i \in 1 .. Len(ps) : rs[i] = ps[i]
        /\ \A i \in 1 .. Len(qs) : rs[Len(ps) + i] = qs[i]
    BY <1>1, ConcatElements
  <2> HIDE DEF rs
  <2>2. ASSUME NEW p \in 1 .. Len(rs), NEW i \in 1 .. Len(rs[p]), NEW j \in 1 .. Len(rs[p])
        PROVE  rs[p][i].width = rs[p][j].width
    <3>1. CASE p \in 1 .. Len(ps)
      <4>1. rs[p] = ps[p]
        BY <2>1, <3>1
      <4>2. i \in 1 .. Len(ps[p]) /\ j \in 1 .. Len(ps[p])
        BY <4>1, Zenon
      <4>3. Uniform(ps)
        BY Zenon DEF Joined
      <4>4. ps[p][i].width = ps[p][j].width
        BY <3>1, <4>2, <4>3, Zenon DEF Uniform
      <4> QED  BY <4>1, <4>4, Zenon
    <3>2. CASE p \notin 1 .. Len(ps)
      <4>1. p - Len(ps) \in 1 .. Len(qs) /\ Len(ps) + (p - Len(ps)) = p
        BY <2>1, <3>2
      <4> DEFINE q == p - Len(ps)
      <4>2. q \in 1 .. Len(qs) /\ rs[p] = qs[q]
        BY <2>1, <4>1
      <4> HIDE DEF q
      <4>3. i \in 1 .. Len(qs[q]) /\ j \in 1 .. Len(qs[q])
        BY <4>2, Zenon
      <4>4. Uniform(qs)
        BY Zenon DEF Joined
      <4>5. qs[q][i].width = qs[q][j].width
        BY <4>2, <4>3, <4>4, Zenon DEF Uniform
      <4> QED  BY <4>2, <4>5, Zenon
    <3> QED  BY <3>1, <3>2
  <2>3. Uniform(rs)
    BY <2>2 DEF Uniform
  <2> QED  BY <2>3 DEF rs
<1> QED  BY <1>2, <1>3 DEF Joined

\* A whole list of pieces.
LEMMA JoinedFlatten ==
  ASSUME NEW ps \in Seq(Seq(Cell)), Uniform(ps)
  PROVE  Joined(FlattenSeq(ps), ps)
BY FlattenTiles DEF Joined

\* What the client makes of them.
LEMMA JoinedIsCut ==
  ASSUME NEW cells, NEW ps, Joined(cells, ps)
  PROVE  /\ Fits(cells, Lens(ps))
         /\ Cut(cells, Lens(ps)) = [p \in 1 .. Len(ps) |-> Values(ps[p])]
BY TiledIsCut DEF Joined

\* A string is a piece.
LEMMA StringJoined ==
  ASSUME NEW s \in CString
  PROVE  Joined(CStr(s), <<CStr(s)>>)
BY CStrProperties, JoinedOne

\* A reply: the words of a header, then pieces.
Laid(cells, hdr, ps) ==
  /\ hdr \in Seq(Int)
  /\ \E body \in Seq(Cell) : cells = Ints(hdr) \o body /\ Joined(body, ps)

\* More pieces behind the ones already laid.
LEMMA LaidMore ==
  ASSUME NEW cells, NEW hdr, NEW ps, NEW d, NEW qs,
         Laid(cells, hdr, ps), Joined(d, qs)
  PROVE  Laid(cells \o d, hdr, ps \o qs)
<1>1. hdr \in Seq(Int)
  BY DEF Laid
<1>2. PICK body \in Seq(Cell) : cells = Ints(hdr) \o body /\ Joined(body, ps)
  BY DEF Laid
<1> DEFINE head == Ints(hdr)
<1>3. head \in Seq(Cell) /\ d \in Seq(Cell)
  BY <1>1, IntsProperties DEF Joined
<1> HIDE DEF head
<1>4. (head \o body) \o d = head \o (body \o d)
  BY <1>3, ConcatAssociative
<1>5. Joined(body \o d, ps \o qs)
  BY <1>2, JoinedConcat
<1>6. body \o d \in Seq(Cell)
  BY <1>5 DEF Joined
<1> DEFINE more == body \o d
<1>7. /\ more \in Seq(Cell) /\ Joined(more, ps \o qs)
      /\ cells \o d = Ints(hdr) \o more
  BY <1>2, <1>4, <1>5, <1>6, Zenon DEF head
<1> HIDE DEF more
<1> QED  BY <1>1, <1>7, Zenon DEF Laid

\* The first piece.
LEMMA LaidFirst ==
  ASSUME NEW hdr \in Seq(Int), NEW d, NEW qs, Joined(d, qs)
  PROVE  Laid(Ints(hdr) \o d, hdr, qs)
BY DEF Laid, Joined

\* What a client finds in it that knows the lengths of the pieces.
Yields(cells, hdr, lens, ps) ==
  LET body == From(cells, Len(hdr) + 1)
  IN  /\ \A i \in 1 .. Len(hdr) :
           cells[i].value = hdr[i] /\ Values(cells)[i] = hdr[i]
      /\ \A i \in 1 .. Len(body) : Values(cells)[Len(hdr) + i] = body[i].value
      /\ Values(cells) \in Seq(Int) /\ Len(Values(cells)) = Len(hdr) + Len(body)
      /\ Len(hdr) # 0 => cells # <<>>
      /\ Joined(body, ps)
      /\ Fits(body, lens)
      /\ \A p \in 1 .. Len(ps) : Cut(body, lens)[p] = Values(ps[p])

\* A header followed by pieces, read by a client that knows their lengths.
LEMMA LaidIsCut ==
  ASSUME NEW cells, NEW hdr, NEW ps, Laid(cells, hdr, ps),
         NEW lens \in Seq(Nat), Len(lens) = Len(ps),
         \A p \in 1 .. Len(ps) : lens[p] = Len(ps[p])
  PROVE  Yields(cells, hdr, lens, ps)
<1>1. hdr \in Seq(Int) /\ Len(hdr) \in Nat
  BY DEF Laid
<1>2. PICK body \in Seq(Cell) : cells = Ints(hdr) \o body /\ Joined(body, ps)
  BY DEF Laid
<1>3. Lens(ps) = lens
  <2>1. /\ Lens(ps) \in Seq(Nat) /\ Len(Lens(ps)) = Len(ps)
        /\ \A p \in 1 .. Len(ps) : Lens(ps)[p] = Len(ps[p])
    BY <1>2, LensProperties DEF Joined
  <2>2. \A p \in 1 .. Len(Lens(ps)) : Lens(ps)[p] = lens[p]
    BY <2>1
  <2>3. Len(Lens(ps)) = Len(lens)
    BY <2>1
  <2> QED  BY <2>1, <2>2, <2>3, SeqEqual
<1>4. /\ Fits(body, lens)
      /\ Cut(body, lens) = [p \in 1 .. Len(ps) |-> Values(ps[p])]
  BY <1>2, <1>3, JoinedIsCut
<1>5. \A p \in 1 .. Len(ps) : Cut(body, lens)[p] = Values(ps[p])
  BY <1>4
<1>6. /\ From(cells, Len(hdr) + 1) = body
      /\ \A i \in 1 .. Len(hdr) :
           cells[i].value = hdr[i] /\ Values(cells)[i] = hdr[i]
      /\ \A i \in 1 .. Len(body) : Values(cells)[Len(hdr) + i] = body[i].value
  BY <1>1, <1>2, HeaderProperties
<1>7. Values(cells) \in Seq(Int) /\ Len(Values(cells)) = Len(hdr) + Len(body)
  <2>1. cells \in Seq(Cell) /\ Len(cells) = Len(hdr) + Len(body)
    BY <1>1, <1>2, HeaderProperties
  <2> QED  BY <2>1, ValuesProperties
<1>8. Len(hdr) # 0 => cells # <<>>
  <2>1. Len(cells) = Len(hdr) + Len(body) /\ Len(body) \in Nat
    BY <1>1, <1>2, HeaderProperties
  <2>2. Len(hdr) # 0 => Len(cells) # 0
    BY ONLY <1>1, <2>1
  <2> QED  BY <2>2
<1> QED  BY <1>2, <1>4, <1>5, <1>6, <1>7, <1>8, Zenon DEF Yields

\* The fields of a reply and of an answer.
LEMMA ReplyCells ==
  ASSUME NEW x
  PROVE  /\ Reply(x).is = "reply" /\ Reply(x).cells = x
         /\ Some(x).is = "some" /\ Some(x).of = x /\ "some" # "none"
BY DEF Reply, Some

\* A user: the five strings, whose sizes and the two ids are in the header.
LEMMA UserDecodes ==
  ASSUME NEW u \in User
  PROVE  /\ serialize_user(Some(u)).is = "reply"
         /\ serialize_user(Some(u)).cells # <<>>
         /\ DecodeUser(serialize_user(Some(u)).cells) = Some(u)
<1> DEFINE hdr == <<VERSION, 1, LenWithNul(u.name), LenWithNul(u.passwd), u.uid, u.gid,
                    LenWithNul(u.gecos), LenWithNul(u.dir), LenWithNul(u.shell)>>
           a == CStr(u.name)
           b == CStr(u.passwd)
           c == CStr(u.gecos)
           d == CStr(u.dir)
           e == CStr(u.shell)
           ps == <<a, b, c, d, e>>
           cells == Ints(hdr) \o a \o b \o c \o d \o e
           lens == <<LenWithNul(u.name), LenWithNul(u.passwd), LenWithNul(u.gecos),
                     LenWithNul(u.dir), LenWithNul(u.shell)>>
<1>1. /\ u.name \in CString /\ u.passwd \in CString /\ u.gecos \in CString
      /\ u.dir \in CString /\ u.shell \in CString
      /\ u.uid \in Nat /\ u.gid \in Nat
      /\ u = [name |-> u.name, passwd |-> u.passwd, uid |-> u.uid, gid |-> u.gid,
              gecos |-> u.gecos, dir |-> u.dir, shell |-> u.shell]
  BY DEF User
<1>2. /\ a \in Seq(Cell) /\ b \in Seq(Cell) /\ c \in Seq(Cell)
      /\ d \in Seq(Cell) /\ e \in Seq(Cell)
  BY <1>1, CStrProperties
<1>3. /\ Len(a) = LenWithNul(u.name) /\ Len(b) = LenWithNul(u.passwd)
      /\ Len(c) = LenWithNul(u.gecos) /\ Len(d) = LenWithNul(u.dir)
      /\ Len(e) = LenWithNul(u.shell)
  BY <1>1, CStrProperties
<1>4. /\ Front(Values(a)) = u.name /\ Front(Values(b)) = u.passwd
      /\ Front(Values(c)) = u.gecos /\ Front(Values(d)) = u.dir
      /\ Front(Values(e)) = u.shell
  BY <1>1, CStrProperties
<1>5. /\ Joined(a, <<a>>) /\ Joined(b, <<b>>) /\ Joined(c, <<c>>)
      /\ Joined(d, <<d>>) /\ Joined(e, <<e>>)
  BY <1>1, StringJoined
<1>6. /\ LenWithNul(u.name) \in Nat /\ LenWithNul(u.passwd) \in Nat
      /\ LenWithNul(u.gecos) \in Nat /\ LenWithNul(u.dir) \in Nat
      /\ LenWithNul(u.shell) \in Nat
  BY <1>1, CStrProperties
<1> HIDE DEF a, b, c, d, e
<1>7. hdr \in Seq(Int) /\ Len(hdr) = 9 /\ lens \in Seq(Nat)
  BY <1>1, <1>6 DEF VERSION
<1>8. Laid(cells, hdr, ps)
  <2> HIDE DEF hdr
  <2> DEFINE T == Seq(Cell)
  <2>0. a \in T /\ b \in T /\ c \in T /\ d \in T /\ e \in T
    BY <1>2
  <2> HIDE DEF T
  <2>1. /\ <<a>> \o <<b>> = <<a, b>>
        /\ <<a, b>> \o <<c>> = <<a, b, c>>
        /\ <<a, b, c>> \o <<d>> = <<a, b, c, d>>
        /\ <<a, b, c, d>> \o <<e>> = <<a, b, c, d, e>>
    BY <2>0, TupleConcat
  <2>2. Laid(Ints(hdr) \o a, hdr, <<a>>)
    BY <1>5, <1>7, LaidFirst
  <2>3. Laid(Ints(hdr) \o a \o b, hdr, <<a, b>>)
    BY <1>5, <2>1, <2>2, LaidMore, Zenon
  <2>4. Laid(Ints(hdr) \o a \o b \o c, hdr, <<a, b, c>>)
    BY <1>5, <2>1, <2>3, LaidMore, Zenon
  <2>5. Laid(Ints(hdr) \o a \o b \o c \o d, hdr, <<a, b, c, d>>)
    BY <1>5, <2>1, <2>4, LaidMore, Zenon
  <2> QED
    BY <1>5, <2>1, <2>5, LaidMore, Zenon
<1>9. /\ Len(lens) = 5 /\ lens[1] = Len(a) /\ lens[2] = Len(b)
      /\ lens[3] = Len(c) /\ lens[4] = Len(d) /\ lens[5] = Len(e)
  BY <1>3, <1>6
<1>10. serialize_user(Some(u)) = Reply(cells)
  BY ReplyCells, Zenon DEF serialize_user, PwResponseHeader, a, b, c, d, e
<1>11. Len(ps) = 5 /\ ps[1] = a /\ ps[2] = b /\ ps[3] = c /\ ps[4] = d /\ ps[5] = e
  OBVIOUS
<1>12. /\ hdr[2] = 1 /\ hdr[5] = u.uid /\ hdr[6] = u.gid
       /\ lens = <<hdr[3], hdr[4], hdr[7], hdr[8], hdr[9]>>
  OBVIOUS
<1> HIDE DEF hdr, cells, ps, lens
<1> DEFINE body == From(cells, 10)
           h == Values(cells)
           cut == Cut(body, lens)
<1>13. /\ cells # <<>>
       /\ \A i \in 1 .. 9 : cells[i].value = hdr[i] /\ h[i] = hdr[i]
       /\ Fits(body, lens)
       /\ \A p \in 1 .. 5 : cut[p] = Values(ps[p])
  <2>1. Len(lens) = Len(ps) /\ \A p \in 1 .. Len(ps) : lens[p] = Len(ps[p])
    BY <1>9, <1>11
  <2>2. Yields(cells, hdr, lens, ps)
    BY <1>7, <1>8, <2>1, LaidIsCut, Zenon
  <2> QED  BY <1>7, <1>11, <2>2 DEF Yields
<1>14. /\ cells[2].value = 1 /\ h[5] = u.uid /\ h[6] = u.gid
       /\ lens = <<h[3], h[4], h[7], h[8], h[9]>>
  BY <1>12, <1>13
<1>15. /\ cut[1] = Values(a) /\ cut[2] = Values(b) /\ cut[3] = Values(c)
       /\ cut[4] = Values(d) /\ cut[5] = Values(e)
  BY <1>11, <1>13
<1>16. DecodeUser(cells) = Some(u)
  BY <1>1, <1>4, <1>13, <1>14, <1>15, Zenon DEF DecodeUser, Found
<1>17. cells # <<>>
  BY <1>13, Zenon
<1> HIDE DEF cells
<1>18. serialize_user(Some(u)).is = "reply" /\ serialize_user(Some(u)).cells = cells
  BY <1>10, ReplyCells, Zenon
<1> QED  BY <1>16, <1>17, <1>18, Zenon

\* Words behind words are words.
LEMMA IntsConcat ==
  ASSUME NEW s \in Seq(Int), NEW t \in Seq(Int)
  PROVE  s \o t \in Seq(Int) /\ Ints(s) \o Ints(t) = Ints(s \o t)
<1> DEFINE st == s \o t
           is == Ints(s)
           it == Ints(t)
           ist == is \o it
<1>1. /\ st \in Seq(Int) /\ Len(st) = Len(s) + Len(t)
      /\ Len(s) \in Nat /\ Len(t) \in Nat
      /\ \A i \in 1 .. Len(s) : st[i] = s[i]
      /\ \A i \in 1 .. Len(t) : st[Len(s) + i] = t[i]
  BY ConcatElements
<1> HIDE DEF st
<1>2. /\ is \in Seq(Cell) /\ Len(is) = Len(s) /\ it \in Seq(Cell) /\ Len(it) = Len(t)
      /\ Ints(st) \in Seq(Cell) /\ Len(Ints(st)) = Len(st)
  BY <1>1, IntsProperties
<1>3. /\ \A i \in 1 .. Len(s) : is[i] = Word(s[i])
      /\ \A i \in 1 .. Len(t) : it[i] = Word(t[i])
      /\ \A i \in 1 .. Len(st) : Ints(st)[i] = Word(st[i])
  BY <1>1 DEF Ints
<1> HIDE DEF is, it
<1>4. /\ ist \in Seq(Cell) /\ Len(ist) = Len(is) + Len(it)
      /\ \A i \in 1 .. Len(is) : ist[i] = is[i]
      /\ \A i \in 1 .. Len(it) : ist[Len(is) + i] = it[i]
  <2>1. is \in Seq(Cell) /\ it \in Seq(Cell)
    BY <1>2
  <2> QED  BY <2>1, ConcatElements
<1> HIDE DEF ist
<1>5. ASSUME NEW i \in 1 .. Len(ist) PROVE ist[i] = Ints(st)[i]
  <2>1. CASE i \in 1 .. Len(s)
    <3>1. i \in 1 .. Len(st)
      BY <1>1, <2>1
    <3> QED  BY <1>1, <1>2, <1>3, <1>4, <2>1, <3>1
  <2>2. CASE i \notin 1 .. Len(s)
    <3>1. i - Len(s) \in 1 .. Len(t) /\ Len(s) + (i - Len(s)) = i /\ i \in 1 .. Len(st)
      BY <1>1, <1>2, <1>4, <2>2
    <3>2. st[i] = t[i - Len(s)] /\ ist[i] = it[i - Len(s)]
      BY <1>1, <1>2, <1>4, <3>1
    <3> QED  BY <1>3, <3>1, <3>2
  <2> QED  BY <2>1, <2>2
<1>6. Len(ist) = Len(Ints(st))
  BY <1>1, <1>2, <1>4
<1>7. ist = Ints(st)
  BY <1>2, <1>4, <1>5, <1>6, SeqEqual
<1> QED  BY <1>1, <1>7 DEF st, ist, is, it

\* A vector of strings, their lengths and the strings.
Sizes(ss) == [i \in 1 .. Len(ss) |-> LenWithNul(ss[i])]
Strings(ss) == [i \in 1 .. Len(ss) |-> CStr(ss[i])]

\* A list of strings, and the list of their sizes with the NUL.
LEMMA StringsJoined ==
  ASSUME NEW ss \in Seq(CString)
  PROVE  /\ Len(ss) \in Nat
         /\ Sizes(ss) \in Seq(Nat) /\ Len(Sizes(ss)) = Len(ss)
         /\ LensWithNul(ss) = Ints(Sizes(ss))
         /\ Strings(ss) \in Seq(Seq(Cell)) /\ Len(Strings(ss)) = Len(ss)
         /\ Joined(CStrs(ss), Strings(ss))
         /\ \A i \in 1 .. Len(ss) : /\ Len(Strings(ss)[i]) = Sizes(ss)[i]
                                    /\ Front(Values(Strings(ss)[i])) = ss[i]
<1> DEFINE ps == Strings(ss)
<1>1. Len(ss) \in Nat /\ \A i \in 1 .. Len(ss) : ss[i] \in CString
  OBVIOUS
<1>2. Sizes(ss) \in Seq(Nat) /\ Len(Sizes(ss)) = Len(ss)
      /\ \A i \in 1 .. Len(ss) : Sizes(ss)[i] = LenWithNul(ss[i])
  BY <1>1, CStrProperties DEF Sizes
<1>3. LensWithNul(ss) = Ints(Sizes(ss))
  BY DEF LensWithNul, Sizes
<1>4. \A i \in 1 .. Len(ss) :
        /\ CStr(ss[i]) \in Seq(Cell) /\ Len(CStr(ss[i])) = LenWithNul(ss[i])
        /\ \A j \in 1 .. LenWithNul(ss[i]) : CStr(ss[i])[j].width = 1
        /\ Front(Values(CStr(ss[i]))) = ss[i]
  BY <1>1, CStrProperties
<1>5. ps \in Seq(Seq(Cell)) /\ Len(ps) = Len(ss)
      /\ \A i \in 1 .. Len(ss) : ps[i] = CStr(ss[i])
  BY <1>1, <1>4 DEF Strings
<1> HIDE DEF ps
<1>6. Uniform(ps)
  BY <1>4, <1>5 DEF Uniform
<1>7. Joined(FlattenSeq(ps), ps)
  BY <1>5, <1>6, JoinedFlatten
<1>8. Joined(CStrs(ss), ps)
  BY <1>7 DEF CStrs, ps, Strings
<1> QED  BY <1>1, <1>2, <1>3, <1>4, <1>5, <1>8 DEF ps

\* The words a client reads from k + 1 on.
LEMMA WordsAre ==
  ASSUME NEW h \in Seq(Int), NEW k \in Nat, NEW s \in Seq(Int),
         k + Len(s) <= Len(h), \A i \in 1 .. Len(s) : h[k + i] = s[i]
  PROVE  SubSeq(h, k + 1, k + Len(s)) = s
<1> DEFINE n == Len(s)
           m == k + 1
           l == k + n
           sub == SubSeq(h, m, l)
<1>1. n \in Nat /\ Len(h) \in Nat
  OBVIOUS
<1> HIDE DEF n
<1>2. m \in Nat /\ l \in Nat /\ m >= 1 /\ l <= Len(h) /\ l - m + 1 = n
      /\ \A i \in 1 .. n : m + i - 1 = k + i
  BY <1>1 DEF n
<1> HIDE DEF m, l
<1>3. \A i \in m .. l : h[i] \in Int
  BY <1>1, <1>2
<1>4. /\ sub \in Seq(Int)
      /\ Len(sub) = IF m <= l THEN l - m + 1 ELSE 0
      /\ \A i \in 1 .. l - m + 1 : sub[i] = h[m + i - 1]
  BY <1>2, <1>3, SubSeqProperties
<1> HIDE DEF sub
<1>5. Len(sub) = Len(s)
  BY <1>1, <1>2, <1>4 DEF n
<1>6. \A i \in 1 .. Len(sub) : sub[i] = s[i]
  BY <1>2, <1>4, <1>5 DEF n
<1>7. sub = s
  BY <1>4, <1>5, <1>6, SeqEqual
<1> QED  BY <1>7 DEF sub, m, l, n

\* A group: the sizes of its members follow the header, the strings the sizes.
LEMMA GroupDecodes ==
  ASSUME NEW g \in Group
  PROVE  /\ serialize_group(Some(g)).is = "reply"
         /\ serialize_group(Some(g)).cells # <<>>
         /\ DecodeGroup(serialize_group(Some(g)).cells) = Some(g)
<1> DEFINE n == Len(g.mem)
           words == <<VERSION, 1, LenWithNul(g.name), LenWithNul(g.passwd), g.gid, n>>
           sizes == Sizes(g.mem)
           hdr == words \o sizes
           a == CStr(g.name)
           b == CStr(g.passwd)
           strs == CStrs(g.mem)
           ab == <<a, b>>
           mem == Strings(g.mem)
           ps == ab \o mem
           cells == Ints(hdr) \o a \o b \o strs
           two == <<LenWithNul(g.name), LenWithNul(g.passwd)>>
           lens == two \o sizes
<1>1. /\ g.name \in CString /\ g.passwd \in CString /\ g.gid \in Nat
      /\ g.mem \in Seq(CString)
      /\ g = [name |-> g.name, passwd |-> g.passwd, gid |-> g.gid, mem |-> g.mem]
  BY DEF Group
<1>2. /\ a \in Seq(Cell) /\ Len(a) = LenWithNul(g.name) /\ LenWithNul(g.name) \in Nat
      /\ Front(Values(a)) = g.name
      /\ b \in Seq(Cell) /\ Len(b) = LenWithNul(g.passwd) /\ LenWithNul(g.passwd) \in Nat
      /\ Front(Values(b)) = g.passwd
  BY <1>1, CStrProperties
<1>3. Joined(a, <<a>>) /\ Joined(b, <<b>>)
  BY <1>1, StringJoined
<1>4. /\ n \in Nat
      /\ sizes \in Seq(Nat) /\ Len(sizes) = n
      /\ LensWithNul(g.mem) = Ints(sizes)
      /\ mem \in Seq(Seq(Cell)) /\ Len(mem) = n
      /\ Joined(strs, mem)
      /\ \A i \in 1 .. n : Len(mem[i]) = sizes[i] /\ Front(Values(mem[i])) = g.mem[i]
  BY <1>1, StringsJoined
<1>5. words \in Seq(Int) /\ Len(words) = 6 /\ words[2] = 1
      /\ words[3] = two[1] /\ words[4] = two[2] /\ words[5] = g.gid /\ words[6] = n
  BY <1>1, <1>2, <1>4 DEF VERSION
<1>6. two \in Seq(Nat) /\ Len(two) = 2 /\ two[1] = Len(a) /\ two[2] = Len(b)
      /\ two = <<two[1], two[2]>>
  BY <1>2
<1>7. ab \in Seq(Seq(Cell)) /\ Len(ab) = 2 /\ ab[1] = a /\ ab[2] = b /\ ab = <<a>> \o <<b>>
  <2>1. a \in Seq(Cell) /\ b \in Seq(Cell)
    BY <1>2
  <2> DEFINE T == Seq(Cell)
  <2> HIDE DEF T
  <2>2. a \in T /\ b \in T
    BY <2>1 DEF T
  <2>3. <<a>> \o <<b>> = <<a, b>>
    BY <2>2, TupleConcat
  <2> QED  BY <2>1, <2>3
<1>8. serialize_group(Some(g)) = Reply(cells)
  <2> HIDE DEF n, words, sizes, a, b, strs, mem
  <2>1. serialize_group(Some(g)) = Reply(Ints(words) \o Ints(sizes) \o a \o b \o strs)
    <3>1. LensWithNul(g.mem) = Ints(sizes)
      BY <1>4
    <3>2. serialize_group(Some(g))
            = Reply(Ints(words) \o LensWithNul(g.mem) \o a \o b \o strs)
      BY ReplyCells, Zenon DEF serialize_group, GrResponseHeader,
                               words, n, a, b, strs
    <3> QED  BY <3>1, <3>2, Zenon
  <2>2. sizes \in Seq(Int)
    BY <1>4
  <2>3. Ints(words) \o Ints(sizes) = Ints(hdr)
    BY <1>5, <2>2, IntsConcat
  <2> QED  BY <2>1, <2>3, Zenon
<1> HIDE DEF n, words, sizes, a, b, strs, ab, mem, two
<1>9. /\ hdr \in Seq(Int) /\ Len(hdr) = 6 + n
      /\ \A i \in 1 .. 6 : hdr[i] = words[i]
      /\ \A i \in 1 .. n : hdr[6 + i] = sizes[i]
  <2>1. sizes \in Seq(Int) /\ words \in Seq(Int)
    BY <1>4, <1>5
  <2>2. /\ hdr \in Seq(Int) /\ Len(hdr) = Len(words) + Len(sizes)
        /\ \A i \in 1 .. Len(words) : hdr[i] = words[i]
        /\ \A i \in 1 .. Len(sizes) : hdr[Len(words) + i] = sizes[i]
    BY <2>1, ConcatElements
  <2> HIDE DEF hdr
  <2> QED  BY <1>4, <1>5, <2>2
<1>10. /\ ps \in Seq(Seq(Cell)) /\ Len(ps) = 2 + n /\ ps[1] = a /\ ps[2] = b
       /\ \A i \in 1 .. n : ps[2 + i] = mem[i]
  <2>1. ab \in Seq(Seq(Cell)) /\ mem \in Seq(Seq(Cell))
    BY <1>4, <1>7
  <2>2. /\ ps \in Seq(Seq(Cell)) /\ Len(ps) = Len(ab) + Len(mem)
        /\ \A i \in 1 .. Len(ab) : ps[i] = ab[i]
        /\ \A i \in 1 .. Len(mem) : ps[Len(ab) + i] = mem[i]
    BY <2>1, ConcatElements
  <2> HIDE DEF ps
  <2> QED  BY <1>4, <1>7, <2>2
<1>11. /\ lens \in Seq(Nat) /\ Len(lens) = 2 + n /\ lens[1] = Len(a) /\ lens[2] = Len(b)
       /\ \A i \in 1 .. n : lens[2 + i] = sizes[i]
  <2>1. two \in Seq(Nat) /\ sizes \in Seq(Nat)
    BY <1>4, <1>6
  <2>2. /\ lens \in Seq(Nat) /\ Len(lens) = Len(two) + Len(sizes)
        /\ \A i \in 1 .. Len(two) : lens[i] = two[i]
        /\ \A i \in 1 .. Len(sizes) : lens[Len(two) + i] = sizes[i]
    BY <2>1, ConcatElements
  <2> HIDE DEF lens
  <2> QED  BY <1>4, <1>6, <2>2
<1>12. Laid(cells, hdr, ps)
  <2> HIDE DEF hdr
  <2>1. Laid(Ints(hdr) \o a, hdr, <<a>>)
    BY <1>3, <1>9, LaidFirst
  <2>2. Laid(Ints(hdr) \o a \o b, hdr, ab)
    BY <1>3, <1>7, <2>1, LaidMore, Zenon
  <2> QED  BY <1>4, <2>2, LaidMore, Zenon
<1> HIDE DEF hdr, cells, ps
<1>13. Yields(cells, hdr, lens, ps)
  <2>1. Len(lens) = Len(ps)
    BY <1>10, <1>11
  <2>2. ASSUME NEW p \in 1 .. Len(ps) PROVE lens[p] = Len(ps[p])
    <3>1. CASE p = 1
      BY <1>10, <1>11, <3>1
    <3>2. CASE p = 2
      BY <1>10, <1>11, <3>2
    <3>3. CASE p # 1 /\ p # 2
      <4> DEFINE q == p - 2
      <4>1. q \in 1 .. n /\ 2 + q = p
        BY <1>4, <1>10, <3>3
      <4> HIDE DEF lens, q
      <4>2. lens[2 + q] = sizes[q] /\ ps[2 + q] = mem[q]
        BY <1>10, <1>11, <4>1, Zenon
      <4>3. Len(mem[q]) = sizes[q]
        BY <1>4, <4>1, Zenon
      <4> QED  BY <4>1, <4>2, <4>3, Zenon
    <3> QED  BY <3>1, <3>2, <3>3
  <2> HIDE DEF lens
  <2> QED  BY <1>11, <1>12, <2>1, <2>2, LaidIsCut, Zenon
<1> DEFINE h == Values(cells)
           body == From(cells, 7 + n)
           cut == Cut(body, lens)
<1>14. /\ cells # <<>>
       /\ \A i \in 1 .. 6 + n : cells[i].value = hdr[i] /\ h[i] = hdr[i]
       /\ Fits(body, lens)
       /\ \A p \in 1 .. 2 + n : cut[p] = Values(ps[p])
  <2>1. Len(hdr) + 1 = 7 + n /\ Len(hdr) # 0
    BY <1>4, <1>9
  <2> HIDE DEF lens
  <2> QED  BY <1>9, <1>10, <1>13, <2>1 DEF Yields
<1>15. h \in Seq(Int) /\ 6 + n <= Len(h)
  <2>1. /\ h \in Seq(Int) /\ Len(h) = Len(hdr) + Len(From(cells, Len(hdr) + 1))
        /\ From(cells, Len(hdr) + 1) \in Seq(Cell)
    BY <1>13, Zenon DEF Yields, Joined
  <2>2. Len(From(cells, Len(hdr) + 1)) \in Nat
    BY <2>1
  <2> QED  BY <1>4, <1>9, <2>1, <2>2
<1>16. SubSeq(h, 7, 6 + n) = sizes
  <2> HIDE DEF h
  <2>1. /\ sizes \in Seq(Int) /\ 6 + Len(sizes) <= Len(h)
        /\ \A i \in 1 .. Len(sizes) : h[6 + i] = sizes[i]
    <3>1. \A i \in 1 .. n : 6 + i \in 1 .. 6 + n
      BY <1>4
    <3>2. \A i \in 1 .. n : h[6 + i] = sizes[i]
      BY <1>9, <1>14, <3>1
    <3> QED  BY <1>4, <1>15, <3>2
  <2>2. SubSeq(h, 6 + 1, 6 + Len(sizes)) = sizes
    BY <1>15, <2>1, WordsAre
  <2> QED  BY <1>4, <2>2
<1>17. cells[2].value = 1 /\ h[5] = g.gid /\ h[6] = n
  <2> HIDE DEF h
  <2> QED  BY <1>4, <1>5, <1>9, <1>14
<1>18. lens = <<h[3], h[4]>> \o SubSeq(h, 7, 6 + n)
  <2>1. h[3] = two[1] /\ h[4] = two[2]
    <3> HIDE DEF h
    <3> QED  BY <1>4, <1>5, <1>9, <1>14
  <2> QED  BY <1>6, <1>16, <2>1, Zenon
<1>19. /\ Front(cut[1]) = g.name /\ Front(cut[2]) = g.passwd
       /\ [i \in 1 .. n |-> Front(cut[2 + i])] = g.mem
  <2>1. Front(cut[1]) = g.name /\ Front(cut[2]) = g.passwd
    <3> HIDE DEF cut
    <3> QED  BY <1>2, <1>4, <1>10, <1>14
  <2>2. \A i \in 1 .. n : Front(cut[2 + i]) = g.mem[i]
    <3> HIDE DEF cut
    <3>1. \A i \in 1 .. n : 2 + i \in 1 .. 2 + n
      BY <1>4
    <3>2. \A i \in 1 .. n : cut[2 + i] = Values(mem[i])
      BY <1>10, <1>14, <3>1
    <3> QED  BY <1>4, <3>2
  <2>3. g.mem = [i \in 1 .. n |-> g.mem[i]]
    BY <1>1 DEF n
  <2> HIDE DEF cut
  <2> QED  BY <2>1, <2>2, <2>3
<1>20. DecodeGroup(cells) = Some(g)
  <2> HIDE DEF lens
  <2> QED  BY <1>1, <1>14, <1>17, <1>18, <1>19, Zenon DEF DecodeGroup, Found
<1>21. cells # <<>>
  BY <1>14, Zenon
<1> HIDE DEF cells
<1>22. serialize_group(Some(g)).is = "reply" /\ serialize_group(Some(g)).cells = cells
  BY <1>8, ReplyCells, Zenon
<1> QED  BY <1>20, <1>21, <1>22, Zenon

\* A group list that is not refused.
LEMMA InitgroupsDecodes ==
  ASSUME NEW groups \in Seq(Nat), serialize_initgroups(groups) # Err
  PROVE  /\ serialize_initgroups(groups).is = "reply"
         /\ serialize_initgroups(groups).cells # <<>>
         /\ DecodeInitgroups(serialize_initgroups(groups).cells) = Some(groups)
<1> DEFINE n == Len(groups)
           hdr == <<VERSION, 1, n>>
           body == Ints(groups)
           cells == Ints(hdr) \o body
<1>1. groups \in Seq(Int) /\ n \in Nat
  OBVIOUS
<1>2. /\ body \in Seq(Cell) /\ Len(body) = n /\ Values(body) = groups
      /\ \A i \in 1 .. Len(body) : body[i].width = 4
  BY <1>1, IntsProperties
<1>3. hdr \in Seq(Int) /\ Len(hdr) = 3 /\ hdr[2] = 1 /\ hdr[3] = n
  BY <1>1 DEF VERSION
<1>4. serialize_initgroups(groups) = Reply(cells)
  BY Zenon DEF serialize_initgroups, InitgroupsResponseHeader
<1> HIDE DEF hdr, body, n
<1>5. Joined(body, <<body>>)
  BY <1>2, JoinedOne
<1>6. Fits(body, Lens(<<body>>))
  BY <1>5, JoinedIsCut
<1>7. Lens(<<body>>) = <<n>>
  <2> DEFINE ps == <<body>>
  <2>1. ps \in Seq(Seq(Cell)) /\ Len(ps) = 1 /\ ps[1] = body
    BY <1>2
  <2> HIDE DEF ps
  <2>2. /\ Lens(ps) \in Seq(Nat) /\ Len(Lens(ps)) = 1 /\ Lens(ps)[1] = n
    <3>1. /\ Lens(ps) \in Seq(Nat) /\ Len(Lens(ps)) = Len(ps)
          /\ \A p \in 1 .. Len(ps) : Lens(ps)[p] = Len(ps[p])
      BY <2>1, LensProperties, Zenon
    <3>2. 1 \in 1 .. Len(ps)
      BY <2>1
    <3> QED  BY <1>2, <2>1, <3>1, <3>2, Zenon
  <2>3. <<n>> \in Seq(Nat) /\ Len(<<n>>) = 1 /\ <<n>>[1] = n
    BY <1>1
  <2>4. \A i \in 1 .. Len(Lens(ps)) : Lens(ps)[i] = <<n>>[i]
    BY <2>2, <2>3
  <2>5. Lens(ps) = <<n>>
    BY <2>2, <2>3, <2>4, SeqEqual
  <2> QED  BY <2>5 DEF ps
<1>8. /\ From(cells, 4) = body /\ cells[2].value = 1 /\ cells[3].value = n
      /\ cells # <<>>
  <2>1. /\ From(cells, Len(hdr) + 1) = body
        /\ Len(cells) = Len(hdr) + Len(body)
        /\ \A i \in 1 .. Len(hdr) : cells[i].value = hdr[i]
    BY <1>2, <1>3, HeaderProperties
  <2> HIDE DEF cells
  <2>2. Len(cells) # 0
    BY <1>1, <1>2, <1>3, <2>1
  <2>3. cells # <<>>
    BY <2>2
  <2> QED  BY <1>3, <2>1, <2>3
<1> HIDE DEF cells
<1>9. DecodeInitgroups(cells) = Some(groups)
  BY <1>2, <1>6, <1>7, <1>8, Zenon DEF DecodeInitgroups, Found
<1>10. cells # <<>>
  BY <1>8, Zenon
<1> HIDE DEF cells
<1>11. serialize_initgroups(groups).is = "reply" /\ serialize_initgroups(groups).cells = cells
  BY <1>4, ReplyCells, Zenon
<1> QED  BY <1>9, <1>10, <1>11, Zenon

\* The addresses of a hostent or of an addrinfo, octets by octets.
OctetsOf(addrs) == [i \in 1 .. Len(addrs) |-> Bytes(addrs[i].octets)]
AddrLens(addrs) ==
  [i \in 1 .. Len(addrs) |-> IF addrs[i].family = AF_INET THEN 4 ELSE 16]

\* A function on 1 .. n is a sequence.
LEMMA ArrayIsSeq ==
  ASSUME NEW n \in Nat, NEW S, NEW f \in [1 .. n -> S]
  PROVE  f \in Seq(S) /\ Len(f) = n
<1> DEFINE g == [i \in 1 .. n |-> f[i]]
<1>1. \A i \in 1 .. n : f[i] \in S
  OBVIOUS
<1>2. g \in Seq(S) /\ Len(g) = n
  BY <1>1
<1>3. f = g
  OBVIOUS
<1> HIDE DEF g
<1> QED  BY <1>2, <1>3

\* An array of octets is a sequence of integers.
LEMMA OctetArray ==
  ASSUME NEW n \in Nat, NEW f \in [1 .. n -> 0 .. 255]
  PROVE  f \in Seq(Int) /\ Len(f) = n
<1>1. \A i \in 1 .. n : f[i] \in 0 .. 255
  BY Zenon
<1>2. \A b \in 0 .. 255 : b \in Int
  OBVIOUS
<1>3. \A i \in 1 .. n : f[i] \in Int
  BY <1>1, <1>2, Zenon
<1>4. f \in [1 .. n -> Int]
  BY <1>3, Zenon
<1> QED  BY <1>4, ArrayIsSeq

\* The family of an address says how many octets it has.
LEMMA AddressProperties ==
  ASSUME NEW x \in Address
  PROVE  /\ x.octets \in Seq(Int)
         /\ Len(x.octets) = (IF x.family = AF_INET THEN 4 ELSE 16)
         /\ x.family \in {AF_INET, AF_INET6}
         /\ x = [family |-> x.family, octets |-> x.octets]
<1>1. CASE x \in [family : {AF_INET}, octets : [1 .. 4 -> 0 .. 255]]
  <2>1. x.family = AF_INET /\ x.octets \in [1 .. 4 -> 0 .. 255]
        /\ x = [family |-> x.family, octets |-> x.octets]
    BY <1>1
  <2>2. x.octets \in Seq(Int) /\ Len(x.octets) = 4
    BY <2>1, OctetArray, 4 \in Nat
  <2> QED  BY <2>1, <2>2
<1>2. CASE x \in [family : {AF_INET6}, octets : [1 .. 16 -> 0 .. 255]]
  <2>1. x.family = AF_INET6 /\ x.octets \in [1 .. 16 -> 0 .. 255]
        /\ x = [family |-> x.family, octets |-> x.octets]
    BY <1>2
  <2>2. x.octets \in Seq(Int) /\ Len(x.octets) = 16
    BY <2>1, OctetArray, 16 \in Nat
  <2> QED  BY <2>1, <2>2 DEF AF_INET, AF_INET6
<1> QED  BY <1>1, <1>2 DEF Address

\* A list of addresses, and the list of their lengths.
LEMMA OctetsJoined ==
  ASSUME NEW addrs \in Seq(Address)
  PROVE  /\ Len(addrs) \in Nat
         /\ AddrLens(addrs) \in Seq(Nat) /\ Len(AddrLens(addrs)) = Len(addrs)
         /\ OctetsOf(addrs) \in Seq(Seq(Cell)) /\ Len(OctetsOf(addrs)) = Len(addrs)
         /\ Joined(Octets(addrs), OctetsOf(addrs))
         /\ \A i \in 1 .. Len(addrs) :
              /\ Len(OctetsOf(addrs)[i]) = AddrLens(addrs)[i]
              /\ Values(OctetsOf(addrs)[i]) = addrs[i].octets
<1> DEFINE ps == OctetsOf(addrs)
           bs(i) == Bytes(addrs[i].octets)
<1>1. Len(addrs) \in Nat /\ \A i \in 1 .. Len(addrs) : addrs[i] \in Address
  OBVIOUS
<1>2. \A i \in 1 .. Len(addrs) :
        /\ addrs[i].octets \in Seq(Int)
        /\ Len(addrs[i].octets) = (IF addrs[i].family = AF_INET THEN 4 ELSE 16)
  BY <1>1, AddressProperties
<1>3. /\ AddrLens(addrs) \in Seq(Nat) /\ Len(AddrLens(addrs)) = Len(addrs)
      /\ \A i \in 1 .. Len(addrs) : AddrLens(addrs)[i] = Len(addrs[i].octets)
  BY <1>1, <1>2 DEF AddrLens
<1>4. \A i \in 1 .. Len(addrs) :
        /\ bs(i) \in Seq(Cell) /\ Len(bs(i)) = Len(addrs[i].octets)
        /\ \A j \in 1 .. Len(bs(i)) : bs(i)[j].width = 1
        /\ Values(bs(i)) = addrs[i].octets
  BY <1>2, BytesProperties
<1> HIDE DEF bs
<1>5. ps \in Seq(Seq(Cell)) /\ Len(ps) = Len(addrs)
      /\ \A i \in 1 .. Len(addrs) : ps[i] = bs(i)
  BY <1>1, <1>4 DEF OctetsOf, bs
<1> HIDE DEF ps
<1>6. Uniform(ps)
  BY <1>4, <1>5 DEF Uniform
<1>7. Joined(FlattenSeq(ps), ps)
  BY <1>5, <1>6, JoinedFlatten
<1>8. Joined(Octets(addrs), ps)
  BY <1>7 DEF Octets, ps, OctetsOf
<1> QED  BY <1>1, <1>3, <1>4, <1>5, <1>8 DEF ps

\* Where a piece is found.
Holds(body, o, piece) == /\ o \in Nat /\ o + Len(piece) <= Len(body)
                         /\ \A i \in 1 .. Len(piece) : body[o + i] = piece[i]

\* Where to find a piece in the cells.
LEMMA JoinedPiece ==
  ASSUME NEW body, NEW ps, Joined(body, ps), NEW p \in 1 .. Len(ps)
  PROVE  Holds(body, Offset(Lens(ps))[p], ps[p])
<1> DEFINE off == Offset(Lens(ps))
<1>1. ps \in Seq(Seq(Cell)) /\ Tiled(body, ps)
  BY DEF Joined
<1>2. off[p] \in Nat /\ off[p + 1] = off[p] + Len(ps[p]) /\ off[p + 1] <= off[Len(ps) + 1]
  BY <1>1, PieceProperties
<1>3. /\ Len(body) = off[Len(ps) + 1]
      /\ \A i \in 1 .. Len(ps[p]) : body[off[p] + i] = ps[p][i]
  BY <1>1, Zenon DEF Tiled
<1> QED  BY <1>2, <1>3, Zenon DEF Holds

\* The lengths of the pieces, as a client works them out.
Measured(lens, ps) == /\ lens \in Seq(Nat) /\ ps \in Seq(Seq(Cell))
                      /\ Len(lens) = Len(ps)
                      /\ \A p \in 1 .. Len(ps) : lens[p] = Len(ps[p])

\* Lengths of pieces behind lengths of pieces.
LEMMA MeasuredConcat ==
  ASSUME NEW l, NEW ps, NEW k, NEW qs, Measured(l, ps), Measured(k, qs)
  PROVE  Measured(l \o k, ps \o qs)
<1> DEFINE lk == l \o k
           rs == ps \o qs
<1>1. /\ l \in Seq(Nat) /\ k \in Seq(Nat) /\ ps \in Seq(Seq(Cell)) /\ qs \in Seq(Seq(Cell))
  BY DEF Measured
<1>2. /\ Len(l) = Len(ps) /\ \A p \in 1 .. Len(ps) : l[p] = Len(ps[p])
      /\ Len(k) = Len(qs) /\ \A p \in 1 .. Len(qs) : k[p] = Len(qs[p])
  BY DEF Measured
<1>3. /\ lk \in Seq(Nat) /\ Len(lk) = Len(l) + Len(k)
      /\ \A i \in 1 .. Len(l) : lk[i] = l[i]
      /\ \A i \in 1 .. Len(k) : lk[Len(l) + i] = k[i]
  BY <1>1, ConcatElements
<1>4. /\ rs \in Seq(Seq(Cell)) /\ Len(rs) = Len(ps) + Len(qs)
      /\ Len(ps) \in Nat /\ Len(qs) \in Nat
      /\ \A i \in 1 .. Len(ps) : rs[i] = ps[i]
      /\ \A i \in 1 .. Len(qs) : rs[Len(ps) + i] = qs[i]
  BY <1>1, ConcatElements
<1> HIDE DEF lk, rs
<1>5. ASSUME NEW p \in 1 .. Len(rs) PROVE lk[p] = Len(rs[p])
  <2>1. CASE p \in 1 .. Len(ps)
    BY <1>2, <1>3, <1>4, <2>1
  <2>2. CASE p \notin 1 .. Len(ps)
    <3>1. p - Len(ps) \in 1 .. Len(qs) /\ Len(ps) + (p - Len(ps)) = p
      BY <1>4, <2>2
    <3>2. lk[p] = k[p - Len(ps)] /\ rs[p] = qs[p - Len(ps)]
      BY <1>2, <1>3, <1>4, <3>1
    <3> QED  BY <1>2, <3>1, <3>2
  <2> QED  BY <2>1, <2>2
<1>6. Len(lk) = Len(rs)
  BY <1>2, <1>3, <1>4
<1>7. Measured(lk, rs)
  BY <1>3, <1>4, <1>5, <1>6 DEF Measured
<1> QED  BY <1>7 DEF lk, rs

\* A hostent: the name comes before the sizes of the aliases, which the client
\* has to find behind it, and all addresses are of the one length in the header.
LEMMA HostentDecodes ==
  ASSUME NEW host \in Host, host.addr_list # <<>>
  PROVE  /\ serialize_hostent(host).is = "reply"
         /\ serialize_hostent(host).cells # <<>>
         /\ DecodeHostent(serialize_hostent(host).cells) = [is |-> "ok", of |-> host]
<1> DEFINE n == Len(host.aliases)
           m == Len(host.addr_list)
           family == host.addr_list[1].family
           len == IF family = AF_INET THEN 4 ELSE 16
           size == LenWithNul(host.name)
           sizes == Sizes(host.aliases)
           hdr == <<VERSION, 1, size, n, family, len, m, host.herrno>>
           a == CStr(host.name)
           b == Ints(sizes)
           octets == Octets(host.addr_list)
           strs == CStrs(host.aliases)
           ab == <<a, b>>
           os == OctetsOf(host.addr_list)
           ss == Strings(host.aliases)
           abos == ab \o os
           ps == abos \o ss
           cells == Ints(hdr) \o a \o b \o octets \o strs
           two == <<size, n>>
           alens == AddrLens(host.addr_list)
           twoalens == two \o alens
           lens == twoalens \o sizes
<1>1. /\ host.name \in CString /\ host.aliases \in Seq(CString)
      /\ host.addr_list \in Seq(Address) /\ host.herrno \in Int
      /\ host = [name |-> host.name, aliases |-> host.aliases,
                 addr_list |-> host.addr_list, herrno |-> host.herrno]
      /\ \A i, j \in 1 .. m : host.addr_list[i].family = host.addr_list[j].family
  BY DEF Host
<1>2. /\ a \in Seq(Cell) /\ Len(a) = size /\ size \in Nat
      /\ Front(Values(a)) = host.name
  BY <1>1, CStrProperties
<1>3. Joined(a, <<a>>)
  BY <1>1, StringJoined
<1>4. /\ n \in Nat
      /\ sizes \in Seq(Nat) /\ Len(sizes) = n
      /\ LensWithNul(host.aliases) = Ints(sizes)
      /\ ss \in Seq(Seq(Cell)) /\ Len(ss) = n
      /\ Joined(strs, ss)
      /\ \A i \in 1 .. n : Len(ss[i]) = sizes[i] /\ Front(Values(ss[i])) = host.aliases[i]
  BY <1>1, StringsJoined
<1>5. /\ m \in Nat
      /\ alens \in Seq(Nat) /\ Len(alens) = m
      /\ os \in Seq(Seq(Cell)) /\ Len(os) = m
      /\ Joined(octets, os)
      /\ \A i \in 1 .. m : /\ Len(os[i]) = alens[i]
                           /\ Values(os[i]) = host.addr_list[i].octets
  BY <1>1, OctetsJoined
<1>6. /\ m # 0 /\ 1 \in 1 .. m
      /\ \A i \in 1 .. m : host.addr_list[i] \in Address /\ host.addr_list[i].family = family
      /\ family \in {AF_INET, AF_INET6}
  <2>1. m # 0
    BY <1>1, EmptySeq
  <2>2. 1 \in 1 .. m
    BY <1>5, <2>1
  <2>3. \A i \in 1 .. m : host.addr_list[i] \in Address
    BY <1>1
  <2>4. \A i \in 1 .. m : host.addr_list[i].family = family
    BY <1>1, <2>2, Zenon
  <2>5. family \in {AF_INET, AF_INET6}
    BY <2>2, <2>3, AddressProperties
  <2> QED  BY <2>1, <2>2, <2>3, <2>4, <2>5
<1>7. alens = [i \in 1 .. m |-> len]
  BY <1>6 DEF AddrLens
<1>8. /\ b \in Seq(Cell) /\ Len(b) = n
      /\ \A i \in 1 .. n : b[i].width = 4 /\ b[i].value = sizes[i]
  <2>1. sizes \in Seq(Int) /\ Len(sizes) = n
    BY <1>4
  <2> HIDE DEF sizes
  <2> QED  BY <2>1, IntsProperties
<1>9. Joined(b, <<b>>)
  BY <1>8, JoinedOne
<1>10. /\ hdr \in Seq(Int) /\ Len(hdr) = 8 /\ hdr[2] = 1 /\ hdr[3] = size /\ hdr[4] = n
       /\ hdr[5] = family /\ hdr[6] = len /\ hdr[7] = m /\ hdr[8] = host.herrno
  <2>1. family \in Int /\ len \in Int
    BY <1>6 DEF AF_INET, AF_INET6
  <2> HIDE DEF family, len, n, m, size
  <2> QED  BY <1>1, <1>2, <1>4, <1>5, <2>1 DEF VERSION
<1>11. serialize_hostent(host) = Reply(cells)
  <2> DEFINE inet == HasFamily(host.addr_list, AF_INET)
             inet6 == HasFamily(host.addr_list, AF_INET6)
  <2>1. inet <=> family = AF_INET
    BY <1>6 DEF HasFamily
  <2>2. inet6 <=> family = AF_INET6
    BY <1>6 DEF HasFamily
  <2>3. ~(inet /\ inet6)
    BY <2>1, <2>2 DEF AF_INET, AF_INET6
  <2>4. (IF inet THEN AF_INET ELSE AF_INET6) = family
    BY <1>6, <2>1
  <2>5. (IF inet THEN 4 ELSE 16) = len
    BY <2>1
  <2>6. LensWithNul(host.aliases) = b
    BY <1>4
  <2> HIDE DEF b, family, len, inet, inet6
  <2> QED  BY <2>3, <2>4, <2>5, <2>6, Zenon
           DEF serialize_hostent, HstResponseHeader, inet, inet6
<1>12. /\ ab \in Seq(Seq(Cell)) /\ Len(ab) = 2 /\ ab[1] = a /\ ab[2] = b
       /\ ab = <<a>> \o <<b>>
  <2>1. a \in Seq(Cell) /\ b \in Seq(Cell)
    BY <1>2, <1>8
  <2> DEFINE T == Seq(Cell)
  <2> HIDE DEF a, b, T
  <2>2. a \in T /\ b \in T
    BY <2>1 DEF T
  <2>3. <<a>> \o <<b>> = <<a, b>>
    BY <2>2, TupleConcat
  <2>4. ab \in Seq(Seq(Cell)) /\ Len(ab) = 2 /\ ab[1] = a /\ ab[2] = b
    BY <2>1
  <2> QED  BY <2>3, <2>4, Zenon
<1>13. two \in Seq(Nat) /\ Len(two) = 2 /\ two[1] = Len(a) /\ two[2] = Len(b)
  BY <1>2, <1>4, <1>8
<1> HIDE DEF n, m, family, len, size, sizes, hdr, a, b, octets, strs, ab, os, ss, alens
<1>14. Laid(cells, hdr, ps)
  <2>1. Laid(Ints(hdr) \o a, hdr, <<a>>)
    BY <1>3, <1>10, LaidFirst
  <2>2. Laid(Ints(hdr) \o a \o b, hdr, ab)
    BY <1>9, <1>12, <2>1, LaidMore, Zenon
  <2>3. Laid(Ints(hdr) \o a \o b \o octets, hdr, abos)
    BY <1>5, <2>2, LaidMore, Zenon
  <2> QED  BY <1>4, <2>3, LaidMore, Zenon
<1>15. Measured(lens, ps)
  <2>1. Measured(two, ab)
    <3> HIDE DEF two
    <3> QED  BY <1>12, <1>13 DEF Measured
  <2>2. Measured(alens, os)
    BY <1>5 DEF Measured
  <2>3. Measured(sizes, ss)
    BY <1>4 DEF Measured
  <2>4. Measured(twoalens, abos)
    BY <2>1, <2>2, MeasuredConcat, Zenon
  <2> QED  BY <2>3, <2>4, MeasuredConcat, Zenon
<1> HIDE DEF cells, two, lens
<1>16. /\ ps \in Seq(Seq(Cell)) /\ Len(ps) = 2 + m + n
       /\ ps[1] = a /\ ps[2] = b
       /\ \A i \in 1 .. m : ps[2 + i] = os[i]
       /\ \A i \in 1 .. n : ps[2 + m + i] = ss[i]
  <2>1. ab \in Seq(Seq(Cell)) /\ os \in Seq(Seq(Cell))
    BY <1>5, <1>12
  <2>2. /\ abos \in Seq(Seq(Cell)) /\ Len(abos) = Len(ab) + Len(os)
        /\ \A i \in 1 .. Len(ab) : abos[i] = ab[i]
        /\ \A i \in 1 .. Len(os) : abos[Len(ab) + i] = os[i]
    BY ONLY <2>1, ConcatElements
  <2>3. ss \in Seq(Seq(Cell))
    BY <1>4
  <2> HIDE DEF abos
  <2>4. abos \in Seq(Seq(Cell))
    BY <2>2
  <2>5. /\ ps \in Seq(Seq(Cell)) /\ Len(ps) = Len(abos) + Len(ss)
        /\ \A i \in 1 .. Len(abos) : ps[i] = abos[i]
        /\ \A i \in 1 .. Len(ss) : ps[Len(abos) + i] = ss[i]
    BY <2>3, <2>4, ConcatElements
  <2> HIDE DEF ps
  <2>6. /\ Len(abos) = 2 + m /\ abos[1] = a /\ abos[2] = b
        /\ \A i \in 1 .. m : abos[2 + i] = os[i]
    <3>1. Len(ab) = 2 /\ Len(os) = m /\ 1 \in 1 .. 2 /\ 2 \in 1 .. 2
      BY <1>5, <1>12
    <3>2. Len(abos) = 2 + m /\ \A i \in 1 .. m : abos[2 + i] = os[i]
      BY <2>2, <3>1, Zenon
    <3>3. abos[1] = ab[1] /\ abos[2] = ab[2]
      BY <2>2, <3>1
    <3> QED  BY <1>12, <3>2, <3>3, Zenon
  <2>7. Len(ps) = 2 + m + n /\ \A i \in 1 .. n : ps[2 + m + i] = ss[i]
    BY <1>4, <1>5, <2>5, <2>6
  <2>8. 1 \in 1 .. 2 + m /\ 2 \in 1 .. 2 + m /\ \A i \in 1 .. m : 2 + i \in 1 .. 2 + m
    BY <1>5
  <2>9. \A i \in 1 .. 2 + m : ps[i] = abos[i]
    BY <2>5, <2>6
  <2> QED  BY <2>5, <2>6, <2>7, <2>8, <2>9
<1> HIDE DEF abos, ps
<1>17. Yields(cells, hdr, lens, ps)
  BY <1>14, <1>15, LaidIsCut, Zenon DEF Measured
<1> DEFINE h == Values(cells)
           body == From(cells, 9)
           cut == Cut(body, lens)
<1>18. /\ cells # <<>>
       /\ \A i \in 1 .. 8 : cells[i].value = hdr[i] /\ h[i] = hdr[i]
       /\ \A i \in 1 .. Len(body) : h[8 + i] = body[i].value
       /\ h \in Seq(Int) /\ Len(h) = 8 + Len(body)
       /\ Joined(body, ps)
       /\ Fits(body, lens)
       /\ \A p \in 1 .. Len(ps) : cut[p] = Values(ps[p])
  BY <1>10, <1>17 DEF Yields
<1> HIDE DEF h, body, cut
<1>19. cells[2].value = 1 /\ h[3] = size /\ h[4] = n /\ h[5] = family /\ h[6] = len
       /\ h[7] = m /\ h[8] = host.herrno
  <2>1. /\ 2 \in 1 .. 8 /\ 3 \in 1 .. 8 /\ 4 \in 1 .. 8 /\ 5 \in 1 .. 8
        /\ 6 \in 1 .. 8 /\ 7 \in 1 .. 8 /\ 8 \in 1 .. 8
    OBVIOUS
  <2>2. /\ cells[2].value = hdr[2] /\ h[3] = hdr[3] /\ h[4] = hdr[4]
        /\ h[5] = hdr[5] /\ h[6] = hdr[6] /\ h[7] = hdr[7] /\ h[8] = hdr[8]
    BY <1>18, <2>1, Zenon
  <2> QED  BY <1>10, <2>2, Zenon
<1>20. /\ size + n <= Len(body) /\ Len(body) \in Nat
       /\ \A i \in 1 .. n : body[size + i].value = sizes[i]
  <2> DEFINE off == Offset(Lens(ps))
  <2>1. off[1] = 0 /\ off[1 + 1] = off[1] + Len(ps[1])
    <3>1. 1 \in 1 .. Len(ps)
      BY <1>4, <1>5, <1>16
    <3> QED  BY <1>16, <3>1, PieceProperties
  <2>2. 2 \in 1 .. Len(ps)
    BY <1>4, <1>5, <1>16
  <2>3. Holds(body, off[2], ps[2])
    <3>1. Joined(body, ps)
      BY <1>18
    <3> QED  BY <2>2, <3>1, JoinedPiece, Zenon
  <2> HIDE DEF off
  <2>4. off[2] = size
    BY <1>2, <1>16, <2>1
  <2>5. Len(body) \in Nat
    BY <1>18 DEF Joined
  <2> QED  BY <1>8, <1>16, <2>3, <2>4, <2>5 DEF Holds
<1>21. SubSeq(h, 9 + h[3], 8 + h[3] + h[4]) = sizes
  <2>1. ASSUME NEW i \in 1 .. n PROVE h[(8 + size) + i] = sizes[i]
    <3>1. size + i \in 1 .. Len(body) /\ (8 + size) + i = 8 + (size + i)
      BY <1>2, <1>4, <1>20
    <3> QED  BY <1>18, <1>20, <3>1
  <2>2. /\ 8 + size \in Nat /\ sizes \in Seq(Int) /\ (8 + size) + Len(sizes) <= Len(h)
        /\ \A i \in 1 .. Len(sizes) : h[(8 + size) + i] = sizes[i]
    <3>1. Len(sizes) = n /\ sizes \in Seq(Int) /\ n \in Nat /\ size \in Nat
      BY <1>2, <1>4
    <3>2. Len(h) = 8 + Len(body)
      BY <1>18
    <3>3. size + n <= Len(body) /\ Len(body) \in Nat
      BY <1>20
    <3> QED  BY <2>1, <3>1, <3>2, <3>3
  <2>3. SubSeq(h, (8 + size) + 1, (8 + size) + Len(sizes)) = sizes
    BY <1>18, <2>2, WordsAre
  <2>4. (8 + size) + 1 = 9 + h[3] /\ (8 + size) + Len(sizes) = 8 + h[3] + h[4]
    BY <1>2, <1>4, <1>19
  <2> QED  BY <2>3, <2>4
<1>22. lens = <<h[3], h[4]>> \o [i \in 1 .. h[7] |-> h[6]]
               \o SubSeq(h, 9 + h[3], 8 + h[3] + h[4])
  BY <1>7, <1>19, <1>21, Zenon DEF lens, two
<1>23. Front(cut[1]) = host.name
  <2>1. 1 \in 1 .. Len(ps)
    BY <1>4, <1>5, <1>16
  <2> QED  BY <1>2, <1>16, <1>18, <2>1
<1>24. [i \in 1 .. m |-> [family |-> family, octets |-> cut[2 + i]]] = host.addr_list
  <2>1. \A i \in 1 .. m : 2 + i \in 1 .. Len(ps)
    BY <1>4, <1>5, <1>16
  <2>2. ASSUME NEW i \in 1 .. m PROVE cut[2 + i] = host.addr_list[i].octets
    <3>1. cut[2 + i] = Values(ps[2 + i]) /\ ps[2 + i] = os[i]
      BY <1>16, <1>18, <2>1, Zenon
    <3>2. Values(os[i]) = host.addr_list[i].octets
      BY <1>5, Zenon
    <3> QED  BY <3>1, <3>2, Zenon
  <2>3. \A i \in 1 .. m : [family |-> family, octets |-> cut[2 + i]] = host.addr_list[i]
    BY <1>6, <2>2, AddressProperties
  <2>4. host.addr_list = [i \in 1 .. m |-> host.addr_list[i]]
    BY <1>1 DEF m
  <2> QED  BY <2>3, <2>4
<1>25. [i \in 1 .. n |-> Front(cut[2 + m + i])] = host.aliases
  <2>1. \A i \in 1 .. n : 2 + m + i \in 1 .. Len(ps)
    BY <1>4, <1>5, <1>16
  <2>2. ASSUME NEW i \in 1 .. n PROVE Front(cut[2 + m + i]) = host.aliases[i]
    <3>1. cut[2 + m + i] = Values(ps[2 + m + i]) /\ ps[2 + m + i] = ss[i]
      BY <1>16, <1>18, <2>1, Zenon
    <3>2. Front(Values(ss[i])) = host.aliases[i]
      BY <1>4, Zenon
    <3> QED  BY <3>1, <3>2, Zenon
  <2>3. host.aliases = [i \in 1 .. n |-> host.aliases[i]]
    BY <1>1 DEF n
  <2> QED  BY <2>2, <2>3
<1>26. DecodeHostent(cells) = [is |-> "ok", of |-> host]
  BY <1>1, <1>18, <1>19, <1>22, <1>23, <1>24, <1>25, Zenon
  DEF DecodeHostent, Found, h, body, cut
<1>27. cells # <<>>
  BY <1>18, Zenon
<1> HIDE DEF cells
<1>28. serialize_hostent(host).is = "reply" /\ serialize_hostent(host).cells = cells
  BY <1>11, ReplyCells, Zenon
<1> QED  BY <1>26, <1>27, <1>28, Zenon

\* A getaddrinfo reply: the families that say how long each address is come
\* behind the addresses.
LEMMA AiDecodes ==
  ASSUME NEW resp \in [canon_name : CString, addrs : Seq(Address)], resp.addrs # <<>>
  PROVE  /\ serialize_address_info(resp).is = "reply"
         /\ serialize_address_info(resp).cells # <<>>
         /\ DecodeAi(serialize_address_info(resp).cells) = Some(resp)
<1> DEFINE m == Len(resp.addrs)
           families == [i \in 1 .. m |-> resp.addrs[i].family]
           size == LenWithNul(resp.canon_name)
           octets == Octets(resp.addrs)
           n == Len(octets)
           hdr == <<VERSION, 1, m, n, size, 0>>
           f == Bytes(families)
           c == CStr(resp.canon_name)
           os == OctetsOf(resp.addrs)
           fc == <<f, c>>
           ps == os \o fc
           cells == Ints(hdr) \o octets \o f \o c
           alens == AddrLens(resp.addrs)
           two == <<m, size>>
           lens == alens \o two
<1>1. /\ resp.canon_name \in CString /\ resp.addrs \in Seq(Address)
      /\ resp = [canon_name |-> resp.canon_name, addrs |-> resp.addrs]
  OBVIOUS
<1>2. /\ c \in Seq(Cell) /\ Len(c) = size /\ size \in Nat
      /\ Front(Values(c)) = resp.canon_name
  BY <1>1, CStrProperties
<1>3. Joined(c, <<c>>)
  BY <1>1, StringJoined
<1>4. /\ m \in Nat
      /\ alens \in Seq(Nat) /\ Len(alens) = m
      /\ os \in Seq(Seq(Cell)) /\ Len(os) = m
      /\ Joined(octets, os)
      /\ \A i \in 1 .. m : /\ Len(os[i]) = alens[i]
                           /\ Values(os[i]) = resp.addrs[i].octets
  BY <1>1, OctetsJoined
<1>5. m # 0 /\ 1 \in 1 .. m /\ \A i \in 1 .. m : resp.addrs[i] \in Address
  <2>1. m # 0
    BY <1>1, EmptySeq
  <2> QED  BY <1>1, <1>4, <2>1
<1>6. families \in Seq(Int) /\ Len(families) = m
  <2>1. \A i \in 1 .. m : resp.addrs[i].family \in Int
    BY <1>5, AddressProperties DEF AF_INET, AF_INET6
  <2> QED  BY <1>4, <2>1
<1>7. alens = [i \in 1 .. m |-> IF families[i] = AF_INET THEN 4 ELSE 16]
  BY DEF AddrLens
<1>8. alens[1] \in Nat \ {0}
  BY <1>5 DEF AddrLens
<1>9. /\ f \in Seq(Cell) /\ Len(f) = m
      /\ \A i \in 1 .. m : f[i].width = 1 /\ f[i].value = families[i]
  <2> HIDE DEF families
  <2> QED  BY <1>6, BytesProperties
<1>10. Joined(f, <<f>>)
  BY <1>9, JoinedOne
<1>11. octets \in Seq(Cell) /\ n \in Nat /\ n > 0
  <2>1. octets \in Seq(Cell) /\ n \in Nat
    BY <1>4 DEF Joined
  <2> HIDE DEF octets, os, m, n, alens
  <2>2. 1 \in 1 .. Len(os)
    BY <1>4, <1>5
  <2>3. Joined(octets, os)
    BY <1>4
  <2>4. Holds(octets, Offset(Lens(os))[1], os[1])
    BY <2>2, <2>3, JoinedPiece, Zenon
  <2>5. Len(os[1]) = alens[1]
    BY <1>4, <1>5
  <2>6. Len(octets) \in Nat /\ Offset(Lens(os))[1] \in Nat
        /\ Offset(Lens(os))[1] + Len(os[1]) <= Len(octets)
    BY <2>1, <2>4 DEF Holds, n
  <2> QED  BY <1>8, <2>1, <2>5, <2>6 DEF n
<1>12. /\ hdr \in Seq(Int) /\ Len(hdr) = 6 /\ hdr[2] = 1 /\ hdr[3] = m /\ hdr[4] = n
       /\ hdr[5] = size
  <2> HIDE DEF m, n, size
  <2> QED  BY <1>2, <1>4, <1>11 DEF VERSION
<1>13. serialize_address_info(resp) = Reply(cells)
  <2>1. Len(octets) > 0
    BY <1>11
  <2> QED  BY <2>1, Zenon DEF serialize_address_info, AiResponseHeader
<1>14. /\ fc \in Seq(Seq(Cell)) /\ Len(fc) = 2 /\ fc[1] = f /\ fc[2] = c
       /\ fc = <<f>> \o <<c>>
  <2>1. f \in Seq(Cell) /\ c \in Seq(Cell)
    BY <1>2, <1>9
  <2> DEFINE T == Seq(Cell)
  <2> HIDE DEF f, c, T
  <2>2. f \in T /\ c \in T
    BY <2>1 DEF T
  <2>3. <<f>> \o <<c>> = <<f, c>>
    BY <2>2, TupleConcat
  <2>4. fc \in Seq(Seq(Cell)) /\ Len(fc) = 2 /\ fc[1] = f /\ fc[2] = c
    BY <2>1
  <2> QED  BY <2>3, <2>4, Zenon
<1>15. two \in Seq(Nat) /\ Len(two) = 2 /\ two[1] = Len(f) /\ two[2] = Len(c)
  BY <1>2, <1>4, <1>9
<1> HIDE DEF m, families, size, octets, n, hdr, f, c, os, fc, alens
<1>16. Laid(cells, hdr, ps)
  <2> DEFINE fs == <<f>>
             cs == <<c>>
             T == Seq(Cell)
  <2>0. os \in Seq(T) /\ fs \in Seq(T) /\ cs \in Seq(T)
    BY <1>2, <1>4, <1>9
  <2> HIDE DEF fs, cs, T
  <2>1. (os \o fs) \o cs = os \o (fs \o cs)
    BY ONLY <2>0, ConcatAssociative
  <2>2. (os \o fs) \o cs = ps
    BY <1>14, <2>1, Zenon DEF fs, cs
  <2>3. Laid(Ints(hdr) \o octets, hdr, os)
    BY <1>4, <1>12, LaidFirst, Zenon
  <2>4. Laid(Ints(hdr) \o octets \o f, hdr, os \o fs)
    BY <1>10, <2>3, LaidMore, Zenon DEF fs
  <2>5. Laid(Ints(hdr) \o octets \o f \o c, hdr, (os \o fs) \o cs)
    BY <1>3, <2>4, LaidMore, Zenon DEF cs
  <2> QED  BY <2>2, <2>5, Zenon
<1>17. Measured(lens, ps)
  <2>1. Measured(two, fc)
    <3> HIDE DEF two
    <3> QED  BY <1>14, <1>15 DEF Measured
  <2>2. Measured(alens, os)
    BY <1>4 DEF Measured
  <2> QED  BY <2>1, <2>2, MeasuredConcat, Zenon
<1> HIDE DEF cells, two, lens
<1>18. /\ ps \in Seq(Seq(Cell)) /\ Len(ps) = m + 2
       /\ \A i \in 1 .. m : ps[i] = os[i]
       /\ ps[m + 1] = f /\ ps[m + 2] = c
  <2>1. os \in Seq(Seq(Cell)) /\ fc \in Seq(Seq(Cell))
    BY <1>4, <1>14
  <2>2. /\ ps \in Seq(Seq(Cell)) /\ Len(ps) = Len(os) + Len(fc)
        /\ \A i \in 1 .. Len(os) : ps[i] = os[i]
        /\ \A i \in 1 .. Len(fc) : ps[Len(os) + i] = fc[i]
    BY ONLY <2>1, ConcatElements
  <2> HIDE DEF ps
  <2>3. Len(os) = m /\ Len(fc) = 2 /\ 1 \in 1 .. 2 /\ 2 \in 1 .. 2
    BY <1>4, <1>14
  <2>4. ps[m + 1] = fc[1] /\ ps[m + 2] = fc[2]
    BY <2>2, <2>3
  <2> QED  BY <1>14, <2>2, <2>3, <2>4
<1>19. Offset(Lens(ps))[m + 1] = n
  <2>0. os \in Seq(Seq(Cell)) /\ fc \in Seq(Seq(Cell))
    BY <1>4, <1>14
  <2>1. m \in 0 .. Len(os) /\ Len(os) = m
    BY <1>4
  <2>2. Offset(Lens(ps))[m + 1] = Offset(Lens(os))[m + 1]
    BY <2>0, <2>1, OffsetsOfConcat
  <2>3. Len(octets) = Offset(Lens(os))[Len(os) + 1]
    BY <1>4, Zenon DEF Joined, Tiled
  <2> QED  BY <2>1, <2>2, <2>3 DEF n
<1> HIDE DEF ps
<1>20. Yields(cells, hdr, lens, ps)
  BY <1>16, <1>17, LaidIsCut, Zenon DEF Measured
<1> DEFINE h == Values(cells)
           body == From(cells, 7)
           cut == Cut(body, lens)
<1>21. /\ cells # <<>>
       /\ \A i \in 1 .. 6 : cells[i].value = hdr[i] /\ h[i] = hdr[i]
       /\ \A i \in 1 .. Len(body) : h[6 + i] = body[i].value
       /\ h \in Seq(Int) /\ Len(h) = 6 + Len(body)
       /\ Joined(body, ps)
       /\ Fits(body, lens)
       /\ \A p \in 1 .. Len(ps) : cut[p] = Values(ps[p])
  BY <1>12, <1>20 DEF Yields
<1> HIDE DEF h, body, cut
<1>22. cells[2].value = 1 /\ h[3] = m /\ h[4] = n /\ h[5] = size
  BY <1>12, <1>21
<1>23. /\ n + m <= Len(body) /\ Len(body) \in Nat
       /\ \A i \in 1 .. m : body[n + i].value = families[i]
  <2>1. m + 1 \in 1 .. Len(ps)
    BY <1>4, <1>18
  <2>2. Joined(body, ps)
    BY <1>21
  <2>3. Holds(body, Offset(Lens(ps))[m + 1], ps[m + 1])
    BY <2>1, <2>2, JoinedPiece, Zenon
  <2>4. Holds(body, n, f)
    BY <1>18, <1>19, <2>3, Zenon
  <2>5. Len(body) \in Nat
    BY <2>2 DEF Joined
  <2> QED  BY <1>9, <2>4, <2>5 DEF Holds
<1>24. SubSeq(h, 7 + h[4], 6 + h[4] + h[3]) = families
  <2>1. ASSUME NEW i \in 1 .. m PROVE h[(6 + n) + i] = families[i]
    <3>1. n + i \in 1 .. Len(body) /\ (6 + n) + i = 6 + (n + i)
      BY <1>4, <1>11, <1>23
    <3> QED  BY <1>21, <1>23, <3>1
  <2>2. /\ 6 + n \in Nat /\ (6 + n) + Len(families) <= Len(h)
        /\ \A i \in 1 .. Len(families) : h[(6 + n) + i] = families[i]
    <3>1. Len(families) = m /\ m \in Nat /\ n \in Nat
      BY <1>4, <1>6, <1>11
    <3>2. Len(h) = 6 + Len(body)
      BY <1>21
    <3>3. n + m <= Len(body) /\ Len(body) \in Nat
      BY <1>23
    <3> QED  BY <2>1, <3>1, <3>2, <3>3
  <2>3. SubSeq(h, (6 + n) + 1, (6 + n) + Len(families)) = families
    BY <1>6, <1>21, <2>2, WordsAre
  <2>4. (6 + n) + 1 = 7 + h[4] /\ (6 + n) + Len(families) = 6 + h[4] + h[3]
    BY <1>4, <1>6, <1>11, <1>22
  <2> QED  BY <2>3, <2>4
<1>25. lens = [i \in 1 .. h[3] |-> IF families[i] = AF_INET THEN 4 ELSE 16]
               \o <<h[3], h[5]>>
  BY <1>7, <1>22, Zenon DEF lens, two
<1>26. Front(cut[h[3] + 2]) = resp.canon_name
  <2>1. m + 2 \in 1 .. Len(ps)
    BY <1>4, <1>18
  <2> QED  BY <1>2, <1>18, <1>21, <1>22, <2>1
<1>27. [i \in 1 .. h[3] |-> [family |-> families[i], octets |-> cut[i]]] = resp.addrs
  <2>1. \A i \in 1 .. m : i \in 1 .. Len(ps)
    BY <1>4, <1>18
  <2>2. \A i \in 1 .. m : cut[i] = resp.addrs[i].octets
    BY <1>4, <1>18, <1>21, <2>1
  <2>3. \A i \in 1 .. m : families[i] = resp.addrs[i].family
    BY DEF families
  <2>4. \A i \in 1 .. m : [family |-> families[i], octets |-> cut[i]] = resp.addrs[i]
    BY <1>5, <2>2, <2>3, AddressProperties
  <2>5. resp.addrs = [i \in 1 .. m |-> resp.addrs[i]]
    BY <1>1 DEF m
  <2> QED  BY <1>22, <2>4, <2>5
<1>28. DecodeAi(cells) = Some(resp)
  BY <1>1, <1>21, <1>22, <1>24, <1>25, <1>26, <1>27, Zenon
  DEF DecodeAi, Found, h, body, cut
<1>29. cells # <<>>
  BY <1>21, Zenon
<1> HIDE DEF cells
<1>30. /\ serialize_address_info(resp).is = "reply"
       /\ serialize_address_info(resp).cells = cells
  BY <1>13, ReplyCells, Zenon
<1> QED  BY <1>28, <1>29, <1>30, Zenon

-----------------------------------------------------------------------------
(* The replies to what a lookup may return. *)

\* A header without anything behind it.
LEMMA HeaderOnly ==
  ASSUME NEW hdr \in Seq(Int), Len(hdr) # 0
  PROVE  /\ Ints(hdr) # <<>>
         /\ \A i \in 1 .. Len(hdr) : Ints(hdr)[i].value = hdr[i] /\ Values(Ints(hdr))[i] = hdr[i]
<1>1. /\ Len(Ints(hdr)) = Len(hdr) /\ Values(Ints(hdr)) = hdr
      /\ \A i \in 1 .. Len(hdr) : Ints(hdr)[i].value = hdr[i]
  BY IntsProperties
<1>2. Ints(hdr) # <<>>
  BY <1>1
<1> QED  BY <1>1, <1>2

\* A user, or none.
LEMMA UserReply ==
  ASSUME NEW answer \in UserResult, answer.is # "err"
  PROVE  LET r == serialize_user(answer)
         IN  r.is = "reply" /\ r.cells # <<>> /\ DecodeUser(r.cells) = answer
<1>1. CASE answer \in [is : {"none"}]
  <2> DEFINE hdr == <<0, 0, 0, 0, 0, 0, 0, 0, 0>>
  <2>1. answer.is = "none" /\ answer = Absent
    BY <1>1 DEF Absent
  <2>2. serialize_user(answer) = Reply(Ints(hdr))
    BY <2>1, Zenon DEF serialize_user, PwResponseHeader
  <2>3. hdr \in Seq(Int) /\ Len(hdr) = 9 /\ hdr[2] = 0
    OBVIOUS
  <2> HIDE DEF hdr
  <2>4. Ints(hdr) # <<>> /\ Ints(hdr)[2].value = 0
    BY <2>3, HeaderOnly
  <2>5. DecodeUser(Ints(hdr)) = answer
    BY <2>1, <2>4 DEF DecodeUser, Found
  <2> QED  BY <2>2, <2>4, <2>5, ReplyCells, Zenon
<1>2. CASE answer \in [is : {"some"}, of : User]
  <2>1. answer.of \in User /\ answer = Some(answer.of)
    BY <1>2 DEF Some
  <2> DEFINE u == answer.of
  <2>2. u \in User /\ answer = Some(u)
    BY <2>1
  <2> HIDE DEF u
  <2> QED  BY <2>2, UserDecodes, Zenon
<1> QED  BY <1>1, <1>2 DEF UserResult, Option

\* A group, or none.
LEMMA GroupReply ==
  ASSUME NEW answer \in GroupResult, answer.is # "err"
  PROVE  LET r == serialize_group(answer)
         IN  r.is = "reply" /\ r.cells # <<>> /\ DecodeGroup(r.cells) = answer
<1>1. CASE answer \in [is : {"none"}]
  <2> DEFINE hdr == <<0, 0, 0, 0, 0, 0>>
  <2>1. answer.is = "none" /\ answer = Absent
    BY <1>1 DEF Absent
  <2>2. serialize_group(answer) = Reply(Ints(hdr))
    BY <2>1, Zenon DEF serialize_group, GrResponseHeader
  <2>3. hdr \in Seq(Int) /\ Len(hdr) = 6 /\ hdr[2] = 0
    OBVIOUS
  <2> HIDE DEF hdr
  <2>4. Ints(hdr) # <<>> /\ Ints(hdr)[2].value = 0
    BY <2>3, HeaderOnly
  <2>5. DecodeGroup(Ints(hdr)) = answer
    BY <2>1, <2>4 DEF DecodeGroup, Found
  <2> QED  BY <2>2, <2>4, <2>5, ReplyCells, Zenon
<1>2. CASE answer \in [is : {"some"}, of : Group]
  <2>1. answer.of \in Group /\ answer = Some(answer.of)
    BY <1>2 DEF Some
  <2> DEFINE g == answer.of
  <2>2. g \in Group /\ answer = Some(g)
    BY <2>1
  <2> HIDE DEF g
  <2> QED  BY <2>2, GroupDecodes, Zenon
<1> QED  BY <1>1, <1>2 DEF GroupResult, Option

\* A group list is refused or read for what it is.
LEMMA ListReply ==
  ASSUME NEW answer \in ListResult
  PROVE  LET r == serialize_initgroups(GroupsOf(answer))
         IN  \/ r = Err
             \/ /\ r.is = "reply" /\ r.cells # <<>>
                /\ DecodeInitgroups(r.cells) = Some(GroupsOf(answer))
<1>1. GroupsOf(answer) \in Seq(Nat)
  BY DEF GroupsOf, ListResult
<1> QED  BY <1>1, InitgroupsDecodes, Zenon

\* The entries that are no errors.
LEMMA OkEntriesType ==
  ASSUME NEW list \in Seq(AiEntry)
  PROVE  OkEntries(list) \in Seq(AiEntry)
<1> DEFINE ps == [i \in 1 .. Len(list) |->
                    IF list[i].is = "ok" THEN <<list[i]>> ELSE <<>>]
<1>1. \A i \in 1 .. Len(list) : list[i] \in AiEntry
  OBVIOUS
<1>2. \A i \in 1 .. Len(list) :
        (IF list[i].is = "ok" THEN <<list[i]>> ELSE <<>>) \in Seq(AiEntry)
  BY <1>1
<1>3. Len(list) \in Nat
  OBVIOUS
<1>4. ps \in Seq(Seq(AiEntry))
  BY <1>2, <1>3
<1>5. OkEntries(list) = FlattenSeq(ps)
  BY Zenon DEF OkEntries
<1> HIDE DEF ps
<1> QED  BY <1>4, <1>5, FlattenTiles

\* What the handler of getaddrinfo serializes.
LEMMA AiResponseType ==
  ASSUME NEW key, key.name \in CString, NEW answer \in AiResult
  PROVE  AiResponse(key, answer) \in [canon_name : CString, addrs : Seq(Address)]
<1> DEFINE entries == IF answer.is = "err" THEN <<>> ELSE OkEntries(answer.of)
<1>1. entries \in Seq(AiEntry)
  <2>1. CASE answer.is = "err"
    BY <2>1
  <2>2. CASE answer.is # "err"
    <3>1. answer.of \in Seq(AiEntry)
      BY <2>2 DEF AiResult
    <3> QED  BY <2>2, <3>1, OkEntriesType
  <2> QED  BY <2>1, <2>2
<1>2. AiResponse(key, answer) =
        [canon_name |-> IF entries # <<>> /\ entries[1].canon.is = "some"
                        THEN entries[1].canon.of ELSE key.name,
         addrs |-> [i \in 1 .. Len(entries) |-> entries[i].addr]]
  BY Zenon DEF AiResponse
<1> HIDE DEF entries
<1>3. Len(entries) \in Nat /\ \A i \in 1 .. Len(entries) : entries[i] \in AiEntry
  BY <1>1
<1>4. \A e \in AiEntry : /\ e.addr \in Address
                         /\ e.canon.is = "some" => e.canon.of \in CString
  BY DEF AiEntry, Option
<1>5. \A i \in 1 .. Len(entries) : entries[i].addr \in Address
  BY <1>3, <1>4, Zenon
<1>6. [i \in 1 .. Len(entries) |-> entries[i].addr] \in Seq(Address)
  BY <1>3, <1>5
<1>7. entries # <<>> => 1 \in 1 .. Len(entries)
  BY <1>1
<1>8. entries # <<>> /\ entries[1].canon.is = "some" => entries[1].canon.of \in CString
  BY <1>3, <1>4, <1>7
<1> QED  BY <1>2, <1>6, <1>8

\* Addresses, or none.
LEMMA AiReply ==
  ASSUME NEW key, key.name \in CString, NEW answer \in AiResult
  PROVE  LET resp == AiResponse(key, answer)
             r == serialize_address_info(resp)
         IN  /\ r.is = "reply" /\ r.cells # <<>>
             /\ DecodeAi(r.cells) = IF resp.addrs = <<>> THEN Absent ELSE Some(resp)
<1> DEFINE resp == AiResponse(key, answer)
<1>1. resp \in [canon_name : CString, addrs : Seq(Address)]
  BY AiResponseType
<1> HIDE DEF resp
<1>2. CASE resp.addrs = <<>>
  <2> DEFINE hdr == <<VERSION, 0, 0, 0, 0, 0>>
  <2>1. Len(Octets(resp.addrs)) = 0
    <3> DEFINE ps == [i \in 1 .. Len(resp.addrs) |-> Bytes(resp.addrs[i].octets)]
    <3>1. Len(ps) = 0
      BY <1>2
    <3>2. FlattenSeq(ps) = ps
      BY <3>1, Zenon DEF FlattenSeq
    <3> QED  BY <3>1, <3>2, Zenon DEF Octets
  <2>2. ~(Len(Octets(resp.addrs)) > 0)
    BY <2>1
  <2>3. serialize_address_info(resp) = Reply(Ints(hdr))
    BY <2>2, Zenon DEF serialize_address_info, AiResponseHeader
  <2>4. hdr \in Seq(Int) /\ Len(hdr) = 6 /\ hdr[2] = 0
    BY DEF VERSION
  <2> HIDE DEF hdr
  <2>5. Ints(hdr) # <<>> /\ Ints(hdr)[2].value = 0
    <3>1. hdr \in Seq(Int) /\ Len(hdr) # 0 /\ 2 \in 1 .. Len(hdr)
      BY ONLY <2>4
    <3>2. Ints(hdr)[2].value = hdr[2] /\ Ints(hdr) # <<>>
      BY ONLY <3>1, HeaderOnly
    <3> QED  BY <2>4, <3>2, Zenon
  <2>6. DecodeAi(Ints(hdr)) = Absent
    BY <2>5 DEF DecodeAi, Found
  <2>7. /\ serialize_address_info(resp).cells = Ints(hdr)
        /\ serialize_address_info(resp).is = "reply"
    BY <2>3, ReplyCells, Zenon
  <2> QED  BY ONLY <1>2, <2>5, <2>6, <2>7, Zenon DEF resp
<1>3. CASE resp.addrs # <<>>
  BY <1>1, <1>3, AiDecodes, Zenon DEF resp
<1> QED  BY <1>2, <1>3

\* A hostent without addresses carries its error number only.
LEMMA ErrorReply ==
  ASSUME NEW host, host.addr_list = <<>>, host.herrno \in Int
  PROVE  LET r == serialize_hostent(host)
         IN  /\ r.is = "reply" /\ r.cells # <<>>
             /\ DecodeHostent(r.cells) = [is |-> "herror", of |-> host.herrno]
<1> DEFINE hdr == <<VERSION, 0, 0, 0, -1, -1, 0, host.herrno>>
<1>1. ~HasFamily(host.addr_list, AF_INET)
  BY DEF HasFamily
<1>2. serialize_hostent(host) = Reply(Ints(hdr))
  BY <1>1, Zenon DEF serialize_hostent, HstResponseHeader
<1>3. hdr \in Seq(Int) /\ Len(hdr) = 8 /\ hdr[2] = 0 /\ hdr[8] = host.herrno
  BY DEF VERSION
<1> HIDE DEF hdr
<1>4. Ints(hdr) # <<>> /\ Ints(hdr)[2].value = 0 /\ Values(Ints(hdr))[8] = host.herrno
  <2>1. hdr \in Seq(Int) /\ Len(hdr) # 0 /\ 2 \in 1 .. Len(hdr) /\ 8 \in 1 .. Len(hdr)
    BY ONLY <1>3
  <2>2. Ints(hdr)[2].value = hdr[2] /\ Values(Ints(hdr))[8] = hdr[8] /\ Ints(hdr) # <<>>
    BY ONLY <2>1, HeaderOnly
  <2> QED  BY <1>3, <2>2, Zenon
<1>5. DecodeHostent(Ints(hdr)) = [is |-> "herror", of |-> host.herrno]
  BY <1>4 DEF DecodeHostent, Found
<1>6. serialize_hostent(host).cells = Ints(hdr) /\ serialize_hostent(host).is = "reply"
  BY <1>2, ReplyCells, Zenon
<1> QED  BY ONLY <1>4, <1>5, <1>6, Zenon

\* What a client learns from the result of a host lookup.
HostMeaning(answer) == IF answer.is = "ok" /\ answer.of.addr_list = <<>>
                       THEN [is |-> "herror", of |-> answer.of.herrno]
                       ELSE answer

\* A host lookup, found or not found.
LEMMA HostReplyDecodes ==
  ASSUME NEW answer \in HostResult, answer.is # "other"
  PROVE  LET r == HostReply(answer)
         IN  /\ r.is = "reply" /\ r.cells # <<>>
             /\ DecodeHostent(r.cells) = HostMeaning(answer)
<1>1. CASE answer \in [is : {"herror"}, of : Int]
  <2> DEFINE host == error_value(answer.of)
  <2>1. answer.is = "herror" /\ answer.of \in Int /\ answer = [is |-> "herror", of |-> answer.of]
    BY <1>1
  <2>2. host.addr_list = <<>> /\ host.herrno = answer.of
    BY DEF error_value
  <2>3. HostReply(answer) = serialize_hostent(host) /\ HostMeaning(answer) = answer
    BY <2>1 DEF HostReply, HostMeaning
  <2> HIDE DEF host
  <2> QED  BY <2>1, <2>2, <2>3, ErrorReply, Zenon
<1>2. CASE answer \in [is : {"ok"}, of : Host]
  <2> DEFINE host == answer.of
  <2>1. answer.is = "ok" /\ host \in Host /\ answer = [is |-> "ok", of |-> host]
    BY <1>2
  <2>2. HostReply(answer) = serialize_hostent(host)
    BY <2>1 DEF HostReply
  <2>3. host.herrno \in Int
    BY <2>1 DEF Host
  <2>4. CASE host.addr_list = <<>>
    <3>1. HostMeaning(answer) = [is |-> "herror", of |-> host.herrno]
      BY <2>1, <2>4, Zenon DEF HostMeaning
    <3> HIDE DEF host
    <3> QED  BY <2>2, <2>3, <2>4, <3>1, ErrorReply, Zenon
  <2>5. CASE host.addr_list # <<>>
    <3>1. HostMeaning(answer) = answer
      BY <2>5, Zenon DEF HostMeaning
    <3> HIDE DEF host
    <3> QED  BY <2>1, <2>2, <2>5, <3>1, HostentDecodes, Zenon
  <2> QED  BY <2>4, <2>5
<1> QED  BY <1>1, <1>2 DEF HostResult

-----------------------------------------------------------------------------
(* handle_request as a whole.                                              *)

Numbers ==
  /\ GETPWBYNAME = 0 /\ GETPWBYUID = 1 /\ GETGRBYNAME = 2 /\ GETGRBYGID = 3
  /\ GETHOSTBYNAME = 4 /\ GETHOSTBYNAMEv6 = 5 /\ GETHOSTBYADDR = 6
  /\ GETHOSTBYADDRv6 = 7 /\ GETAI = 14 /\ INITGROUPS = 15
  /\ Unanswered = {8, 9, 10, 11, 12, 13, 16, 17, 18, 19, 20, 21, 22}

\* The numbers of the request types, once.
LEMMA NumbersHold == Numbers
BY DEF Numbers, GETPWBYNAME, GETPWBYUID, GETGRBYNAME, GETGRBYGID, GETHOSTBYNAME,
   GETHOSTBYNAMEv6, GETHOSTBYADDR, GETHOSTBYADDRv6, GETAI, INITGROUPS, Unanswered,
   GetFd, Unimplemented, SHUTDOWN, GETSTAT, INVALIDATE, GETFDPW, GETFDGR, GETFDHST,
   GETSERVBYNAME, GETSERVBYPORT, GETFDSERV, GETNETGRENT, INNETGR, GETFDNETGR, LASTREQ

\* The arm that a request is answered by.
LEMMA Dispatch ==
  ASSUME NEW ignored, NEW ty, NEW key, NEW answer, ty \notin ignored, ty \notin Unanswered
  PROVE  LET r == handle_request(ignored, ty, key, answer)
         IN  /\ ty = GETPWBYUID => r = getpwbyuid(key, answer)
             /\ ty = GETPWBYNAME => r = getpwbyname(key, answer)
             /\ ty = GETGRBYGID => r = getgrbygid(key, answer)
             /\ ty = GETGRBYNAME => r = getgrbyname(key, answer)
             /\ ty = INITGROUPS => r = initgroups(key, answer)
             /\ ty = GETAI => r = getai(key, answer)
             /\ ty = GETHOSTBYADDR => r = gethostbyaddr(key, answer)
             /\ ty = GETHOSTBYADDRv6 => r = gethostbyaddrv6(key, answer)
             /\ ty = GETHOSTBYNAME => r = gethostbyname(key, answer)
             /\ ty = GETHOSTBYNAMEv6 => r = gethostbynamev6(key, answer)
<1>0. ~(should_ignore(ignored, ty) \/ ty \in Unanswered)
  BY DEF should_ignore
<1>1. ASSUME ty = GETPWBYUID PROVE handle_request(ignored, ty, key, answer) = getpwbyuid(key, answer)
  <2>1. ty # GETPWBYNAME /\ ty # GETGRBYGID /\ ty # GETGRBYNAME /\ ty # INITGROUPS /\ ty
        # GETAI /\ ty # GETHOSTBYADDR /\ ty # GETHOSTBYADDRv6 /\ ty # GETHOSTBYNAME /\
        ty # GETHOSTBYNAMEv6
    BY <1>1, NumbersHold DEF Numbers
  <2> QED  BY <1>0, <1>1, <2>1, Zenon DEF handle_request
<1>2. ASSUME ty = GETPWBYNAME PROVE handle_request(ignored, ty, key, answer) = getpwbyname(key, answer)
  <2>1. ty # GETPWBYUID /\ ty # GETGRBYGID /\ ty # GETGRBYNAME /\ ty # INITGROUPS /\ ty
        # GETAI /\ ty # GETHOSTBYADDR /\ ty # GETHOSTBYADDRv6 /\ ty # GETHOSTBYNAME /\
        ty # GETHOSTBYNAMEv6
    BY <1>2, NumbersHold DEF Numbers
  <2> QED  BY <1>0, <1>2, <2>1, Zenon DEF handle_request
<1>3. ASSUME ty = GETGRBYGID PROVE handle_request(ignored, ty, key, answer) = getgrbygid(key, answer)
  <2>1. ty # GETPWBYUID /\ ty # GETPWBYNAME /\ ty # GETGRBYNAME /\ ty # INITGROUPS /\ ty
        # GETAI /\ ty # GETHOSTBYADDR /\ ty # GETHOSTBYADDRv6 /\ ty # GETHOSTBYNAME /\
        ty # GETHOSTBYNAMEv6
    BY <1>3, NumbersHold DEF Numbers
  <2> QED  BY <1>0, <1>3, <2>1, Zenon DEF handle_request
<1>4. ASSUME ty = GETGRBYNAME PROVE handle_request(ignored, ty, key, answer) = getgrbyname(key, answer)
  <2>1. ty # GETPWBYUID /\ ty # GETPWBYNAME /\ ty # GETGRBYGID /\ ty # INITGROUPS /\ ty
        # GETAI /\ ty # GETHOSTBYADDR /\ ty # GETHOSTBYADDRv6 /\ ty # GETHOSTBYNAME /\
        ty # GETHOSTBYNAMEv6
    BY <1>4, NumbersHold DEF Numbers
  <2> QED  BY <1>0, <1>4, <2>1, Zenon DEF handle_request
<1>5. ASSUME ty = INITGROUPS PROVE handle_request(ignored, ty, key, answer) = initgroups(key, answer)
  <2>1. ty # GETPWBYUID /\ ty # GETPWBYNAME /\ ty # GETGRBYGID /\ ty # GETGRBYNAME /\ ty
        # GETAI /\ ty # GETHOSTBYADDR /\ ty # GETHOSTBYADDRv6 /\ ty # GETHOSTBYNAME /\
        ty # GETHOSTBYNAMEv6
    BY <1>5, NumbersHold DEF Numbers
  <2> QED  BY <1>0, <1>5, <2>1, Zenon DEF handle_request
<1>6. ASSUME ty = GETAI PROVE handle_request(ignored, ty, key, answer) = getai(key, answer)
  <2>1. ty # GETPWBYUID /\ ty # GETPWBYNAME /\ ty # GETGRBYGID /\ ty # GETGRBYNAME /\ ty
        # INITGROUPS /\ ty # GETHOSTBYADDR /\ ty # GETHOSTBYADDRv6 /\ ty # GETHOSTBYNAME
        /\ ty # GETHOSTBYNAMEv6
    BY <1>6, NumbersHold DEF Numbers
  <2> QED  BY <1>0, <1>6, <2>1, Zenon DEF handle_request
<1>7. ASSUME ty = GETHOSTBYADDR PROVE handle_request(ignored, ty, key, answer) = gethostbyaddr(key, answer)
  <2>1. ty # GETPWBYUID /\ ty # GETPWBYNAME /\ ty # GETGRBYGID /\ ty # GETGRBYNAME /\ ty
        # INITGROUPS /\ ty # GETAI /\ ty # GETHOSTBYADDRv6 /\ ty # GETHOSTBYNAME /\ ty #
        GETHOSTBYNAMEv6
    BY <1>7, NumbersHold DEF Numbers
  <2> QED  BY <1>0, <1>7, <2>1, Zenon DEF handle_request
<1>8. ASSUME ty = GETHOSTBYADDRv6 PROVE handle_request(ignored, ty, key, answer) = gethostbyaddrv6(key, answer)
  <2>1. ty # GETPWBYUID /\ ty # GETPWBYNAME /\ ty # GETGRBYGID /\ ty # GETGRBYNAME /\ ty
        # INITGROUPS /\ ty # GETAI /\ ty # GETHOSTBYADDR /\ ty # GETHOSTBYNAME /\ ty #
        GETHOSTBYNAMEv6
    BY <1>8, NumbersHold DEF Numbers
  <2> QED  BY <1>0, <1>8, <2>1, Zenon DEF handle_request
<1>9. ASSUME ty = GETHOSTBYNAME PROVE handle_request(ignored, ty, key, answer) = gethostbyname(key, answer)
  <2>1. ty # GETPWBYUID /\ ty # GETPWBYNAME /\ ty # GETGRBYGID /\ ty # GETGRBYNAME /\ ty
        # INITGROUPS /\ ty # GETAI /\ ty # GETHOSTBYADDR /\ ty # GETHOSTBYADDRv6 /\ ty #
        GETHOSTBYNAMEv6
    BY <1>9, NumbersHold DEF Numbers
  <2> QED  BY <1>0, <1>9, <2>1, Zenon DEF handle_request
<1>10. ASSUME ty = GETHOSTBYNAMEv6 PROVE handle_request(ignored, ty, key, answer) = gethostbynamev6(key, answer)
  <2>1. ty # GETPWBYUID /\ ty # GETPWBYNAME /\ ty # GETGRBYGID /\ ty # GETGRBYNAME /\ ty
        # INITGROUPS /\ ty # GETAI /\ ty # GETHOSTBYADDR /\ ty # GETHOSTBYADDRv6 /\ ty #
        GETHOSTBYNAME
    BY <1>10, NumbersHold DEF Numbers
  <2> QED  BY <1>0, <1>10, <2>1, Zenon DEF handle_request
<1> QED  BY <1>1, <1>2, <1>3, <1>4, <1>5, <1>6, <1>7, <1>8, <1>9, <1>10, Zenon

\* What a lookup of this type can come to.
ResultOf(ty) ==
  CASE ty \in {GETPWBYUID, GETPWBYNAME} -> UserResult
    [] ty \in {GETGRBYGID, GETGRBYNAME} -> GroupResult
    [] ty = INITGROUPS                  -> ListResult
    [] ty = GETAI                       -> AiResult
    [] OTHER                            -> HostResult

HostTypes == {GETHOSTBYADDR, GETHOSTBYADDRv6, GETHOSTBYNAME, GETHOSTBYNAMEv6}

\* The kinds of lookups, and the arm of each CASE on the type they take.
LEMMA Kinds ==
  ASSUME NEW ty, NEW key, NEW answer, NEW cells
  PROVE  /\ ty \in {GETPWBYUID, GETPWBYNAME} =>
              /\ ResultOf(ty) = UserResult
              /\ Decode(ty, cells) = DecodeUser(cells)
              /\ Meaning(ty, key, answer) = answer
         /\ ty \in {GETGRBYGID, GETGRBYNAME} =>
              /\ ResultOf(ty) = GroupResult
              /\ Decode(ty, cells) = DecodeGroup(cells)
              /\ Meaning(ty, key, answer) = answer
         /\ ty = INITGROUPS =>
              /\ ResultOf(ty) = ListResult
              /\ Decode(ty, cells) = DecodeInitgroups(cells)
              /\ Meaning(ty, key, answer) = Some(GroupsOf(answer))
         /\ ty = GETAI =>
              /\ ResultOf(ty) = AiResult
              /\ Decode(ty, cells) = DecodeAi(cells)
              /\ Meaning(ty, key, answer) =
                   LET resp == AiResponse(key, answer)
                   IN  IF resp.addrs = <<>> THEN Absent ELSE Some(resp)
         /\ ty \in HostTypes =>
              /\ ResultOf(ty) = HostResult
              /\ Decode(ty, cells) = DecodeHostent(cells)
              /\ Meaning(ty, key, answer) = HostMeaning(answer)
<1>1. ASSUME ty \in {GETPWBYUID, GETPWBYNAME}
      PROVE  /\ ResultOf(ty) = UserResult
             /\ Decode(ty, cells) = DecodeUser(cells)
             /\ Meaning(ty, key, answer) = answer
  <2>1. /\ ty \notin {GETGRBYGID, GETGRBYNAME} /\ ty # INITGROUPS /\ ty # GETAI
        /\ ty \in {GETPWBYUID, GETPWBYNAME, GETGRBYGID, GETGRBYNAME}
    BY <1>1, NumbersHold DEF Numbers
  <2> QED  BY <1>1, <2>1, Zenon DEF ResultOf, Decode, Meaning
<1>2. ASSUME ty \in {GETGRBYGID, GETGRBYNAME}
      PROVE  /\ ResultOf(ty) = GroupResult
             /\ Decode(ty, cells) = DecodeGroup(cells)
             /\ Meaning(ty, key, answer) = answer
  <2>1. /\ ty \notin {GETPWBYUID, GETPWBYNAME} /\ ty # INITGROUPS /\ ty # GETAI
        /\ ty \in {GETPWBYUID, GETPWBYNAME, GETGRBYGID, GETGRBYNAME}
    BY <1>2, NumbersHold DEF Numbers
  <2> QED  BY <1>2, <2>1, Zenon DEF ResultOf, Decode, Meaning
<1>3. ASSUME ty = INITGROUPS
      PROVE  /\ ResultOf(ty) = ListResult
             /\ Decode(ty, cells) = DecodeInitgroups(cells)
             /\ Meaning(ty, key, answer) = Some(GroupsOf(answer))
  <2>1. /\ ty \notin {GETPWBYUID, GETPWBYNAME} /\ ty \notin {GETGRBYGID, GETGRBYNAME}
        /\ ty # GETAI
        /\ ty \notin {GETPWBYUID, GETPWBYNAME, GETGRBYGID, GETGRBYNAME}
    BY <1>3, NumbersHold DEF Numbers
  <2> QED  BY <1>3, <2>1, Zenon DEF ResultOf, Decode, Meaning
<1>4. ASSUME ty = GETAI
      PROVE  /\ ResultOf(ty) = AiResult
             /\ Decode(ty, cells) = DecodeAi(cells)
             /\ Meaning(ty, key, answer) =
                  LET resp == AiResponse(key, answer)
                  IN  IF resp.addrs = <<>> THEN Absent ELSE Some(resp)
  <2>1. /\ ty \notin {GETPWBYUID, GETPWBYNAME} /\ ty \notin {GETGRBYGID, GETGRBYNAME}
        /\ ty # INITGROUPS
        /\ ty \notin {GETPWBYUID, GETPWBYNAME, GETGRBYGID, GETGRBYNAME}
    BY <1>4, NumbersHold DEF Numbers
  <2> QED  BY <1>4, <2>1, Zenon DEF ResultOf, Decode, Meaning
<1>5. ASSUME ty \in HostTypes
      PROVE  /\ ResultOf(ty) = HostResult
             /\ Decode(ty, cells) = DecodeHostent(cells)
             /\ Meaning(ty, key, answer) = HostMeaning(answer)
  <2>1. /\ ty \notin {GETPWBYUID, GETPWBYNAME} /\ ty \notin {GETGRBYGID, GETGRBYNAME}
        /\ ty # INITGROUPS /\ ty # GETAI
        /\ ty \notin {GETPWBYUID, GETPWBYNAME, GETGRBYGID, GETGRBYNAME}
    BY <1>5, NumbersHold DEF Numbers, HostTypes
  <2> QED  BY <2>1, Zenon DEF ResultOf, Decode, Meaning, HostMeaning
<1> QED  BY <1>1, <1>2, <1>3, <1>4, <1>5, Zenon

\* A type is ignored, or never answered, or one of the ten lookups.
LEMMA Types ==
  ASSUME NEW ty \in RequestType, ty \notin Unanswered
  PROVE  \/ ty \in {GETPWBYUID, GETPWBYNAME}
         \/ ty \in {GETGRBYGID, GETGRBYNAME}
         \/ ty = INITGROUPS
         \/ ty = GETAI
         \/ ty \in HostTypes
BY NumbersHold DEF Numbers, HostTypes, RequestType, LASTREQ

\* What a lookup comes to if its key is good; a bad key is refused.
LEMMA KeyDecides ==
  ASSUME NEW ignored, NEW ty \in RequestType, NEW key, NEW answer,
         ty \notin ignored, ty \notin Unanswered
  PROVE  LET r == handle_request(ignored, ty, key, answer)
             good == GoodKey(ty, key)
         IN  /\ ty \in {GETPWBYUID, GETPWBYNAME} =>
                  r = IF good /\ answer.is # "err" THEN serialize_user(answer) ELSE Err
             /\ ty \in {GETGRBYGID, GETGRBYNAME} =>
                  r = IF good /\ answer.is # "err" THEN serialize_group(answer) ELSE Err
             /\ ty = INITGROUPS =>
                  r = IF good /\ answer.user # "err"
                      THEN serialize_initgroups(GroupsOf(answer)) ELSE Err
             /\ ty = GETAI =>
                  r = IF good THEN serialize_address_info(AiResponse(key, answer))
                      ELSE Err
             /\ ty \in HostTypes => r = IF good THEN HostReply(answer) ELSE Err
<1>1. /\ ty \in {GETPWBYUID, GETGRBYGID} => GoodKey(ty, key) = IsNumber(key)
      /\ ty = GETHOSTBYADDR => GoodKey(ty, key) = (key.len = 4)
      /\ ty = GETHOSTBYADDRv6 => GoodKey(ty, key) = (key.len = 16)
      /\ ty \in {GETPWBYNAME, GETGRBYNAME, INITGROUPS, GETAI, GETHOSTBYNAME,
                GETHOSTBYNAMEv6} => GoodKey(ty, key) = IsStr(key)
  <2>1. ASSUME ty \in {GETPWBYUID, GETGRBYGID} PROVE GoodKey(ty, key) = IsNumber(key)
    <3>1. ty # GETHOSTBYADDR /\ ty # GETHOSTBYADDRv6
      BY <2>1, NumbersHold DEF Numbers
    <3> QED  BY <2>1, <3>1, Zenon DEF GoodKey
  <2>2. ASSUME ty = GETHOSTBYADDR PROVE GoodKey(ty, key) = (key.len = 4)
    <3>1. ty \notin {GETPWBYUID, GETGRBYGID} /\ ty # GETHOSTBYADDRv6
      BY <2>2, NumbersHold DEF Numbers
    <3> QED  BY <2>2, <3>1, Zenon DEF GoodKey
  <2>3. ASSUME ty = GETHOSTBYADDRv6 PROVE GoodKey(ty, key) = (key.len = 16)
    <3>1. ty \notin {GETPWBYUID, GETGRBYGID} /\ ty # GETHOSTBYADDR
      BY <2>3, NumbersHold DEF Numbers
    <3> QED  BY <2>3, <3>1, Zenon DEF GoodKey
  <2>4. ASSUME ty \in {GETPWBYNAME, GETGRBYNAME, INITGROUPS, GETAI, GETHOSTBYNAME,
                       GETHOSTBYNAMEv6}
        PROVE  GoodKey(ty, key) = IsStr(key)
    <3>1. ty \notin {GETPWBYUID, GETGRBYGID} /\ ty # GETHOSTBYADDR /\ ty # GETHOSTBYADDRv6
      BY <2>4, NumbersHold DEF Numbers
    <3> QED  BY <3>1, Zenon DEF GoodKey
  <2> QED  BY <2>1, <2>2, <2>3, <2>4
<1> DEFINE r == handle_request(ignored, ty, key, answer)
<1>2. /\ ty = GETPWBYUID => r = getpwbyuid(key, answer)
      /\ ty = GETPWBYNAME => r = getpwbyname(key, answer)
      /\ ty = GETGRBYGID => r = getgrbygid(key, answer)
      /\ ty = GETGRBYNAME => r = getgrbyname(key, answer)
      /\ ty = INITGROUPS => r = initgroups(key, answer)
      /\ ty = GETAI => r = getai(key, answer)
      /\ ty = GETHOSTBYADDR => r = gethostbyaddr(key, answer)
      /\ ty = GETHOSTBYADDRv6 => r = gethostbyaddrv6(key, answer)
      /\ ty = GETHOSTBYNAME => r = gethostbyname(key, answer)
      /\ ty = GETHOSTBYNAMEv6 => r = gethostbynamev6(key, answer)
  BY Dispatch
<1> HIDE DEF r
<1> DEFINE good == GoodKey(ty, key)
<1>3. ty \in {GETPWBYUID, GETPWBYNAME} =>
        r = IF good /\ answer.is # "err" THEN serialize_user(answer) ELSE Err
  BY <1>1, <1>2, Zenon DEF getpwbyuid, getpwbyname
<1>4. ty \in {GETGRBYGID, GETGRBYNAME} =>
        r = IF good /\ answer.is # "err" THEN serialize_group(answer) ELSE Err
  BY <1>1, <1>2, Zenon DEF getgrbygid, getgrbyname
<1>5. ty = INITGROUPS => r = IF good /\ answer.user # "err"
                             THEN serialize_initgroups(GroupsOf(answer)) ELSE Err
  BY <1>1, <1>2, Zenon DEF initgroups
<1>6. ty = GETAI => r = IF good THEN serialize_address_info(AiResponse(key, answer))
                        ELSE Err
  BY <1>1, <1>2, Zenon DEF getai
<1>7. ty \in HostTypes => r = IF good THEN HostReply(answer) ELSE Err
  BY <1>1, <1>2, Zenon DEF gethostbyaddr, gethostbyaddrv6, gethostbyname,
                          gethostbynamev6, HostTypes
<1> QED  BY <1>3, <1>4, <1>5, <1>6, <1>7 DEF r

(***************************************************************************)
(* Whatever handle_request replies with, unless the reply is empty, a      *)
(* client that cuts it by the lengths in its header finds exactly what the *)
(* name service answered: for strings, lists of members, aliases and       *)
(* addresses of any length, every field in its place, nothing left over.   *)
(***************************************************************************)
THEOREM RepliesDecode ==
  ASSUME NEW ignored, NEW ty \in RequestType, NEW key, key.name \in CString,
         NEW answer \in ResultOf(ty),
         handle_request(ignored, ty, key, answer).is = "reply",
         handle_request(ignored, ty, key, answer).cells # <<>>
  PROVE  Decode(ty, handle_request(ignored, ty, key, answer).cells)
           = Meaning(ty, key, answer)
<1> DEFINE r == handle_request(ignored, ty, key, answer)
<1>0. ty \notin ignored /\ ty \notin Unanswered
  <2> SUFFICES ASSUME ty \in ignored \/ ty \in Unanswered PROVE FALSE
    OBVIOUS
  <2>1. r = Reply(<<>>)
    BY Zenon DEF handle_request, should_ignore
  <2> QED  BY <2>1 DEF Reply
<1>1. CASE ty \in {GETPWBYUID, GETPWBYNAME}
  <2>1. /\ answer \in UserResult
        /\ Decode(ty, r.cells) = DecodeUser(r.cells) /\ Meaning(ty, key, answer) = answer
    BY <1>1, Kinds
  <2>2. r = IF GoodKey(ty, key) /\ answer.is # "err" THEN serialize_user(answer) ELSE Err
    BY <1>0, <1>1, KeyDecides
  <2> HIDE DEF r
  <2>3. answer.is # "err" /\ r = serialize_user(answer)
    <3>1. r.is = "reply"
      BY DEF r
    <3> QED  BY <2>2, <3>1 DEF Err
  <2>4. DecodeUser(r.cells) = answer
    BY <2>1, <2>3, UserReply, Zenon
  <2> QED  BY <2>1, <2>4, Zenon DEF r
<1>2. CASE ty \in {GETGRBYGID, GETGRBYNAME}
  <2>1. /\ answer \in GroupResult
        /\ Decode(ty, r.cells) = DecodeGroup(r.cells) /\ Meaning(ty, key, answer) = answer
    <3> DEFINE cells == r.cells
    <3> HIDE DEF cells
    <3>1. /\ ResultOf(ty) = GroupResult
          /\ Decode(ty, cells) = DecodeGroup(cells) /\ Meaning(ty, key, answer) = answer
      BY <1>2, Kinds
    <3> QED  BY <3>1, Zenon DEF cells
  <2>2. r = IF GoodKey(ty, key) /\ answer.is # "err" THEN serialize_group(answer) ELSE Err
    BY <1>0, <1>2, KeyDecides
  <2> HIDE DEF r
  <2>3. answer.is # "err" /\ r = serialize_group(answer)
    <3>1. r.is = "reply"
      BY DEF r
    <3> QED  BY <2>2, <3>1 DEF Err
  <2>4. DecodeGroup(r.cells) = answer
    BY <2>1, <2>3, GroupReply, Zenon
  <2> QED  BY <2>1, <2>4, Zenon DEF r
<1>3. CASE ty = INITGROUPS
  <2>1. /\ answer \in ListResult
        /\ Decode(ty, r.cells) = DecodeInitgroups(r.cells)
        /\ Meaning(ty, key, answer) = Some(GroupsOf(answer))
    BY <1>3, Kinds
  <2>2. r = IF GoodKey(ty, key) /\ answer.user # "err"
            THEN serialize_initgroups(GroupsOf(answer)) ELSE Err
    BY <1>0, <1>3, KeyDecides
  <2>3. r # Err
    BY DEF Err
  <2> HIDE DEF r
  <2>4. r = serialize_initgroups(GroupsOf(answer))
    BY <2>2, <2>3
  <2>5. DecodeInitgroups(r.cells) = Some(GroupsOf(answer))
    BY <2>1, <2>3, <2>4, ListReply, Zenon
  <2> QED  BY <2>1, <2>5, Zenon DEF r
<1>4. CASE ty = GETAI
  <2> DEFINE resp == AiResponse(key, answer)
  <2>1. /\ answer \in AiResult
        /\ Decode(ty, r.cells) = DecodeAi(r.cells)
        /\ Meaning(ty, key, answer) = IF resp.addrs = <<>> THEN Absent ELSE Some(resp)
    BY <1>4, Kinds
  <2>2. r = IF GoodKey(ty, key) THEN serialize_address_info(resp) ELSE Err
    BY <1>0, <1>4, KeyDecides
  <2>3. r # Err
    BY DEF Err
  <2>4. DecodeAi(serialize_address_info(resp).cells)
          = IF resp.addrs = <<>> THEN Absent ELSE Some(resp)
    BY <2>1, AiReply, Zenon
  <2> HIDE DEF r, resp
  <2>5. r = serialize_address_info(resp)
    BY <2>2, <2>3
  <2> QED  BY <2>1, <2>4, <2>5, Zenon DEF r
<1>5. CASE ty \in HostTypes
  <2>1. /\ answer \in HostResult
        /\ Decode(ty, r.cells) = DecodeHostent(r.cells)
        /\ Meaning(ty, key, answer) = HostMeaning(answer)
    BY <1>5, Kinds
  <2>2. r = IF GoodKey(ty, key) THEN HostReply(answer) ELSE Err
    BY <1>0, <1>5, KeyDecides
  <2>3. r # Err
    BY DEF Err
  <2> HIDE DEF r
  <2>4. r = HostReply(answer)
    BY <2>2, <2>3
  <2>5. answer.is # "other"
    <3> SUFFICES ASSUME answer.is = "other" PROVE FALSE
      OBVIOUS
    <3>1. answer.is # "ok" /\ answer.is # "herror"
      OBVIOUS
    <3>2. HostReply(answer) = Err
      BY <3>1, Zenon DEF HostReply
    <3> QED  BY <2>3, <2>4, <3>2
  <2>6. DecodeHostent(HostReply(answer).cells) = HostMeaning(answer)
    BY <2>1, <2>5, HostReplyDecodes, Zenon
  <2> QED  BY <2>1, <2>4, <2>6, Zenon DEF r
<1> QED  BY <1>0, <1>1, <1>2, <1>3, <1>4, <1>5, Types, Zenon

(***************************************************************************)
(* handle_request answers every lookup whose key it can use and that did   *)
(* not fail, found or not found, with a reply that is not empty.  (Group   *)
(* lists are different: a gid past i32::MAX makes it refuse the request.)  *)
(***************************************************************************)
THEOREM LookupsAreAnswered ==
  ASSUME NEW ignored, NEW ty \in RequestType, NEW key, key.name \in CString,
         NEW answer \in ResultOf(ty), ty \notin ignored, ty \notin Unanswered,
         ty # INITGROUPS, GoodKey(ty, key), answer.is \notin {"err", "other"}
  PROVE  LET r == handle_request(ignored, ty, key, answer)
         IN  r.is = "reply" /\ r.cells # <<>>
<1> DEFINE r == handle_request(ignored, ty, key, answer)
<1>1. CASE ty \in {GETPWBYUID, GETPWBYNAME}
  <2>1. answer \in UserResult /\ answer.is # "err"
    BY <1>1, Kinds
  <2>2. r = IF GoodKey(ty, key) /\ answer.is # "err" THEN serialize_user(answer) ELSE Err
    BY <1>1, KeyDecides
  <2>3. r = serialize_user(answer)
    BY <2>1, <2>2, Zenon
  <2> QED  BY <2>1, <2>3, UserReply, Zenon
<1>2. CASE ty \in {GETGRBYGID, GETGRBYNAME}
  <2>1. answer \in GroupResult /\ answer.is # "err"
    BY <1>2, Kinds
  <2>2. r = IF GoodKey(ty, key) /\ answer.is # "err" THEN serialize_group(answer) ELSE Err
    BY <1>2, KeyDecides
  <2>3. r = serialize_group(answer)
    BY <2>1, <2>2, Zenon
  <2> QED  BY <2>1, <2>3, GroupReply, Zenon
<1>3. CASE ty = GETAI
  <2>1. answer \in AiResult
    BY <1>3, Kinds
  <2>2. r = IF GoodKey(ty, key) THEN serialize_address_info(AiResponse(key, answer)) ELSE Err
    BY <1>3, KeyDecides
  <2>3. r = serialize_address_info(AiResponse(key, answer))
    BY <2>2, Zenon
  <2> QED  BY <2>1, <2>3, AiReply, Zenon
<1>4. CASE ty \in HostTypes
  <2>1. answer \in HostResult /\ answer.is # "other"
    BY <1>4, Kinds
  <2>2. r = IF GoodKey(ty, key) THEN HostReply(answer) ELSE Err
    BY <1>4, KeyDecides
  <2>3. r = HostReply(answer)
    BY <2>2, Zenon
  <2> QED  BY <2>1, <2>3, HostReplyDecodes, Zenon
<1> QED  BY <1>1, <1>2, <1>3, <1>4, Types, Zenon

(***************************************************************************)
(* The group lists that handle_request refuses, exactly: those of a user   *)
(* whose lookup failed, and those with a gid past i32::MAX.  In            *)
(* every other case a request with a good key gets its list, be it empty.  *)
(***************************************************************************)
THEOREM GroupListsRefused ==
  ASSUME NEW ignored, NEW key, NEW answer \in ListResult,
         INITGROUPS \notin ignored, GoodKey(INITGROUPS, key)
  PROVE  LET r == handle_request(ignored, INITGROUPS, key, answer)
             groups == GroupsOf(answer)
         IN  /\ r = Err <=> \/ answer.user = "err"
                            \/ \E i \in 1 .. Len(groups) : groups[i] > I32Max
             /\ r # Err => r.is = "reply" /\ r.cells # <<>>
<1> DEFINE r == handle_request(ignored, INITGROUPS, key, answer)
           groups == GroupsOf(answer)
<1>1. INITGROUPS \in RequestType /\ INITGROUPS \notin Unanswered
  BY NumbersHold DEF Numbers, RequestType, LASTREQ
<1>2. r = IF answer.user # "err" THEN serialize_initgroups(groups) ELSE Err
  BY <1>1, KeyDecides
<1>3. /\ (\E i \in 1 .. Len(groups) : groups[i] > I32Max) => serialize_initgroups(groups) = Err
      /\ ~(\E i \in 1 .. Len(groups) : groups[i] > I32Max) =>
           serialize_initgroups(groups).is = "reply"
  BY ReplyCells, Zenon DEF serialize_initgroups
<1>4. serialize_initgroups(groups).is = "reply" => serialize_initgroups(groups) # Err
  BY DEF Err
<1>5. groups \in Seq(Nat)
  BY DEF GroupsOf, ListResult
<1>6. serialize_initgroups(groups) # Err => serialize_initgroups(groups).cells # <<>>
                                            /\ serialize_initgroups(groups).is = "reply"
  BY <1>5, InitgroupsDecodes, Zenon
<1> HIDE DEF r, groups
<1>7. /\ r = Err <=> \/ answer.user = "err"
                     \/ \E i \in 1 .. Len(groups) : groups[i] > I32Max
      /\ r # Err => r.is = "reply" /\ r.cells # <<>>
  BY <1>2, <1>3, <1>4, <1>6, Zenon
<1> QED  BY <1>7 DEF r, groups
=============================================================================
