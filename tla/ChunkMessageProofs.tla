------------------------- MODULE ChunkMessageProofs -------------------------
(***************************************************************************)
(* ChunkMessage for every text, whatever its runes, entities and tags are, *)
(* and every limit that is twice as long as each of them: chunks are       *)
(* lossless, within the limit and more than half full, and end where an    *)
(* atom ends.                                                              *)
(*                                                                         *)
(* A position in a text lies in one of its atoms (Locate).  What comes     *)
(* before that atom has nothing open (TextClosed), so the code's looking   *)
(* back finds the atom's own beginning (RuneCutIs, SafeCutIs).  Facts      *)
(* about a text of any length are proved by Induction, over the number of  *)
(* its atoms.                                                              *)
(***************************************************************************)
EXTENDS ChunkMessage, SequenceTheorems, WellFoundedInduction, TLAPS

-----------------------------------------------------------------------------
(* Flattening a sequence of sequences *)

(* A set that holds 0 and, with n, n + 1, holds every number: otherwise    *)
(* the least number outside it would have its predecessor inside.          *)
LEMMA Induction ==
  ASSUME NEW S, 0 \in S, \A n \in Nat : n \in S => n + 1 \in S
  PROVE  Nat \subseteq S
<1> DEFINE T == Nat \ S
<1> SUFFICES ASSUME T # {}
             PROVE  FALSE
  OBVIOUS
<1>1. PICK x \in T : \A y \in T : ~ (<<y, x>> \in OpToRel(<, Nat))
  BY NatLessThanWellFounded, WFMin
<1>2. x \in Nat \ {0} /\ x - 1 \in Nat
  OBVIOUS
<1>3. <<x - 1, x>> \in OpToRel(<, Nat)
  BY <1>2 DEF OpToRel
<1>4. x - 1 \in S
  BY <1>1, <1>2, <1>3, Zenon
<1> QED
  BY <1>2, <1>4

(* xy is x and then y: a name for it that the provers leave alone. *)
IsConcat(x, y, xy) == xy = x \o y

(* x and y then z is x then y and z. *)
LEMMA ConcatRegrouped ==
  ASSUME NEW S, NEW x \in Seq(S), NEW y \in Seq(S), NEW z \in Seq(S), NEW xy, NEW yz, NEW xyz,
         IsConcat(x, y, xy), IsConcat(y, z, yz), IsConcat(xy, z, xyz)
  PROVE  IsConcat(x, yz, xyz)
<1>1. (x \o y) \o z = x \o (y \o z)
  BY ConcatAssociative
<1> QED
  BY <1>1 DEF IsConcat

(* The first parts of seqs, joined: f[k] is the first k of them. *)
Joined(f, seqs) ==
  \A k \in 1 .. Len(seqs) : f[k] = IF k = 1 THEN seqs[k] ELSE f[k - 1] \o seqs[k]

(* There is such a function ... *)
LEMMA JoinedExists ==
  ASSUME NEW S, NEW seqs \in Seq(Seq(S))
  PROVE  \E f \in [1 .. Len(seqs) -> Seq(S)] : Joined(f, seqs)
<1> DEFINE n == Len(seqs)
           Upto(m, f) == \A k \in 1 .. m : f[k] = IF k = 1 THEN seqs[k] ELSE f[k - 1] \o seqs[k]
           T == {m \in Nat : m <= n => \E f \in [1 .. m -> Seq(S)] : Upto(m, f)}
<1>0. n \in Nat /\ \A k \in 1 .. n : seqs[k] \in Seq(S)
  BY LenProperties, ElementOfSeq
<1> HIDE DEF n
<1>1. 0 \in T
  <2>1. [k \in 1 .. 0 |-> <<>>] \in [1 .. 0 -> Seq(S)] /\ Upto(0, [k \in 1 .. 0 |-> <<>>])
    OBVIOUS
  <2> QED
    BY <2>1
<1>2. ASSUME NEW m \in Nat, m \in T
      PROVE  m + 1 \in T
  <2> HIDE DEF Upto
  <2> SUFFICES ASSUME m + 1 <= n
               PROVE  \E f \in [1 .. m + 1 -> Seq(S)] : Upto(m + 1, f)
    OBVIOUS
  <2>1. PICK f \in [1 .. m -> Seq(S)] : Upto(m, f)
    BY <1>0, <1>2
  <2> USE DEF Upto
  <2> DEFINE last == IF m + 1 = 1 THEN seqs[m + 1] ELSE f[m] \o seqs[m + 1]
             g == [k \in 1 .. m + 1 |-> IF k = m + 1 THEN last ELSE f[k]]
  <2>2. last \in Seq(S)
    <3>2. seqs[m + 1] \in Seq(S)
      BY <1>0
    <3>3. m + 1 # 1 => f[m] \in Seq(S)
      BY <2>1
    <3> QED
      BY <3>2, <3>3, ConcatProperties
  <2>3. last = IF m + 1 = 1 THEN seqs[m + 1] ELSE f[m] \o seqs[m + 1]
    OBVIOUS
  <2> HIDE DEF last
  <2>4. g \in [1 .. m + 1 -> Seq(S)] /\ g[m + 1] = last /\ \A k \in 1 .. m : g[k] = f[k]
    BY <2>2
  <2> HIDE DEF g
  <2>5. ASSUME NEW k \in 1 .. m + 1
        PROVE  g[k] = IF k = 1 THEN seqs[k] ELSE g[k - 1] \o seqs[k]
    <3>1. CASE k = m + 1
      <4>1. k # 1 => m \in 1 .. m /\ k - 1 = m
        BY <3>1
      <4> QED
        BY <2>3, <2>4, <3>1, <4>1
    <3>2. CASE k \in 1 .. m
      <4>1. k # 1 => k - 1 \in 1 .. m
        BY <3>2
      <4>2. f[k] = IF k = 1 THEN seqs[k] ELSE f[k - 1] \o seqs[k]
        BY <2>1, <3>2
      <4> QED
        BY <2>4, <3>2, <4>1, <4>2
    <3> QED
      BY <3>1, <3>2
  <2> QED
    BY <2>4, <2>5
<1>3. n \in T
  <2> HIDE DEF T
  <2>1. Nat \subseteq T
    BY <1>1, <1>2, Induction
  <2> QED
    BY <1>0, <2>1
<1> QED
  BY <1>0, <1>3 DEF Joined, n

(* ... two of them agree ... *)
LEMMA JoinedSame ==
  ASSUME NEW f, NEW g, NEW p, NEW q, NEW n \in Nat, n <= Len(p), n <= Len(q),
         Len(p) \in Nat, Len(q) \in Nat,
         \A k \in 1 .. n : p[k] = q[k], Joined(f, p), Joined(g, q)
  PROVE  \A k \in 1 .. n : f[k] = g[k]
<1> DEFINE T == {k \in Nat : k \in 1 .. n => f[k] = g[k]}
<1>1. 0 \in T
  OBVIOUS
<1>2. ASSUME NEW k \in Nat, k \in T
      PROVE  k + 1 \in T
  BY <1>2 DEF Joined
<1>3. Nat \subseteq T
  <2> HIDE DEF T
  <2> QED
    BY <1>1, <1>2, Induction
<1> QED
  BY <1>3

(* ... and its last value is the whole. *)
LEMMA FlattenJoined ==
  ASSUME NEW S, NEW seqs \in Seq(Seq(S)), seqs # <<>>
  PROVE  \E f \in [1 .. Len(seqs) -> Seq(S)] :
           Joined(f, seqs) /\ FlattenSeq(seqs) = f[Len(seqs)]
<1> DEFINE P(f) == f = [k \in 1 .. Len(seqs) |-> IF k = 1 THEN seqs[k] ELSE f[k - 1] \o seqs[k]]
           b == CHOOSE f : P(f)
<1>1. PICK f \in [1 .. Len(seqs) -> Seq(S)] : Joined(f, seqs)
  BY JoinedExists
<1>2. P(f)
  BY <1>1 DEF Joined
<1>3. P(b)
  <2>1. \E h : P(h)
    BY <1>2, Zenon
  <2> HIDE DEF P
  <2> QED
    BY <2>1, Zenon
<1>4. FlattenSeq(seqs) = b[Len(seqs)]
  <2>1. Len(seqs) # 0
    BY EmptySeq
  <2> QED
    BY <2>1, Zenon DEF FlattenSeq
<1> HIDE DEF b
<1>5. Joined(b, seqs)
  BY <1>3 DEF Joined
<1>6. \A k \in 1 .. Len(seqs) : b[k] = f[k]
  BY <1>1, <1>5, LenProperties, JoinedSame
<1>7. FlattenSeq(seqs) = f[Len(seqs)]
  <2>1. Len(seqs) \in 1 .. Len(seqs)
    BY EmptySeq
  <2> QED
    BY <1>4, <1>6, <2>1
<1> QED
  BY <1>1, <1>7

(* No parts make nothing. *)
LEMMA FlattenEmpty == FlattenSeq(<<>>) = <<>>
  BY DEF FlattenSeq

(* One more part comes last. *)
LEMMA FlattenAppend ==
  ASSUME NEW S, NEW seqs \in Seq(Seq(S)), NEW t \in Seq(S)
  PROVE  FlattenSeq(Append(seqs, t)) = FlattenSeq(seqs) \o t
<1> DEFINE n == Len(seqs)
           more == Append(seqs, t)
<1>1. more \in Seq(Seq(S)) /\ more # <<>> /\ Len(more) = n + 1 /\ n \in Nat
      /\ more[n + 1] = t /\ \A k \in 1 .. n : more[k] = seqs[k]
  BY AppendProperties, LenProperties
<1> HIDE DEF more
<1>2. PICK g \in [1 .. Len(more) -> Seq(S)] : Joined(g, more) /\ FlattenSeq(more) = g[Len(more)]
  BY <1>1, FlattenJoined
<1>3. CASE seqs = <<>>
  <2>1. FlattenSeq(more) = t
    BY <1>1, <1>2, <1>3 DEF Joined
  <2> QED
    BY <1>3, <2>1, FlattenEmpty, ConcatEmptySeq DEF more
<1>4. CASE seqs # <<>>
  <2>1. PICK f \in [1 .. n -> Seq(S)] : Joined(f, seqs) /\ FlattenSeq(seqs) = f[n]
    BY <1>4, FlattenJoined
  <2>2. n \in 1 .. n
    BY <1>4, EmptySeq
  <2>3. \A k \in 1 .. n : g[k] = f[k]
    <3> DEFINE T == {k \in Nat : k \in 1 .. n => g[k] = f[k]}
    <3>1. 0 \in T
      OBVIOUS
    <3>2. ASSUME NEW k \in Nat, k \in T
          PROVE  k + 1 \in T
      <4> SUFFICES ASSUME k + 1 \in 1 .. n
                   PROVE  g[k + 1] = f[k + 1]
        OBVIOUS
      <4> DEFINE j == k + 1
      <4>1. j \in 1 .. n /\ j \in 1 .. Len(more) /\ j - 1 = k /\ (j # 1 => k \in 1 .. n)
        BY <1>1
      <4>2. j # 1 => g[k] = f[k]
        BY <3>2, <4>1
      <4>3. more[j] = seqs[j]
        BY <1>1, <4>1
      <4> HIDE DEF j, n
      <4>4. g[j] = IF j = 1 THEN more[j] ELSE g[j - 1] \o more[j]
        BY <1>2, <4>1, Zenon DEF Joined
      <4>5. f[j] = IF j = 1 THEN seqs[j] ELSE f[j - 1] \o seqs[j]
        BY <2>1, <4>1, Zenon DEF Joined, n
      <4>6. g[j] = f[j]
        BY <4>1, <4>2, <4>3, <4>4, <4>5, Zenon
      <4> QED
        BY <4>6 DEF j
    <3>3. Nat \subseteq T
      <4> HIDE DEF T
      <4> QED
        BY <3>1, <3>2, Induction
    <3> QED
      BY <3>3
  <2>4. g[n + 1] = g[n] \o t
    <3>1. n + 1 \in 1 .. Len(more) /\ n + 1 # 1 /\ n + 1 - 1 = n
      BY <1>1, <2>2
    <3>2. ASSUME NEW k \in 1 .. Len(more), k # 1
          PROVE  g[k] = g[k - 1] \o more[k]
      BY <1>2, <3>2, Zenon DEF Joined
    <3> DEFINE k == n + 1
    <3> HIDE DEF k
    <3>3. k \in 1 .. Len(more) /\ k # 1 /\ k - 1 = n
      BY <3>1 DEF k
    <3>4. g[k] = g[n] \o more[k]
      BY <3>2, <3>3, Zenon
    <3> QED
      BY <1>1, <3>4, Zenon DEF k
  <2> QED
    BY <1>1, <1>2, <2>1, <2>2, <2>3, <2>4 DEF more
<1> QED
  BY <1>3, <1>4

(* Parts over S make a sequence over S. *)
LEMMA FlattenTyped ==
  ASSUME NEW S, NEW seqs \in Seq(Seq(S))
  PROVE  FlattenSeq(seqs) \in Seq(S)
<1>1. CASE seqs = <<>>
  BY <1>1, FlattenEmpty, EmptySeq
<1>2. CASE seqs # <<>>
  <2>1. Len(seqs) \in 1 .. Len(seqs)
    BY <1>2, EmptySeq
  <2>2. PICK f \in [1 .. Len(seqs) -> Seq(S)] : FlattenSeq(seqs) = f[Len(seqs)]
    BY <1>2, FlattenJoined
  <2> QED
    BY <2>1, <2>2
<1> QED
  BY <1>1, <1>2

(* The whole is its first n parts and then the others. *)
LEMMA FlattenSplit ==
  ASSUME NEW S, NEW seqs \in Seq(Seq(S)), NEW m \in 0 .. Len(seqs)
  PROVE  FlattenSeq(SubSeq(seqs, 1, m)) \o FlattenSeq(SubSeq(seqs, m + 1, Len(seqs)))
           = FlattenSeq(seqs)
<1> DEFINE Part(i, j) == FlattenSeq(SubSeq(seqs, i, j))
           n == Len(seqs)
           T == {k \in Nat : m + k <= n => Part(1, m) \o Part(m + 1, m + k) = Part(1, m + k)}
<1>1. n \in Nat /\ \A i \in 1 .. n + 1, j \in 0 .. n : SubSeq(seqs, i, j) \in Seq(Seq(S))
  <2>1. n \in Nat /\ \A i \in 1 .. n : seqs[i] \in Seq(S)
    BY LenProperties, ElementOfSeq
  <2>2. ASSUME NEW i \in 1 .. n + 1, NEW j \in 0 .. n
        PROVE  SubSeq(seqs, i, j) \in Seq(Seq(S))
    <3>1. i \in Int /\ j \in Int /\ \A l \in i .. j : seqs[l] \in Seq(S)
      BY <2>1
    <3> QED
      BY <3>1, SubSeqProperties
  <2> QED
    BY <2>1, <2>2
<1>2. \A i \in 1 .. n + 1, j \in 0 .. n : Part(i, j) \in Seq(S)
  BY <1>1, FlattenTyped
<1>3. 0 \in T
  <2>1. Part(m + 1, m + 0) = <<>>
    <3>1. m + 1 \in Int /\ m + 0 \in Int /\ m + 0 < m + 1
      BY <1>1
    <3>2. SubSeq(seqs, m + 1, m + 0) = <<>>
      BY <3>1, SubSeqEmpty
    <3> QED
      BY <3>2, FlattenEmpty
  <2>2. Part(1, m) \in Seq(S)
    BY <1>1, <1>2
  <2> QED
    BY <2>1, <2>2, ConcatEmptySeq
<1>4. ASSUME NEW k \in Nat, k \in T
      PROVE  k + 1 \in T
  <2> SUFFICES ASSUME m + k + 1 <= n
               PROVE  Part(1, m) \o Part(m + 1, m + k + 1) = Part(1, m + k + 1)
    BY <1>1
  <2> DEFINE last == seqs[m + k + 1]
  <2>1. last \in Seq(S)
    BY <1>1, ElementOfSeq
  <2>2. ASSUME NEW i \in 1 .. m + 1
        PROVE  Part(i, m + k + 1) = Part(i, m + k) \o last
    <3>1. i \in 1 .. n /\ m + k + 1 \in i .. n /\ m + k + 1 - 1 = m + k
      BY <1>1
    <3>2. SubSeq(seqs, i, m + k + 1) = SubSeq(seqs, i, m + k) \o <<last>>
      BY <3>1, SubSeqRecursiveSecond
    <3>3. SubSeq(seqs, i, m + k) \in Seq(Seq(S))
      BY <1>1, <3>1
    <3>4. SubSeq(seqs, i, m + k + 1) = Append(SubSeq(seqs, i, m + k), last)
      BY <2>1, <3>2, <3>3, AppendIsConcat
    <3> QED
      BY <2>1, <3>3, <3>4, FlattenAppend
  <2>3. Part(1, m) \in Seq(S) /\ Part(m + 1, m + k) \in Seq(S)
    <3>1. 1 \in 1 .. n + 1 /\ m \in 0 .. n /\ m + 1 \in 1 .. n + 1 /\ m + k \in 0 .. n
      BY <1>1
    <3> HIDE DEF Part, n
    <3> QED
      BY <1>2, <3>1
  <2>4. Part(1, m) \o Part(m + 1, m + k) = Part(1, m + k)
    BY <1>1, <1>4
  <2>5. Part(1, m + k + 1) = Part(1, m + k) \o last /\ Part(m + 1, m + k + 1) = Part(m + 1, m + k) \o last
    <3>1. 1 \in 1 .. m + 1 /\ m + 1 \in 1 .. m + 1
      BY <1>1
    <3> HIDE DEF Part, last
    <3> QED
      BY <2>2, <3>1
  <2> HIDE DEF Part, last
  <2> QED
    <3>1. IsConcat(Part(1, m), Part(m + 1, m + k), Part(1, m + k))
      BY <2>4 DEF IsConcat
    <3>2. IsConcat(Part(m + 1, m + k), last, Part(m + 1, m + k + 1)) /\ IsConcat(Part(1, m + k), last, Part(1, m + k + 1))
      BY <2>5 DEF IsConcat
    <3>3. \A x, y, z \in Seq(S) : \A xy, yz, xyz :
            IsConcat(x, y, xy) /\ IsConcat(y, z, yz) /\ IsConcat(xy, z, xyz) => IsConcat(x, yz, xyz)
      BY ConcatRegrouped
    <3>4. IsConcat(Part(1, m), Part(m + 1, m + k + 1), Part(1, m + k + 1))
      <4>1. Part(1, m) \in Seq(S) /\ Part(m + 1, m + k) \in Seq(S)
        BY <2>3, Zenon
      <4>2. last \in Seq(S)
        BY <2>1, Zenon
      <4>3. IsConcat(Part(1, m + k), last, Part(1, m + k + 1))
        BY <3>2, Zenon
      <4>4. \A xy, yz, xyz :
            IsConcat(Part(1, m), Part(m + 1, m + k), xy) /\ IsConcat(Part(m + 1, m + k), last, yz) /\ IsConcat(xy, last, xyz) => IsConcat(Part(1, m), yz, xyz)
        BY <4>1, <4>2, <3>3, Zenon
      <4> QED
        BY <3>1, <3>2, <4>4, Zenon
    <3> QED
      BY <3>4 DEF IsConcat
<1>5. n - m \in T
  <2> HIDE DEF T
  <2>1. Nat \subseteq T
    BY <1>3, <1>4, Induction
  <2> QED
    BY <1>1, <2>1
<1>6. SubSeq(seqs, 1, n) = seqs
  BY SubSeqFull
<1>7. Part(1, m) \o Part(m + 1, n) = Part(1, n)
  <2>1. m + (n - m) = n /\ m + (n - m) <= n
    BY <1>1
  <2>2. Part(1, m) \o Part(m + 1, m + (n - m)) = Part(1, m + (n - m))
    BY <1>5, <2>1
  <2> HIDE DEF Part, n
  <2> QED
    BY <2>1, <2>2
<1> QED
  BY <1>6, <1>7

-----------------------------------------------------------------------------
(* The bytes of an atom *)

(* Every byte an atom is made of. *)
Bytes == {"x", "nl", "lead", "cont", "amp", "semi", "<", "b", ">", "/"}

(* Every opening byte of t is followed by its closing one. *)
ClosedBy(t, o, cl) == \A k \in 1 .. Len(t) : t[k] = o => \E j \in k + 1 .. Len(t) : t[j] = cl
Closed(t) == ClosedBy(t, "amp", "semi") /\ ClosedBy(t, "<", ">")

(* What htmlSafeCut looks for: the bytes of an entity and of a tag. *)
Pair(o, cl) == (o = "amp" /\ cl = "semi") \/ (o = "<" /\ cl = ">")

(* The atom's bytes after the first belong to its rune; or lie between its *)
(* opening and its closing byte.                                           *)
RuneLike(a) == \A k \in 2 .. Len(a) : a[k] = "cont"
Bracketed(a) ==
  \E o, cl \in Bytes :
    /\ Pair(o, cl)
    /\ a[1] = o
    /\ \A k \in 2 .. Len(a) - 1 : a[k] \notin {o, cl}

(* The bytes of a followed by those of h and by z. *)
LEMMA Wrapped ==
  ASSUME NEW n \in Nat, NEW f \in Seq(Bytes), NEW h \in Seq(Bytes), NEW z \in Bytes, Len(f) = n
  PROVE  LET a == f \o h \o <<z>>
         IN  /\ a \in Seq(Bytes) /\ Len(a) = n + Len(h) + 1 /\ Len(h) \in Nat
             /\ \A k \in 1 .. n : a[k] = f[k]
             /\ \A k \in 1 .. Len(h) : a[n + k] = h[k]
             /\ a[n + Len(h) + 1] = z
<1> DEFINE g == f \o h
           a == g \o <<z>>
<1>1. Len(h) \in Nat /\ <<z>> \in Seq(Bytes) /\ Len(<<z>>) = 1 /\ <<z>>[1] = z
  BY LenProperties
<1>2. /\ g \in Seq(Bytes) /\ Len(g) = n + Len(h)
      /\ \A i \in 1 .. n + Len(h) : g[i] = IF i <= n THEN f[i] ELSE h[i - n]
  BY ConcatProperties
<1> HIDE DEF g
<1>3. /\ a \in Seq(Bytes) /\ Len(a) = n + Len(h) + 1
      /\ \A i \in 1 .. n + Len(h) + 1 : a[i] = IF i <= n + Len(h) THEN g[i] ELSE <<z>>[i - (n + Len(h))]
  BY <1>1, <1>2, ConcatProperties
<1> HIDE DEF a
<1>4. \A k \in 1 .. n : a[k] = f[k]
  BY <1>1, <1>2, <1>3
<1>5. ASSUME NEW k \in 1 .. Len(h)
      PROVE  a[n + k] = h[k]
  <2>1. n + k \in 1 .. n + Len(h) + 1 /\ n + k \in 1 .. n + Len(h) /\ ~(n + k <= n) /\ n + k - n = k
    BY <1>1
  <2>2. a[n + k] = g[n + k]
    BY <1>3, <2>1
  <2>3. g[n + k] = h[n + k - n]
    BY <1>2, <2>1
  <2> QED
    BY <2>1, <2>2, <2>3
<1>6. a[n + Len(h) + 1] = z
  <2>1. n + Len(h) + 1 \in 1 .. n + Len(h) + 1 /\ ~(n + Len(h) + 1 <= n + Len(h))
        /\ n + Len(h) + 1 - (n + Len(h)) = 1
    BY <1>1
  <2> QED
    BY <1>1, <1>3, <2>1
<1> QED
  BY <1>1, <1>3, <1>4, <1>5, <1>6 DEF a, g

(* n times the same byte. *)
LEMMA Repeated ==
  ASSUME NEW x \in Bytes, NEW n \in Nat
  PROVE  Repeat(x, n) \in Seq(Bytes) /\ Len(Repeat(x, n)) = n /\ \A k \in 1 .. n : Repeat(x, n)[k] = x
BY DEF Repeat

(* What the code may rely on in an atom. *)
Sound(a) ==
  /\ a \in Seq(Bytes) /\ Len(a) \in Nat \ {0}
  /\ a[1] # "cont" /\ Closed(a)
  /\ RuneLike(a) \/ Bracketed(a)
  /\ \A k \in 1 .. Len(a) : a[k] = "nl" => Len(a) = 1

(* Atoms of one byte. *)
LEMMA PlainSound ==
  ASSUME NEW a \in {Char, Semicolon, Newline}
  PROVE  Sound(a)
<1>1. PICK x \in {"x", "semi", "nl"} : a = <<x>>
  BY DEF Char, Semicolon, Newline
<1>2. a \in Seq(Bytes) /\ Len(a) = 1 /\ a[1] = x
  BY <1>1 DEF Bytes
<1> HIDE <1>1
<1> QED
  BY <1>2 DEF Sound, Closed, ClosedBy, RuneLike

(* A first byte and those that continue it. *)
LEMMA RuneSound ==
  ASSUME NEW a \in Runes
  PROVE  Sound(a)
<1>1. PICK n \in Nat : a = <<"lead">> \o Repeat("cont", n)
  BY AtomAssumption DEF Runes
<1>2. /\ Repeat("cont", n) \in Seq(Bytes) /\ Len(Repeat("cont", n)) = n
      /\ \A k \in 1 .. n : Repeat("cont", n)[k] = "cont"
  BY Repeated DEF Bytes
<1>3. <<"lead">> \in Seq(Bytes) /\ Len(<<"lead">>) = 1 /\ <<"lead">>[1] = "lead"
  BY DEF Bytes
<1>4. /\ a \in Seq(Bytes) /\ Len(a) = 1 + n
      /\ \A i \in 1 .. 1 + n : a[i] = IF i <= 1 THEN <<"lead">>[i] ELSE Repeat("cont", n)[i - 1]
  BY <1>1, <1>2, <1>3, ConcatProperties
<1>5. a[1] = "lead"
  BY <1>3, <1>4
<1>6. ASSUME NEW k \in 2 .. Len(a)
      PROVE  a[k] = "cont"
  <2>1. k \in 1 .. 1 + n /\ ~(k <= 1) /\ k - 1 \in 1 .. n
    BY <1>4
  <2> QED
    BY <1>2, <1>4, <2>1
<1>7. \A k \in 1 .. Len(a) : a[k] \in {"lead", "cont"}
  BY <1>4, <1>5, <1>6
<1> QED
  BY <1>4, <1>5, <1>6, <1>7 DEF Sound, Closed, ClosedBy, RuneLike

(* An opening byte, bytes that are neither of the pair's, a closing byte.  *)
LEMMA BracketSound ==
  ASSUME NEW f \in Seq(Bytes), NEW h \in Seq(Bytes), NEW o, NEW cl, Pair(o, cl),
         Len(f) \in {1, 2}, f[1] = o, \A k \in 2 .. Len(f) : f[k] \in {"b", "/"},
         \A k \in 1 .. Len(h) : h[k] \in {"x", "lead", "cont", "amp", "semi"} /\ h[k] \notin {o, cl},
         ClosedBy(h, "amp", "semi")
  PROVE  Sound(f \o h \o <<cl>>)
<1> DEFINE a == f \o h \o <<cl>>
           n == Len(f)
           l == Len(h)
<1>1. cl \in Bytes /\ o \in Bytes /\ n \in {1, 2}
  BY DEF Pair, Bytes
<1>2. /\ a \in Seq(Bytes) /\ Len(a) = n + l + 1 /\ l \in Nat
      /\ \A k \in 1 .. n : a[k] = f[k]
      /\ \A k \in 1 .. l : a[n + k] = h[k]
      /\ a[n + l + 1] = cl
  BY <1>1, Wrapped
<1> HIDE DEF a, l
<1>3. a[1] = o
  BY <1>1, <1>2
<1>4. ASSUME NEW k \in 2 .. n + l
      PROVE  a[k] \in {"b", "/"} \/ (k - n \in 1 .. l /\ a[k] = h[k - n])
  <2>1. CASE k <= n
    <3>1. k \in 1 .. n /\ k \in 2 .. n
      BY <1>1, <1>2, <2>1
    <3> QED
      BY <1>2, <3>1
  <2>2. CASE ~(k <= n)
    <3>1. k - n \in 1 .. l /\ n + (k - n) = k
      BY <1>1, <1>2, <2>2
    <3> QED
      BY <1>2, <3>1
  <2> QED
    BY <2>1, <2>2
<1> HIDE DEF n
<1>5. \A k \in 2 .. Len(a) - 1 : a[k] \notin {o, cl, "nl", "<", ">"}
  <2>1. ASSUME NEW k \in 2 .. n + l
        PROVE  a[k] \notin {o, cl, "nl", "<", ">"}
    <3>1. CASE a[k] \in {"b", "/"}
      BY <3>1 DEF Pair
    <3>2. CASE k - n \in 1 .. l /\ a[k] = h[k - n]
      <4>1. h[k - n] \in {"x", "lead", "cont", "amp", "semi"} /\ h[k - n] \notin {o, cl}
        BY <3>2 DEF l
      <4> QED
        BY <3>2, <4>1
    <3> QED
      BY <1>4, <3>1, <3>2
  <2>2. Len(a) - 1 = n + l
    BY <1>1, <1>2
  <2> QED
    BY <2>1, <2>2
<1>6. \A k \in 1 .. Len(a) : k = 1 \/ k \in 2 .. Len(a) - 1 \/ k = Len(a)
  BY <1>1, <1>2
<1>7. Len(a) \in Nat /\ Len(a) >= 2 /\ a[Len(a)] = cl
  BY <1>1, <1>2
<1>8. ClosedBy(a, o, cl)
  <2>1. \A k \in 1 .. Len(a) : a[k] = o => k = 1
    BY <1>5, <1>6, <1>7 DEF Pair
  <2>2. Len(a) \in 1 + 1 .. Len(a)
    BY <1>7
  <2> QED
    BY <1>7, <2>1, <2>2 DEF ClosedBy
<1>9. ClosedBy(a, "amp", "semi") /\ ClosedBy(a, "<", ">")
  <2>1. CASE o = "amp"
    <3>1. \A k \in 1 .. Len(a) : a[k] # "<"
      BY <1>3, <1>5, <1>6, <1>7, <2>1 DEF Pair
    <3> QED
      BY <1>8, <2>1, <3>1 DEF Pair, ClosedBy
  <2>2. CASE o = "<"
    <3>1. ASSUME NEW k \in 1 .. Len(a), a[k] = "amp"
          PROVE  \E j \in k + 1 .. Len(a) : a[j] = "semi"
      <4>1. k \in 2 .. n + l
        <5>1. k # 1 /\ k # Len(a)
          BY <1>3, <1>7, <2>2, <3>1 DEF Pair
        <5> QED
          BY <1>1, <1>2, <1>6, <5>1
      <4>2. k - n \in 1 .. l /\ h[k - n] = "amp"
        BY <1>4, <3>1, <4>1
      <4>3. PICK i \in (k - n) + 1 .. l : h[i] = "semi"
        BY <4>2 DEF ClosedBy, l
      <4>4. i \in 1 .. l /\ n + i \in k + 1 .. Len(a)
        BY <1>1, <1>2, <4>2, <4>3
      <4>5. a[n + i] = "semi"
        BY <1>2, <4>3, <4>4
      <4> QED
        BY <4>4, <4>5
    <3> QED
      BY <1>8, <2>2, <3>1 DEF Pair, ClosedBy
  <2> QED
    BY <2>1, <2>2 DEF Pair
<1>10. Bracketed(a)
  BY <1>1, <1>3, <1>5 DEF Bracketed
<1>11. \A k \in 1 .. Len(a) : a[k] # "nl"
  BY <1>3, <1>5, <1>6, <1>7 DEF Pair
<1>12. a[1] # "cont"
  BY <1>3 DEF Pair
<1>13. Sound(a)
  BY <1>2, <1>7, <1>9, <1>10, <1>11, <1>12 DEF Sound, Closed
<1> QED
  BY <1>13 DEF a

(* Every atom is sound. *)
LEMMA AtomSound ==
  ASSUME NEW a \in Atoms
  PROVE  Sound(a)
<1>1. CASE a \in Entities
  <2>1. PICK n \in Nat : a = <<"amp">> \o Repeat("x", n) \o <<"semi">>
    BY <1>1, AtomAssumption DEF Entities
  <2>2. <<"amp">> \in Seq(Bytes) /\ Len(<<"amp">>) = 1 /\ <<"amp">>[1] = "amp"
    BY DEF Bytes
  <2>3. /\ Repeat("x", n) \in Seq(Bytes) /\ Len(Repeat("x", n)) = n
        /\ \A k \in 1 .. n : Repeat("x", n)[k] = "x"
    BY Repeated DEF Bytes
  <2>4. ClosedBy(Repeat("x", n), "amp", "semi")
    BY <2>3 DEF ClosedBy
  <2>5. Pair("amp", "semi") /\ \A k \in 2 .. 1 : FALSE
    BY DEF Pair
  <2> HIDE DEF Repeat
  <2> QED
    BY <2>1, <2>2, <2>3, <2>4, <2>5, BracketSound
<1>2. CASE a \in Closes
  <2>1. PICK n \in Nat : a = <<"<", "/">> \o Repeat("x", n) \o <<">">>
    BY <1>2, AtomAssumption DEF Closes
  <2>2. <<"<", "/">> \in Seq(Bytes) /\ Len(<<"<", "/">>) = 2 /\ <<"<", "/">>[1] = "<"
        /\ \A k \in 2 .. 2 : <<"<", "/">>[k] \in {"b", "/"}
    BY DEF Bytes
  <2>3. /\ Repeat("x", n) \in Seq(Bytes) /\ Len(Repeat("x", n)) = n
        /\ \A k \in 1 .. n : Repeat("x", n)[k] = "x"
    BY Repeated DEF Bytes
  <2>4. ClosedBy(Repeat("x", n), "amp", "semi")
    BY <2>3 DEF ClosedBy
  <2>5. Pair("<", ">")
    BY DEF Pair
  <2> QED
    BY <2>1, <2>2, <2>3, <2>4, <2>5, BracketSound
<1>3. CASE a \in Opens
  <2>1. PICK h \in Attributes : a = <<"<", "b">> \o h \o <<">">>
    BY <1>3 DEF Opens
  <2>2. <<"<", "b">> \in Seq(Bytes) /\ Len(<<"<", "b">>) = 2 /\ <<"<", "b">>[1] = "<"
        /\ \A k \in 2 .. 2 : <<"<", "b">>[k] \in {"b", "/"}
    BY DEF Bytes
  <2>3. h \in Seq({"x", "lead", "cont", "amp", "semi"}) /\ ClosedBy(h, "amp", "semi")
    BY AtomAssumption DEF ClosedBy
  <2>4. /\ \A k \in 1 .. Len(h) : h[k] \in {"x", "lead", "cont", "amp", "semi"}
        /\ h \in Seq(Bytes)
    <3>1. {"x", "lead", "cont", "amp", "semi"} \subseteq Bytes
      BY DEF Bytes
    <3> QED
      BY <2>3, <3>1, ElementOfSeq, SeqMonotonic
  <2>5. Pair("<", ">") /\ \A k \in 1 .. Len(h) : h[k] \notin {"<", ">"}
    BY <2>4 DEF Pair
  <2> QED
    BY <2>1, <2>2, <2>3, <2>4, <2>5, BracketSound
<1> QED
  BY <1>1, <1>2, <1>3, PlainSound, RuneSound DEF Atoms

-----------------------------------------------------------------------------
(* The bytes of a text *)

(* Closed texts can be joined. *)
LEMMA ClosedConcat ==
  ASSUME NEW t \in Seq(Bytes), NEW u \in Seq(Bytes), NEW o, NEW cl,
         ClosedBy(t, o, cl), ClosedBy(u, o, cl)
  PROVE  ClosedBy(t \o u, o, cl)
<1> DEFINE w == t \o u
<1>1. Len(t) \in Nat /\ Len(u) \in Nat /\ Len(w) = Len(t) + Len(u)
      /\ \A i \in 1 .. Len(w) : w[i] = IF i <= Len(t) THEN t[i] ELSE u[i - Len(t)]
  BY ConcatProperties, LenProperties
<1> HIDE DEF w
<1>2. ASSUME NEW k \in 1 .. Len(w), w[k] = o
      PROVE  \E j \in k + 1 .. Len(w) : w[j] = cl
  <2>1. CASE k <= Len(t)
    <3>1. k \in 1 .. Len(t) /\ t[k] = o
      BY <1>1, <1>2, <2>1
    <3>2. PICK j \in k + 1 .. Len(t) : t[j] = cl
      BY <3>1 DEF ClosedBy
    <3>3. j \in k + 1 .. Len(w) /\ w[j] = cl
      BY <1>1, <3>1, <3>2
    <3> QED
      BY <3>3
  <2>2. CASE ~(k <= Len(t))
    <3> DEFINE i == k - Len(t)
    <3>1. i \in 1 .. Len(u) /\ u[i] = o
      BY <1>1, <1>2, <2>2
    <3> HIDE DEF i
    <3>2. PICK j \in i + 1 .. Len(u) : u[j] = cl
      BY <3>1 DEF ClosedBy
    <3>3. Len(t) + j \in k + 1 .. Len(w) /\ Len(t) + j \in 1 .. Len(w) /\ ~(Len(t) + j <= Len(t))
          /\ Len(t) + j - Len(t) = j
      BY <1>1, <3>1, <3>2 DEF i
    <3>4. w[Len(t) + j] = cl
      BY <1>1, <3>2, <3>3
    <3> QED
      BY <3>3, <3>4
  <2> QED
    BY <2>1, <2>2
<1>3. ClosedBy(w, o, cl)
  BY <1>2 DEF ClosedBy
<1> QED
  BY <1>3 DEF w

(* Atoms are sequences of bytes. *)
LEMMA AtomsTyped == Seq(Atoms) \subseteq Seq(Seq(Bytes))
<1>1. Atoms \subseteq Seq(Bytes)
  BY AtomSound DEF Sound
<1> QED
  BY <1>1, SeqMonotonic

(* A set of texts that holds the empty one and, with each, the text of one *)
(* atom more, holds every text.                                            *)
LEMMA TextInduction ==
  ASSUME NEW T, <<>> \in T,
         \A q \in Seq(Atoms), x \in Atoms : q \in T => Append(q, x) \in T
  PROVE  Seq(Atoms) \subseteq T
<1> DEFINE N == {n \in Nat : \A a \in Seq(Atoms) : Len(a) = n => a \in T}
<1>1. 0 \in N
  BY EmptySeq
<1>2. ASSUME NEW n \in Nat, n \in N
      PROVE  n + 1 \in N
  <2> SUFFICES ASSUME NEW a \in Seq(Atoms), Len(a) = n + 1
               PROVE  a \in T
    OBVIOUS
  <2>1. PICK q \in Seq(Atoms), x \in Atoms : a = Append(q, x)
    BY SequenceEmptyOrAppend, EmptySeq
  <2>2. Len(q) = n
    BY <2>1, AppendProperties, LenProperties
  <2> QED
    BY <1>2, <2>1, <2>2
<1>3. Nat \subseteq N
  <2> HIDE DEF N
  <2> QED
    BY <1>1, <1>2, Induction
<1> QED
  BY <1>3, LenProperties

(* A text of whole atoms leaves nothing open. *)
LEMMA TextClosed ==
  ASSUME NEW a \in Seq(Atoms)
  PROVE  FlattenSeq(a) \in Seq(Bytes) /\ Closed(FlattenSeq(a))
<1> DEFINE T == {q \in Seq(Atoms) : Closed(FlattenSeq(q))}
<1>0. \A q \in Seq(Atoms) : q \in Seq(Seq(Bytes)) /\ FlattenSeq(q) \in Seq(Bytes)
  BY AtomsTyped, FlattenTyped
<1>1. <<>> \in T
  <2>1. <<>> \in Seq(Atoms) /\ Len(<<>>) = 0
    BY EmptySeq
  <2>2. Closed(<<>>)
    BY <2>1 DEF Closed, ClosedBy
  <2> QED
    BY <2>1, <2>2, FlattenEmpty
<1>2. ASSUME NEW q \in Seq(Atoms), NEW x \in Atoms, q \in T
      PROVE  Append(q, x) \in T
  <2>1. x \in Seq(Bytes) /\ Closed(x)
    BY AtomSound DEF Sound
  <2>2. FlattenSeq(Append(q, x)) = FlattenSeq(q) \o x
    BY <1>0, <2>1, FlattenAppend
  <2>3. Closed(FlattenSeq(q) \o x)
    BY <1>0, <1>2, <2>1, ClosedConcat DEF Closed
  <2>4. Append(q, x) \in Seq(Atoms)
    BY AppendProperties
  <2> QED
    BY <2>2, <2>3, <2>4
<1>3. a \in T
  <2> HIDE DEF T
  <2> QED
    BY <1>1, <1>2, TextInduction
<1> QED
  BY <1>0, <1>3

(* Where the first n atoms end. *)
End(a, n) == Len(FlattenSeq(SubSeq(a, 1, n)))

(* The byte after the first c lies in atom n + 1 of t, which is at p. *)
LiesIn(a, t, c, n, p) ==
  /\ p = End(a, n) /\ p <= c /\ c < p + Len(a[n + 1]) /\ p + Len(a[n + 1]) <= Len(t)
  /\ \A j \in 1 .. Len(a[n + 1]) : t[p + j] = a[n + 1][j]

(* Every byte of a text lies in one of its atoms. *)
LEMMA Locate ==
  ASSUME NEW a \in Seq(Atoms), NEW c \in Nat, c < Len(FlattenSeq(a))
  PROVE  \E n \in 0 .. Len(a) - 1, p \in Nat : LiesIn(a, FlattenSeq(a), c, n, p)
<1> DEFINE Good(q) == \A d \in Nat : d < Len(FlattenSeq(q)) =>
                        \E n \in 0 .. Len(q) - 1, p \in Nat : LiesIn(q, FlattenSeq(q), d, n, p)
           T == {q \in Seq(Atoms) : Good(q)}
<1>0. \A q \in Seq(Atoms) : q \in Seq(Seq(Bytes)) /\ FlattenSeq(q) \in Seq(Bytes)
  BY AtomsTyped, FlattenTyped
<1>1. <<>> \in T
  <2>1. <<>> \in Seq(Atoms) /\ Len(<<>>) = 0
    BY EmptySeq
  <2>2. Len(FlattenSeq(<<>>)) = 0
    BY <2>1, FlattenEmpty, Zenon
  <2> QED
    BY <2>1, <2>2
<1>2. ASSUME NEW q \in Seq(Atoms), NEW x \in Atoms, q \in T
      PROVE  Append(q, x) \in T
  <2> DEFINE w == Append(q, x)
             f == FlattenSeq(q)
             g == FlattenSeq(w)
             l == Len(q)
  <2>1. w \in Seq(Atoms) /\ Len(w) = l + 1 /\ l \in Nat /\ w[l + 1] = x /\ \A i \in 1 .. l : w[i] = q[i]
    BY AppendProperties, LenProperties
  <2>2. x \in Seq(Bytes) /\ Len(x) \in Nat
    BY AtomSound DEF Sound
  <2>3. g = f \o x
    BY <1>0, <2>2, FlattenAppend
  <2>4. Len(f) \in Nat /\ Len(g) = Len(f) + Len(x)
        /\ \A i \in 1 .. Len(g) : g[i] = IF i <= Len(f) THEN f[i] ELSE x[i - Len(f)]
    BY <1>0, <2>2, <2>3, ConcatProperties, LenProperties
  <2>5. ASSUME NEW n \in 0 .. l
        PROVE  End(w, n) = End(q, n)
    <3>1. \A i \in 1 .. l : w[i] = q[i] /\ q[i] \in Atoms
      BY <2>1, ElementOfSeq
    <3>2. SubSeq(w, 1, n) \in Seq(Atoms) /\ SubSeq(q, 1, n) \in Seq(Atoms)
          /\ Len(SubSeq(w, 1, n)) = n /\ Len(SubSeq(q, 1, n)) = n
          /\ \A i \in 1 .. n : SubSeq(w, 1, n)[i] = SubSeq(q, 1, n)[i]
      BY <2>1, <3>1, SubSeqProperties
    <3>3. SubSeq(w, 1, n) = SubSeq(q, 1, n)
      BY <3>2, SeqEqual
    <3> QED
      BY <3>3, Zenon DEF End
  <2>6. ASSUME NEW d \in Nat, d < Len(g)
        PROVE  \E n \in 0 .. Len(w) - 1, p \in Nat : LiesIn(w, g, d, n, p)
    <3>1. CASE d < Len(f)
      <4>1. PICK n \in 0 .. l - 1, p \in Nat : LiesIn(q, f, d, n, p)
        BY <1>2, <3>1
      <4>2. n \in 0 .. Len(w) - 1 /\ n \in 0 .. l /\ n + 1 \in 1 .. l
        BY <2>1
      <4>3. w[n + 1] = q[n + 1] /\ End(w, n) = End(q, n)
        BY <2>1, <2>5, <4>2
      <4>4. Len(q[n + 1]) \in Nat
        <5>1. q[n + 1] \in Atoms
          BY <4>2, ElementOfSeq
        <5> QED
          BY <5>1, AtomSound DEF Sound
      <4> HIDE DEF f, g, w, l
      <4>5. ASSUME NEW j \in 1 .. Len(q[n + 1])
            PROVE  g[p + j] = q[n + 1][j]
        <5>0. p \in Nat /\ j \in Nat /\ j >= 1 /\ j <= Len(q[n + 1]) /\ p + Len(q[n + 1]) <= Len(f)
          BY <4>1, <4>4 DEF LiesIn
        <5>1. p + j \in 1 .. Len(f) /\ p + j \in 1 .. Len(g)
          BY <2>2, <2>4, <4>4, <5>0
        <5>2. g[p + j] = f[p + j]
          BY <2>4, <5>1
        <5> QED
          BY <4>1, <5>2 DEF LiesIn
      <4>6. LiesIn(w, g, d, n, p)
        <5>1. p = End(w, n) /\ w[n + 1] = q[n + 1]
          BY <4>1, <4>3 DEF LiesIn
        <5>2. p <= d /\ d < p + Len(q[n + 1]) /\ p + Len(q[n + 1]) <= Len(f)
          BY <4>1 DEF LiesIn
        <5>3. p + Len(q[n + 1]) <= Len(g)
          BY <2>2, <2>4, <4>4, <5>2
        <5> QED
          BY <4>5, <5>1, <5>2, <5>3 DEF LiesIn
      <4> QED
        BY <4>2, <4>6
    <3>2. CASE ~(d < Len(f))
      <4>1. End(w, l) = Len(f)
        <5>1. SubSeq(q, 1, l) = q
          BY SubSeqFull
        <5>2. End(q, l) = Len(f)
          BY <5>1, Zenon DEF End
        <5>3. l \in 0 .. l
          BY <2>1
        <5> HIDE DEF w, f, l
        <5> QED
          BY <2>5, <5>2, <5>3
      <4> HIDE DEF f, g, w, l
      <4>2. ASSUME NEW j \in 1 .. Len(x)
            PROVE  g[Len(f) + j] = x[j]
        <5>1. Len(f) + j \in 1 .. Len(g) /\ ~(Len(f) + j <= Len(f)) /\ Len(f) + j - Len(f) = j
          BY <2>2, <2>4
        <5> QED
          BY <2>4, <5>1
      <4>3. LiesIn(w, g, d, l, Len(f))
        BY <2>1, <2>2, <2>4, <2>6, <3>2, <4>1, <4>2 DEF LiesIn
      <4>4. l \in 0 .. Len(w) - 1
        BY <2>1
      <4> QED
        BY <2>4, <4>3, <4>4
    <3> QED
      BY <3>1, <3>2
  <2> QED
    BY <2>1, <2>6
<1>3. a \in T
  <2> HIDE DEF T
  <2> QED
    BY <1>1, <1>2, TextInduction
<1> QED
  BY <1>3

(* Up to the end of an atom nothing is open, and what comes after it is    *)
(* whole atoms.                                                            *)
LEMMA CutWhole ==
  ASSUME NEW a \in Seq(Atoms), NEW n \in 0 .. Len(a), NEW c, c = End(a, n)
  PROVE  /\ c \in 0 .. Len(FlattenSeq(a))
         /\ SubSeq(FlattenSeq(a), c + 1, Len(FlattenSeq(a))) = FlattenSeq(SubSeq(a, n + 1, Len(a)))
         /\ \A o, cl : Pair(o, cl) =>
              \A k \in 1 .. c : FlattenSeq(a)[k] = o => \E j \in k + 1 .. c : FlattenSeq(a)[j] = cl
<1> DEFINE f == FlattenSeq(a)
<1>1. c = Len(FlattenSeq(SubSeq(a, 1, n)))
  BY DEF End
<1> DEFINE head == FlattenSeq(SubSeq(a, 1, n))
           tail == FlattenSeq(SubSeq(a, n + 1, Len(a)))
<1>2. a \in Seq(Seq(Bytes)) /\ Len(a) \in Nat
  BY AtomsTyped, LenProperties
<1>0. Closed(head)
  <2>1. \A i \in 1 .. n : a[i] \in Atoms
    BY <1>2, ElementOfSeq
  <2>2. SubSeq(a, 1, n) \in Seq(Atoms)
    BY <1>2, <2>1, SubSeqProperties
  <2> QED
    BY <2>2, TextClosed
<1>3. head \in Seq(Bytes) /\ tail \in Seq(Bytes)
  <2>1. \A i \in 1 .. Len(a) : a[i] \in Seq(Bytes)
    BY <1>2, ElementOfSeq
  <2>2. SubSeq(a, 1, n) \in Seq(Seq(Bytes)) /\ SubSeq(a, n + 1, Len(a)) \in Seq(Seq(Bytes))
    BY <1>2, <2>1, SubSeqProperties
  <2> QED
    BY <2>2, FlattenTyped
<1>4. f = head \o tail
  BY <1>2, FlattenSplit
<1>5. Len(head) = c /\ Len(head) \in Nat /\ Len(tail) \in Nat /\ f \in Seq(Bytes) /\ Len(f) = c + Len(tail)
      /\ \A i \in 1 .. Len(f) : f[i] = IF i <= c THEN head[i] ELSE tail[i - c]
  BY <1>1, <1>3, <1>4, ConcatProperties, LenProperties
<1> HIDE DEF head, tail, f
<1>6. SubSeq(f, c + 1, Len(f)) = tail
  <2>1. c + 1 \in Int /\ Len(f) \in Int /\ \A i \in c + 1 .. Len(f) : f[i] \in Bytes
    BY <1>5, ElementOfSeq
  <2>2. SubSeq(f, c + 1, Len(f)) \in Seq(Bytes) /\ Len(SubSeq(f, c + 1, Len(f))) = Len(tail)
        /\ \A i \in 1 .. Len(tail) : SubSeq(f, c + 1, Len(f))[i] = f[c + 1 + i - 1]
    <3>1. Len(f) - (c + 1) + 1 = Len(tail) /\ (c + 1 <= Len(f) \/ Len(tail) = 0)
      BY <1>5
    <3>2. SubSeq(f, c + 1, Len(f)) \in Seq(Bytes)
          /\ Len(SubSeq(f, c + 1, Len(f))) = (IF c + 1 <= Len(f) THEN Len(f) - (c + 1) + 1 ELSE 0)
          /\ \A i \in 1 .. Len(f) - (c + 1) + 1 : SubSeq(f, c + 1, Len(f))[i] = f[c + 1 + i - 1]
      <4> DEFINE low == c + 1
                 high == Len(f)
      <4>1. low \in Int /\ high \in Int /\ \A i \in low .. high : f[i] \in Bytes
        BY <2>1
      <4> HIDE DEF low, high
      <4>2. SubSeq(f, low, high) \in Seq(Bytes)
            /\ Len(SubSeq(f, low, high)) = (IF low <= high THEN high - low + 1 ELSE 0)
            /\ \A i \in 1 .. high - low + 1 : SubSeq(f, low, high)[i] = f[low + i - 1]
        BY <4>1, SubSeqProperties
      <4> QED
        BY <4>2 DEF low, high
    <3> QED
      BY <1>5, <3>1, <3>2
  <2>3. \A i \in 1 .. Len(tail) : f[c + 1 + i - 1] = tail[i]
    BY <1>5
  <2> QED
    BY <1>3, <2>2, <2>3, SeqEqual
<1>7. ASSUME NEW o, NEW cl, Pair(o, cl), NEW k \in 1 .. c, f[k] = o
      PROVE  \E j \in k + 1 .. c : f[j] = cl
  <2>1. k \in 1 .. Len(head) /\ head[k] = o
    BY <1>5, <1>7
  <2>2. PICK j \in k + 1 .. Len(head) : head[j] = cl
    BY <1>0, <1>7, <2>1 DEF Closed, ClosedBy, Pair
  <2>3. j \in k + 1 .. c /\ f[j] = cl
    BY <1>5, <2>2
  <2> QED
    BY <2>3
<1>8. c \in 0 .. Len(f)
  BY <1>5
<1> QED
  BY <1>6, <1>7, <1>8 DEF tail, f

-----------------------------------------------------------------------------
(* Where the code cuts *)

(* A set of numbers up to n has a greatest one, and Max is that. *)
LEMMA MaxOf ==
  ASSUME NEW n \in Nat, NEW S \in SUBSET (0 .. n), S # {}
  PROVE  Max(S) \in S /\ \A y \in S : y <= Max(S)
<1> DEFINE T == {m \in Nat : \A U \in SUBSET (0 .. m) : U # {} => \E x \in U : \A y \in U : x >= y}
<1>1. 0 \in T
  <2> SUFFICES ASSUME NEW U \in SUBSET (0 .. 0), U # {}
               PROVE  \E x \in U : \A y \in U : x >= y
    OBVIOUS
  <2>1. PICK x : x \in U
    OBVIOUS
  <2>2. \A y \in U : y = 0
    OBVIOUS
  <2> QED
    BY <2>1, <2>2
<1>2. ASSUME NEW m \in Nat, m \in T
      PROVE  m + 1 \in T
  <2> SUFFICES ASSUME NEW U \in SUBSET (0 .. m + 1), U # {}
               PROVE  \E x \in U : \A y \in U : x >= y
    OBVIOUS
  <2>1. CASE m + 1 \in U
    BY <2>1
  <2>2. CASE m + 1 \notin U
    <3>1. U \in SUBSET (0 .. m)
      BY <2>2
    <3> QED
      BY <1>2, <3>1
  <2> QED
    BY <2>1, <2>2
<1>3. n \in T
  <2> HIDE DEF T
  <2>1. Nat \subseteq T
    BY <1>1, <1>2, Induction
  <2> QED
    BY <2>1
<1>4. \E x \in S : \A y \in S : x >= y
  BY <1>3
<1>5. Max(S) \in S /\ \A y \in S : Max(S) >= y
  BY <1>4, Zenon DEF Max
<1> QED
  BY <1>5

(* Min of two numbers. *)
LEMMA MinOf ==
  ASSUME NEW a \in Nat, NEW b \in Nat
  PROVE  Min({a, b}) = IF a <= b THEN a ELSE b
<1>1. \E x \in {a, b} : \A y \in {a, b} : x <= y
  OBVIOUS
<1>2. Min({a, b}) \in {a, b} /\ \A y \in {a, b} : Min({a, b}) <= y
  BY <1>1, Zenon DEF Min
<1> QED
  BY <1>2

(* LastIndex finds the last one, if there is one. *)
LEMMA LastIndexIs ==
  ASSUME NEW c, NEW n \in Nat
  PROVE  /\ LastIndex(c, n) \in 0 .. n
         /\ LastIndex(c, n) > 0 => s[LastIndex(c, n)] = c
         /\ \A k \in 1 .. n : s[k] = c => k <= LastIndex(c, n)
<1> DEFINE S == {0} \cup {k \in 1 .. n : s[k] = c}
<1>1. S \in SUBSET (0 .. n) /\ S # {}
  OBVIOUS
<1>2. Max(S) \in S /\ \A y \in S : y <= Max(S)
  <2> HIDE DEF S
  <2> QED
    BY <1>1, MaxOf
<1>3. LastIndex(c, n) = Max(S)
  BY DEF LastIndex
<1> QED
  BY <1>2, <1>3

(* What comes before position p leaves no o open. *)
ClosedTo(p, o, cl) == \A k \in 1 .. p : s[k] = o => \E j \in k + 1 .. p : s[j] = cl

(* Looking back for an unclosed byte does not go behind p; it finds one    *)
(* right after p, if that is where it is.                                  *)
LEMMA UnclosedIs ==
  ASSUME NEW o, NEW cl, o # cl, NEW p \in Nat, NEW c \in Nat, p <= c, ClosedTo(p, o, cl)
  PROVE  /\ Unclosed(o, cl, c) \in p .. c
         /\ c > p /\ s[p + 1] = o /\ (\A k \in p + 2 .. c : s[k] \notin {o, cl}) =>
              Unclosed(o, cl, c) = p
<1> DEFINE at == LastIndex(o, c)
           to == LastIndex(cl, c)
<1>1. /\ at \in 0 .. c /\ (at > 0 => s[at] = o) /\ \A k \in 1 .. c : s[k] = o => k <= at
      /\ to \in 0 .. c /\ (to > 0 => s[to] = cl) /\ \A k \in 1 .. c : s[k] = cl => k <= to
  BY LastIndexIs
<1>2. Unclosed(o, cl, c) = IF at > 0 /\ to < at THEN at - 1 ELSE c
  BY DEF Unclosed
<1> HIDE DEF at, to
<1>3. at > 0 /\ to < at => at > p
  <2> SUFFICES ASSUME at > 0, to < at, at <= p
               PROVE  FALSE
    BY <1>1
  <2>1. PICK j \in at + 1 .. p : s[j] = cl
    BY <1>1 DEF ClosedTo
  <2>2. j <= to
    BY <1>1, <2>1
  <2> QED
    BY <1>1, <2>1, <2>2
<1>4. ASSUME c > p, s[p + 1] = o, \A k \in p + 2 .. c : s[k] \notin {o, cl}
      PROVE  Unclosed(o, cl, c) = p
  <2>1. p + 1 \in 1 .. c
    BY <1>4
  <2>2. at >= p + 1
    BY <1>1, <1>4, <2>1
  <2>3. at = p + 1
    <3>1. at \notin p + 2 .. c
      BY <1>1, <1>4, <2>2
    <3> QED
      BY <1>1, <2>2, <3>1
  <2>4. to <= p
    <3> SUFFICES ASSUME to >= p + 1
                 PROVE  FALSE
      BY <1>1
    <3>1. s[to] = cl
      BY <1>1
    <3>2. to # p + 1
      BY <1>4, <3>1
    <3>3. to \in p + 2 .. c
      BY <1>1, <3>2
    <3> QED
      BY <1>4, <3>1, <3>3
  <2> QED
    BY <1>1, <1>2, <2>3, <2>4
<1> QED
  BY <1>1, <1>2, <1>3, <1>4

(* htmlSafeCut moves a cut in an entity or a tag to where that begins, and *)
(* leaves one at the end of an atom where it is.                           *)
LEMMA SafeCutIs ==
  ASSUME NEW p \in Nat \ {0}, NEW c \in Nat, p <= c,
         ClosedTo(p, "amp", "semi"), ClosedTo(p, "<", ">"),
         \/ c = p
         \/ \E o, cl : Pair(o, cl) /\ s[p + 1] = o /\ \A k \in p + 2 .. c : s[k] \notin {o, cl}
  PROVE  SafeCut(c) = p
<1> DEFINE a == Unclosed("amp", "semi", c)
           t == Unclosed("<", ">", c)
<1>1. a \in p .. c /\ t \in p .. c
  BY UnclosedIs
<1>2. a = p \/ t = p
  <2>1. CASE c = p
    BY <1>1, <2>1
  <2>2. ASSUME c > p, NEW o, NEW cl, Pair(o, cl), s[p + 1] = o, \A k \in p + 2 .. c : s[k] \notin {o, cl}
        PROVE  a = p \/ t = p
    BY <2>2, UnclosedIs DEF Pair
  <2> QED
    BY <2>1, <2>2
<1>3. SafeCut(c) = LET back == Min({a, t}) IN IF back = 0 THEN c ELSE back
  BY DEF SafeCut
<1> HIDE DEF a, t
<1>4. Min({a, t}) = IF a <= t THEN a ELSE t
  BY <1>1, MinOf
<1> QED
  BY <1>1, <1>2, <1>3, <1>4

(* Snapping to a rune does not go behind the beginning p of an atom, and   *)
(* goes there from within a rune.                                          *)
LEMMA RuneCutIs ==
  ASSUME NEW p \in 1 .. tgMaxMessage, tgMaxMessage \in Nat, s[p + 1] # "cont"
  PROVE  /\ RuneCut \in p .. tgMaxMessage
         /\ (\A k \in p + 2 .. tgMaxMessage + 1 : s[k] = "cont") => RuneCut = p
<1> DEFINE M == tgMaxMessage
           starts == {c \in 1 .. M : s[c + 1] # "cont"}
<1>1. starts \in SUBSET (0 .. M) /\ RuneCut = (IF starts = {} THEN M ELSE Max(starts)) /\ p \in starts
  BY DEF RuneCut
<1>2. Max(starts) \in starts /\ \A y \in starts : y <= Max(starts)
  <2> HIDE DEF starts
  <2> QED
    BY <1>1, MaxOf
<1>3. RuneCut = Max(starts) /\ RuneCut \in starts
  BY <1>1, <1>2
<1>4. ASSUME \A k \in p + 2 .. M + 1 : s[k] = "cont"
      PROVE  RuneCut <= p
  <2> SUFFICES ASSUME RuneCut > p
               PROVE  FALSE
    BY <1>3
  <2>1. RuneCut + 1 \in p + 2 .. M + 1
    BY <1>3
  <2> QED
    BY <1>3, <1>4, <2>1
<1> QED
  BY <1>1, <1>2, <1>3, <1>4

(* A cut the code makes is in the second half of the window, and leaves    *)
(* whole atoms.                                                            *)
GoodCut(c) ==
  /\ c \in 1 .. tgMaxMessage /\ c > tgMaxMessage \div 2
  /\ \E n \in 0 .. Len(atoms) :
       SubSeq(s, c + 1, Len(s)) = FlattenSeq(SubSeq(atoms, n + 1, Len(atoms)))

-----------------------------------------------------------------------------
(* The inductive invariant *)

(* Types, and nothing is left once chunk4096 has returned. *)
Typed ==
  /\ atoms \in Seq(Atoms)
  /\ s \in Seq(Bytes)
  /\ out \in Seq(Seq(Bytes))
  /\ done \in BOOLEAN
  /\ done => s = <<>>

IInv == Typed /\ Lossless /\ Fits /\ AtomsWhole

(* A text not yet cut is whole. *)
LEMMA InitEstablishes == Init => IInv
<1> SUFFICES ASSUME Init
             PROVE  IInv
  OBVIOUS
<1>1. atoms \in Seq(Atoms)
  <2>1. PICK n \in 1 .. MaxAtoms : atoms \in [1 .. n -> Atoms]
    BY DEF Init
  <2> QED
    BY <2>1, LimitAssumption
<1>2. s = FlattenSeq(atoms) /\ s \in Seq(Bytes)
  BY <1>1, TextClosed DEF Init
<1>3. Typed
  BY <1>1, <1>2, EmptySeq DEF Init, Typed
<1>4. Lossless
  BY <1>2, FlattenEmpty, ConcatEmptySeq DEF Init, Lossless
<1>5. Fits
  BY EmptySeq DEF Init, Fits
<1>6. AtomsWhole
  <2>1. SubSeq(atoms, 0 + 1, Len(atoms)) = atoms /\ 0 \in 0 .. Len(atoms)
    BY <1>1, SubSeqFull, LenProperties
  <2> QED
    BY <1>2, <2>1 DEF AtomsWhole
<1> QED
  BY <1>3, <1>4, <1>5, <1>6 DEF IInv

(* All that, of the cut c after the first n atoms of a text t, as one fact. *)
CutOf(t, a, n, c) ==
  /\ c \in 0 .. Len(t)
  /\ SubSeq(t, c + 1, Len(t)) = FlattenSeq(SubSeq(a, n + 1, Len(a)))
  /\ \A o, cl : Pair(o, cl) => \A k \in 1 .. c : t[k] = o => \E j \in k + 1 .. c : t[j] = cl

(* It is what CutWhole says of a text and the end of one of its atoms. *)
LEMMA CutIsWhole ==
  ASSUME NEW a \in Seq(Atoms), NEW n \in 0 .. Len(a), NEW c, c = End(a, n)
  PROVE  CutOf(FlattenSeq(a), a, n, c)
BY CutWhole DEF CutOf

(* What it says of the bytes not yet chunked. *)
LEMMA CutOfUse ==
  ASSUME NEW a, NEW n, NEW p, CutOf(s, a, n, p)
  PROVE  /\ p \in 0 .. Len(s)
         /\ SubSeq(s, p + 1, Len(s)) = FlattenSeq(SubSeq(a, n + 1, Len(a)))
         /\ ClosedTo(p, "amp", "semi") /\ ClosedTo(p, "<", ">")
<1>1. Pair("amp", "semi") /\ Pair("<", ">")
  BY DEF Pair
<1> QED
  BY <1>1, Zenon DEF CutOf, ClosedTo

(* A cut of what is left after which whole atoms follow. *)
Boundary(p) ==
  /\ p \in 0 .. Len(s)
  /\ ClosedTo(p, "amp", "semi") /\ ClosedTo(p, "<", ">")
  /\ \E k \in 0 .. Len(atoms) :
       SubSeq(s, p + 1, Len(s)) = FlattenSeq(SubSeq(atoms, k + 1, Len(atoms)))

(* Each atom r of what is left ends at such a cut. *)
LEMMA EndIsGood ==
  ASSUME IInv, NEW m \in 0 .. Len(atoms), NEW r, r = SubSeq(atoms, m + 1, Len(atoms)),
         s = FlattenSeq(r), NEW n \in 0 .. Len(r), NEW p, p = End(r, n)
  PROVE  r \in Seq(Atoms) /\ Boundary(p)
<1> DEFINE l == Len(atoms)
<1>2. l \in Nat /\ atoms \in Seq(Atoms) /\ \A i \in 1 .. l : atoms[i] \in Atoms
  BY LenProperties, ElementOfSeq DEF IInv, Typed
<1>3. r \in Seq(Atoms) /\ Len(r) = l - m /\ \A i \in 1 .. l - m : r[i] = atoms[m + i]
  <2>1. m + 1 \in Int /\ l \in Int /\ (\A i \in m + 1 .. l : atoms[i] \in Atoms) /\ l - (m + 1) + 1 = l - m
    BY <1>2
  <2>2. r \in Seq(Atoms) /\ Len(r) = (IF m + 1 <= l THEN l - (m + 1) + 1 ELSE 0)
        /\ \A i \in 1 .. l - (m + 1) + 1 : r[i] = atoms[m + 1 + i - 1]
    BY <2>1, SubSeqProperties
  <2> QED
    BY <1>2, <2>2
<1> HIDE DEF l
<1>4. /\ p \in 0 .. Len(s)
      /\ SubSeq(s, p + 1, Len(s)) = FlattenSeq(SubSeq(r, n + 1, Len(r)))
      /\ ClosedTo(p, "amp", "semi") /\ ClosedTo(p, "<", ">")
  <2>2. CutOf(FlattenSeq(r), r, n, p)
    BY <1>3, CutIsWhole
  <2>3. CutOf(s, r, n, p)
    BY <2>2
  <2>4. /\ p \in 0 .. Len(s)
        /\ SubSeq(s, p + 1, Len(s)) = FlattenSeq(SubSeq(r, n + 1, Len(r)))
        /\ ClosedTo(p, "amp", "semi") /\ ClosedTo(p, "<", ">")
    BY <2>3, CutOfUse
  <2> QED
    BY <2>4
<1>6. SubSeq(r, n + 1, Len(r)) = SubSeq(atoms, m + n + 1, l)
  <2> DEFINE x == SubSeq(r, n + 1, Len(r))
             y == SubSeq(atoms, m + n + 1, l)
  <2>1. n + 1 \in Int /\ Len(r) \in Int /\ m + n + 1 \in Int /\ l \in Int
        /\ (\A i \in n + 1 .. Len(r) : r[i] \in Atoms) /\ (\A i \in m + n + 1 .. l : atoms[i] \in Atoms)
    <3>1. n \in Nat /\ m \in Nat /\ Len(r) \in Nat
      BY <1>2, <1>3
    <3>2. \A i \in n + 1 .. Len(r) : i \in 1 .. Len(r)
      BY <3>1
    <3>3. \A i \in 1 .. Len(r) : r[i] \in Atoms
      BY <1>3, ElementOfSeq
    <3>4. \A i \in m + n + 1 .. l : i \in 1 .. l
      BY <1>2, <3>1
    <3> QED
      BY <1>2, <3>1, <3>2, <3>3, <3>4
  <2>2. x \in Seq(Atoms) /\ Len(x) = (IF n + 1 <= Len(r) THEN Len(r) - (n + 1) + 1 ELSE 0)
        /\ \A i \in 1 .. Len(r) - (n + 1) + 1 : x[i] = r[n + 1 + i - 1]
    BY <2>1, SubSeqProperties
  <2>3. y \in Seq(Atoms) /\ Len(y) = (IF m + n + 1 <= l THEN l - (m + n + 1) + 1 ELSE 0)
        /\ \A i \in 1 .. l - (m + n + 1) + 1 : y[i] = atoms[m + n + 1 + i - 1]
    BY <2>1, SubSeqProperties
  <2> HIDE DEF x, y
  <2>4. Len(x) = Len(y) /\ Len(x) = Len(r) - n
    <3>1. m \in Nat /\ n \in Nat /\ l \in Nat /\ m <= l /\ n <= Len(r) /\ Len(r) = l - m
      BY <1>2, <1>3
    <3>2. Len(x) = Len(r) - n
      BY <2>2, <3>1
    <3>3. Len(y) = l - (m + n)
      BY <2>3, <3>1
    <3> QED
      BY <3>1, <3>2, <3>3
  <2>5. \A i \in 1 .. Len(x) : x[i] = y[i]
    <3>1. ASSUME NEW i \in 1 .. Len(x)
          PROVE  x[i] = y[i]
      <4>1. /\ n \in Nat /\ m \in Nat /\ l \in Nat /\ i \in Nat /\ i >= 1
            /\ i <= Len(r) - n /\ Len(r) = l - m
        BY <1>2, <1>3, <2>4
      <4>2. x[i] = r[n + 1 + i - 1]
        <5>1. i \in 1 .. Len(r) - (n + 1) + 1
          BY <4>1
        <5> QED
          BY <2>2, <5>1
      <4>3. r[n + i] = atoms[m + (n + i)]
        <5>1. n + i \in 1 .. l - m
          BY <4>1
        <5> QED
          BY <1>3, <5>1
      <4>4. y[i] = atoms[m + n + 1 + i - 1]
        <5>1. i \in 1 .. l - (m + n + 1) + 1
          BY <4>1
        <5> QED
          BY <2>3, <5>1
      <4>5. n + 1 + i - 1 = n + i /\ m + (n + i) = m + n + 1 + i - 1
        BY <4>1
      <4> QED
        BY <4>2, <4>3, <4>4, <4>5
    <3> QED
      BY <3>1
  <2>6. x = y
    BY <2>2, <2>3, <2>4, <2>5, SeqEqual
  <2> QED
    BY <2>6 DEF x, y
<1>7. m + n \in 0 .. l
  BY <1>2, <1>3
<1> QED
  BY <1>3, <1>4, <1>6, <1>7 DEF l, Boundary

(* What of an atom that lies across or ends at a position. *)
LEMMA AtomAt ==
  ASSUME NEW r \in Seq(Atoms), NEW n \in 0 .. Len(r) - 1
  PROVE  r[n + 1] \in Atoms /\ Sound(r[n + 1])
         /\ tgMaxMessage \div 2 + Len(r[n + 1]) <= tgMaxMessage
<1>1. n + 1 \in 1 .. Len(r)
  BY LenProperties
<1> QED
  BY <1>1, ElementOfSeq, AtomSound, LimitAssumption

(* The hard cut: back to where the atom that lies across it begins. *)
LEMMA HardCutIs ==
  ASSUME IInv, Len(s) > tgMaxMessage
  PROVE  GoodCut(SafeCut(RuneCut))
<1> DEFINE M == tgMaxMessage
<1>1. M \in Nat /\ M \div 2 \in Nat
  BY LimitAssumption
<1>2. PICK m \in 0 .. Len(atoms) : s = FlattenSeq(SubSeq(atoms, m + 1, Len(atoms)))
  BY DEF IInv, AtomsWhole
<1> DEFINE r == SubSeq(atoms, m + 1, Len(atoms))
<1>3. r \in Seq(Atoms)
  <2>1. 0 \in 0 .. Len(r)
    <3>1. atoms \in Seq(Atoms) /\ Len(atoms) \in Nat /\ \A i \in m + 1 .. Len(atoms) : atoms[i] \in Atoms
      BY LenProperties, ElementOfSeq DEF IInv, Typed
    <3>2. Len(r) \in Nat
      BY <3>1, SubSeqProperties, LenProperties
    <3> QED
      BY <3>2
  <2> QED
    BY <1>2, <2>1, EndIsGood
<1>4. PICK n \in 0 .. Len(r) - 1, p \in Nat : LiesIn(r, s, M, n, p)
  BY <1>1, <1>2, <1>3, Locate
<1> DEFINE a == r[n + 1]
<1>5. Sound(a) /\ M \div 2 + Len(a) <= M
  BY <1>3, AtomAt
<1>6. Boundary(p)
  <2>1. n \in 0 .. Len(r) /\ p = End(r, n)
    BY <1>3, <1>4, LenProperties DEF LiesIn
  <2>2. r = SubSeq(atoms, m + 1, Len(atoms)) /\ s = FlattenSeq(r)
    BY <1>2
  <2> HIDE DEF r
  <2> QED
    BY <2>1, <2>2, EndIsGood
<1>7. p <= M /\ M < p + Len(a) /\ \A j \in 1 .. Len(a) : s[p + j] = a[j]
  BY <1>4 DEF LiesIn
<1> HIDE DEF M, a, r
<1>8. Len(a) \in Nat \ {0} /\ a[1] # "cont" /\ (RuneLike(a) \/ Bracketed(a))
  BY <1>5 DEF Sound
<1>9. p > M \div 2 /\ p \in 1 .. M /\ s[p + 1] = a[1]
  BY <1>1, <1>5, <1>7, <1>8
<1>10. RuneCut \in p .. M /\ ((\A k \in p + 2 .. M + 1 : s[k] = "cont") => RuneCut = p)
  BY <1>1, <1>8, <1>9, RuneCutIs DEF M
<1>11. ASSUME NEW k, NEW e \in Nat, k \in p + 2 .. e, e <= M + 1
       PROVE  k - p \in 2 .. Len(a) /\ s[k] = a[k - p] /\ (e <= M => k - p \in 2 .. Len(a) - 1)
  <2>1. k - p \in 2 .. Len(a) /\ k - p \in 1 .. Len(a) /\ p + (k - p) = k /\ (e <= M => k - p \in 2 .. Len(a) - 1)
    BY <1>1, <1>7, <1>8, <1>9, <1>11
  <2> QED
    BY <1>7, <2>1
<1>12. CASE RuneLike(a)
  <2>1. ASSUME NEW k \in p + 2 .. M + 1
        PROVE  s[k] = "cont"
    <3>1. M + 1 \in Nat /\ M + 1 <= M + 1
      BY <1>1
    <3>2. k - p \in 2 .. Len(a) /\ s[k] = a[k - p]
      BY <1>11, <3>1
    <3> QED
      BY <1>12, <3>2 DEF RuneLike
  <2>2. RuneCut = p
    BY <1>10, <2>1
  <2>3. SafeCut(RuneCut) = p
    BY <1>6, <1>9, <2>2, SafeCutIs DEF Boundary
  <2> QED
    BY <1>6, <1>9, <2>3 DEF GoodCut, Boundary, M
<1>13. CASE Bracketed(a)
  <2>1. PICK o, cl : Pair(o, cl) /\ a[1] = o /\ \A k \in 2 .. Len(a) - 1 : a[k] \notin {o, cl}
    BY <1>13 DEF Bracketed
  <2>2. ASSUME NEW k \in p + 2 .. RuneCut
        PROVE  s[k] \notin {o, cl}
    <3>1. RuneCut \in Nat /\ RuneCut <= M
      BY <1>1, <1>9, <1>10
    <3>2. RuneCut <= M + 1
      BY <1>1, <3>1
    <3>3. k - p \in 2 .. Len(a) - 1 /\ s[k] = a[k - p]
      BY <1>11, <3>1, <3>2
    <3> QED
      BY <2>1, <3>3
  <2>3. SafeCut(RuneCut) = p
    <3>1. RuneCut \in Nat /\ p \in Nat \ {0} /\ p <= RuneCut
      BY <1>1, <1>9, <1>10
    <3>2. \E x, y : Pair(x, y) /\ s[p + 1] = x /\ \A k \in p + 2 .. RuneCut : s[k] \notin {x, y}
      BY <1>9, <2>1, <2>2, Zenon
    <3> QED
      BY <1>6, <3>1, <3>2, SafeCutIs, Zenon DEF Boundary
  <2> QED
    BY <1>6, <1>9, <2>3 DEF GoodCut, Boundary, M
<1> QED
  BY <1>8, <1>12, <1>13

(* The cut at a newline: an atom ends there, and it is left alone. *)
LEMMA NewlineCutIs ==
  ASSUME IInv, Len(s) > tgMaxMessage, NewlineNear
  PROVE  GoodCut(SafeCut(LastNewline))
<1> DEFINE M == tgMaxMessage
           c == LastNewline
<1>1. M \in Nat /\ M \div 2 \in Nat /\ Len(s) \in Nat
  BY LimitAssumption, LenProperties DEF IInv, Typed
<1>2. c \in 0 .. M /\ (c > 0 => s[c] = "nl") /\ c - 1 > M \div 2
  BY <1>1, LastIndexIs DEF LastNewline, NewlineNear
<1> HIDE DEF c
<1>3. c \in 1 .. M /\ c > M \div 2 /\ s[c] = "nl" /\ c - 1 \in Nat /\ c - 1 < Len(s)
  BY <1>1, <1>2
<1>4. PICK m \in 0 .. Len(atoms) : s = FlattenSeq(SubSeq(atoms, m + 1, Len(atoms)))
  BY DEF IInv, AtomsWhole
<1> DEFINE r == SubSeq(atoms, m + 1, Len(atoms))
<1>5. r \in Seq(Atoms) /\ Len(r) \in Nat
  <2>1. atoms \in Seq(Atoms) /\ Len(atoms) \in Nat /\ \A i \in m + 1 .. Len(atoms) : atoms[i] \in Atoms
    BY LenProperties, ElementOfSeq DEF IInv, Typed
  <2> QED
    BY <2>1, SubSeqProperties, LenProperties
<1>6. PICK n \in 0 .. Len(r) - 1, p \in Nat : LiesIn(r, s, c - 1, n, p)
  BY <1>3, <1>4, <1>5, Locate
<1> DEFINE a == r[n + 1]
<1>7. Sound(a)
  BY <1>5, AtomAt
<1>8. p <= c - 1 /\ c - 1 < p + Len(a) /\ p = End(r, n) /\ \A j \in 1 .. Len(a) : s[p + j] = a[j]
  BY <1>6 DEF LiesIn
<1>9. a \in Seq(Bytes) /\ Len(a) = 1 /\ c = p + 1
  <2> HIDE DEF a, r
  <2>1. a \in Seq(Bytes) /\ Len(a) \in Nat
    BY <1>7 DEF Sound
  <2>2. c - p \in 1 .. Len(a) /\ p + (c - p) = c
    <3>1. p \in Nat /\ c \in Nat /\ c >= 1 /\ p <= c - 1 /\ c - 1 < p + Len(a)
      BY <1>3, <1>8
    <3> QED
      BY <2>1, <3>1
  <2>3. a[c - p] = "nl"
    BY <1>3, <1>8, <2>2
  <2>4. Len(a) = 1
    BY <1>7, <2>2, <2>3 DEF Sound
  <2> QED
    BY <1>3, <2>1, <2>2, <2>4
<1>10. End(r, n + 1) = c
  <2>1. r \in Seq(Seq(Bytes)) /\ n + 1 \in 1 .. Len(r) /\ n \in 0 .. Len(r) /\ n + 1 - 1 = n
    <3>1. r \in Seq(Seq(Bytes))
      BY <1>5, AtomsTyped, Zenon
    <3>2. Len(r) \in Nat /\ n \in Nat /\ n <= Len(r) - 1
      BY <3>1, <1>6, LenProperties
    <3> QED
      BY <3>1, <3>2
  <2>2. \A i \in 1 .. n : r[i] \in Seq(Bytes)
    BY <2>1, ElementOfSeq
  <2>3. SubSeq(r, 1, n) \in Seq(Seq(Bytes))
    BY <2>1, <2>2, SubSeqProperties
  <2>4. SubSeq(r, 1, n + 1) = Append(SubSeq(r, 1, n), a)
    <3>1. 1 \in 1 .. Len(r) /\ n + 1 \in 1 .. Len(r)
      BY <1>5, <2>1
    <3>2. SubSeq(r, 1, n + 1) = SubSeq(r, 1, n) \o <<a>>
      BY <2>1, <3>1, SubSeqRecursiveSecond
    <3> QED
      BY <1>9, <2>3, <3>2, AppendIsConcat
  <2>5. FlattenSeq(SubSeq(r, 1, n + 1)) = FlattenSeq(SubSeq(r, 1, n)) \o a
    BY <1>9, <2>3, <2>4, FlattenAppend
  <2>6. FlattenSeq(SubSeq(r, 1, n)) \in Seq(Bytes)
    BY <2>3, FlattenTyped
  <2> DEFINE before == FlattenSeq(SubSeq(r, 1, n))
  <2>7. Len(before \o a) = Len(before) + Len(a)
    BY <1>9, <2>6, ConcatProperties
  <2> QED
    BY <1>8, <1>9, <2>5, <2>7 DEF End
<1>11. Boundary(c)
  <2>1. n + 1 \in 0 .. Len(r)
    BY <1>5
  <2>2. r = SubSeq(atoms, m + 1, Len(atoms)) /\ s = FlattenSeq(r)
    BY <1>4
  <2> HIDE DEF r
  <2> QED
    BY <1>10, <2>1, <2>2, EndIsGood
<1> HIDE DEF r, a, M
<1>12. SafeCut(c) = c
  BY <1>1, <1>3, <1>11, SafeCutIs DEF Boundary
<1> QED
  BY <1>3, <1>11, <1>12 DEF GoodCut, Boundary, c, M

(* A chunk is cut off. *)
LEMMA SplitKeeps ==
  ASSUME IInv, Len(s) > tgMaxMessage, NEW c, GoodCut(c), Split(c), UNCHANGED <<atoms, done>>
  PROVE  IInv'
<1> DEFINE head == SubSeq(s, 1, c)
           tail == SubSeq(s, c + 1, Len(s))
<1>1. c \in 1 .. tgMaxMessage /\ c > tgMaxMessage \div 2 /\ tgMaxMessage \in Nat
      /\ c \in 1 .. Len(s) /\ Len(s) \in Nat
  BY LimitAssumption, LenProperties DEF GoodCut, IInv, Typed
<1>2. s \in Seq(Bytes) /\ out \in Seq(Seq(Bytes)) /\ atoms \in Seq(Atoms)
      /\ \A i \in 1 .. Len(s) : s[i] \in Bytes
  BY ElementOfSeq DEF IInv, Typed
<1>3. head \in Seq(Bytes) /\ Len(head) = c /\ tail \in Seq(Bytes)
  BY <1>1, <1>2, SubSeqProperties
<1>4. out' = Append(out, head) /\ s' = tail /\ atoms' = atoms /\ done' = done
  BY DEF Split
<1>5. done = FALSE
  BY <1>1, EmptySeq DEF IInv, Typed
<1>6. head \o tail = s
  <2>1. 1 \in 1 .. Len(s) + 1 /\ c \in 1 - 1 .. Len(s) /\ Len(s) \in c .. Len(s)
    BY <1>1
  <2>2. head \o tail = SubSeq(s, 1, Len(s))
    BY <1>2, <2>1, ConcatAdjacentSubSeq
  <2> QED
    BY <1>2, <2>2, SubSeqFull
<1>7. AtomsWhole'
  <2>1. \E n \in 0 .. Len(atoms) : tail = FlattenSeq(SubSeq(atoms, n + 1, Len(atoms)))
    BY DEF GoodCut
  <2> HIDE DEF tail
  <2> QED
    BY <1>4, <2>1 DEF AtomsWhole
<1> HIDE DEF head, tail
<1>8. out' \in Seq(Seq(Bytes)) /\ Len(out') = Len(out) + 1 /\ Len(out) \in Nat
      /\ (\A k \in 1 .. Len(out) : out'[k] = out[k]) /\ out'[Len(out) + 1] = head
      /\ DOMAIN out' = 1 .. Len(out') /\ DOMAIN out = 1 .. Len(out)
  BY <1>2, <1>3, <1>4, AppendProperties, LenProperties
<1>9. Typed'
  BY <1>2, <1>3, <1>4, <1>5, <1>8 DEF Typed
<1>10. Lossless'
  <2>1. FlattenSeq(out') = FlattenSeq(out) \o head /\ FlattenSeq(out) \in Seq(Bytes)
    BY <1>2, <1>3, <1>4, FlattenAppend, FlattenTyped
  <2>2. PICK f \in Seq(Bytes) : f = FlattenSeq(out)
    BY <2>1
  <2>3. IsConcat(f, head, FlattenSeq(out')) /\ IsConcat(head, tail, s)
    BY <1>6, <2>1, <2>2 DEF IsConcat
  <2>4. IsConcat(f, s, FlattenSeq(out') \o tail)
    <3>1. IsConcat(FlattenSeq(out'), tail, FlattenSeq(out') \o tail)
      BY DEF IsConcat
    <3> QED
      BY <1>3, <2>2, <2>3, <3>1, ConcatRegrouped
  <2>5. f \o s = FlattenSeq(atoms)
    BY <2>2 DEF IInv, Lossless
  <2> QED
    BY <1>4, <2>4, <2>5 DEF Lossless, IsConcat
<1>11. Fits'
  <2>1. ASSUME NEW k \in 1 .. Len(out) + 1
        PROVE  Len(out'[k]) \in 1 .. tgMaxMessage /\ Len(out'[k]) > tgMaxMessage \div 2
    <3>1. CASE k = Len(out) + 1
      BY <1>1, <1>3, <1>8, <3>1
    <3>2. CASE k \in 1 .. Len(out)
      BY <1>5, <1>8, <3>2 DEF IInv, Fits
    <3> QED
      BY <1>8, <3>1, <3>2
  <2> QED
    BY <1>8, <2>1 DEF Fits
<1> QED
  BY <1>7, <1>9, <1>10, <1>11 DEF IInv

(* The last chunk is what is left. *)
LEMMA RestKeeps ==
  ASSUME IInv, Rest
  PROVE  IInv'
<1>1. s \in Seq(Bytes) /\ out \in Seq(Seq(Bytes)) /\ atoms \in Seq(Atoms) /\ Len(s) \in Nat
      /\ Len(out) \in Nat /\ Len(atoms) \in Nat /\ tgMaxMessage \in Nat
  BY LimitAssumption, LenProperties DEF IInv, Typed
<1>2. ~done /\ done' = TRUE /\ s' = <<>> /\ atoms' = atoms /\ Len(s) <= tgMaxMessage
      /\ out' = IF s = <<>> THEN out ELSE Append(out, s)
  BY DEF Rest
<1>3. out' \in Seq(Seq(Bytes)) /\ FlattenSeq(out') \in Seq(Bytes) /\ FlattenSeq(out') = FlattenSeq(out) \o s
  <2>1. CASE s = <<>>
    BY <1>1, <1>2, <2>1, FlattenTyped, ConcatEmptySeq
  <2>2. CASE s # <<>>
    BY <1>1, <1>2, <2>2, AppendProperties, FlattenAppend, FlattenTyped
  <2> QED
    BY <2>1, <2>2
<1>4. Typed'
  BY <1>1, <1>2, <1>3, EmptySeq DEF Typed
<1>5. Lossless'
  <2>1. FlattenSeq(out') \o <<>> = FlattenSeq(out')
    BY <1>3, ConcatEmptySeq
  <2> QED
    BY <1>2, <1>3, <2>1 DEF IInv, Lossless
<1>6. AtomsWhole'
  <2>1. SubSeq(atoms, Len(atoms) + 1, Len(atoms)) = <<>>
    BY <1>1, SubSeqEmpty
  <2>2. Len(atoms) \in 0 .. Len(atoms)
    BY <1>1
  <2>3. s' = FlattenSeq(SubSeq(atoms', Len(atoms') + 1, Len(atoms')))
    BY <1>2, <2>1, FlattenEmpty, Zenon
  <2> QED
    BY <1>2, <2>2, <2>3 DEF AtomsWhole
<1>7. Fits'
  <2>1. \A k \in 1 .. Len(out) : Len(out[k]) \in 1 .. tgMaxMessage /\ Len(out[k]) > tgMaxMessage \div 2
    BY <1>1, <1>2, LenProperties DEF IInv, Fits
  <2>2. CASE s = <<>>
    BY <1>1, <1>2, <2>1, <2>2, LenProperties DEF Fits
  <2>3. CASE s # <<>>
    <3>1. Len(out') = Len(out) + 1 /\ DOMAIN out' = 1 .. Len(out) + 1
          /\ (\A k \in 1 .. Len(out) : out'[k] = out[k]) /\ out'[Len(out) + 1] = s
      BY <1>1, <1>2, <2>3, AppendProperties, LenProperties
    <3>2. Len(s) \in 1 .. tgMaxMessage
      BY <1>1, <1>2, <2>3, EmptySeq
    <3>3. ASSUME NEW k \in 1 .. Len(out) + 1
          PROVE  Len(out'[k]) \in 1 .. tgMaxMessage
                 /\ (k < Len(out) + 1 => Len(out'[k]) > tgMaxMessage \div 2)
      <4>1. CASE k = Len(out) + 1
        BY <1>1, <3>1, <3>2, <4>1
      <4>2. CASE k \in 1 .. Len(out)
        BY <2>1, <3>1, <4>2
      <4> QED
        BY <1>1, <4>1, <4>2
    <3> QED
      BY <1>2, <3>1, <3>3 DEF Fits
  <2> QED
    BY <2>2, <2>3
<1> QED
  BY <1>4, <1>5, <1>6, <1>7 DEF IInv

(* Every turn of the loop, and what follows it. *)
LEMMA NextKeeps == IInv /\ [Next]_vars => IInv'
<1> SUFFICES ASSUME IInv, [Next]_vars
             PROVE  IInv'
  OBVIOUS
<1>1. CASE CutAtNewline
  BY <1>1, NewlineCutIs, SplitKeeps DEF CutAtNewline
<1>2. CASE CutHard
  BY <1>2, HardCutIs, SplitKeeps DEF CutHard
<1>3. CASE Rest
  BY <1>3, RestKeeps
<1>4. CASE UNCHANGED vars
  BY <1>4 DEF vars, IInv, Typed, Lossless, Fits, AtomsWhole
<1> QED
  BY <1>1, <1>2, <1>3, <1>4 DEF Next

-----------------------------------------------------------------------------
(* The theorems *)

(* What was cut and what is left are the text, every chunk but the last    *)
(* fills half a message, and what is left begins with a whole atom: true   *)
(* of every text and every limit at least twice as long as each atom.      *)
THEOREM Inductive == Spec => []IInv
  BY InitEstablishes, NextKeeps, PTL DEF Spec

(* "Chunks are lossless" (keyboards.go), however long the text. *)
THEOREM ChunksLossless == Spec => []Lossless
<1>1. IInv => Lossless
  BY DEF IInv
<1> QED
  BY <1>1, Inductive, PTL

(* Telegram takes every chunk for its size, and a text costs at most twice *)
(* the messages it must.                                                   *)
THEOREM ChunksFit == Spec => []Fits
<1>1. IInv => Fits
  BY DEF IInv
<1> QED
  BY <1>1, Inductive, PTL

(* No cut is inside a rune, an entity or a tag, wherever newlines lie. *)
THEOREM CutsBetweenAtoms == Spec => []AtomsWhole
<1>1. IInv => AtomsWhole
  BY DEF IInv
<1> QED
  BY <1>1, Inductive, PTL
=============================================================================
