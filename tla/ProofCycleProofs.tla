--------------------------- MODULE ProofCycleProofs ---------------------------
(***************************************************************************)
(* What is durable in the proof database is whole, no step takes any of it *)
(* back, the verifier and the flip analysis read it right, no session      *)
(* spends a visit on what is settled, and every visit gains something: for *)
(* any game tree, any number of folds and sessions, any crash and any      *)
(* number of faults.                                                       *)
(***************************************************************************)
EXTENDS ProofCycle, TLAPS, FiniteSetTheorems, SequenceTheorems, WellFoundedInduction

-----------------------------------------------------------------------------
(* Paths.                                                                  *)

(* A set that holds zero and, with a number, the next one.                 *)
LEMMA Counting ==
    ASSUME NEW N \in Nat, NEW S, 0 \in S, \A k \in 0 .. N : k # 0 /\ k - 1 \in S => k \in S
    PROVE  0 .. N \subseteq S
<1> DEFINE Bad == {k \in 0 .. N : k \notin S}
<1> SUFFICES ASSUME Bad # {} PROVE FALSE
    OBVIOUS
<1>1. Bad \subseteq Nat
    OBVIOUS
<1>2. PICK m \in Bad : \A k \in Bad : ~ (<<k, m>> \in OpToRel(<, Nat))
    <2> HIDE DEF Bad
    <2>1. QED
        BY <1>1, NatLessThanWellFounded, WFMin
<1>3. m \in 0 .. N /\ m \notin S /\ m # 0
    OBVIOUS
<1>4. m - 1 \in Nat /\ m - 1 < m /\ m - 1 \in 0 .. N /\ m \in Nat
    BY <1>3
<1>5. <<m - 1, m>> \in OpToRel(<, Nat)
    BY <1>4 DEF OpToRel
<1>6. m - 1 \notin Bad
    BY <1>2, <1>5
<1>7. QED
    BY <1>3, <1>4, <1>6

LEMMA SubSeqIs ==
    ASSUME NEW p \in Seq(Nat), NEW n \in 0 .. Len(p)
    PROVE  /\ SubSeq(p, 1, n) \in Seq(Nat) /\ Len(SubSeq(p, 1, n)) = n
           /\ \A i \in 1 .. n : SubSeq(p, 1, n)[i] = p[i]
<1>1. \A i \in 1 .. n : p[i] \in Nat
    OBVIOUS
<1>2. QED
    BY <1>1, SubSeqProperties

LEMMA PrefixIs ==
    ASSUME NEW p \in Seq(Nat), NEW q \in Seq(Nat)
    PROVE  IsPrefix(p, q) <=> Len(p) <= Len(q) /\ \A i \in 1 .. Len(p) : p[i] = q[i]
<1>1. SubSeq(p, 1, Len(p)) = p
    BY SubSeqFull
<1>2. ASSUME Len(p) <= Len(q)
      PROVE  p = SubSeq(q, 1, Len(p)) <=> \A i \in 1 .. Len(p) : p[i] = q[i]
    <2>1. Len(p) \in 0 .. Len(q)
        BY <1>2
    <2>2. /\ SubSeq(q, 1, Len(p)) \in Seq(Nat) /\ Len(SubSeq(q, 1, Len(p))) = Len(p)
          /\ \A i \in 1 .. Len(p) : SubSeq(q, 1, Len(p))[i] = q[i]
        BY <2>1, SubSeqIs
    <2>3. QED
        BY <2>2, SeqEqual
<1>3. QED
    BY <1>1, <1>2 DEF IsPrefix

LEMMA PrefixRefl ==
    ASSUME NEW p \in Seq(Nat)
    PROVE  IsPrefix(p, p)
BY PrefixIs

LEMMA PrefixTrans ==
    ASSUME NEW p \in Seq(Nat), NEW q \in Seq(Nat), NEW r \in Seq(Nat), IsPrefix(p, q), IsPrefix(q, r)
    PROVE  IsPrefix(p, r)
BY PrefixIs

LEMMA PrefixSame ==
    ASSUME NEW p \in Seq(Nat), NEW q \in Seq(Nat), IsPrefix(p, q), Len(q) <= Len(p)
    PROVE  p = q
BY PrefixIs, SeqEqual

(* Two prefixes of one path are prefixes of each other.                    *)
LEMMA PrefixLinear ==
    ASSUME NEW p \in Seq(Nat), NEW q \in Seq(Nat), NEW r \in Seq(Nat), IsPrefix(p, r), IsPrefix(q, r),
           Len(p) <= Len(q)
    PROVE  IsPrefix(p, q)
BY PrefixIs

LEMMA EmptyPrefix ==
    ASSUME NEW p \in Seq(Nat)
    PROVE  <<>> \in Seq(Nat) /\ IsPrefix(<<>>, p)
<1>1. <<>> \in Seq(Nat) /\ Len(<<>>) = 0
    BY EmptySeq
<1>2. Len(<<>>) <= Len(p) /\ 1 .. Len(<<>>) = {}
    BY <1>1
<1>3. IsPrefix(<<>>, p)
    BY <1>1, <1>2, PrefixIs
<1>4. QED
    BY <1>1, <1>3

LEMMA FrontIs ==
    ASSUME NEW p \in Seq(Nat), p # <<>>
    PROVE  /\ Front(p) \in Seq(Nat) /\ Len(Front(p)) = Len(p) - 1 /\ Len(p) \in Nat \ {0}
           /\ \A i \in 1 .. Len(p) - 1 : Front(p)[i] = p[i]
           /\ Last(p) = p[Len(p)] /\ Last(p) \in Nat
           /\ p = Append(Front(p), Last(p))
           /\ IsPrefix(Front(p), p)
<1>1. Len(p) \in Nat \ {0}
    BY EmptySeq
<1>2. Len(p) - 1 \in 0 .. Len(p)
    BY <1>1
<1>3. /\ Front(p) \in Seq(Nat) /\ Len(Front(p)) = Len(p) - 1
      /\ \A i \in 1 .. Len(p) - 1 : Front(p)[i] = p[i]
    BY <1>2, SubSeqIs DEF Front
<1>4. Last(p) = p[Len(p)] /\ Last(p) \in Nat
    BY <1>1 DEF Last
<1> DEFINE a == Append(Front(p), Last(p))
<1>5. a \in Seq(Nat) /\ Len(a) = Len(p) /\ \A i \in 1 .. Len(p) : a[i] = p[i]
    BY <1>1, <1>3, <1>4, AppendProperties
<1> HIDE DEF a
<1>6. p = a
    BY <1>5, SeqEqual
<1>7. IsPrefix(Front(p), p)
    <2>1. Len(Front(p)) <= Len(p)
        BY <1>1, <1>3
    <2>2. \A i \in 1 .. Len(Front(p)) : Front(p)[i] = p[i]
        BY <1>3
    <2>3. QED
        BY <1>3, <2>1, <2>2, PrefixIs
<1>8. QED
    BY <1>1, <1>3, <1>4, <1>6, <1>7 DEF a

LEMMA AppendIs ==
    ASSUME NEW p \in Seq(Nat), NEW m \in Nat
    PROVE  /\ Append(p, m) \in Seq(Nat) /\ Len(Append(p, m)) = Len(p) + 1
           /\ Append(p, m) # <<>> /\ Front(Append(p, m)) = p /\ Last(Append(p, m)) = m
           /\ IsPrefix(p, Append(p, m))
<1> DEFINE a == Append(p, m)
<1>1. a \in Seq(Nat) /\ Len(a) = Len(p) + 1 /\ a[Len(p) + 1] = m /\ \A i \in 1 .. Len(p) : a[i] = p[i]
    BY AppendProperties
<1> HIDE DEF a
<1>2. a # <<>>
    BY <1>1
<1>3. Front(a) \in Seq(Nat) /\ Len(Front(a)) = Len(p) /\ \A i \in 1 .. Len(p) : Front(a)[i] = p[i]
    <2>1. Len(a) - 1 = Len(p)
        BY <1>1
    <2>2. /\ Front(a) \in Seq(Nat) /\ Len(Front(a)) = Len(a) - 1
          /\ \A i \in 1 .. Len(a) - 1 : Front(a)[i] = a[i]
        BY <1>1, <1>2, FrontIs
    <2>3. QED
        BY <1>1, <2>1, <2>2
<1>4. Front(a) = p
    BY <1>3, SeqEqual
<1>5. Last(a) = m
    BY <1>1, <1>2, FrontIs
<1>6. IsPrefix(p, a)
    BY <1>1, PrefixIs
<1>7. QED
    BY <1>1, <1>2, <1>4, <1>5, <1>6 DEF a

(* A prefix of a path is the path itself or a prefix of its front.         *)
LEMMA PrefixStep ==
    ASSUME NEW p \in Seq(Nat), NEW q \in Seq(Nat), q # <<>>
    PROVE  IsPrefix(p, q) <=> p = q \/ IsPrefix(p, Front(q))
<1>1. Front(q) \in Seq(Nat) /\ Len(Front(q)) = Len(q) - 1 /\ \A i \in 1 .. Len(q) - 1 : Front(q)[i] = q[i]
    BY FrontIs
<1>2. Len(p) \in Nat /\ Len(q) \in Nat
    OBVIOUS
<1>3. ASSUME IsPrefix(p, q), p # q
      PROVE  IsPrefix(p, Front(q))
    <2>1. Len(p) <= Len(q) - 1
        BY <1>2, <1>3, PrefixIs, PrefixSame
    <2>2. \A i \in 1 .. Len(p) : p[i] = Front(q)[i]
        <3>1. \A i \in 1 .. Len(p) : p[i] = q[i]
            BY <1>3, PrefixIs
        <3>2. \A i \in 1 .. Len(p) : i \in 1 .. Len(q) - 1
            BY <1>2, <2>1
        <3>3. QED
            BY <1>1, <3>1, <3>2
    <2>3. QED
        BY <1>1, <2>1, <2>2, PrefixIs
<1>4. ASSUME IsPrefix(p, Front(q))
      PROVE  IsPrefix(p, q)
    BY <1>1, <1>4, FrontIs, PrefixTrans
<1>5. QED
    BY <1>3, <1>4, PrefixRefl

LEMMA PathIs ==
    ASSUME NEW p \in Paths
    PROVE  /\ p \in Seq(Nat) /\ Len(p) \in Nat
           /\ p # <<>> => /\ Front(p) \in Paths /\ Last(p) \in Replies[Front(p)]
                          /\ Len(Front(p)) = Len(p) - 1 /\ p = Append(Front(p), Last(p))
           /\ \A m \in Replies[p] : /\ Append(p, m) \in Paths /\ m \in Nat
                                    /\ Append(p, m) # <<>> /\ Front(Append(p, m)) = p
                                    /\ Last(Append(p, m)) = m
<1>1. p \in Seq(Nat)
    BY ReplyTree
<1>2. p # <<>> => Front(p) \in Paths /\ Last(p) \in Replies[Front(p)]
    BY ReplyTree
<1>3. p # <<>> => Len(Front(p)) = Len(p) - 1 /\ p = Append(Front(p), Last(p))
    BY <1>1, FrontIs
<1>4. \A m \in Replies[p] : Append(p, m) \in Paths /\ m \in Nat
    BY ReplyTree
<1>5. \A m \in Replies[p] : Append(p, m) # <<>> /\ Front(Append(p, m)) = p /\ Last(Append(p, m)) = m
    BY <1>1, <1>4, AppendIs
<1>6. QED
    BY <1>1, <1>2, <1>3, <1>4, <1>5

(* The prefixes of a path are paths.                                       *)
LEMMA PrefixInPaths ==
    ASSUME NEW q \in Paths, NEW p \in Seq(Nat), IsPrefix(p, q)
    PROVE  p \in Paths
<1> DEFINE S == {n \in Nat : \A r \in Paths : Len(r) = n /\ IsPrefix(p, r) => p \in Paths}
<1>1. 0 \in S
    <2> SUFFICES ASSUME NEW r \in Paths, Len(r) = 0, IsPrefix(p, r) PROVE p \in Paths
        OBVIOUS
    <2>1. p = r
        BY PathIs, PrefixSame
    <2>2. QED
        BY <2>1
<1>2. ASSUME NEW n \in 0 .. Len(q), n # 0, n - 1 \in S
      PROVE  n \in S
    <2>1. n \in Nat /\ n - 1 \in Nat
        BY <1>2, PathIs
    <2> SUFFICES ASSUME NEW r \in Paths, Len(r) = n, IsPrefix(p, r) PROVE p \in Paths
        BY <2>1
    <2>2. r # <<>> /\ r \in Seq(Nat)
        BY <1>2, PathIs
    <2>3. CASE p = r
        BY <2>3
    <2>4. CASE IsPrefix(p, Front(r))
        <3>1. Front(r) \in Paths /\ Len(Front(r)) = n - 1
            BY <2>2, PathIs
        <3>2. QED
            BY <1>2, <2>4, <3>1
    <2>5. QED
        BY <2>2, <2>3, <2>4, PrefixStep
<1>3. Len(q) \in Nat
    BY PathIs
<1>4. 0 .. Len(q) \subseteq S
    <2> HIDE DEF S
    <2>1. QED
        BY <1>1, <1>2, <1>3, Counting
<1>5. QED
    BY <1>3, <1>4

LEMMA PrefixesIs ==
    ASSUME NEW p \in Seq(Nat), NEW q
    PROVE  q \in Prefixes(p) <=> q \in Seq(Nat) /\ IsPrefix(q, p)
<1>1. ASSUME q \in Prefixes(p)
      PROVE  q \in Seq(Nat) /\ IsPrefix(q, p)
    <2>1. PICK n \in 0 .. Len(p) : q = SubSeq(p, 1, n)
        BY <1>1 DEF Prefixes
    <2>2. q \in Seq(Nat) /\ Len(q) = n /\ \A i \in 1 .. n : q[i] = p[i]
        BY <2>1, SubSeqIs
    <2>3. QED
        BY <2>2, PrefixIs
<1>2. ASSUME q \in Seq(Nat), IsPrefix(q, p)
      PROVE  q \in Prefixes(p)
    <2>1. Len(q) \in 0 .. Len(p) /\ SubSeq(q, 1, Len(q)) = SubSeq(p, 1, Len(q))
        BY <1>2 DEF IsPrefix
    <2>2. q = SubSeq(p, 1, Len(q))
        BY <1>2, <2>1, SubSeqFull
    <2>3. QED
        BY <2>1, <2>2 DEF Prefixes
<1>3. QED
    BY <1>1, <1>2

(* The kids of a node are the rows whose front it is.                      *)
LEMMA KidsIs ==
    ASSUME NEW f, DOMAIN f \subseteq Paths, NEW q \in Paths, NEW r
    PROVE  r \in Kids(f, q) <=> r \in DOMAIN f /\ r # <<>> /\ Front(r) = q
<1>1. r \in Kids(f, q) <=> r \in DOMAIN f /\ Len(r) = Len(q) + 1 /\ IsPrefix(q, r)
    BY DEF Kids
<1>2. ASSUME r \in DOMAIN f
      PROVE  Len(r) = Len(q) + 1 /\ IsPrefix(q, r) <=> r # <<>> /\ Front(r) = q
    <2>1. r \in Seq(Nat) /\ q \in Seq(Nat) /\ Len(q) \in Nat /\ Len(r) \in Nat
        BY <1>2, PathIs
    <2>2. ASSUME Len(r) = Len(q) + 1, IsPrefix(q, r)
          PROVE  r # <<>> /\ Front(r) = q
        <3>1. r # <<>> /\ q # r
            BY <2>1, <2>2
        <3>2. IsPrefix(q, Front(r)) /\ Front(r) \in Seq(Nat) /\ Len(Front(r)) = Len(r) - 1
            BY <2>1, <2>2, <3>1, PrefixStep, FrontIs
        <3>3. QED
            BY <2>1, <2>2, <3>1, <3>2, PrefixSame
    <2>3. ASSUME r # <<>>, Front(r) = q
          PROVE  Len(r) = Len(q) + 1 /\ IsPrefix(q, r)
        BY <2>1, <2>3, FrontIs
    <2>4. QED
        BY <2>2, <2>3
<1>3. QED
    BY <1>1, <1>2

(* No path is longer than some number.                                     *)
LEMMA PathsBounded == \E N \in Nat : \A q \in Paths : Len(q) <= N
<1>1. PICK n \in Nat : \E f \in [1 .. n -> Paths] : \A q \in Paths : \E i \in 1 .. n : f[i] = q
    BY ReplyTree, FS_NatSurjection DEF ExistsSurjection, Surjection
<1>2. PICK f \in [1 .. n -> Paths] : \A q \in Paths : \E i \in 1 .. n : f[i] = q
    BY <1>1
<1>3. \A i \in 1 .. n : Len(f[i]) \in Nat
    BY PathIs
<1> DEFINE S == {k \in Nat : k <= n => \E N \in Nat : \A i \in 1 .. k : Len(f[i]) <= N}
<1>4. 0 \in S
    <2>1. \A i \in 1 .. 0 : Len(f[i]) <= 0
        OBVIOUS
    <2>2. QED
        BY <2>1
<1>5. ASSUME NEW k \in 0 .. n, k # 0, k - 1 \in S
      PROVE  k \in S
    <2>1. k \in Nat /\ k - 1 \in Nat /\ k \in 1 .. n /\ k - 1 <= n
        BY <1>5
    <2>2. PICK N \in Nat : \A i \in 1 .. k - 1 : Len(f[i]) <= N
        BY <1>5, <2>1
    <2> DEFINE M == IF Len(f[k]) > N THEN Len(f[k]) ELSE N
    <2>3. M \in Nat /\ M >= N /\ Len(f[k]) <= M
        BY <1>3, <2>1
    <2>4. \A i \in 1 .. k : Len(f[i]) <= M
        <3> SUFFICES ASSUME NEW i \in 1 .. k PROVE Len(f[i]) <= M
            OBVIOUS
        <3>1. i = k \/ i \in 1 .. k - 1
            BY <2>1
        <3>2. i \in 1 .. n
            BY <2>1
        <3> HIDE DEF M
        <3>3. i \in 1 .. k - 1 => Len(f[i]) <= N /\ Len(f[i]) \in Nat
            BY <1>3, <2>2, <3>2
        <3>4. QED
            BY <2>3, <3>1, <3>3
    <2> HIDE DEF M
    <2>5. QED
        BY <2>1, <2>3, <2>4
<1>6. n \in S
    <2> HIDE DEF S
    <2>1. 0 .. n \subseteq S
        BY <1>4, <1>5, Counting
    <2>2. QED
        BY <2>1
<1>7. PICK N \in Nat : \A i \in 1 .. n : Len(f[i]) <= N
    BY <1>6
<1>8. QED
    BY <1>2, <1>7

(* A rule that tells the value at a path from the values at longer ones.   *)
Upward(D, V, step) ==
    /\ D \subseteq Paths /\ V # {}
    /\ \A q \in D : \A f \in [D -> V] : step[<<q, f>>] \in V
    /\ \A q \in D : \A f, g \in [D -> V] :
          (\A r \in D : Len(r) > Len(q) => f[r] = g[r]) => step[<<q, f>>] = step[<<q, g>>]

(* The equation of such a rule has a solution.                             *)
LEMMA Recursion ==
    ASSUME NEW D, NEW V, NEW step, Upward(D, V, step)
    PROVE  \E f \in [D -> V] : \A q \in D : f[q] = step[<<q, f>>]
<1> USE DEF Upward
<1>1. PICK N \in Nat : \A q \in Paths : Len(q) <= N
    BY PathsBounded
<1>2. \A q \in D : Len(q) \in Nat /\ Len(q) <= N
    BY <1>1, PathIs
<1> DEFINE Told(n, f) == \A q \in D : Len(q) + n > N => f[q] = step[<<q, f>>]
           S == {n \in Nat : \E f \in [D -> V] : Told(n, f)}
<1>3. 0 \in S
    <2>1. PICK v \in V : TRUE
        OBVIOUS
    <2>2. [q \in D |-> v] \in [D -> V]
        BY <2>1
    <2>3. Told(0, [q \in D |-> v])
        BY <1>2
    <2> HIDE DEF Told
    <2>4. QED
        BY <2>2, <2>3
<1>4. ASSUME NEW n \in 0 .. N + 1, n # 0, n - 1 \in S
      PROVE  n \in S
    <2>1. n \in Nat /\ n - 1 \in Nat
        BY <1>4
    <2>2. PICK f \in [D -> V] : Told(n - 1, f)
        BY <1>4
    <2> DEFINE g == [q \in D |-> step[<<q, f>>]]
    <2>3. g \in [D -> V]
        OBVIOUS
    <2>4. ASSUME NEW q \in D, Len(q) + n > N
          PROVE  g[q] = step[<<q, g>>]
        <3>1. ASSUME NEW r \in D, Len(r) > Len(q)
              PROVE  f[r] = g[r]
            <4>1. Len(r) + (n - 1) > N
                BY <1>2, <2>1, <2>4, <3>1
            <4>2. QED
                BY <2>2, <4>1
        <3>2. g[q] = step[<<q, f>>]
            OBVIOUS
        <3> HIDE DEF g
        <3>3. QED
            BY <2>3, <3>1, <3>2
    <2>5. Told(n, g)
        BY <2>4
    <2> HIDE DEF g, Told
    <2>6. QED
        BY <2>1, <2>3, <2>5
<1>5. N + 1 \in S
    <2> HIDE DEF S
    <2>1. N + 1 \in Nat /\ N + 1 \in 0 .. N + 1
        BY <1>1
    <2>2. 0 .. N + 1 \subseteq S
        BY <1>3, <1>4, <2>1, Counting
    <2>3. QED
        BY <2>1, <2>2
<1>6. PICK f \in [D -> V] : Told(N + 1, f)
    BY <1>5
<1>7. QED
    BY <1>1, <1>2, <1>6

(* Something that the fronts pass on holds of every path below a first one. *)
LEMMA Downward ==
    ASSUME NEW p \in Paths, NEW S, p \in S,
           \A q \in Paths : q # p /\ IsPrefix(p, q) /\ Front(q) \in S => q \in S
    PROVE  \A q \in Paths : IsPrefix(p, q) => q \in S
<1> DEFINE T == {n \in Nat : \A q \in Paths : Len(q) = n /\ IsPrefix(p, q) => q \in S}
<1>1. 0 \in T
    <2> SUFFICES ASSUME NEW q \in Paths, Len(q) = 0, IsPrefix(p, q) PROVE q \in S
        OBVIOUS
    <2>1. p = q
        BY PathIs, PrefixSame
    <2>2. QED
        BY <2>1
<1>2. ASSUME NEW N \in Nat, NEW n \in 0 .. N, n # 0, n - 1 \in T
      PROVE  n \in T
    <2>1. n \in Nat /\ n - 1 \in Nat
        BY <1>2
    <2> SUFFICES ASSUME NEW q \in Paths, Len(q) = n, IsPrefix(p, q), q # p PROVE q \in S
        BY <2>1
    <2>2. q # <<>>
        BY <1>2
    <2>3. Front(q) \in Paths /\ Len(Front(q)) = n - 1 /\ p \in Seq(Nat) /\ q \in Seq(Nat)
        BY <2>2, PathIs
    <2>4. IsPrefix(p, Front(q))
        BY <2>2, <2>3, PrefixStep
    <2>5. Front(q) \in S
        BY <1>2, <2>3, <2>4
    <2>6. QED
        BY <2>5
<1>3. ASSUME NEW N \in Nat PROVE N \in T
    <2> HIDE DEF T
    <2>1. 0 .. N \subseteq T
        BY <1>1, <1>2, Counting
    <2>2. QED
        BY <2>1
<1> SUFFICES ASSUME NEW q \in Paths, IsPrefix(p, q) PROVE q \in S
    OBVIOUS
<1>4. Len(q) \in Nat
    BY PathIs
<1>5. QED
    BY <1>3, <1>4

-----------------------------------------------------------------------------
(* What positions are worth, and what a shard claims.                      *)

Worths == {"win", "loss", "draw"}

(* The equation of Value.                                                  *)
LEMMA ValueIs ==
    \A q \in Paths :
        Value[q] = IF Replies[q] = {} THEN Ended[q]
                   ELSE IF "loss" \in {Value[Append(q, m)] : m \in Replies[q]} THEN "win"
                   ELSE IF {Value[Append(q, m)] : m \in Replies[q]} = {"win"} THEN "loss" ELSE "draw"
<1> DEFINE Sum(q, f) == IF Replies[q] = {} THEN Ended[q]
                        ELSE IF "loss" \in {f[Append(q, m)] : m \in Replies[q]} THEN "win"
                        ELSE IF {f[Append(q, m)] : m \in Replies[q]} = {"win"} THEN "loss" ELSE "draw"
           step == [x \in Paths \X [Paths -> Worths] |-> Sum(x[1], x[2])]
<1>1. \A q \in Paths : Replies[q] = {} => Ended[q] \in Worths
    BY ReplyTree DEF Worths
<1>2. \A q \in Paths : \A f : Sum(q, f) \in Worths
    BY <1>1 DEF Worths
<1>3. ASSUME NEW q \in Paths, NEW f \in [Paths -> Worths], NEW g \in [Paths -> Worths],
             \A r \in Paths : Len(r) > Len(q) => f[r] = g[r]
      PROVE  Sum(q, f) = Sum(q, g)
    <2>1. \A m \in Replies[q] : f[Append(q, m)] = g[Append(q, m)]
        <3> SUFFICES ASSUME NEW m \in Replies[q] PROVE f[Append(q, m)] = g[Append(q, m)]
            OBVIOUS
        <3>1. /\ Append(q, m) \in Paths /\ q \in Seq(Nat) /\ m \in Nat /\ Len(q) \in Nat
            BY PathIs
        <3>2. Len(Append(q, m)) = Len(q) + 1
            BY <3>1, AppendIs
        <3> DEFINE r == Append(q, m)
        <3>3. r \in Paths /\ Len(r) > Len(q)
            BY <3>1, <3>2
        <3> HIDE DEF r
        <3>4. f[r] = g[r]
            BY <1>3, <3>3
        <3>5. QED
            BY <3>4 DEF r
    <2>2. {f[Append(q, m)] : m \in Replies[q]} = {g[Append(q, m)] : m \in Replies[q]}
        BY <2>1
    <2>3. QED
        BY <2>2
<1>4. Value = CHOOSE v : v = [q \in Paths |-> Sum(q, v)]
    BY DEF Value, Table
<1>5. \A q \in Paths : \A f : Sum(q, f) \in Worths
    BY <1>2
<1> HIDE DEF Sum
<1>6. \A q \in Paths : \A f \in [Paths -> Worths] : step[<<q, f>>] = Sum(q, f)
    OBVIOUS
<1> HIDE DEF step
<1>7. PICK f \in [Paths -> Worths] : \A q \in Paths : f[q] = step[<<q, f>>]
    <2>1. Worths # {} /\ Paths \subseteq Paths
        BY DEF Worths
    <2>2. \A q \in Paths : \A h, g \in [Paths -> Worths] :
             (\A r \in Paths : Len(r) > Len(q) => h[r] = g[r]) => step[<<q, h>>] = step[<<q, g>>]
        BY <1>3, <1>6
    <2>3. \A q \in Paths : \A h \in [Paths -> Worths] : step[<<q, h>>] \in Worths
        BY <1>5, <1>6
    <2>4. Upward(Paths, Worths, step)
        BY <2>1, <2>2, <2>3 DEF Upward
    <2>5. QED
        BY <2>4, Recursion
<1>8. f = [q \in Paths |-> Sum(q, f)]
    BY <1>6, <1>7
<1>9. Value = [q \in Paths |-> Sum(q, Value)]
    BY <1>4, <1>8
<1>10. \A q \in Paths : Value[q] = Sum(q, Value)
    BY <1>9
<1>11. QED
    BY <1>10 DEF Sum

(* A won position has a lost reply, the replies to a lost one are won.     *)
LEMMA ValueFacts ==
    ASSUME NEW q \in Paths
    PROVE  /\ Value[q] \in Worths
           /\ Value[q] = "win" => LostMoves(q) # {}
           /\ Value[q] = "loss" => \A m \in Replies[q] : Value[Append(q, m)] = "win"
           /\ Replies[q] = {} => Value[q] = Ended[q] /\ Value[q] # "win"
<1> DEFINE kids == {Value[Append(q, m)] : m \in Replies[q]}
<1>1. Value[q] = IF Replies[q] = {} THEN Ended[q]
                 ELSE IF "loss" \in kids THEN "win" ELSE IF kids = {"win"} THEN "loss" ELSE "draw"
    BY ValueIs
<1>2. Replies[q] = {} => Ended[q] \in {"loss", "draw"}
    BY ReplyTree
<1>3. "loss" \in kids <=> LostMoves(q) # {}
    BY DEF LostMoves
<1>4. kids = {"win"} => \A m \in Replies[q] : Value[Append(q, m)] = "win"
    OBVIOUS
<1> HIDE DEF kids
<1>5. QED
    BY <1>1, <1>2, <1>3, <1>4 DEF Worths

(* The prefixes of a path with one move more.                              *)
LEMMA AppendSub ==
    ASSUME NEW q \in Seq(Nat), NEW m \in Nat, NEW k \in 0 .. Len(q)
    PROVE  /\ SubSeq(Append(q, m), 1, k) = SubSeq(q, 1, k)
           /\ k < Len(q) => Append(q, m)[k + 1] = q[k + 1]
           /\ k = Len(q) => SubSeq(q, 1, k) = q /\ Append(q, m)[k + 1] = m
<1> DEFINE a == Append(q, m)
<1>1. a \in Seq(Nat) /\ Len(a) = Len(q) + 1 /\ a[Len(q) + 1] = m /\ \A i \in 1 .. Len(q) : a[i] = q[i]
    BY AppendProperties
<1> HIDE DEF a
<1>2. Len(q) \in Nat /\ k \in 0 .. Len(a)
    BY <1>1
<1>3. /\ SubSeq(a, 1, k) \in Seq(Nat) /\ Len(SubSeq(a, 1, k)) = k
      /\ \A i \in 1 .. k : SubSeq(a, 1, k)[i] = a[i]
    BY <1>1, <1>2, SubSeqIs
<1>4. /\ SubSeq(q, 1, k) \in Seq(Nat) /\ Len(SubSeq(q, 1, k)) = k
      /\ \A i \in 1 .. k : SubSeq(q, 1, k)[i] = q[i]
    BY SubSeqIs
<1>5. \A i \in 1 .. k : a[i] = q[i]
    BY <1>1, <1>2
<1>6. SubSeq(a, 1, k) = SubSeq(q, 1, k)
    BY <1>3, <1>4, <1>5, SeqEqual
<1>7. k < Len(q) => a[k + 1] = q[k + 1]
    <2>1. k < Len(q) => k + 1 \in 1 .. Len(q)
        BY <1>2
    <2> DEFINE i == k + 1
    <2> HIDE DEF i
    <2>2. i \in 1 .. Len(q) => a[i] = q[i]
        BY <1>1
    <2>3. QED
        BY <2>1, <2>2 DEF i
<1>8. k = Len(q) => SubSeq(q, 1, k) = q
    BY SubSeqFull
<1>9. QED
    BY <1>1, <1>6, <1>7, <1>8 DEF a

(* A proof reaches a reply if it reaches the position and, in a won one,   *)
(* keeps the reply.                                                        *)
LEMMA ClaimStep ==
    ASSUME NEW p \in Paths, NEW w, NEW q \in Paths, NEW m \in Replies[q], IsPrefix(p, q)
    PROVE  Append(q, m) \in DOMAIN Claims(p, w)
               <=> q \in DOMAIN Claims(p, w) /\ (Value[q] = "win" => m = w[q])
<1> DEFINE Keeps(r, k) == Value[SubSeq(r, 1, k)] = "win" => r[k + 1] = w[SubSeq(r, 1, k)]
           a == Append(q, m)
<1>1. \A r \in Paths : r \in DOMAIN Claims(p, w) <=>
          IsPrefix(p, r) /\ \A k \in Len(p) .. Len(r) - 1 : Keeps(r, k)
    BY DEF Claims
<1>2. /\ p \in Seq(Nat) /\ q \in Seq(Nat) /\ m \in Nat /\ a \in Paths
      /\ Len(p) \in Nat /\ Len(q) \in Nat /\ Len(p) <= Len(q)
    BY PathIs, PrefixIs
<1>3. a \in Seq(Nat) /\ Len(a) = Len(q) + 1 /\ IsPrefix(q, a)
    BY <1>2, AppendIs
<1>4. IsPrefix(p, a)
    <2> HIDE DEF a
    <2>1. QED
        BY <1>2, <1>3, PrefixTrans
<1>5. ASSUME NEW k \in Len(p) .. Len(q) - 1
      PROVE  Keeps(a, k) <=> Keeps(q, k)
    <2>1. k \in 0 .. Len(q) /\ k < Len(q)
        BY <1>2
    <2>2. SubSeq(a, 1, k) = SubSeq(q, 1, k) /\ a[k + 1] = q[k + 1]
        BY <1>2, <2>1, AppendSub
    <2> HIDE DEF a
    <2>3. QED
        BY <2>2
<1>6. Keeps(a, Len(q)) <=> (Value[q] = "win" => m = w[q])
    <2>1. Len(q) \in 0 .. Len(q)
        BY <1>2
    <2>2. SubSeq(a, 1, Len(q)) = q /\ a[Len(q) + 1] = m
        BY <1>2, <2>1, AppendSub
    <2> HIDE DEF a
    <2>3. QED
        BY <2>2
<1> HIDE DEF a, Keeps
<1>7. \A k : k \in Len(p) .. Len(a) - 1 <=> k = Len(q) \/ k \in Len(p) .. Len(q) - 1
    BY <1>2, <1>3
<1>8. (\A k \in Len(p) .. Len(a) - 1 : Keeps(a, k)) <=>
          Keeps(a, Len(q)) /\ \A k \in Len(p) .. Len(q) - 1 : Keeps(q, k)
    BY <1>5, <1>7
<1>9. a \in DOMAIN Claims(p, w) <=> q \in DOMAIN Claims(p, w) /\ (Value[q] = "win" => m = w[q])
    BY <1>1, <1>2, <1>4, <1>6, <1>8
<1>10. QED
    BY <1>9 DEF a

(* What a proof at p says: the truth of positions below p, each with the   *)
(* one above it, a won one with a lost reply, a lost one with all replies. *)
ProofOf(p, c) ==
    /\ DOMAIN c \subseteq Paths /\ p \in DOMAIN c
    /\ \A q \in DOMAIN c :
          /\ IsPrefix(p, q) /\ c[q] = Value[q] /\ Value[q] \in {"win", "loss"}
          /\ q # p => Front(q) \in DOMAIN c
          /\ Value[q] = "win" => \E m \in Replies[q] : /\ Append(q, m) \in DOMAIN c
                                                       /\ Value[Append(q, m)] = "loss"
          /\ Value[q] = "loss" => \A m \in Replies[q] : Append(q, m) \in DOMAIN c

(* Every exported proof is one.                                            *)
LEMMA ProofsAre ==
    ASSUME NEW p \in Paths, Value[p] # "draw", NEW c \in ProofsAt[p]
    PROVE  ProofOf(p, c) /\ c # Torn
<1>1. PICK w \in Witnesses : c = Claims(p, w)
    <2>1. ProofsAt = [r \in {q \in Paths : Value[q] # "draw"} |-> {Claims(r, x) : x \in Witnesses}]
        BY DEF ProofsAt, Table
    <2>2. p \in {q \in Paths : Value[q] # "draw"}
        OBVIOUS
    <2> HIDE DEF ProofsAt
    <2>3. ProofsAt[p] = {Claims(p, x) : x \in Witnesses}
        BY <2>1, <2>2
    <2>4. QED
        BY <2>3
<1>2. \A r \in Paths : Value[r] = "win" =>
          w[r] \in Replies[r] /\ Value[Append(r, w[r])] = "loss"
    BY DEF Witnesses, WonPaths, LostMoves
<1>3. DOMAIN c \subseteq Paths /\ \A q \in DOMAIN c : IsPrefix(p, q) /\ c[q] = Value[q]
    BY <1>1 DEF Claims
<1>4. p \in DOMAIN c
    <2>1. p \in Seq(Nat) /\ Len(p) \in Nat
        BY PathIs
    <2>2. IsPrefix(p, p) /\ Len(p) .. Len(p) - 1 = {}
        BY <2>1, PrefixRefl
    <2>3. QED
        BY <1>1, <2>2 DEF Claims
<1>5. ASSUME NEW q \in Paths, IsPrefix(p, q), q # p
      PROVE  /\ q # <<>> /\ Front(q) \in Paths /\ IsPrefix(p, Front(q)) /\ Last(q) \in Replies[Front(q)]
             /\ q = Append(Front(q), Last(q))
             /\ q \in DOMAIN c <=> /\ Front(q) \in DOMAIN c
                                   /\ Value[Front(q)] = "win" => Last(q) = w[Front(q)]
    <2>1. p \in Seq(Nat) /\ q \in Seq(Nat) /\ Len(p) \in Nat
        BY PathIs
    <2>2. q # <<>>
        <3>1. q = <<>> => Len(q) <= Len(p)
            BY <2>1
        <3>2. QED
            BY <1>5, <2>1, <3>1, PrefixSame
    <2>3. /\ Front(q) \in Paths /\ Last(q) \in Replies[Front(q)] /\ q = Append(Front(q), Last(q))
        BY <2>2, PathIs
    <2>4. IsPrefix(p, Front(q))
        BY <1>5, <2>1, <2>2, PrefixStep
    <2>5. Append(Front(q), Last(q)) \in DOMAIN c <=>
              Front(q) \in DOMAIN c /\ (Value[Front(q)] = "win" => Last(q) = w[Front(q)])
        BY <1>1, <2>3, <2>4, ClaimStep
    <2>6. QED
        BY <2>2, <2>3, <2>4, <2>5
<1>6. \A q \in DOMAIN c : Value[q] \in {"win", "loss"}
    <2> DEFINE S == {q \in Paths : q \in DOMAIN c => Value[q] \in {"win", "loss"}}
    <2>1. p \in S
        BY ValueFacts DEF Worths
    <2>2. ASSUME NEW q \in Paths, q # p, IsPrefix(p, q), Front(q) \in S
          PROVE  q \in S
        <3> SUFFICES ASSUME q \in DOMAIN c PROVE Value[q] \in {"win", "loss"}
            OBVIOUS
        <3>1. /\ Front(q) \in Paths /\ Last(q) \in Replies[Front(q)] /\ q = Append(Front(q), Last(q))
              /\ Front(q) \in DOMAIN c /\ (Value[Front(q)] = "win" => Last(q) = w[Front(q)])
            BY <1>5, <2>2
        <3>2. Value[Front(q)] \in {"win", "loss"}
            BY <2>2, <3>1
        <3>3. CASE Value[Front(q)] = "win"
            BY <1>2, <3>1, <3>3
        <3>4. CASE Value[Front(q)] = "loss"
            BY <3>1, <3>4, ValueFacts
        <3>5. QED
            BY <3>2, <3>3, <3>4
    <2> HIDE DEF S
    <2>3. \A q \in Paths : IsPrefix(p, q) => q \in S
        BY <2>1, <2>2, Downward
    <2>4. QED
        BY <1>3, <2>3 DEF S
<1>7. ASSUME NEW q \in DOMAIN c
      PROVE  /\ q # p => Front(q) \in DOMAIN c
             /\ Value[q] = "win" => \E m \in Replies[q] : /\ Append(q, m) \in DOMAIN c
                                                          /\ Value[Append(q, m)] = "loss"
             /\ Value[q] = "loss" => \A m \in Replies[q] : Append(q, m) \in DOMAIN c
    <2>1. q \in Paths /\ IsPrefix(p, q)
        BY <1>3
    <2>2. \A m \in Replies[q] : Append(q, m) \in DOMAIN c <=> (Value[q] = "win" => m = w[q])
        BY <1>1, <2>1, ClaimStep
    <2>3. QED
        BY <1>2, <1>5, <2>1, <2>2
<1>8. ProofOf(p, c)
    BY <1>3, <1>4, <1>6, <1>7 DEF ProofOf
<1>9. c # Torn
    <2>1. c = Torn => c[p] = "torn"
        BY <1>4 DEF Torn
    <2>2. c[p] \in {"win", "loss"}
        BY <1>4, <1>8 DEF ProofOf
    <2>3. QED
        BY <2>1, <2>2
<1>10. QED
    BY <1>8, <1>9

-----------------------------------------------------------------------------
(* The order of the walk: shallowest first, then by path.                  *)

(* The least of some naturals.                                             *)
LEMMA LeastOf ==
    ASSUME NEW S, S \subseteq Nat, S # {}
    PROVE  \E m \in S : \A k \in S : m <= k
<1>1. PICK m \in S : \A k \in S : ~ (<<k, m>> \in OpToRel(<, Nat))
    BY NatLessThanWellFounded, WFMin
<1>2. \A k \in S : ~ (k < m)
    BY <1>1 DEF OpToRel
<1>3. QED
    BY <1>2

(* The first place where p and q differ, and p is the smaller one.         *)
Splits(p, q, i) ==
    /\ i \in 1 .. Len(p) /\ i <= Len(q)
    /\ \A j \in 1 .. i - 1 : p[j] = q[j]
    /\ p[i] < q[i]

LEMMA LexIs ==
    ASSUME NEW p \in Seq(Nat), NEW q \in Seq(Nat)
    PROVE  LexBefore(p, q) <=> \/ IsPrefix(p, q) /\ p # q
                               \/ \E i \in Nat : Splits(p, q, i)
<1>1. ASSUME NEW i \in 1 .. Len(p), i <= Len(q)
      PROVE  SubSeq(p, 1, i - 1) = SubSeq(q, 1, i - 1) <=> \A j \in 1 .. i - 1 : p[j] = q[j]
    <2>1. i - 1 \in 0 .. Len(p) /\ i - 1 \in 0 .. Len(q)
        BY <1>1
    <2> DEFINE n == i - 1
    <2> HIDE DEF n
    <2>2. n \in 0 .. Len(p) /\ n \in 0 .. Len(q)
        BY <2>1 DEF n
    <2>3. /\ SubSeq(p, 1, n) \in Seq(Nat) /\ Len(SubSeq(p, 1, n)) = n
          /\ \A j \in 1 .. n : SubSeq(p, 1, n)[j] = p[j]
        BY <2>2, SubSeqIs
    <2>4. /\ SubSeq(q, 1, n) \in Seq(Nat) /\ Len(SubSeq(q, 1, n)) = n
          /\ \A j \in 1 .. n : SubSeq(q, 1, n)[j] = q[j]
        BY <2>2, SubSeqIs
    <2>5. SubSeq(p, 1, n) = SubSeq(q, 1, n) <=> \A j \in 1 .. n : p[j] = q[j]
        BY <2>3, <2>4, SeqEqual
    <2>6. QED
        BY <2>5 DEF n
<1>2. QED
    BY <1>1 DEF LexBefore, IsStrictPrefix, Splits

LEMMA LexStrict ==
    ASSUME NEW p \in Seq(Nat)
    PROVE  ~LexBefore(p, p)
<1>1. \A i \in 1 .. Len(p) : p[i] \in Nat
    OBVIOUS
<1>2. QED
    BY <1>1, LexIs DEF Splits

LEMMA LexTotal ==
    ASSUME NEW p \in Seq(Nat), NEW q \in Seq(Nat), p # q
    PROVE  LexBefore(p, q) \/ LexBefore(q, p)
<1> DEFINE D == {i \in Nat : i \in 1 .. Len(p) /\ i <= Len(q) /\ p[i] # q[i]}
<1>1. /\ Len(p) \in Nat /\ Len(q) \in Nat
      /\ \A i \in 1 .. Len(p) : p[i] \in Nat
      /\ \A i \in 1 .. Len(q) : q[i] \in Nat
    OBVIOUS
<1>2. CASE D = {}
    <2>1. \A i \in 1 .. Len(p) : i <= Len(q) => p[i] = q[i]
        <3> SUFFICES ASSUME NEW i \in 1 .. Len(p), i <= Len(q), p[i] # q[i] PROVE FALSE
            OBVIOUS
        <3>1. i \in D
            OBVIOUS
        <3> HIDE DEF D
        <3>2. QED
            BY <1>2, <3>1
    <2>2. Len(p) <= Len(q) => IsPrefix(p, q)
        BY <1>1, <2>1, PrefixIs
    <2>3. Len(q) <= Len(p) => IsPrefix(q, p)
        <3>1. Len(q) <= Len(p) => \A i \in 1 .. Len(q) : q[i] = p[i]
            BY <1>1, <2>1
        <3>2. QED
            BY <3>1, PrefixIs
    <2>4. QED
        BY <1>1, <2>2, <2>3, LexIs
<1>3. CASE D # {}
    <2>1. PICK i \in D : \A k \in D : i <= k
        <3> HIDE DEF D
        <3>1. D \subseteq Nat
            BY DEF D
        <3>2. QED
            BY <1>3, <3>1, LeastOf
    <2>2. /\ i \in Nat /\ i \in 1 .. Len(p) /\ i <= Len(q) /\ i \in 1 .. Len(q) /\ p[i] # q[i]
        BY <1>1, <2>1
    <2>3. \A j \in 1 .. i - 1 : p[j] = q[j] /\ q[j] = p[j]
        <3> SUFFICES ASSUME NEW j \in 1 .. i - 1 PROVE p[j] = q[j]
            OBVIOUS
        <3>1. j \in Nat /\ j < i /\ j \in 1 .. Len(p) /\ j <= Len(q)
            BY <1>1, <2>2
        <3>2. j \notin D
            <4> HIDE DEF D
            <4>1. j \in D => i <= j
                BY <2>1
            <4>2. QED
                BY <2>2, <3>1, <4>1
        <3>3. QED
            BY <3>1, <3>2
    <2>4. p[i] < q[i] \/ q[i] < p[i]
        BY <1>1, <2>2
    <2> HIDE DEF D
    <2>5. Splits(p, q, i) \/ Splits(q, p, i)
        BY <1>1, <2>2, <2>3, <2>4 DEF Splits
    <2>6. QED
        BY <2>2, <2>5, LexIs
<1>4. QED
    BY <1>2, <1>3

LEMMA LexTrans ==
    ASSUME NEW p \in Seq(Nat), NEW q \in Seq(Nat), NEW r \in Seq(Nat), LexBefore(p, q), LexBefore(q, r)
    PROVE  LexBefore(p, r)
<1>1. /\ Len(p) \in Nat /\ Len(q) \in Nat /\ Len(r) \in Nat
      /\ \A i \in 1 .. Len(p) : p[i] \in Nat
      /\ \A i \in 1 .. Len(q) : q[i] \in Nat
      /\ \A i \in 1 .. Len(r) : r[i] \in Nat
    OBVIOUS
<1>2. CASE IsPrefix(p, q) /\ p # q /\ IsPrefix(q, r) /\ q # r
    <2>1. IsPrefix(p, r)
        BY <1>2, PrefixTrans
    <2>2. p # r
        <3>1. Len(p) <= Len(q)
            BY <1>2, PrefixIs
        <3>2. QED
            BY <1>2, <3>1, PrefixSame
    <2>3. QED
        BY <2>1, <2>2, LexIs
<1>3. ASSUME IsPrefix(p, q), NEW i \in Nat, Splits(q, r, i)
      PROVE  LexBefore(p, r)
    <2>1. /\ Len(p) <= Len(q) /\ \A j \in 1 .. Len(p) : p[j] = q[j]
          /\ i \in 1 .. Len(q) /\ i <= Len(r) /\ q[i] < r[i]
          /\ \A j \in 1 .. i - 1 : q[j] = r[j]
        BY <1>3, PrefixIs DEF Splits
    <2>2. CASE i <= Len(p)
        <3>1. i \in 1 .. Len(p) /\ p[i] = q[i] /\ \A j \in 1 .. i - 1 : p[j] = r[j]
            <4>1. i \in 1 .. Len(p) /\ \A j \in 1 .. i - 1 : j \in 1 .. Len(p)
                BY <1>1, <2>2, <2>1
            <4>2. QED
                BY <2>1, <4>1
        <3>2. Splits(p, r, i)
            BY <2>1, <3>1 DEF Splits
        <3>3. QED
            BY <3>2, LexIs
    <2>3. CASE i > Len(p)
        <3>1. Len(p) <= Len(r) /\ p # r
            BY <1>1, <2>1, <2>3
        <3>2. \A j \in 1 .. Len(p) : p[j] = r[j]
            <4>1. \A j \in 1 .. Len(p) : j \in 1 .. i - 1
                BY <1>1, <2>3
            <4>2. QED
                BY <2>1, <4>1
        <3>3. QED
            BY <3>1, <3>2, PrefixIs, LexIs
    <2>4. QED
        BY <1>1, <2>2, <2>3
<1>4. ASSUME IsPrefix(q, r), NEW i \in Nat, Splits(p, q, i)
      PROVE  LexBefore(p, r)
    <2>1. /\ Len(q) <= Len(r) /\ \A j \in 1 .. Len(q) : q[j] = r[j]
          /\ i \in 1 .. Len(p) /\ i <= Len(q) /\ p[i] < q[i]
          /\ \A j \in 1 .. i - 1 : p[j] = q[j]
        BY <1>4, PrefixIs DEF Splits
    <2>2. i \in 1 .. Len(q) /\ i <= Len(r) /\ \A j \in 1 .. i - 1 : j \in 1 .. Len(q)
        BY <1>1, <2>1
    <2>3. Splits(p, r, i)
        BY <2>1, <2>2 DEF Splits
    <2>4. QED
        BY <2>3, LexIs
<1>5. ASSUME NEW i \in Nat, Splits(p, q, i), NEW k \in Nat, Splits(q, r, k)
      PROVE  LexBefore(p, r)
    <2>1. /\ i \in 1 .. Len(p) /\ i <= Len(q) /\ p[i] < q[i] /\ \A j \in 1 .. i - 1 : p[j] = q[j]
          /\ k \in 1 .. Len(q) /\ k <= Len(r) /\ q[k] < r[k] /\ \A j \in 1 .. k - 1 : q[j] = r[j]
        BY <1>5 DEF Splits
    <2> DEFINE n == IF i <= k THEN i ELSE k
    <2>2. /\ n \in 1 .. Len(p) /\ n <= Len(r) /\ n <= i /\ n <= k /\ n \in 1 .. Len(q) /\ n \in 1 .. Len(r)
          /\ n = i \/ (n = k /\ k < i)
        <3>1. i <= k => i \in 1 .. Len(r) /\ i \in 1 .. Len(q) /\ i <= Len(r)
            BY <1>1, <2>1
        <3>2. i > k => k \in 1 .. Len(p) /\ k \in 1 .. Len(r)
            BY <1>1, <2>1
        <3>3. CASE i <= k
            BY <2>1, <3>1, <3>3
        <3>4. CASE i > k
            <4>1. n = k /\ k < i /\ k <= i
                BY <1>5, <3>4
            <4>2. QED
                BY <2>1, <3>2, <4>1
        <3>5. QED
            BY <1>5, <3>3, <3>4
    <2>3. p[n] < r[n]
        <3>1. p[n] \in Nat /\ q[n] \in Nat /\ r[n] \in Nat
            BY <1>1, <2>2
        <3>2. p[n] < q[n] \/ (n \in 1 .. i - 1 /\ p[n] = q[n] /\ n = k)
            <4>1. n = k /\ k < i => n \in 1 .. i - 1
                BY <2>1
            <4>2. QED
                BY <2>1, <2>2, <4>1
        <3>3. q[n] < r[n] \/ (n \in 1 .. k - 1 /\ q[n] = r[n])
            <4>1. n = k \/ n \in 1 .. k - 1
                BY <2>1, <2>2
            <4>2. QED
                BY <2>1, <4>1
        <3> HIDE DEF n
        <3>4. n = k => q[n] < r[n]
            BY <2>1
        <3>5. QED
            BY <3>1, <3>2, <3>3, <3>4
    <2> HIDE DEF n
    <2>4. \A j \in 1 .. n - 1 : j \in 1 .. i - 1 /\ j \in 1 .. k - 1
        BY <2>1, <2>2
    <2>5. \A j \in 1 .. n - 1 : p[j] = r[j]
        BY <2>1, <2>4
    <2>6. Splits(p, r, n)
        BY <2>2, <2>3, <2>5 DEF Splits
    <2>7. QED
        BY <2>2, <2>6, LexIs
<1>6. /\ (IsPrefix(p, q) /\ p # q) \/ \E i \in Nat : Splits(p, q, i)
      /\ (IsPrefix(q, r) /\ q # r) \/ \E i \in Nat : Splits(q, r, i)
    BY LexIs
<1>7. QED
    BY <1>2, <1>3, <1>4, <1>5, <1>6

Sooner(k, j) == Len(k) < Len(j) \/ (Len(k) = Len(j) /\ LexBefore(k, j))

LEMMA SoonerOrders ==
    ASSUME NEW k \in Paths, NEW j \in Paths
    PROVE  /\ ~Sooner(k, k)
           /\ k # j => Sooner(k, j) \/ Sooner(j, k)
           /\ \A i \in Paths : Sooner(i, k) /\ Sooner(k, j) => Sooner(i, j)
<1>1. k \in Seq(Nat) /\ j \in Seq(Nat) /\ Len(k) \in Nat /\ Len(j) \in Nat
    BY PathIs
<1>2. ~LexBefore(k, k) /\ (k # j => LexBefore(k, j) \/ LexBefore(j, k))
    BY <1>1, LexStrict, LexTotal
<1>3. \A i \in Paths : /\ LexBefore(i, k) /\ LexBefore(k, j) => LexBefore(i, j)
                       /\ Len(i) \in Nat
    BY <1>1, LexTrans, PathIs
<1>4. QED
    BY <1>1, <1>2, <1>3 DEF Sooner

(* Some paths have a first one.                                            *)
LEMMA FirstIs ==
    ASSUME NEW S, S \subseteq Paths, S # {}
    PROVE  First(S) \in S /\ \A j \in S \ {First(S)} : Sooner(First(S), j)
<1>1. IsFiniteSet(S)
    BY ReplyTree, FS_Subset
<1>2. PICK n \in Nat : \E f \in [1 .. n -> S] : \A q \in S : \E i \in 1 .. n : f[i] = q
    BY <1>1, FS_NatSurjection DEF ExistsSurjection, Surjection
<1>3. PICK f \in [1 .. n -> S] : \A q \in S : \E i \in 1 .. n : f[i] = q
    BY <1>2
<1>4. n \in 1 .. n
    <2>1. PICK q : q \in S
        OBVIOUS
    <2>2. QED
        BY <1>3, <2>1
<1> DEFINE Leads(k, i) == \A j \in 1 .. k : f[j] = f[i] \/ Sooner(f[i], f[j])
           T == {k \in Nat : k \in 1 .. n => \E i \in 1 .. k : Leads(k, i)}
<1>5. 0 \in T
    OBVIOUS
<1>6. ASSUME NEW k \in 0 .. n, k # 0, k - 1 \in T
      PROVE  k \in T
    <2>1. k \in Nat /\ k \in 1 .. n /\ k - 1 \in Nat
        BY <1>6
    <2>2. CASE k = 1
        <3>1. Leads(1, 1) /\ 1 \in 1 .. 1
            OBVIOUS
        <3> HIDE DEF Leads
        <3>2. QED
            BY <2>1, <2>2, <3>1
    <2>3. CASE k # 1
        <3>1. k - 1 \in 1 .. n
            BY <2>1, <2>3
        <3>2. PICK i \in 1 .. k - 1 : Leads(k - 1, i)
            <4> HIDE DEF Leads
            <4>1. QED
                BY <1>6, <3>1
        <3>3. i \in 1 .. k /\ i \in 1 .. n /\ f[i] \in Paths /\ f[k] \in Paths /\ k \in 1 .. k
            BY <2>1, <3>2
        <3>4. \A j \in 1 .. k : j = k \/ j \in 1 .. k - 1
            BY <2>1
        <3>5. \A j \in 1 .. k - 1 : (f[j] = f[i] \/ Sooner(f[i], f[j])) /\ f[j] \in Paths
            BY <2>1, <3>2
        <3>6. CASE f[k] = f[i] \/ Sooner(f[i], f[k])
            <4>1. Leads(k, i)
                BY <3>4, <3>5, <3>6
            <4> HIDE DEF Leads
            <4>2. QED
                BY <2>1, <3>3, <4>1
        <3>7. CASE Sooner(f[k], f[i])
            <4>1. \A j \in 1 .. k - 1 : Sooner(f[k], f[j])
                BY <3>3, <3>5, <3>7, SoonerOrders
            <4>2. Leads(k, k)
                BY <3>4, <4>1
            <4> HIDE DEF Leads
            <4>3. QED
                BY <2>1, <3>3, <4>2
        <3>8. QED
            BY <3>3, <3>6, <3>7, SoonerOrders
    <2>4. QED
        BY <2>2, <2>3
<1>7. n \in T
    <2> HIDE DEF T
    <2>1. 0 .. n \subseteq T
        BY <1>5, <1>6, Counting
    <2>2. QED
        BY <1>4, <2>1
<1>8. PICK i \in 1 .. n : Leads(n, i)
    <2> HIDE DEF Leads
    <2>1. QED
        BY <1>4, <1>7
<1>9. f[i] \in S /\ \A j \in S \ {f[i]} : Sooner(f[i], j)
    BY <1>3, <1>8
<1>10. \E k \in S : \A j \in S \ {k} : Sooner(k, j)
    BY <1>9
<1>11. QED
    BY <1>10 DEF First, Sooner

-----------------------------------------------------------------------------
(* The files.                                                              *)

(* A tag and the shard recorded under it.                                  *)
TagOK(tag) == tag \in {"h", "m"} \X Paths /\ Value[tag[2]] # "draw"
ShardsOK(shards) ==
    \A tag \in DOMAIN shards :
        TagOK(tag) /\ shards[tag].path = tag[2] /\ shards[tag].sha \in ProofsAt[tag[2]]
CensorOK(censor) ==
    \A k \in DOMAIN censor : k \in Paths /\ censor[k].work \in Nat /\ censor[k].passes \in Nat
Grown(old, new) ==
    \A k \in DOMAIN old : /\ k \in DOMAIN new
                          /\ new[k].work >= old[k].work /\ new[k].passes >= old[k].passes

(* A binary is a proof of its path, or torn; a sidecar describes a proof.  *)
DiskOK ==
    /\ \A tag \in DOMAIN bins : TagOK(tag) /\ (bins[tag] = Torn \/ bins[tag] \in ProofsAt[tag[2]])
    /\ ShardsOK(sides)
    /\ \A tag \in DOMAIN sides : sides[tag].outcome = Value[tag[2]]

DbOK ==
    /\ DOMAIN db = {"schema", "nodes", "shards", "censor", "drawn", "builtFrom"}
    /\ ShardsOK(db.shards) /\ CensorOK(db.censor) /\ db.drawn \subseteq Paths

(* A fold works on what was there when it began; the directory only gains  *)
(* the sidecars it writes itself.                                          *)
FoldOK ==
    /\ fold.phase \in {Idle, "shards"}
    /\ fold.phase = "shards" =>
          /\ DOMAIN fold = {"phase", "cause", "todo", "seen", "manifest", "tree", "censor", "shards"}
          /\ fold.todo \subseteq DOMAIN bins /\ fold.seen \subseteq DOMAIN sides
          /\ fold.manifest \in {Manifest, <<>>}
          /\ ShardsOK(fold.shards)
          /\ DOMAIN fold.shards \cap (fold.todo \cup DOMAIN db.shards) = {}
          /\ CensorOK(fold.censor) /\ Grown(db.censor, fold.censor)

(* While a session runs, every sidecar is folded or its own; the shard it  *)
(* is writing is new.                                                      *)
SessionOK ==
    /\ session.phase \in {"off", "walk", "search", "bin", "sidecar"}
    /\ session.phase # "off" =>
          /\ DOMAIN session = {"phase", "cause", "scope", "base", "order", "complete",
                               "orClosed", "fresh", "key", "tree"}
          /\ session.scope \in Paths /\ session.key \in Paths /\ session.base \in Nat
          /\ session.order \subseteq Paths
          /\ \A tag \in DOMAIN sides : tag \in DOMAIN db.shards \/ tag[2] \in session.fresh
    /\ session.phase \in {"bin", "sidecar"} =>
          /\ Value[session.key] # "draw" /\ session.tree \in ProofsAt[session.key]
          /\ ~HasShard(session.key)
    /\ session.phase = "sidecar" =>
          /\ HarvestTag(session.key) \in DOMAIN bins
          /\ bins[HarvestTag(session.key)] = session.tree

FilesInv ==
    /\ DiskOK /\ SidecarCommits /\ DbOK /\ FoldOK /\ SessionOK
    /\ fold.phase = Idle \/ session.phase = "off"

LEMMA PutIs ==
    ASSUME NEW f, NEW x, NEW value
    PROVE  /\ DOMAIN Put(f, x, value) = DOMAIN f \cup {x}
           /\ Put(f, x, value)[x] = value
           /\ \A y \in DOMAIN f : y # x => Put(f, x, value)[y] = f[y]
BY DEF Put

LEMMA TagIs ==
    ASSUME NEW k \in Paths
    PROVE  HarvestTag(k)[2] = k /\ HarvestTag(k) \in {"h", "m"} \X Paths
BY DEF HarvestTag

LEMMA FilesInit == Init => FilesInv
<1> SUFFICES ASSUME Init PROVE FilesInv
    OBVIOUS
<1>1. /\ bins = OldShards /\ sides = <<>> /\ db = EmptyDb /\ fold = NoFold /\ session = NoSession
    BY DEF Init, StoreInit, FoldInit, HarvestInit
<1>2. DOMAIN <<>> = {}
    OBVIOUS
<1>3. \A tag \in DOMAIN OldShards : TagOK(tag) /\ OldShards[tag] \in ProofsAt[tag[2]]
    <2> SUFFICES ASSUME NEW tag \in DOMAIN OldShards
                 PROVE  TagOK(tag) /\ OldShards[tag] \in ProofsAt[tag[2]]
        OBVIOUS
    <2>1. /\ Manifest[tag] \in Paths /\ Value[Manifest[tag]] # "draw" /\ tag = <<"m", Manifest[tag]>>
          /\ OldShards[tag] \in ProofsAt[Manifest[tag]]
        BY StoreAssumption
    <2>2. tag[2] = Manifest[tag] /\ tag \in {"h", "m"} \X Paths
        BY <2>1
    <2>3. QED
        BY <2>1, <2>2 DEF TagOK
<1>4. DiskOK /\ SidecarCommits
    BY <1>1, <1>2, <1>3 DEF DiskOK, ShardsOK, SidecarCommits
<1>5. DbOK
    BY <1>1, <1>2 DEF DbOK, EmptyDb, ShardsOK, CensorOK
<1>6. FoldOK /\ SessionOK /\ fold.phase = Idle
    BY <1>1 DEF FoldOK, SessionOK, NoFold, NoSession, Idle
<1>7. QED
    BY <1>4, <1>5, <1>6 DEF FilesInv

-----------------------------------------------------------------------------
(* The tree.                                                               *)

OutcomeIn(shards, q) == IF Claiming(shards, q) = {} THEN "open" ELSE Value[q]

(* A tree holds what its shards say, and names the shards at each node.    *)
Holds(tree, shards) ==
    /\ DOMAIN tree = Touched(shards)
    /\ \A q \in DOMAIN tree : /\ tree[q].outcome = OutcomeIn(shards, q)
                              /\ tree[q].prov = Naming(shards, q) \cup Claiming(shards, q)

(* The nodes of the merge tree.                                            *)
Formed(tree) == \A q \in DOMAIN tree : DOMAIN tree[q] = {"outcome", "prov", "exact"}

Folded == [tag \in DOMAIN fold.shards \cup DOMAIN db.shards |->
              IF tag \in DOMAIN fold.shards THEN fold.shards[tag] ELSE db.shards[tag]]

(* Ids are naturals that grow down the tree.                               *)
IdsOK(nodes) ==
    \A q \in DOMAIN nodes :
        nodes[q].id \in Nat /\ (q # <<>> => nodes[Front(q)].id < nodes[q].id)

(* The columns of a row; the status tells whether it is proven.            *)
Stored(nodes) ==
    \A q \in DOMAIN nodes : /\ DOMAIN nodes[q] = {"id", "outcome", "bound", "status", "prov"}
                            /\ nodes[q].status = "none" <=> nodes[q].outcome = "open"

DbTree ==
    IF db.schema THEN /\ Holds(db.nodes, db.shards)
                      /\ \A q \in Rows : db.nodes[q].bound = Bounds(db.nodes)[q]
                      /\ IdsOK(db.nodes) /\ Stored(db.nodes)
                      /\ db.builtFrom = {<<t, db.shards[t].sha>> : t \in DOMAIN db.shards}
    ELSE db.nodes = <<>> /\ db.shards = <<>>
FoldTree ==
    fold.phase = "shards" => Holds(fold.tree, Folded) /\ Formed(fold.tree)

StoreInv == FilesInv /\ DbTree /\ FoldTree

-----------------------------------------------------------------------------
(* Steps of a fold.                                                        *)

LEMMA UpsertIs ==
    ASSUME NEW censor, CensorOK(censor)
    PROVE  CensorOK(UpsertMax(censor, OldCensor)) /\ Grown(censor, UpsertMax(censor, OldCensor))
<1> DEFINE new == UpsertMax(censor, OldCensor)
<1>1. CensorOK(OldCensor)
    BY StoreAssumption DEF CensorOK
<1>2. \A k : /\ k \in DOMAIN censor => k \in Paths /\ EntryAt(censor, k) = censor[k]
             /\ EntryAt(censor, k).work \in Nat /\ EntryAt(censor, k).passes \in Nat
    BY DEF CensorOK, EntryAt, Scheduled
<1>3. \A k : /\ k \in DOMAIN OldCensor => k \in Paths
             /\ EntryAt(OldCensor, k).work \in Nat /\ EntryAt(OldCensor, k).passes \in Nat
    BY <1>1 DEF CensorOK, EntryAt, Scheduled
<1>4. /\ DOMAIN new = DOMAIN censor \cup DOMAIN OldCensor
      /\ \A k \in DOMAIN new :
            /\ new[k].work = Max2(EntryAt(censor, k).work, EntryAt(OldCensor, k).work)
            /\ new[k].passes = Max2(EntryAt(censor, k).passes, EntryAt(OldCensor, k).passes)
    BY DEF UpsertMax
<1>5. \A a, b \in Nat : Max2(a, b) \in Nat /\ Max2(a, b) >= a
    BY DEF Max2
<1> HIDE DEF new
<1>6. ASSUME NEW k \in DOMAIN new
      PROVE  /\ k \in Paths /\ new[k].work \in Nat /\ new[k].passes \in Nat
             /\ new[k].work >= EntryAt(censor, k).work /\ new[k].passes >= EntryAt(censor, k).passes
    <2>1. k \in Paths
        BY <1>2, <1>3, <1>4
    <2>2. /\ new[k].work = Max2(EntryAt(censor, k).work, EntryAt(OldCensor, k).work)
          /\ new[k].passes = Max2(EntryAt(censor, k).passes, EntryAt(OldCensor, k).passes)
        BY <1>4
    <2>3. /\ EntryAt(censor, k).work \in Nat /\ EntryAt(OldCensor, k).work \in Nat
          /\ EntryAt(censor, k).passes \in Nat /\ EntryAt(OldCensor, k).passes \in Nat
        BY <1>2, <1>3
    <2>4. QED
        BY <1>5, <2>1, <2>2, <2>3
<1>7. CensorOK(new) /\ Grown(censor, new)
    BY <1>2, <1>4, <1>6 DEF CensorOK, Grown
<1>8. QED
    BY <1>7 DEF new

LEMMA GrownRefl ==
    ASSUME NEW censor, CensorOK(censor)
    PROVE  Grown(censor, censor)
BY DEF CensorOK, Grown

(* A step that leaves the files and the database alone.                    *)
LEMMA FoldAlone ==
    ASSUME FilesInv, UNCHANGED <<bins, sides, db, session, spoilt>>, session.phase = "off", FoldOK'
    PROVE  FilesInv'
<1>1. DiskOK'
    BY DEF FilesInv, DiskOK
<1>2. SidecarCommits'
    BY DEF FilesInv, SidecarCommits
<1>3. DbOK'
    BY DEF FilesInv, DbOK
<1>4. SessionOK' /\ session'.phase = "off"
    BY DEF FilesInv, SessionOK
<1>5. QED
    BY <1>1, <1>2, <1>3, <1>4 DEF FilesInv

LEMMA IdleOK ==
    ASSUME fold'.phase = Idle
    PROVE  FoldOK'
BY DEF FoldOK, Idle

LEMMA BeginKeepsFiles ==
    ASSUME FilesInv, session.phase = "off", UNCHANGED <<session, spoilt>>,
           NEW manifest \in {Manifest, <<>>}, NEW import \in BOOLEAN, BeginFold(manifest, import)
    PROVE  FilesInv'
<1>1. UNCHANGED <<bins, sides, db, session, spoilt>>
    BY DEF BeginFold, storeVars
<1>2. CASE LostBin
    <2>1. fold'.phase = Idle
        BY <1>2 DEF BeginFold, Aborted
    <2>2. QED
        BY <1>1, <2>1, IdleOK, FoldAlone
<1>3. CASE ~LostBin
    <2> DEFINE censor == IF import THEN UpsertMax(db.censor, OldCensor) ELSE db.censor
    <2>1. fold' = [phase |-> "shards", cause |-> "none", todo |-> DOMAIN bins, seen |-> DOMAIN sides,
                   manifest |-> manifest, tree |-> StandingTree, censor |-> censor, shards |-> <<>>]
        BY <1>3 DEF BeginFold
    <2>2. CensorOK(censor) /\ Grown(db.censor, censor)
        BY UpsertIs, GrownRefl DEF FilesInv, DbOK
    <2> HIDE DEF censor
    <2>3. DOMAIN <<>> = {}
        OBVIOUS
    <2>4. FoldOK'
        BY <1>1, <2>1, <2>2, <2>3 DEF FoldOK, ShardsOK
    <2>5. QED
        BY <1>1, <2>4, FoldAlone
<1>4. QED
    BY <1>2, <1>3

LEMMA DoneKeepsFiles ==
    ASSUME FilesInv, session.phase = "off", UNCHANGED <<bins, sides, db, session, spoilt>>,
           fold.phase = "shards", NEW tag, fold' = Done(tag)
    PROVE  FilesInv'
<1>1. /\ DOMAIN fold' = DOMAIN fold /\ fold'.phase = "shards" /\ fold'.todo = fold.todo \ {tag}
      /\ fold'.seen = fold.seen /\ fold'.manifest = fold.manifest /\ fold'.shards = fold.shards
      /\ fold'.censor = fold.censor
    BY DEF Done, FilesInv, FoldOK
<1>2. FoldOK'
    BY <1>1 DEF FilesInv, FoldOK
<1>3. QED
    BY <1>2, FoldAlone

(* The shard that a fold overlays.                                         *)
LEMMA OverlaidFold ==
    ASSUME FoldOK, fold.phase = "shards", NEW tag \in fold.todo, tag \notin DOMAIN db.shards,
           TagOK(tag), bins[tag] \in ProofsAt[tag[2]], fold' = Overlaid(tag, tag[2]),
           DOMAIN sides \subseteq DOMAIN sides', UNCHANGED <<bins, db>>
    PROVE  FoldOK'
<1> DEFINE tree == GraftPath(fold.tree, tag[2], tag)
<1>1. CASE Contradicts(tree, bins[tag])
    <2>1. fold'.phase = Idle
        BY <1>1 DEF Overlaid, Aborted
    <2>2. QED
        BY <2>1, IdleOK
<1>2. CASE ~Contradicts(tree, bins[tag])
    <2> DEFINE shard == [path |-> tag[2], sha |-> bins[tag]]
    <2>1. fold' = [fold EXCEPT !.todo = @ \ {tag}, !.tree = OverlaySubtree(tree, bins[tag], tag),
                               !.shards = Put(@, tag, shard)]
        BY <1>2 DEF Overlaid
    <2>2. /\ DOMAIN fold' = DOMAIN fold /\ fold'.phase = "shards" /\ fold'.todo = fold.todo \ {tag}
          /\ fold'.seen = fold.seen /\ fold'.manifest = fold.manifest
          /\ fold'.shards = Put(fold.shards, tag, shard)
          /\ fold'.censor = fold.censor
        BY <2>1 DEF FoldOK
    <2>3. shard.path = tag[2] /\ shard.sha = bins[tag]
        OBVIOUS
    <2> HIDE DEF shard
    <2>4. /\ DOMAIN fold'.shards = DOMAIN fold.shards \cup {tag} /\ fold'.shards[tag] = shard
          /\ \A t \in DOMAIN fold.shards : t # tag => fold'.shards[t] = fold.shards[t]
        BY <2>2 DEF Put
    <2>5. ShardsOK(fold'.shards)
        BY <2>3, <2>4 DEF FoldOK, ShardsOK
    <2>6. DOMAIN fold'.shards \cap (fold'.todo \cup DOMAIN db.shards) = {}
        BY <2>2, <2>4 DEF FoldOK
    <2>7. QED
        BY <2>2, <2>5, <2>6 DEF FoldOK
<1>3. QED
    BY <1>1, <1>2

LEMMA SidecarFolds ==
    ASSUME FilesInv, session.phase = "off", UNCHANGED <<session, spoilt>>,
           fold.phase = "shards", NEW tag \in fold.todo, FoldSidecar(tag)
    PROVE  FilesInv'
<1>1. UNCHANGED <<bins, sides, db, session, spoilt>> /\ tag \in fold.seen /\ tag \notin DOMAIN db.shards
    BY DEF FoldSidecar, storeVars
<1>2. CASE Loads(tag, sides[tag])
    <2>1. /\ tag \in DOMAIN sides /\ TagOK(tag) /\ sides[tag].path = tag[2]
          /\ bins[tag] = sides[tag].sha /\ sides[tag].sha \in ProofsAt[tag[2]]
        BY <1>1, <1>2 DEF FilesInv, DiskOK, FoldOK, ShardsOK, Loads
    <2>2. fold' = Overlaid(tag, tag[2])
        BY <1>2, <2>1 DEF FoldSidecar
    <2>3. FoldOK'
        BY <1>1, <2>1, <2>2, OverlaidFold DEF FilesInv
    <2>4. QED
        BY <1>1, <2>3, FoldAlone
<1>3. CASE ~Loads(tag, sides[tag])
    <2>1. fold'.phase = Idle
        BY <1>3 DEF FoldSidecar, Aborted
    <2>2. QED
        BY <1>1, <2>1, IdleOK, FoldAlone
<1>4. QED
    BY <1>2, <1>3

LEMMA ManifestFolds ==
    ASSUME FilesInv, session.phase = "off", UNCHANGED <<session, spoilt>>,
           fold.phase = "shards", NEW tag \in fold.todo, FoldManifest(tag)
    PROVE  FilesInv'
<1> DEFINE path == fold.manifest[tag]
           entry == [path |-> path, outcome |-> Value[path], sha |-> bins[tag]]
<1>1. UNCHANGED <<bins, db, session, spoilt>> /\ tag \in DOMAIN fold.manifest /\ tag \notin DOMAIN db.shards
    BY DEF FoldManifest
<1>2. tag \in DOMAIN bins
    BY DEF FilesInv, FoldOK
<1>3. path \in Paths /\ Value[path] # "draw" /\ tag = <<"m", path>>
    <2>1. DOMAIN <<>> = {}
        OBVIOUS
    <2>2. fold.manifest = Manifest
        BY <1>1, <2>1 DEF FilesInv, FoldOK
    <2>3. QED
        BY <1>1, <2>2, StoreAssumption
<1>4. TagOK(tag) /\ path = tag[2]
    <2>1. tag \in {"h", "m"} \X Paths /\ path = tag[2]
        BY <1>3
    <2>2. QED
        BY <1>3, <2>1 DEF TagOK
<1>5. CASE Loads(tag, entry)
    <2>1. fold' = Overlaid(tag, path) /\ sides' = Put(sides, tag, entry)
        BY <1>5 DEF FoldManifest, WriteSidecar
    <2>2. bins[tag] \in ProofsAt[tag[2]]
        BY <1>2, <1>5 DEF FilesInv, DiskOK, Loads
    <2>3. entry.path = tag[2] /\ entry.outcome = Value[tag[2]] /\ entry.sha = bins[tag]
        BY <1>4
    <2>4. fold' = Overlaid(tag, tag[2])
        BY <1>4, <2>1
    <2> HIDE DEF entry, path
    <2>5. /\ DOMAIN sides' = DOMAIN sides \cup {tag} /\ sides'[tag] = entry
          /\ \A t \in DOMAIN sides : t # tag => sides'[t] = sides[t]
        BY <2>1 DEF Put
    <2>6. FoldOK'
        BY <1>1, <1>4, <2>2, <2>4, <2>5, OverlaidFold DEF FilesInv
    <2>7. DiskOK'
        BY <1>1, <1>4, <2>2, <2>3, <2>5 DEF FilesInv, DiskOK, ShardsOK
    <2>8. SidecarCommits'
        BY <1>1, <1>2, <2>3, <2>5 DEF FilesInv, SidecarCommits
    <2>9. DbOK'
        BY <1>1 DEF FilesInv, DbOK
    <2>10. SessionOK' /\ session'.phase = "off"
        BY <1>1 DEF FilesInv, SessionOK
    <2>11. QED
        BY <2>6, <2>7, <2>8, <2>9, <2>10 DEF FilesInv
<1>6. CASE ~Loads(tag, entry)
    <2>1. fold' = Aborted("bad shard") /\ UNCHANGED sides
        BY <1>6 DEF FoldManifest
    <2>2. fold'.phase = Idle /\ sides' = sides
        BY <2>1 DEF Aborted
    <2>3. QED
        BY <1>1, <2>2, IdleOK, FoldAlone
<1>7. QED
    BY <1>5, <1>6

LEMMA FinishKeepsFiles ==
    ASSUME FilesInv, session.phase = "off", UNCHANGED <<session, spoilt>>, FinishFold
    PROVE  FilesInv'
<1>1. UNCHANGED <<bins, sides, session, spoilt>> /\ fold.phase = "shards" /\ fold'.phase = Idle
    <2>1. UNCHANGED <<bins, sides>> /\ fold.phase = "shards"
        BY DEF FinishFold
    <2>2. fold' = NoFold \/ \E cause : fold' = Aborted(cause)
        BY DEF FinishFold
    <2>3. fold'.phase = Idle
        BY <2>2 DEF NoFold, Aborted
    <2>4. QED
        BY <2>1, <2>3
<1>2. CASE db' = db
    BY <1>1, <1>2, IdleOK, FoldAlone
<1>3. CASE db' # db
    <2> DEFINE all == [tag \in DOMAIN fold.shards \cup DOMAIN db.shards |->
                          IF tag \in DOMAIN fold.shards THEN fold.shards[tag] ELSE db.shards[tag]]
    <2>1. PICK bounds : db' = [schema    |-> TRUE,
                               nodes     |-> Delta(fold.tree, bounds),
                               shards    |-> all,
                               censor    |-> fold.censor,
                               drawn     |-> db.drawn,
                               builtFrom |-> {<<tag, all[tag].sha>> : tag \in DOMAIN all}]
        BY <1>3 DEF FinishFold
    <2>2. /\ DOMAIN all = DOMAIN fold.shards \cup DOMAIN db.shards
          /\ \A tag \in DOMAIN all : \/ tag \in DOMAIN fold.shards /\ all[tag] = fold.shards[tag]
                                     \/ tag \in DOMAIN db.shards /\ all[tag] = db.shards[tag]
        OBVIOUS
    <2> HIDE DEF all
    <2>3. ShardsOK(all)
        BY <1>1, <2>2 DEF FilesInv, FoldOK, DbOK, ShardsOK
    <2>4. /\ DOMAIN db' = {"schema", "nodes", "shards", "censor", "drawn", "builtFrom"}
          /\ db'.shards = all /\ db'.censor = fold.censor /\ db'.drawn = db.drawn
        BY <2>1
    <2>5. DbOK'
        BY <1>1, <2>3, <2>4 DEF FilesInv, DbOK, FoldOK
    <2>6. DiskOK' /\ SidecarCommits'
        BY <1>1 DEF FilesInv, DiskOK, SidecarCommits
    <2>7. SessionOK' /\ session'.phase = "off"
        BY <1>1 DEF FilesInv, SessionOK
    <2>8. QED
        BY <1>1, <2>5, <2>6, <2>7, IdleOK DEF FilesInv
<1>4. QED
    BY <1>2, <1>3

(* No step of a fold breaks the invariant.                                 *)
LEMMA FoldKeepsFiles ==
    ASSUME FilesInv, FoldRuns
    PROVE  FilesInv'
<1>1. session.phase = "off" /\ FoldNext /\ UNCHANGED <<session, spoilt>>
    BY DEF FoldRuns
<1>2. ASSUME NEW manifest \in {Manifest, <<>>}, NEW import \in BOOLEAN, BeginFold(manifest, import)
      PROVE  FilesInv'
    BY <1>1, <1>2, BeginKeepsFiles
<1>3. CASE FoldShard
    <2>1. PICK tag \in fold.todo :
              SkipMerged(tag) \/ SkipOrphan(tag) \/ FoldSidecar(tag) \/ FoldManifest(tag)
        BY <1>3 DEF FoldShard
    <2>2. fold.phase = "shards"
        BY <1>3 DEF FoldShard
    <2>3. CASE SkipMerged(tag)
        <3>1. UNCHANGED <<bins, sides, db, session, spoilt>>
            BY <1>1, <2>3 DEF SkipMerged, storeVars
        <3>2. fold' = Done(tag) \/ fold'.phase = Idle
            BY <2>3 DEF SkipMerged, Aborted
        <3>3. QED
            BY <1>1, <2>2, <3>1, <3>2, DoneKeepsFiles, IdleOK, FoldAlone
    <2>4. CASE SkipOrphan(tag)
        <3>1. UNCHANGED <<bins, sides, db, session, spoilt>> /\ fold' = Done(tag)
            BY <1>1, <2>4 DEF SkipOrphan, storeVars
        <3>2. QED
            BY <1>1, <2>2, <3>1, DoneKeepsFiles
    <2>5. QED
        BY <1>1, <2>1, <2>2, <2>3, <2>4, SidecarFolds, ManifestFolds
<1>4. CASE FinishFold
    BY <1>1, <1>4, FinishKeepsFiles
<1>5. CASE CrashFold
    <2>1. UNCHANGED <<bins, sides, db, session, spoilt>> /\ fold'.phase = Idle
        BY <1>1, <1>5 DEF CrashFold, storeVars, NoFold
    <2>2. QED
        BY <1>1, <2>1, IdleOK, FoldAlone
<1>6. QED
    BY <1>1, <1>2, <1>3, <1>4, <1>5 DEF FoldNext

-----------------------------------------------------------------------------
(* Steps of a session.                                                     *)

LEMMA SessionAlone ==
    ASSUME FilesInv, UNCHANGED <<bins, sides, db, fold, spoilt>>, fold.phase = Idle, SessionOK'
    PROVE  FilesInv'
<1>1. DiskOK'
    BY DEF FilesInv, DiskOK
<1>2. SidecarCommits'
    BY DEF FilesInv, SidecarCommits
<1>3. DbOK'
    BY DEF FilesInv, DbOK
<1>4. FoldOK' /\ fold'.phase = Idle
    BY DEF FilesInv, FoldOK
<1>5. QED
    BY <1>1, <1>2, <1>3, <1>4 DEF FilesInv

LEMMA OffOK ==
    ASSUME session'.phase = "off"
    PROVE  SessionOK'
BY DEF SessionOK

LEMMA StartKeepsFiles ==
    ASSUME FilesInv, fold.phase = Idle, UNCHANGED <<fold, spoilt>>,
           NEW scope \in Scopes, NEW base \in Bases, StartSession(scope, base)
    PROVE  FilesInv'
<1>1. UNCHANGED <<bins, sides, db, fold, spoilt>>
    BY DEF StartSession, storeVars
<1>2. CASE ~db.schema \/ LostBin \/ UnmergedShard
    <2>1. \E cause : session' = Refused(cause)
        BY <1>2 DEF StartSession
    <2>2. session'.phase = "off"
        BY <2>1 DEF Refused, NoSession
    <2>3. QED
        BY <1>1, <2>2, OffOK, SessionAlone
<1>3. CASE ~ (~db.schema \/ LostBin \/ UnmergedShard)
    <2>1. session' = [phase |-> "walk", cause |-> "none", scope |-> scope, base |-> base,
                      order |-> Frontier(scope), complete |-> {}, orClosed |-> {}, fresh |-> {},
                      key |-> <<>>, tree |-> <<>>]
        BY <1>3 DEF StartSession
    <2>2. Frontier(scope) \subseteq Paths
        BY DEF Frontier, FilesInv, DbOK, CensorOK
    <2>3. \A tag \in DOMAIN sides : tag \in DOMAIN db.shards
        BY <1>3 DEF UnmergedShard
    <2>4. scope \in Paths /\ base \in Nat /\ <<>> \in Paths
        BY HarvestAssumption, ReplyTree
    <2>5. SessionOK'
        BY <1>1, <2>1, <2>2, <2>3, <2>4 DEF SessionOK
    <2>6. QED
        BY <1>1, <2>5, SessionAlone
<1>4. QED
    BY <1>2, <1>3

(* The keys of the visits are paths.                                       *)
LEMMA VisitKeepsFiles ==
    ASSUME FilesInv, fold.phase = Idle, UNCHANGED <<bins, sides, db, fold, spoilt>>,
           session.phase = "walk", NEW k \in Paths, Visit(k)
    PROVE  FilesInv'
<1>1. /\ DOMAIN session' = DOMAIN session /\ session'.phase = "search" /\ session'.key = k
      /\ session'.scope = session.scope /\ session'.base = session.base
      /\ session'.order = session.order /\ session'.fresh = session.fresh
    BY DEF Visit, FilesInv, SessionOK
<1>2. SessionOK'
    BY <1>1 DEF FilesInv, SessionOK
<1>3. QED
    BY <1>2, SessionAlone

LEMMA IterateKeepsFiles ==
    ASSUME FilesInv, fold.phase = Idle, UNCHANGED <<fold, spoilt>>, Iterate
    PROVE  FilesInv'
<1>1. UNCHANGED <<bins, sides, db, fold, spoilt>> /\ session.phase = "walk"
    BY DEF Iterate, storeVars
<1>2. session.scope \in Paths /\ session.order \subseteq Paths
    BY <1>1 DEF FilesInv, SessionOK
<1>3. session.order # {} => First(session.order) \in Paths
    BY <1>2, FirstIs
<1>4. CASE VisitRoot
    BY <1>1, <1>2, <1>4, VisitKeepsFiles DEF VisitRoot
<1>5. CASE Exhausted
    <2>1. session'.phase = "off"
        BY <1>5 DEF Exhausted, NoSession
    <2>2. QED
        BY <1>1, <2>1, OffOK, SessionAlone
<1>6. CASE VisitRecord
    BY <1>1, <1>3, <1>6, VisitKeepsFiles DEF VisitRecord
<1>7. CASE Expand
    <2> DEFINE k == First(session.order)
    <2>1. k \in Paths /\ Unhandled(k) # {} /\ Visit(First(Unhandled(k)))
        BY <1>3, <1>7 DEF Expand
    <2> HIDE DEF k
    <2>2. Unhandled(k) \subseteq Paths
        BY <2>1, PathIs DEF Unhandled
    <2>3. First(Unhandled(k)) \in Paths
        BY <2>1, <2>2, FirstIs
    <2>4. QED
        BY <1>1, <2>1, <2>3, VisitKeepsFiles
<1>8. CASE Complete
    <2> DEFINE k == First(session.order)
    <2>1. session' = [session EXCEPT !.complete = @ \cup {k}, !.order = @ \ {k}]
        BY <1>8 DEF Complete
    <2> HIDE DEF k
    <2>2. /\ DOMAIN session' = DOMAIN session /\ session'.phase = "walk" /\ session'.key = session.key
          /\ session'.scope = session.scope /\ session'.base = session.base
          /\ session'.order = session.order \ {k} /\ session'.fresh = session.fresh
        BY <1>1, <2>1 DEF FilesInv, SessionOK
    <2>3. SessionOK'
        BY <1>1, <2>2 DEF FilesInv, SessionOK
    <2>4. QED
        BY <1>1, <2>3, SessionAlone
<1>9. QED
    BY <1>4, <1>5, <1>6, <1>7, <1>8 DEF Iterate

(* A step that ends a visit and goes on with the walk.                     *)
LEMMA WalksOn ==
    ASSUME SessionOK, session.phase # "off", NEW order, order \subseteq Paths,
           DOMAIN session' = DOMAIN session, session'.phase = "walk", session'.key = <<>>,
           session'.scope = session.scope, session'.base = session.base, session'.order = order,
           \A tag \in DOMAIN sides' : tag \in DOMAIN db'.shards \/ tag[2] \in session'.fresh
    PROVE  SessionOK'
BY ReplyTree DEF SessionOK

(* The scheduling tables change, nothing else that is durable.             *)
LEMMA DbAlone ==
    ASSUME FilesInv, UNCHANGED <<bins, sides, fold, spoilt>>, fold.phase = Idle, SessionOK', DbOK'
    PROVE  FilesInv'
<1>1. DiskOK'
    BY DEF FilesInv, DiskOK
<1>2. SidecarCommits'
    BY DEF FilesInv, SidecarCommits
<1>3. FoldOK' /\ fold'.phase = Idle
    BY IdleOK DEF FilesInv
<1>4. QED
    BY <1>1, <1>2, <1>3 DEF FilesInv

LEMMA BumpIs ==
    ASSUME NEW censor, CensorOK(censor), NEW k \in Paths, NEW evals \in Nat
    PROVE  CensorOK(Bump(censor, k, evals)) /\ Grown(censor, Bump(censor, k, evals))
<1> DEFINE new == Bump(censor, k, evals)
           entry == [work   |-> EntryAt(censor, k).work + evals,
                     passes |-> EntryAt(censor, k).passes + 1]
<1>1. /\ k \in DOMAIN censor => EntryAt(censor, k) = censor[k]
      /\ EntryAt(censor, k).work \in Nat /\ EntryAt(censor, k).passes \in Nat
    BY DEF CensorOK, EntryAt, Scheduled
<1>2. /\ entry.work = EntryAt(censor, k).work + evals
      /\ entry.passes = EntryAt(censor, k).passes + 1
    OBVIOUS
<1>3. new = Put(censor, k, entry)
    BY DEF Bump
<1> HIDE DEF entry, new
<1>4. /\ DOMAIN new = DOMAIN censor \cup {k} /\ new[k] = entry
      /\ \A y \in DOMAIN censor : y # k => new[y] = censor[y]
    BY <1>3 DEF Put
<1>5. CensorOK(new)
    BY <1>1, <1>2, <1>4 DEF CensorOK
<1>6. Grown(censor, new)
    BY <1>1, <1>2, <1>4 DEF CensorOK, Grown
<1>7. QED
    BY <1>5, <1>6 DEF new

LEMMA EndKeepsFiles ==
    ASSUME FilesInv, fold.phase = Idle, UNCHANGED <<fold, spoilt>>, EndSearch
    PROVE  FilesInv'
<1> DEFINE k == session.key
<1>1. session.phase = "search" /\ session.phase # "off"
    BY DEF EndSearch
<1>2. /\ k \in Paths /\ session.order \subseteq Paths /\ session.base \in Nat /\ SessionOK
      /\ \A tag \in DOMAIN sides : tag \in DOMAIN db.shards \/ tag[2] \in session.fresh
    BY <1>1 DEF FilesInv, SessionOK
<1>3. ASSUME NEW evals \in {1, session.base}, Censored(evals)
      PROVE  FilesInv'
    <2>1. /\ db' = [db EXCEPT !.censor = Bump(@, k, evals)]
          /\ session' = [Walking EXCEPT !.order = Admitted(k)] /\ UNCHANGED <<bins, sides>>
        BY <1>3 DEF Censored
    <2>2. /\ DOMAIN db' = DOMAIN db /\ db'.shards = db.shards /\ db'.drawn = db.drawn
          /\ db'.censor = Bump(db.censor, k, evals)
        BY <2>1 DEF FilesInv, DbOK
    <2>3. DbOK'
        BY <1>2, <1>3, <2>2, BumpIs DEF FilesInv, DbOK
    <2>4. /\ DOMAIN session' = DOMAIN session /\ session'.phase = "walk" /\ session'.key = <<>>
          /\ session'.scope = session.scope /\ session'.base = session.base
          /\ session'.order = Admitted(k) /\ session'.fresh = session.fresh
        BY <1>1, <2>1 DEF Walking, FilesInv, SessionOK
    <2>5. Admitted(k) \subseteq Paths
        BY <1>2 DEF Admitted
    <2> HIDE DEF k
    <2>6. SessionOK'
        BY <1>1, <1>2, <2>1, <2>2, <2>4, <2>5, WalksOn
    <2>7. QED
        BY <2>1, <2>3, <2>6, DbAlone
<1>4. CASE ProvenDraw
    <2>1. /\ db' = [db EXCEPT !.drawn = @ \cup {k}]
          /\ session' = [Walking EXCEPT !.order = Sweep(@, k)] /\ UNCHANGED <<bins, sides>>
        BY <1>4 DEF ProvenDraw
    <2>2. /\ DOMAIN db' = DOMAIN db /\ db'.shards = db.shards /\ db'.drawn = db.drawn \cup {k}
          /\ db'.censor = db.censor
        BY <2>1 DEF FilesInv, DbOK
    <2>3. DbOK'
        BY <1>2, <2>2 DEF FilesInv, DbOK
    <2>4. /\ DOMAIN session' = DOMAIN session /\ session'.phase = "walk" /\ session'.key = <<>>
          /\ session'.scope = session.scope /\ session'.base = session.base
          /\ session'.order = Sweep(session.order, k) /\ session'.fresh = session.fresh
        BY <1>1, <2>1 DEF Walking, FilesInv, SessionOK
    <2>5. Sweep(session.order, k) \subseteq Paths
        BY <1>2 DEF Sweep
    <2> HIDE DEF k
    <2>6. SessionOK'
        BY <1>1, <1>2, <2>1, <2>2, <2>4, <2>5, WalksOn
    <2>7. QED
        BY <2>1, <2>3, <2>6, DbAlone
<1>5. CASE Decisive
    <2>1. UNCHANGED <<bins, sides, db, fold, spoilt>> /\ Value[k] # "draw"
        BY <1>5 DEF Decisive, storeVars
    <2>2. CASE HasShard(k)
        <3>1. session'.phase = "off"
            BY <1>5, <2>2 DEF Decisive, Refused, NoSession
        <3>2. QED
            BY <2>1, <3>1, OffOK, SessionAlone
    <2>3. CASE ~HasShard(k)
        <3>1. PICK tree \in ProofsAt[k] : session' = [session EXCEPT !.phase = "bin", !.tree = tree]
            BY <1>5, <2>3 DEF Decisive
        <3>2. /\ DOMAIN session' = DOMAIN session /\ session'.phase = "bin" /\ session'.key = k
              /\ session'.scope = session.scope /\ session'.base = session.base
              /\ session'.order = session.order /\ session'.fresh = session.fresh
              /\ session'.tree = tree
            BY <1>1, <3>1 DEF FilesInv, SessionOK
        <3>3. SessionOK'
            BY <1>1, <1>2, <2>1, <2>3, <3>2 DEF SessionOK, HasShard, Standing
        <3>4. QED
            BY <2>1, <3>3, SessionAlone
    <2>4. QED
        BY <2>2, <2>3
<1>6. CASE ExportRejected
    <2>1. UNCHANGED <<bins, sides, db, fold, spoilt>> /\ session'.phase = "off"
        BY <1>6 DEF ExportRejected, storeVars, Refused, NoSession
    <2>2. QED
        BY <2>1, OffOK, SessionAlone
<1>7. QED
    BY <1>3, <1>4, <1>5, <1>6 DEF EndSearch

(* The tag of a shard that is being written has no sidecar yet.            *)
LEMMA NewTag ==
    ASSUME FilesInv, session.phase \in {"bin", "sidecar"}
    PROVE  /\ HarvestTag(session.key) \notin DOMAIN sides
           /\ HarvestTag(session.key)[2] = session.key /\ TagOK(HarvestTag(session.key))
           /\ session.key \in Paths /\ Value[session.key] # "draw" /\ session.tree \in ProofsAt[session.key]
<1> DEFINE k == session.key
           tag == HarvestTag(k)
<1>1. /\ k \in Paths /\ Value[k] # "draw" /\ session.tree \in ProofsAt[k] /\ ~HasShard(k)
      /\ \A t \in DOMAIN sides : t \in DOMAIN db.shards \/ t[2] \in session.fresh
    BY DEF FilesInv, SessionOK
<1>2. tag[2] = k /\ TagOK(tag)
    BY <1>1, TagIs DEF TagOK
<1> HIDE DEF k, tag
<1>3. tag \in DOMAIN sides => FALSE
    <2>1. tag \in DOMAIN db.shards => db.shards[tag].path = k
        BY <1>2 DEF FilesInv, DbOK, ShardsOK
    <2>2. tag \in DOMAIN db.shards => k \in Standing
        BY <2>1 DEF Standing
    <2>3. QED
        BY <1>1, <1>2, <2>2 DEF HasShard
<1>4. QED
    BY <1>1, <1>2, <1>3 DEF k, tag

(* A binary without a sidecar is written, whole or not.                    *)
LEMMA BinAlone ==
    ASSUME FilesInv, fold.phase = Idle, UNCHANGED <<sides, db, fold, spoilt>>, SessionOK',
           NEW tag, TagOK(tag), tag \notin DOMAIN sides, NEW content,
           content = Torn \/ content \in ProofsAt[tag[2]], bins' = Put(bins, tag, content)
    PROVE  FilesInv'
<1>1. /\ DOMAIN bins' = DOMAIN bins \cup {tag} /\ bins'[tag] = content
      /\ \A t \in DOMAIN bins : t # tag => bins'[t] = bins[t]
    BY DEF Put
<1>2. DiskOK'
    BY <1>1 DEF FilesInv, DiskOK
<1>3. SidecarCommits'
    BY <1>1 DEF FilesInv, SidecarCommits
<1>4. DbOK'
    BY DEF FilesInv, DbOK
<1>5. FoldOK' /\ fold'.phase = Idle
    BY IdleOK
<1>6. QED
    BY <1>2, <1>3, <1>4, <1>5 DEF FilesInv

LEMMA WriteBinKeepsFiles ==
    ASSUME FilesInv, fold.phase = Idle, UNCHANGED <<fold, spoilt>>, WriteShardBin
    PROVE  FilesInv'
<1> DEFINE tag == HarvestTag(session.key)
<1>1. /\ session.phase = "bin" /\ bins' = Put(bins, tag, session.tree) /\ UNCHANGED <<sides, db>>
      /\ session' = [session EXCEPT !.phase = "sidecar"]
    BY DEF WriteShardBin, WriteBin
<1>2. /\ DOMAIN session' = DOMAIN session /\ session'.phase = "sidecar" /\ session'.key = session.key
      /\ session'.scope = session.scope /\ session'.base = session.base
      /\ session'.order = session.order /\ session'.fresh = session.fresh
      /\ session'.tree = session.tree
    BY <1>1 DEF FilesInv, SessionOK
<1>3. tag \notin DOMAIN sides /\ TagOK(tag) /\ session.tree \in ProofsAt[tag[2]]
    BY <1>1, NewTag
<1>4. tag \in DOMAIN bins' /\ bins'[tag] = session.tree
    BY <1>1 DEF Put
<1>5. HarvestTag(session'.key) = tag
    BY <1>2
<1> HIDE DEF tag
<1>6. SessionOK'
    BY <1>1, <1>2, <1>4, <1>5 DEF FilesInv, SessionOK, HasShard, Standing
<1>7. QED
    BY <1>1, <1>3, <1>6, BinAlone

LEMMA WriteSidecarKeepsFiles ==
    ASSUME FilesInv, fold.phase = Idle, UNCHANGED <<fold, spoilt>>, WriteShardSidecar
    PROVE  FilesInv'
<1> DEFINE k == session.key
           tag == HarvestTag(k)
           entry == [path |-> k, outcome |-> Value[k], sha |-> session.tree]
           left == Sweep(session.order, k)
           order == IF ClosesParent(k) THEN Sweep(left, Front(k)) ELSE left
<1>1. /\ session.phase = "sidecar" /\ sides' = Put(sides, tag, entry) /\ UNCHANGED <<bins, db>>
    BY DEF WriteShardSidecar, WriteSidecar
<1>2. /\ DOMAIN session' = DOMAIN session /\ session'.phase = "walk" /\ session'.key = <<>>
      /\ session'.scope = session.scope /\ session'.base = session.base
      /\ session'.order = order /\ session'.fresh = session.fresh \cup {k}
    BY <1>1 DEF WriteShardSidecar, Walking, FilesInv, SessionOK
<1>3. /\ tag[2] = k /\ TagOK(tag) /\ k \in Paths /\ Value[k] # "draw" /\ session.tree \in ProofsAt[k]
    BY <1>1, NewTag
<1>4. /\ tag \in DOMAIN bins /\ bins[tag] = session.tree /\ session.order \subseteq Paths /\ SessionOK
      /\ \A t \in DOMAIN sides : t \in DOMAIN db.shards \/ t[2] \in session.fresh
    BY <1>1 DEF FilesInv, SessionOK
<1>5. order \subseteq Paths
    BY <1>4 DEF Sweep
<1>6. entry.path = k /\ entry.outcome = Value[k] /\ entry.sha = session.tree
    OBVIOUS
<1> HIDE DEF k, tag, entry, order
<1>7. /\ DOMAIN sides' = DOMAIN sides \cup {tag} /\ sides'[tag] = entry
      /\ \A t \in DOMAIN sides : t # tag => sides'[t] = sides[t]
    BY <1>1 DEF Put
<1>8. SessionOK'
    <2>1. \A t \in DOMAIN sides' : t \in DOMAIN db'.shards \/ t[2] \in session'.fresh
        BY <1>1, <1>2, <1>3, <1>4, <1>7
    <2>2. session.phase # "off"
        BY <1>1
    <2>3. QED
        BY <1>2, <1>4, <1>5, <2>1, <2>2, WalksOn
<1>9. DiskOK'
    BY <1>1, <1>3, <1>6, <1>7 DEF FilesInv, DiskOK, ShardsOK
<1>10. SidecarCommits'
    BY <1>1, <1>4, <1>6, <1>7 DEF FilesInv, SidecarCommits
<1>11. DbOK' /\ FoldOK' /\ fold'.phase = Idle
    BY <1>1, IdleOK DEF FilesInv, DbOK
<1>12. QED
    BY <1>8, <1>9, <1>10, <1>11 DEF FilesInv

LEMMA CrashKeepsFiles ==
    ASSUME FilesInv, fold.phase = Idle, UNCHANGED <<fold, spoilt>>, CrashSession
    PROVE  FilesInv'
<1>1. UNCHANGED <<sides, db>> /\ session' = NoSession
    BY DEF CrashSession
<1>2. SessionOK'
    BY <1>1, OffOK DEF NoSession
<1>3. CASE bins' = bins
    BY <1>1, <1>2, <1>3, SessionAlone
<1>4. CASE bins' # bins
    <2>1. session.phase = "bin" /\ bins' = Put(bins, HarvestTag(session.key), Torn)
        BY <1>4 DEF CrashSession
    <2>2. QED
        BY <1>1, <1>2, <2>1, NewTag, BinAlone
<1>5. QED
    BY <1>3, <1>4

(* No step of a session breaks the invariant.                              *)
LEMMA HarvestKeepsFiles ==
    ASSUME FilesInv, HarvestRuns
    PROVE  FilesInv'
<1>1. fold.phase = Idle /\ HarvestNext /\ UNCHANGED <<fold, spoilt>>
    BY DEF HarvestRuns
<1>2. CASE session.phase = "walk" /\ StopWalk /\ UNCHANGED storeVars
    <2>1. UNCHANGED <<bins, sides, db, fold, spoilt>> /\ session'.phase = "off"
        BY <1>1, <1>2 DEF storeVars, StopWalk, NoSession
    <2>2. QED
        BY <1>1, <2>1, OffOK, SessionAlone
<1>3. QED
    BY <1>1, <1>2, StartKeepsFiles, IterateKeepsFiles, EndKeepsFiles, WriteBinKeepsFiles,
       WriteSidecarKeepsFiles, CrashKeepsFiles DEF HarvestNext, SessionStep

(* Nor do the faults and the clean-up between two runs.                    *)
LEMMA QuietKeepsFiles ==
    ASSUME FilesInv, Quiet, UNCHANGED <<db, fold, session>>,
           \/ \E tag \in DOMAIN sides : Spoil(tag)
           \/ DeleteTransport
    PROVE  FilesInv'
<1>1. FoldOK' /\ SessionOK' /\ DbOK' /\ fold'.phase = Idle
    BY IdleOK, OffOK DEF Quiet, FilesInv, DbOK
<1>2. ASSUME NEW tag \in DOMAIN sides, Spoil(tag)
      PROVE  FilesInv'
    <2>1. bins' = Put(bins, tag, Torn) /\ sides' = sides /\ spoilt' = spoilt \cup {tag}
        BY <1>2 DEF Spoil, WriteBin
    <2>2. /\ DOMAIN bins' = DOMAIN bins \cup {tag} /\ bins'[tag] = Torn
          /\ \A t \in DOMAIN bins : t # tag => bins'[t] = bins[t]
        BY <2>1 DEF Put
    <2>3. DiskOK'
        BY <1>2, <2>1, <2>2 DEF FilesInv, DiskOK, ShardsOK
    <2>4. SidecarCommits'
        BY <2>1, <2>2 DEF FilesInv, SidecarCommits
    <2>5. QED
        BY <1>1, <2>3, <2>4 DEF FilesInv
<1>3. CASE DeleteTransport
    <2>1. /\ DOMAIN bins' = DOMAIN bins \ DOMAIN db.shards /\ DOMAIN sides' = DOMAIN sides \ DOMAIN db.shards
          /\ \A t \in DOMAIN bins' : bins'[t] = bins[t]
          /\ \A t \in DOMAIN sides' : sides'[t] = sides[t]
          /\ spoilt' = spoilt
        BY <1>3 DEF DeleteTransport
    <2>2. DiskOK'
        BY <2>1 DEF FilesInv, DiskOK, ShardsOK
    <2>3. SidecarCommits'
        BY <2>1 DEF FilesInv, SidecarCommits
    <2>4. QED
        BY <1>1, <2>2, <2>3 DEF FilesInv
<1>4. QED
    BY <1>2, <1>3

LEMMA FilesStep == FilesInv /\ [Next]_vars => FilesInv'
<1> SUFFICES ASSUME FilesInv, [Next]_vars PROVE FilesInv'
    OBVIOUS
<1>1. CASE FoldRuns
    BY <1>1, FoldKeepsFiles
<1>2. CASE HarvestRuns
    BY <1>2, HarvestKeepsFiles
<1>3. ASSUME NEW tag \in DOMAIN sides, Spoil(tag)
      PROVE  FilesInv'
    BY <1>3, QuietKeepsFiles DEF Spoil
<1>4. CASE DeleteTransport
    BY <1>4, QuietKeepsFiles DEF DeleteTransport
<1>5. CASE UNCHANGED vars
    <2>1. UNCHANGED <<bins, sides, db, fold, session, spoilt>>
        BY <1>5 DEF vars, storeVars
    <2>2. DiskOK' /\ SidecarCommits' /\ DbOK' /\ FoldOK'
        BY <2>1 DEF FilesInv, DiskOK, SidecarCommits, DbOK, FoldOK
    <2>3. SessionOK'
        BY <2>1 DEF FilesInv, SessionOK, HasShard, Standing
    <2>4. QED
        BY <2>1, <2>2, <2>3 DEF FilesInv
<1>6. QED
    BY <1>1, <1>2, <1>3, <1>4, <1>5 DEF Next

-----------------------------------------------------------------------------
(* The standing tree and the tree of the running fold.                     *)

(* The paths that shards touch.                                            *)
LEMMA TouchedPaths ==
    ASSUME NEW shards, ShardsOK(shards)
    PROVE  /\ Touched(shards) \subseteq Paths /\ <<>> \in Touched(shards)
           /\ \A t \in DOMAIN shards : /\ shards[t].path = t[2] /\ t[2] \in Paths
                                       /\ ProofOf(t[2], shards[t].sha)
<1>1. ASSUME NEW t \in DOMAIN shards
      PROVE  /\ shards[t].path = t[2] /\ t[2] \in Paths /\ ProofOf(t[2], shards[t].sha)
             /\ Prefixes(shards[t].path) \subseteq Paths /\ DOMAIN shards[t].sha \subseteq Paths
    <2>1. /\ shards[t].path = t[2] /\ t[2] \in Paths /\ Value[t[2]] # "draw"
          /\ shards[t].sha \in ProofsAt[t[2]]
        BY DEF ShardsOK, TagOK
    <2>2. ProofOf(t[2], shards[t].sha)
        BY <2>1, ProofsAre
    <2>3. t[2] \in Seq(Nat)
        BY <2>1, PathIs
    <2>4. Prefixes(t[2]) \subseteq Paths
        BY <2>1, <2>3, PrefixesIs, PrefixInPaths
    <2>5. QED
        BY <2>1, <2>2, <2>4 DEF ProofOf
<1>2. <<>> \in Paths
    BY ReplyTree
<1>3. QED
    BY <1>1, <1>2 DEF Touched

(* Trees depend on the paths and the proofs of the shards only.            *)
LEMMA HoldsSame ==
    ASSUME NEW tree, NEW new, NEW shards, NEW more, Holds(tree, shards),
           DOMAIN more = DOMAIN shards,
           \A t \in DOMAIN shards : more[t].path = shards[t].path /\ more[t].sha = shards[t].sha,
           DOMAIN new = DOMAIN tree,
           \A q \in DOMAIN tree : new[q].outcome = tree[q].outcome /\ new[q].prov = tree[q].prov
    PROVE  Holds(new, more)
<1>1. Touched(more) = Touched(shards)
    BY DEF Touched
<1>2. \A q : Naming(more, q) = Naming(shards, q) /\ Claiming(more, q) = Claiming(shards, q)
    BY DEF Naming, Claiming
<1>3. QED
    BY <1>1, <1>2 DEF Holds, OutcomeIn

(* A tree is one fold of its shards with one shard more on top.            *)
LEMMA OverlayHolds ==
    ASSUME NEW tree, NEW shards, ShardsOK(shards), Holds(tree, shards),
           NEW tag, TagOK(tag), tag \notin DOMAIN shards, NEW c \in ProofsAt[tag[2]],
           Formed(tree), NEW new, new = OverlaySubtree(GraftPath(tree, tag[2], tag), c, tag),
           NEW more, more = Put(shards, tag, [path |-> tag[2], sha |-> c])
    PROVE  Holds(new, more) /\ Formed(new)
<1> DEFINE p == tag[2]
           g == GraftPath(tree, p, tag)
<1>1. p \in Paths /\ p \in Seq(Nat) /\ Value[p] # "draw" /\ ProofOf(p, c)
    BY PathIs, ProofsAre DEF TagOK
<1>2. /\ DOMAIN more = DOMAIN shards \cup {tag} /\ more[tag].path = p /\ more[tag].sha = c
      /\ \A t \in DOMAIN shards : more[t] = shards[t]
    BY DEF Put
<1>3. DOMAIN g = DOMAIN tree \cup Prefixes(p) /\ DOMAIN new = DOMAIN tree \cup Prefixes(p) \cup DOMAIN c
    BY DEF GraftPath, OverlaySubtree
<1>4. Touched(more) = Touched(shards) \cup Prefixes(p) \cup DOMAIN c
    BY <1>2 DEF Touched
<1>5. DOMAIN new \subseteq Paths
    <2>1. Prefixes(p) \subseteq Paths
        BY <1>1, PrefixesIs, PrefixInPaths
    <2>2. QED
        BY <1>1, <1>3, <2>1, TouchedPaths DEF Holds, ProofOf
<1>6. ASSUME NEW q \in DOMAIN new
      PROVE  /\ new[q].outcome = OutcomeIn(more, q)
             /\ new[q].prov = Naming(more, q) \cup Claiming(more, q)
             /\ DOMAIN new[q] = {"outcome", "prov", "exact"}
    <2>1. q \in Paths /\ q \in Seq(Nat)
        BY <1>5, PathIs
    <2>2. q \in Prefixes(p) <=> IsPrefix(q, p)
        BY <1>1, <2>1, PrefixesIs
    <2>3. /\ Naming(more, q) = Naming(shards, q) \cup (IF IsPrefix(q, p) THEN {tag} ELSE {})
          /\ Claiming(more, q) = Claiming(shards, q) \cup (IF q \in DOMAIN c THEN {tag} ELSE {})
        BY <1>2 DEF Naming, Claiming
    <2>4. /\ NodeOr(tree, q).outcome = OutcomeIn(shards, q)
          /\ NodeOr(tree, q).prov = Naming(shards, q) \cup Claiming(shards, q)
          /\ DOMAIN NodeOr(tree, q) = {"outcome", "prov", "exact"}
        <3>1. CASE q \in DOMAIN tree
            BY <3>1 DEF NodeOr, Holds, Formed
        <3>2. CASE q \notin DOMAIN tree
            <4>1. q \notin Touched(shards)
                BY <3>2 DEF Holds
            <4>2. Claiming(shards, q) = {}
                BY <4>1 DEF Touched, Claiming
            <4>3. Naming(shards, q) = {}
                <5> SUFFICES ASSUME NEW t \in DOMAIN shards, IsPrefix(q, shards[t].path) PROVE FALSE
                    BY DEF Naming
                <5>1. shards[t].path \in Seq(Nat)
                    BY TouchedPaths, PathIs
                <5>2. q \in Prefixes(shards[t].path)
                    BY <2>1, <5>1, PrefixesIs
                <5>3. QED
                    BY <4>1, <5>2 DEF Touched
            <4>4. NodeOr(tree, q) = OpenNode
                BY <3>2 DEF NodeOr
            <4>5. QED
                BY <4>2, <4>3, <4>4 DEF OpenNode, OutcomeIn
        <3>3. QED
            BY <3>1, <3>2
    <2>5. /\ NodeOr(g, q).outcome = OutcomeIn(shards, q)
          /\ NodeOr(g, q).prov = Naming(shards, q) \cup Claiming(shards, q)
                                    \cup (IF IsPrefix(q, p) THEN {tag} ELSE {})
          /\ DOMAIN NodeOr(g, q) = {"outcome", "prov", "exact"}
        <3>1. CASE q \in Prefixes(p)
            <4>1. g[q] = [NodeOr(tree, q) EXCEPT !.prov = @ \cup {tag}] /\ q \in DOMAIN g
                BY <1>3, <3>1 DEF GraftPath
            <4>2. NodeOr(g, q) = [NodeOr(tree, q) EXCEPT !.prov = @ \cup {tag}]
                BY <4>1 DEF NodeOr
            <4> HIDE DEF g
            <4>3. QED
                BY <2>2, <2>4, <3>1, <4>2
        <3>2. CASE q \notin Prefixes(p)
            <4>1. q \in DOMAIN tree => g[q] = tree[q]
                BY <3>2 DEF GraftPath
            <4>2. NodeOr(g, q) = NodeOr(tree, q)
                BY <1>3, <3>2, <4>1 DEF NodeOr
            <4> HIDE DEF g
            <4>3. QED
                BY <2>2, <2>4, <3>2, <4>2
        <3>3. QED
            BY <3>1, <3>2
    <2> HIDE DEF g
    <2>6. CASE q \in DOMAIN c
        <3>1. new[q] = [outcome |-> c[q], prov |-> NodeOr(g, q).prov \cup {tag},
                        exact |-> NodeOr(g, q).exact \cup (IF Replies[q] = {} THEN {0} ELSE {})]
            BY <2>6 DEF OverlaySubtree, g
        <3>2. new[q].outcome = c[q] /\ new[q].prov = NodeOr(g, q).prov \cup {tag}
              /\ DOMAIN new[q] = {"outcome", "prov", "exact"}
            BY <3>1
        <3>3. c[q] = Value[q] /\ OutcomeIn(more, q) = Value[q]
            BY <1>1, <2>3, <2>6 DEF ProofOf, OutcomeIn
        <3>4. QED
            BY <2>3, <2>5, <2>6, <3>2, <3>3
    <2>7. CASE q \notin DOMAIN c
        <3>1. q \in DOMAIN g
            BY <1>3, <2>7
        <3>2. new[q] = NodeOr(g, q)
            BY <2>7, <3>1 DEF OverlaySubtree, NodeOr, g
        <3>3. OutcomeIn(more, q) = OutcomeIn(shards, q)
            BY <2>3, <2>7 DEF OutcomeIn
        <3>4. QED
            BY <2>3, <2>5, <2>7, <3>2, <3>3
    <2>8. QED
        BY <2>6, <2>7
<1>7. DOMAIN new = Touched(more)
    BY <1>3, <1>4 DEF Holds
<1>8. QED
    BY <1>6, <1>7 DEF Holds, Formed

-----------------------------------------------------------------------------
(* The ids of the rows.                                                    *)

(* Some path gives the greatest of finitely many integers.                 *)
LEMMA GreatestOf ==
    ASSUME NEW S, S \subseteq Paths, S # {}, NEW g, \A q \in S : g[q] \in Int
    PROVE  \E m \in S : \A q \in S : g[q] <= g[m]
<1>1. IsFiniteSet(S)
    BY ReplyTree, FS_Subset
<1>2. PICK n \in Nat : \E f \in [1 .. n -> S] : \A q \in S : \E i \in 1 .. n : f[i] = q
    BY <1>1, FS_NatSurjection DEF ExistsSurjection, Surjection
<1>3. PICK f \in [1 .. n -> S] : \A q \in S : \E i \in 1 .. n : f[i] = q
    BY <1>2
<1>4. n \in 1 .. n
    <2>1. PICK q : q \in S
        OBVIOUS
    <2>2. QED
        BY <1>3, <2>1
<1> DEFINE Tops(k, i) == \A j \in 1 .. k : g[f[j]] <= g[f[i]]
           T == {k \in Nat : k \in 1 .. n => \E i \in 1 .. k : Tops(k, i)}
<1>5. 0 \in T
    OBVIOUS
<1>6. ASSUME NEW k \in 0 .. n, k # 0, k - 1 \in T
      PROVE  k \in T
    <2>1. k \in Nat /\ k \in 1 .. n /\ k - 1 \in Nat
        BY <1>6
    <2>2. CASE k = 1
        <3>1. f[1] \in S /\ g[f[1]] \in Int
            BY <1>4, <2>1, <2>2
        <3>2. Tops(1, 1) /\ 1 \in 1 .. 1
            BY <3>1
        <3> HIDE DEF Tops
        <3>3. QED
            BY <2>1, <2>2, <3>2
    <2>3. CASE k # 1
        <3>1. k - 1 \in 1 .. n
            BY <2>1, <2>3
        <3>2. PICK i \in 1 .. k - 1 : Tops(k - 1, i)
            <4> HIDE DEF Tops
            <4>1. QED
                BY <1>6, <3>1
        <3>3. i \in 1 .. k /\ i \in 1 .. n /\ k \in 1 .. k /\ g[f[i]] \in Int /\ g[f[k]] \in Int
            BY <2>1, <3>2
        <3>4. \A j \in 1 .. k : j = k \/ j \in 1 .. k - 1
            BY <2>1
        <3>5. \A j \in 1 .. k - 1 : g[f[j]] <= g[f[i]] /\ g[f[j]] \in Int
            BY <2>1, <3>2
        <3>6. CASE g[f[k]] <= g[f[i]]
            <4>1. Tops(k, i)
                BY <3>4, <3>5, <3>6
            <4> HIDE DEF Tops
            <4>2. QED
                BY <2>1, <3>3, <4>1
        <3>7. CASE ~(g[f[k]] <= g[f[i]])
            <4>1. \A j \in 1 .. k - 1 : g[f[j]] <= g[f[k]]
                BY <3>3, <3>5, <3>7
            <4>2. Tops(k, k)
                BY <3>3, <3>4, <4>1
            <4> HIDE DEF Tops
            <4>3. QED
                BY <2>1, <3>3, <4>2
        <3>8. QED
            BY <3>6, <3>7
    <2>4. QED
        BY <2>2, <2>3
<1>7. n \in T
    <2> HIDE DEF T
    <2>1. 0 .. n \subseteq T
        BY <1>5, <1>6, Counting
    <2>2. QED
        BY <1>4, <2>1
<1>8. PICK i \in 1 .. n : Tops(n, i)
    <2> HIDE DEF Tops
    <2>1. QED
        BY <1>4, <1>7
<1>9. f[i] \in S /\ \A q \in S : g[q] <= g[f[i]]
    BY <1>3, <1>8
<1>10. QED
    BY <1>9

(* The least and the greatest of the integers that some paths give.        *)
LEMMA BestOf ==
    ASSUME NEW S, S \subseteq Paths, S # {}, NEW g, \A q \in S : g[q] \in Int
    PROVE  /\ \E m \in S : Max({g[q] : q \in S}) = g[m]
           /\ \E m \in S : Min({g[q] : q \in S}) = g[m]
           /\ \A q \in S : Min({g[q2] : q2 \in S}) <= g[q] /\ g[q] <= Max({g[q2] : q2 \in S})
<1> DEFINE V == {g[q] : q \in S}
<1>1. V \subseteq Int
    OBVIOUS
<1>2. PICK m \in S : \A q \in S : g[q] <= g[m]
    BY GreatestOf
<1>3. g[m] \in V /\ \A v \in V : g[m] >= v
    BY <1>2
<1> DEFINE h == [q \in S |-> -g[q]]
<1>4. \A q \in S : h[q] \in Int /\ h[q] = -g[q]
    OBVIOUS
<1>5. PICK k \in S : \A q \in S : h[q] <= h[k]
    <2> HIDE DEF h
    <2>1. QED
        BY <1>4, GreatestOf
<1>6. \A q \in S : g[k] <= g[q]
    BY <1>4, <1>5
<1>7. g[k] \in V /\ \A v \in V : g[k] <= v
    BY <1>6
<1>8. \A q \in S : g[q] \in V
    OBVIOUS
<1>9. \A v \in V : \E q \in S : v = g[q]
    OBVIOUS
<1> HIDE DEF V
<1>10. Max(V) \in V /\ \A v \in V : Max(V) >= v
    BY <1>3 DEF Max
<1>11. Min(V) \in V /\ \A v \in V : Min(V) <= v
    BY <1>7 DEF Min
<1>12. /\ \E q \in S : Max(V) = g[q]
       /\ \E q \in S : Min(V) = g[q]
       /\ \A q \in S : Min(V) <= g[q] /\ g[q] <= Max(V)
    BY <1>1, <1>8, <1>9, <1>10, <1>11
<1>13. QED
    BY <1>12 DEF V

(* The parent of a path that is touched is touched.                        *)
LEMMA TouchedFront ==
    ASSUME NEW shards, ShardsOK(shards), NEW q \in Touched(shards), q # <<>>
    PROVE  Front(q) \in Touched(shards)
<1>1. q \in Paths /\ q \in Seq(Nat) /\ Front(q) \in Seq(Nat) /\ IsPrefix(Front(q), q)
    BY TouchedPaths, PathIs, FrontIs
<1>2. PICK t \in DOMAIN shards : q \in Prefixes(shards[t].path) \/ q \in DOMAIN shards[t].sha
    BY DEF Touched
<1>3. shards[t].path = t[2] /\ t[2] \in Paths /\ t[2] \in Seq(Nat) /\ ProofOf(t[2], shards[t].sha)
    BY TouchedPaths, PathIs
<1>4. ASSUME q \in Prefixes(shards[t].path)
      PROVE  Front(q) \in Prefixes(shards[t].path)
    <2>1. IsPrefix(q, t[2])
        BY <1>3, <1>4, PrefixesIs
    <2>2. IsPrefix(Front(q), t[2])
        BY <1>1, <1>3, <2>1, PrefixTrans
    <2>3. QED
        BY <1>1, <1>3, <2>2, PrefixesIs
<1>5. CASE q \in Prefixes(shards[t].path)
    BY <1>4, <1>5 DEF Touched
<1>6. CASE q \in DOMAIN shards[t].sha /\ q # t[2]
    <2>1. Front(q) \in DOMAIN shards[t].sha
        BY <1>3, <1>6 DEF ProofOf
    <2>2. QED
        BY <2>1 DEF Touched
<1>7. CASE q = t[2]
    <2>1. q \in Prefixes(shards[t].path)
        BY <1>1, <1>3, <1>7, PrefixRefl, PrefixesIs
    <2>2. QED
        BY <1>5, <2>1
<1>8. QED
    BY <1>2, <1>5, <1>6, <1>7

(* The parent of a row comes before it.                                    *)
LEMMA FrontBefore ==
    ASSUME NEW q \in Paths, q # <<>>
    PROVE  /\ LexBefore(Front(q), q)
           /\ \A r \in Paths : LexBefore(r, Front(q)) => LexBefore(r, q)
           /\ ~LexBefore(Front(q), Front(q))
<1>1. q \in Seq(Nat) /\ Front(q) \in Seq(Nat) /\ IsPrefix(Front(q), q) /\ Front(q) # q
    BY PathIs, FrontIs
<1>2. LexBefore(Front(q), q) /\ ~LexBefore(Front(q), Front(q))
    BY <1>1, LexIs, LexStrict
<1>3. \A r \in Paths : LexBefore(r, Front(q)) => LexBefore(r, q)
    BY <1>1, <1>2, PathIs, LexTrans
<1>4. QED
    BY <1>2, <1>3

(* Rows keep their ids, new ones are larger, and ids grow down the tree.   *)
LEMMA IdsGrow ==
    ASSUME NEW tree, DOMAIN tree \subseteq Paths, Rows \subseteq DOMAIN tree, IdsOK(db.nodes),
           \A q \in DOMAIN tree : q # <<>> => Front(q) \in DOMAIN tree,
           \A q \in Rows : q # <<>> => Front(q) \in Rows
    PROVE  /\ \A q \in Rows : RowId(tree, q) = db.nodes[q].id
           /\ \A q \in DOMAIN tree : /\ RowId(tree, q) \in Nat
                                     /\ q # <<>> => RowId(tree, Front(q)) < RowId(tree, q)
           /\ \A q \in DOMAIN tree \ Rows, r \in Rows : db.nodes[r].id < RowId(tree, q)
<1> DEFINE ids == {-1} \cup {db.nodes[r].id : r \in Rows}
           new == DOMAIN tree \ Rows
           Before(q) == {r \in new : LexBefore(r, q)}
<1>1. \A r \in Rows : db.nodes[r].id \in Nat
    BY DEF IdsOK, Rows
<1>2. Max(ids) \in Int /\ Max(ids) >= -1 /\ \A r \in Rows : db.nodes[r].id <= Max(ids)
    <2>1. \E m \in ids : \A i \in ids : m >= i
        <3>1. CASE Rows = {}
            <4>1. ids = {-1}
                BY <3>1
            <4> HIDE DEF ids
            <4>2. -1 >= -1
                OBVIOUS
            <4>3. QED
                BY <4>1, <4>2
        <3>2. CASE Rows # {}
            <4> DEFINE g == [r \in Rows |-> db.nodes[r].id]
            <4>1. \A r \in Rows : g[r] \in Int /\ g[r] = db.nodes[r].id
                BY <1>1
            <4> HIDE DEF g
            <4>2. PICK m \in Rows : \A r \in Rows : g[r] <= g[m]
                BY <3>2, <4>1, GreatestOf
            <4>3. db.nodes[m].id \in ids /\ \A i \in ids : db.nodes[m].id >= i
                BY <1>1, <4>1, <4>2
            <4>4. QED
                BY <4>3
        <3>3. QED
            BY <3>1, <3>2
    <2>2. Max(ids) \in ids /\ \A i \in ids : Max(ids) >= i
        <3> HIDE DEF ids
        <3>1. QED
            BY <2>1 DEF Max
    <2>3. ids \subseteq Int /\ -1 \in ids /\ \A r \in Rows : db.nodes[r].id \in ids
        BY <1>1
    <2> HIDE DEF ids
    <2>4. QED
        BY <1>1, <2>2, <2>3
<1>3. \A q : /\ q \in Rows => RowId(tree, q) = db.nodes[q].id
             /\ q \notin Rows => RowId(tree, q) = Max(ids) + 1 + Cardinality(Before(q))
    BY DEF RowId
<1> HIDE DEF ids
<1>4. \A q : IsFiniteSet(Before(q)) /\ Cardinality(Before(q)) \in Nat
    <2> TAKE q
    <2>1. Before(q) \in SUBSET Paths
        OBVIOUS
    <2> HIDE DEF Before
    <2>2. QED
        BY <2>1, ReplyTree, FS_Subset, FS_CardinalityType
<1>5. ASSUME NEW q \in DOMAIN tree, q # <<>>, q \notin Rows, Front(q) \notin Rows
      PROVE  Cardinality(Before(Front(q))) < Cardinality(Before(q))
    <2>1. q \in Paths /\ Front(q) \in new
        BY <1>5
    <2>2. Before(Front(q)) \in SUBSET Before(q)
        BY <2>1, <1>5, FrontBefore
    <2>3. Front(q) \in Before(q) /\ Front(q) \notin Before(Front(q))
        BY <2>1, <1>5, FrontBefore
    <2> HIDE DEF Before
    <2>4. /\ Cardinality(Before(Front(q))) <= Cardinality(Before(q))
          /\ Cardinality(Before(Front(q))) # Cardinality(Before(q))
        BY <1>4, <2>2, <2>3, FS_Subset
    <2>5. QED
        BY <1>4, <2>4
<1> HIDE DEF Before, new
<1>6. \A q \in DOMAIN tree : RowId(tree, q) \in Nat
    BY <1>1, <1>2, <1>3, <1>4
<1>7. \A q \in DOMAIN tree \ Rows, r \in Rows : db.nodes[r].id < RowId(tree, q)
    BY <1>1, <1>2, <1>3, <1>4
<1>8. ASSUME NEW q \in DOMAIN tree, q # <<>>
      PROVE  RowId(tree, Front(q)) < RowId(tree, q)
    <2>1. CASE q \in Rows
        BY <1>3, <1>8, <2>1 DEF IdsOK, Rows
    <2>2. CASE q \notin Rows /\ Front(q) \in Rows
        BY <1>3, <1>7, <2>2
    <2>3. CASE q \notin Rows /\ Front(q) \notin Rows
        BY <1>2, <1>3, <1>4, <1>5, <1>8, <2>3
    <2>4. QED
        BY <2>1, <2>2, <2>3
<1>9. QED
    BY <1>3, <1>6, <1>7, <1>8

-----------------------------------------------------------------------------
(* The bounds.                                                             *)

(* What longer paths pass on to shorter ones holds of all.                 *)
LEMMA FromLonger ==
    ASSUME NEW D, D \subseteq Paths, NEW S,
           \A q \in D : (\A r \in D : Len(r) > Len(q) => r \in S) => q \in S
    PROVE  D \subseteq S
<1>1. PICK N \in Nat : \A q \in Paths : Len(q) <= N
    BY PathsBounded
<1>2. \A q \in D : Len(q) \in Nat /\ Len(q) <= N
    BY <1>1, PathIs
<1> DEFINE T == {n \in Nat : \A q \in D : Len(q) + n > N => q \in S}
<1>3. 0 \in T
    BY <1>2
<1>4. ASSUME NEW n \in 0 .. N + 1, n # 0, n - 1 \in T
      PROVE  n \in T
    <2>1. n \in Nat /\ n - 1 \in Nat
        BY <1>4
    <2> SUFFICES ASSUME NEW q \in D, Len(q) + n > N PROVE q \in S
        BY <2>1
    <2>2. ASSUME NEW r \in D, Len(r) > Len(q)
          PROVE  r \in S
        <3>1. Len(r) + (n - 1) > N
            BY <1>2, <2>1, <2>2
        <3>2. QED
            BY <1>4, <3>1
    <2>3. QED
        BY <2>2
<1>5. N + 1 \in T
    <2> HIDE DEF T
    <2>1. N + 1 \in Nat /\ N + 1 \in 0 .. N + 1
        BY <1>1
    <2>2. 0 .. N + 1 \subseteq T
        BY <1>3, <1>4, <2>1, Counting
    <2>3. QED
        BY <2>1, <2>2
<1>6. \A q \in D : Len(q) + (N + 1) > N
    BY <1>2
<1>7. QED
    BY <1>5, <1>6

LostKids(outcome, q) == {k \in Kids(outcome, q) : outcome[k] = "loss"}
BoundIn(outcome, b, q) ==
    LET lost == {b[r] : r \in LostKids(outcome, q)}
        all  == {b[r] : r \in Kids(outcome, q)}
    IN IF outcome[q] = "open" THEN NoBound
       ELSE IF Kids(outcome, q) = {} THEN 0
       ELSE IF outcome[q] = "win" THEN IF lost = {} THEN NoBound ELSE Min(lost) + 1
       ELSE Max(all) + 1

(* The equation of the bounds.                                             *)
LEMMA BoundsAre ==
    ASSUME NEW outcome, DOMAIN outcome \subseteq Paths
    PROVE  /\ DOMAIN BoundsOf(outcome) = DOMAIN outcome
           /\ \A q \in DOMAIN outcome : /\ BoundsOf(outcome)[q] \in Int
                                        /\ BoundsOf(outcome)[q] = BoundIn(outcome, BoundsOf(outcome), q)
<1> DEFINE D == DOMAIN outcome
           step == [x \in D \X [D -> Int] |-> BoundIn(outcome, x[2], x[1])]
<1>1. ASSUME NEW q \in D
      PROVE  /\ Kids(outcome, q) \subseteq D /\ LostKids(outcome, q) \subseteq Kids(outcome, q)
             /\ q \in Paths /\ Kids(outcome, q) \subseteq Paths /\ LostKids(outcome, q) \subseteq Paths
             /\ \A r \in Kids(outcome, q) : Len(r) > Len(q)
    <2>1. \A r \in Kids(outcome, q) : r \in D /\ Len(r) = Len(q) + 1 /\ Len(q) \in Nat
        BY PathIs DEF Kids
    <2>2. QED
        BY <2>1 DEF LostKids
<1>2. ASSUME NEW q \in D, NEW f \in [D -> Int]
      PROVE  BoundIn(outcome, f, q) \in Int
    <2> DEFINE lost == LostKids(outcome, q)
               all == Kids(outcome, q)
    <2>1. /\ lost \subseteq Paths /\ all \subseteq Paths
          /\ \A r \in lost : f[r] \in Int
          /\ \A r \in all : f[r] \in Int
        BY <1>1
    <2>2. /\ {f[r] : r \in lost} # {} => lost # {}
          /\ all = {} <=> Kids(outcome, q) = {}
        OBVIOUS
    <2>3. \/ BoundIn(outcome, f, q) \in {NoBound, 0, Max({f[r] : r \in all}) + 1}
          \/ /\ {f[r] : r \in lost} # {}
             /\ BoundIn(outcome, f, q) = Min({f[r] : r \in lost}) + 1
        BY DEF BoundIn
    <2>4. all = {} => BoundIn(outcome, f, q) \in {NoBound, 0}
        BY DEF BoundIn
    <2> HIDE DEF lost, all
    <2>5. lost # {} => Min({f[r] : r \in lost}) \in Int
        <3> SUFFICES ASSUME lost # {} PROVE Min({f[r] : r \in lost}) \in Int
            OBVIOUS
        <3>1. PICK m \in lost : Min({f[r] : r \in lost}) = f[m]
            BY <2>1, BestOf
        <3>2. QED
            BY <2>1, <3>1
    <2>6. all # {} => Max({f[r] : r \in all}) \in Int
        <3> SUFFICES ASSUME all # {} PROVE Max({f[r] : r \in all}) \in Int
            OBVIOUS
        <3>1. PICK m \in all : Max({f[r] : r \in all}) = f[m]
            BY <2>1, BestOf
        <3>2. QED
            BY <2>1, <3>1
    <2>7. NoBound \in Int /\ 0 \in Int
        BY DEF NoBound
    <2>8. QED
        BY <2>2, <2>3, <2>4, <2>5, <2>6, <2>7
<1>3. ASSUME NEW q \in D, NEW f \in [D -> Int], NEW g \in [D -> Int],
             \A r \in D : Len(r) > Len(q) => f[r] = g[r]
      PROVE  BoundIn(outcome, f, q) = BoundIn(outcome, g, q)
    <2>1. \A r \in Kids(outcome, q) : f[r] = g[r]
        BY <1>1, <1>3
    <2>2. {f[r] : r \in Kids(outcome, q)} = {g[r] : r \in Kids(outcome, q)}
        BY <2>1
    <2>3. {f[r] : r \in LostKids(outcome, q)} = {g[r] : r \in LostKids(outcome, q)}
        BY <1>1, <2>1
    <2>4. QED
        BY <2>2, <2>3 DEF BoundIn
<1> DEFINE B == BoundsOf(outcome)
<1>4. B = CHOOSE b : b = [q \in D |-> BoundIn(outcome, b, q)]
    BY DEF BoundsOf, Table, BoundIn, LostKids
<1>5. \A q \in D : \A f \in [D -> Int] : step[<<q, f>>] = BoundIn(outcome, f, q)
    OBVIOUS
<1>6. D \subseteq Paths
    OBVIOUS
<1> HIDE DEF step, D
<1>7. PICK f \in [D -> Int] : \A q \in D : f[q] = step[<<q, f>>]
    <2>1. Int # {} /\ D \subseteq Paths
        BY <1>6
    <2>2. \A q \in D : \A h, g \in [D -> Int] :
             (\A r \in D : Len(r) > Len(q) => h[r] = g[r]) => step[<<q, h>>] = step[<<q, g>>]
        <3> SUFFICES ASSUME NEW q \in D, NEW h \in [D -> Int], NEW g \in [D -> Int],
                            \A r \in D : Len(r) > Len(q) => h[r] = g[r]
                     PROVE  step[<<q, h>>] = step[<<q, g>>]
            OBVIOUS
        <3>1. BoundIn(outcome, h, q) = BoundIn(outcome, g, q)
            BY <1>3
        <3>2. QED
            BY <1>5, <3>1
    <2>3. \A q \in D : \A h \in [D -> Int] : step[<<q, h>>] \in Int
        BY <1>2, <1>5
    <2>4. Upward(D, Int, step)
        BY <2>1, <2>2, <2>3 DEF Upward
    <2>5. QED
        BY <2>4, Recursion
<1> HIDE DEF B
<1>8. f = [q \in D |-> BoundIn(outcome, f, q)]
    BY <1>5, <1>7
<1>9. B = [q \in D |-> BoundIn(outcome, B, q)]
    BY <1>4, <1>8
<1>10. DOMAIN B = D /\ \A q \in D : B[q] = BoundIn(outcome, B, q)
    BY <1>9
<1>11. B \in [D -> Int]
    <2> DEFINE S == {q \in D : B[q] = f[q]}
    <2>1. ASSUME NEW q \in D, \A r \in D : Len(r) > Len(q) => r \in S
          PROVE  q \in S
        <3>1. \A r \in Kids(outcome, q) : B[r] = f[r]
            BY <1>1, <2>1
        <3>2. {B[r] : r \in Kids(outcome, q)} = {f[r] : r \in Kids(outcome, q)}
            BY <3>1
        <3>3. {B[r] : r \in LostKids(outcome, q)} = {f[r] : r \in LostKids(outcome, q)}
            BY <1>1, <3>1
        <3>4. BoundIn(outcome, B, q) = BoundIn(outcome, f, q)
            BY <3>2, <3>3 DEF BoundIn
        <3>5. B[q] = f[q]
            BY <1>5, <1>7, <1>10, <3>4
        <3>6. QED
            BY <3>5
    <2> HIDE DEF S
    <2>2. D \subseteq S
        BY <1>6, <2>1, FromLonger
    <2>3. \A q \in D : B[q] = f[q] /\ f[q] \in Int
        BY <2>2 DEF S
    <2>4. QED
        BY <1>9, <2>3
<1>12. QED
    BY <1>10, <1>11 DEF B, D

(* The outcomes of a tree that holds its shards: true, a won node with a   *)
(* lost child, a lost one with all its replies, all of them won.           *)
LEMMA TreeContract ==
    ASSUME NEW shards, ShardsOK(shards), NEW tree, Holds(tree, shards), NEW q \in DOMAIN tree
    PROVE  /\ q \in Paths /\ DOMAIN tree \subseteq Paths /\ tree[q].outcome \in OutcomeNames
           /\ tree[q].outcome = "win" => \E k \in Kids(tree, q) : tree[k].outcome = "loss"
           /\ tree[q].outcome = "loss" => /\ {Last(k) : k \in Kids(tree, q)} = Replies[q]
                                          /\ \A k \in Kids(tree, q) : tree[k].outcome = "win"
<1>1. DOMAIN tree = Touched(shards) /\ DOMAIN tree \subseteq Paths /\ q \in Paths
    BY TouchedPaths DEF Holds
<1>2. \A r \in DOMAIN tree : tree[r].outcome = OutcomeIn(shards, r)
    BY DEF Holds
<1>3. \A k : k \in Kids(tree, q) <=> k \in DOMAIN tree /\ k # <<>> /\ Front(k) = q
    BY <1>1, KidsIs
<1>4. CASE Claiming(shards, q) = {}
    BY <1>1, <1>2, <1>4 DEF OutcomeIn, OutcomeNames
<1>5. CASE Claiming(shards, q) # {}
    <2>1. PICK t \in DOMAIN shards : q \in DOMAIN shards[t].sha
        BY <1>5 DEF Claiming
    <2> DEFINE c == shards[t].sha
    <2>2. /\ tree[q].outcome = Value[q] /\ Value[q] \in {"win", "loss"}
          /\ Value[q] = "win" => \E m \in Replies[q] : /\ Append(q, m) \in DOMAIN c
                                                       /\ Value[Append(q, m)] = "loss"
          /\ Value[q] = "loss" => \A m \in Replies[q] : Append(q, m) \in DOMAIN c
        BY <1>2, <1>5, <2>1, TouchedPaths DEF OutcomeIn, ProofOf
    <2>3. ASSUME NEW m \in Replies[q], Append(q, m) \in DOMAIN c
          PROVE  /\ Append(q, m) \in Kids(tree, q) /\ Last(Append(q, m)) = m
                 /\ tree[Append(q, m)].outcome = Value[Append(q, m)]
        <3> DEFINE k == Append(q, m)
        <3>1. k # <<>> /\ Front(k) = q /\ Last(k) = m
            BY <1>1, PathIs
        <3> HIDE DEF k
        <3>2. k \in DOMAIN c
            BY <2>3 DEF k
        <3>3. t \in Claiming(shards, k) /\ k \in Touched(shards)
            BY <3>2 DEF Claiming, Touched
        <3>4. k \in Kids(tree, q) /\ tree[k].outcome = Value[k]
            BY <1>1, <1>2, <1>3, <3>1, <3>3 DEF OutcomeIn
        <3>5. QED
            BY <3>1, <3>4 DEF k
    <2> HIDE DEF c
    <2>4. CASE Value[q] = "win"
        <3>1. PICK m \in Replies[q] : Append(q, m) \in DOMAIN c /\ Value[Append(q, m)] = "loss"
            BY <2>2, <2>4
        <3>2. Append(q, m) \in Kids(tree, q) /\ tree[Append(q, m)].outcome = "loss"
            BY <2>3, <3>1
        <3>3. QED
            BY <1>1, <2>2, <2>4, <3>2 DEF OutcomeNames
    <2>5. CASE Value[q] = "loss"
        <3>1. ASSUME NEW m \in Replies[q]
              PROVE  \E k \in Kids(tree, q) : Last(k) = m
            BY <2>2, <2>3, <2>5
        <3>2. ASSUME NEW k \in Kids(tree, q)
              PROVE  Last(k) \in Replies[q] /\ tree[k].outcome = "win"
            <4>1. k \in Paths /\ k # <<>> /\ Front(k) = q
                BY <1>1, <1>3
            <4>2. Last(k) \in Replies[q] /\ k = Append(q, Last(k))
                BY <4>1, PathIs
            <4>3. tree[k].outcome = Value[k]
                BY <2>2, <2>3, <2>5, <4>2
            <4>4. Value[k] = "win"
                BY <1>1, <2>5, <4>2, ValueFacts
            <4>5. QED
                BY <4>2, <4>3, <4>4
        <3>3. {Last(k) : k \in Kids(tree, q)} = Replies[q]
            BY <3>1, <3>2
        <3>4. QED
            BY <1>1, <2>2, <2>5, <3>2, <3>3 DEF OutcomeNames
    <2>6. QED
        BY <2>2, <2>4, <2>5
<1>6. QED
    BY <1>4, <1>5

(* A bound is zero only where the game is over.                            *)
LEMMA ZeroBound ==
    ASSUME NEW shards, ShardsOK(shards), NEW tree, Holds(tree, shards)
    PROVE  \A q \in DOMAIN tree : /\ Bounds(tree)[q] \in Int
                                  /\ tree[q].outcome # "open" => Bounds(tree)[q] >= 0
                                  /\ Bounds(tree)[q] = 0 => Replies[q] = {}
<1> DEFINE out == [q \in DOMAIN tree |-> tree[q].outcome]
           b == BoundsOf(out)
<1>1. /\ DOMAIN out = DOMAIN tree /\ \A q \in DOMAIN tree : out[q] = tree[q].outcome
      /\ \A q : Kids(out, q) = Kids(tree, q) /\ Kids(tree, q) \subseteq DOMAIN tree
      /\ Bounds(tree) = b
    BY DEF Kids, Bounds
<1>2. DOMAIN tree \subseteq Paths
    BY TouchedPaths DEF Holds
<1> HIDE DEF out
<1>3. \A q \in DOMAIN tree : b[q] \in Int /\ b[q] = BoundIn(out, b, q)
    BY <1>1, <1>2, BoundsAre
<1> HIDE DEF b
<1> DEFINE S == {q \in DOMAIN tree : /\ out[q] # "open" => b[q] >= 0
                                     /\ b[q] = 0 => Replies[q] = {}}
<1>4. ASSUME NEW q \in DOMAIN tree, \A r \in DOMAIN tree : Len(r) > Len(q) => r \in S
      PROVE  q \in S
    <2>1. /\ q \in Paths /\ out[q] \in OutcomeNames
          /\ out[q] = "win" => \E k \in Kids(out, q) : out[k] = "loss"
          /\ out[q] = "loss" => /\ {Last(k) : k \in Kids(out, q)} = Replies[q]
                                /\ \A k \in Kids(out, q) : out[k] = "win"
        <3>1. /\ q \in Paths /\ tree[q].outcome \in OutcomeNames
              /\ tree[q].outcome = "win" => \E k \in Kids(tree, q) : tree[k].outcome = "loss"
              /\ tree[q].outcome = "loss" => /\ {Last(k) : k \in Kids(tree, q)} = Replies[q]
                                             /\ \A k \in Kids(tree, q) : tree[k].outcome = "win"
            BY TreeContract
        <3>2. QED
            BY <1>1, <3>1
    <2>2. \A r \in Kids(out, q) : r \in Paths /\ r \in DOMAIN tree /\ r \in S
        <3> SUFFICES ASSUME NEW r \in Kids(out, q) PROVE r \in Paths /\ r \in DOMAIN tree /\ r \in S
            OBVIOUS
        <3>1. r \in DOMAIN tree /\ Len(r) = Len(q) + 1 /\ Len(q) \in Nat
            BY <1>1, <2>1, PathIs DEF Kids
        <3>2. QED
            BY <1>2, <1>4, <3>1
    <2>3. \A r \in Kids(out, q) : b[r] \in Int /\ (out[r] # "open" => b[r] >= 0)
        BY <1>3, <2>2
    <2>4. CASE out[q] = "open"
        <3>1. b[q] = -1
            BY <1>3, <2>4 DEF BoundIn, NoBound
        <3>2. QED
            BY <2>4, <3>1
    <2>5. CASE out[q] # "open" /\ Kids(out, q) = {}
        <3>1. out[q] = "loss" /\ Replies[q] = {}
            BY <2>1, <2>5 DEF OutcomeNames
        <3>2. b[q] = 0
            BY <1>3, <2>5 DEF BoundIn
        <3>3. QED
            BY <3>1, <3>2
    <2>6. CASE out[q] = "win" /\ Kids(out, q) # {}
        <3> DEFINE lost == LostKids(out, q)
        <3>1. lost # {} /\ \A r \in lost : r \in Paths /\ b[r] \in Int /\ b[r] >= 0
            BY <2>1, <2>2, <2>3, <2>6 DEF LostKids
        <3>2. b[q] = Min({b[r] : r \in lost}) + 1
            BY <1>3, <2>6, <3>1 DEF BoundIn
        <3> HIDE DEF lost
        <3>3. PICK m \in lost : Min({b[r] : r \in lost}) = b[m]
            <4>1. lost \subseteq Paths /\ \A r \in lost : b[r] \in Int
                BY <3>1
            <4>2. QED
                BY <3>1, <4>1, BestOf
        <3>4. b[q] >= 1
            BY <3>1, <3>2, <3>3
        <3>5. QED
            BY <1>3, <3>4
    <2>7. CASE out[q] = "loss" /\ Kids(out, q) # {}
        <3> DEFINE kids == Kids(out, q)
        <3>1. kids # {} /\ \A r \in kids : r \in Paths /\ b[r] \in Int /\ b[r] >= 0
            BY <2>1, <2>2, <2>3, <2>7
        <3>2. b[q] = Max({b[r] : r \in kids}) + 1
            BY <1>3, <2>7 DEF BoundIn
        <3> HIDE DEF kids
        <3>3. PICK m \in kids : Max({b[r] : r \in kids}) = b[m]
            <4>1. kids \subseteq Paths /\ \A r \in kids : b[r] \in Int
                BY <3>1
            <4>2. QED
                BY <3>1, <4>1, BestOf
        <3>4. b[q] >= 1
            BY <3>1, <3>2, <3>3
        <3>5. QED
            BY <1>3, <3>4
    <2>8. QED
        BY <2>1, <2>4, <2>5, <2>6, <2>7 DEF OutcomeNames
<1>5. DOMAIN tree \subseteq S
    <2> HIDE DEF S
    <2>1. QED
        BY <1>2, <1>4, FromLonger
<1>6. QED
    BY <1>1, <1>3, <1>5

-----------------------------------------------------------------------------
(* The tree from step to step.                                             *)

LEMMA DbTreeAlone ==
    ASSUME DbTree, db'.nodes = db.nodes, db'.shards = db.shards, db'.schema = db.schema,
           db'.builtFrom = db.builtFrom
    PROVE  DbTree'
BY DEF DbTree, Rows

LEMMA NoFoldTree ==
    ASSUME fold'.phase = Idle
    PROVE  FoldTree'
BY DEF FoldTree, Idle

(* The committed tree, whether there is one yet or not.                    *)
LEMMA RowsAre ==
    ASSUME FilesInv, DbTree
    PROVE  /\ Rows \subseteq Paths /\ Rows \subseteq Touched(db.shards) /\ IdsOK(db.nodes)
           /\ \A q \in Rows : /\ q # <<>> => Front(q) \in Rows
                              /\ db.nodes[q].outcome = OutcomeIn(db.shards, q)
                              /\ db.nodes[q].prov = Naming(db.shards, q) \cup Claiming(db.shards, q)
                              /\ db.nodes[q].bound \in Int
<1>1. ShardsOK(db.shards)
    BY DEF FilesInv, DbOK
<1>2. CASE db.schema
    <2>1. Holds(db.nodes, db.shards) /\ Rows = Touched(db.shards)
        BY <1>2 DEF DbTree, Holds, Rows
    <2>2. \A q \in Rows : q # <<>> => Front(q) \in Rows
        BY <1>1, <2>1, TouchedFront
    <2>3. \A q \in Rows : db.nodes[q].bound \in Int
        BY <1>1, <1>2, <2>1, ZeroBound DEF DbTree, Rows
    <2>4. QED
        BY <1>1, <1>2, <2>1, <2>2, <2>3, TouchedPaths DEF DbTree, Holds, Rows
<1>3. CASE ~db.schema
    <2>1. Rows = {}
        <3>1. DOMAIN <<>> = {}
            OBVIOUS
        <3>2. QED
            BY <1>3, <3>1 DEF DbTree, Rows
    <2>2. QED
        BY <2>1 DEF IdsOK, Rows
<1>4. QED
    BY <1>2, <1>3

LEMMA FoldedOK ==
    ASSUME FilesInv, fold.phase = "shards"
    PROVE  /\ ShardsOK(Folded) /\ DOMAIN Folded = DOMAIN fold.shards \cup DOMAIN db.shards
           /\ \A t \in DOMAIN fold.shards : Folded[t] = fold.shards[t]
           /\ \A t \in DOMAIN db.shards : Folded[t] = db.shards[t]
           /\ Touched(db.shards) \subseteq Touched(Folded)
           /\ \A q : /\ Naming(db.shards, q) \subseteq Naming(Folded, q)
                     /\ Claiming(db.shards, q) \subseteq Claiming(Folded, q)
<1>1. /\ DOMAIN Folded = DOMAIN fold.shards \cup DOMAIN db.shards
      /\ \A t \in DOMAIN fold.shards : Folded[t] = fold.shards[t]
      /\ \A t \in DOMAIN db.shards : Folded[t] = db.shards[t]
    BY DEF Folded, FilesInv, FoldOK
<1>2. ShardsOK(Folded)
    BY <1>1 DEF FilesInv, FoldOK, DbOK, ShardsOK
<1>3. Touched(db.shards) \subseteq Touched(Folded)
    BY <1>1 DEF Touched
<1>4. \A q : /\ Naming(db.shards, q) \subseteq Naming(Folded, q)
             /\ Claiming(db.shards, q) \subseteq Claiming(Folded, q)
    BY <1>1 DEF Naming, Claiming
<1>5. QED
    BY <1>1, <1>2, <1>3, <1>4

(* A fold starts from the committed tree.                                  *)
LEMMA BeginKeepsTree ==
    ASSUME FilesInv, DbTree, NEW manifest, NEW import, BeginFold(manifest, import)
    PROVE  DbTree' /\ FoldTree'
<1>1. DbTree'
    BY DbTreeAlone DEF BeginFold, storeVars
<1>2. CASE LostBin
    <2>1. fold'.phase = Idle
        BY <1>2 DEF BeginFold, Aborted
    <2>2. QED
        BY <1>1, <2>1, NoFoldTree
<1>3. CASE ~LostBin
    <2>1. fold'.tree = StandingTree /\ fold'.shards = <<>> /\ db' = db
        BY <1>3 DEF BeginFold, storeVars
    <2>2. DOMAIN <<>> = {}
        OBVIOUS
    <2>3. DOMAIN Folded' = DOMAIN db.shards /\ \A t \in DOMAIN db.shards : Folded'[t] = db.shards[t]
        BY <2>1, <2>2 DEF Folded
    <2>4. CASE db.schema
        <3>1. Holds(db.nodes, db.shards) /\ Rows # {}
            BY <2>4, TouchedPaths DEF DbTree, Holds, Rows, FilesInv, DbOK
        <3>2. /\ DOMAIN StandingTree = DOMAIN db.nodes
              /\ \A q \in DOMAIN db.nodes : /\ StandingTree[q].outcome = db.nodes[q].outcome
                                            /\ StandingTree[q].prov = db.nodes[q].prov
                                            /\ DOMAIN StandingTree[q] = {"outcome", "prov", "exact"}
            BY <3>1 DEF StandingTree, RestoredNode, Rows
        <3>3. Holds(fold'.tree, Folded')
            BY <2>1, <2>3, <3>1, <3>2, HoldsSame
        <3>4. FoldTree'
            BY <2>1, <3>2, <3>3 DEF FoldTree, Formed
        <3>5. QED
            BY <1>1, <3>4
    <2>5. CASE ~db.schema
        <3>1. Rows = {} /\ DOMAIN db.shards = {}
            BY <2>2, <2>5 DEF DbTree, Rows
        <3>2. fold'.tree = NewTree /\ DOMAIN Folded' = {}
            BY <2>1, <2>3, <3>1 DEF StandingTree
        <3>3. /\ DOMAIN fold'.tree = {<<>>} /\ fold'.tree[<<>>].outcome = "open"
              /\ fold'.tree[<<>>].prov = {}
              /\ DOMAIN fold'.tree[<<>>] = {"outcome", "prov", "exact"}
            BY <3>2 DEF NewTree, OpenNode
        <3>4. Touched(Folded') = {<<>>}
            BY <3>2 DEF Touched
        <3>5. \A q : Naming(Folded', q) = {} /\ Claiming(Folded', q) = {}
            BY <3>2 DEF Naming, Claiming
        <3>6. Holds(fold'.tree, Folded')
            BY <3>3, <3>4, <3>5 DEF Holds, OutcomeIn
        <3>7. FoldTree'
            BY <3>3, <3>6 DEF FoldTree, Formed
        <3>8. QED
            BY <1>1, <3>7
    <2>6. QED
        BY <2>4, <2>5
<1>4. QED
    BY <1>2, <1>3

(* And overlays one shard after the other.                                 *)
LEMMA OverlaidTree ==
    ASSUME FilesInv, FoldTree, fold.phase = "shards", NEW tag \in fold.todo, tag \notin DOMAIN db.shards,
           TagOK(tag), bins[tag] \in ProofsAt[tag[2]], fold' = Overlaid(tag, tag[2]), db' = db
    PROVE  FoldTree'
<1> DEFINE tree == GraftPath(fold.tree, tag[2], tag)
           shard == [path |-> tag[2], sha |-> bins[tag]]
<1>1. CASE Contradicts(tree, bins[tag])
    <2>1. fold'.phase = Idle
        BY <1>1 DEF Overlaid, Aborted
    <2>2. QED
        BY <2>1, NoFoldTree
<1>2. CASE ~Contradicts(tree, bins[tag])
    <2>1. fold' = [fold EXCEPT !.todo = @ \ {tag}, !.tree = OverlaySubtree(tree, bins[tag], tag),
                               !.shards = Put(@, tag, shard)]
        BY <1>2 DEF Overlaid
    <2>2. fold'.tree = OverlaySubtree(tree, bins[tag], tag) /\ fold'.shards = Put(fold.shards, tag, shard)
        BY <2>1 DEF FilesInv, FoldOK
    <2>3. ShardsOK(Folded) /\ tag \notin DOMAIN Folded
        BY FoldedOK DEF FilesInv, FoldOK
    <2>4. Folded' = Put(Folded, tag, shard)
        <3> HIDE DEF shard
        <3>1. /\ DOMAIN fold'.shards = DOMAIN fold.shards \cup {tag} /\ fold'.shards[tag] = shard
              /\ \A t \in DOMAIN fold.shards : t # tag => fold'.shards[t] = fold.shards[t]
            BY <2>2 DEF Put
        <3>2. Folded' = [t \in DOMAIN fold'.shards \cup DOMAIN db.shards |->
                            IF t \in DOMAIN fold'.shards THEN fold'.shards[t] ELSE db.shards[t]]
            BY DEF Folded
        <3>3. Put(Folded, tag, shard) = [t \in DOMAIN Folded \cup {tag} |->
                                            IF t = tag THEN shard ELSE Folded[t]]
            BY DEF Put
        <3>4. DOMAIN fold'.shards \cup DOMAIN db.shards = DOMAIN Folded \cup {tag}
            BY <3>1, FoldedOK
        <3>5. \A t \in DOMAIN Folded \cup {tag} :
                  (IF t \in DOMAIN fold'.shards THEN fold'.shards[t] ELSE db.shards[t])
                      = (IF t = tag THEN shard ELSE Folded[t])
            BY <2>3, <3>1, FoldedOK
        <3>6. QED
            BY <3>2, <3>3, <3>4, <3>5
    <2>5. Holds(fold.tree, Folded) /\ Formed(fold.tree)
        BY DEF FoldTree
    <2>6. Holds(fold'.tree, Folded') /\ Formed(fold'.tree)
        BY <2>2, <2>3, <2>4, <2>5, OverlayHolds
    <2>7. QED
        BY <2>6 DEF FoldTree
<1>3. QED
    BY <1>1, <1>2

LEMMA DoneKeepsTree ==
    ASSUME FilesInv, FoldTree, fold.phase = "shards", NEW tag, fold' = Done(tag), db' = db
    PROVE  FoldTree'
<1>1. fold'.tree = fold.tree /\ fold'.shards = fold.shards
    BY DEF Done, FilesInv, FoldOK
<1>2. Folded' = Folded
    BY <1>1 DEF Folded
<1>3. QED
    BY <1>1, <1>2 DEF FoldTree

LEMMA ShardKeepsTree ==
    ASSUME FilesInv, DbTree, FoldTree, FoldShard
    PROVE  DbTree' /\ FoldTree'
<1>1. PICK tag \in fold.todo :
          SkipMerged(tag) \/ SkipOrphan(tag) \/ FoldSidecar(tag) \/ FoldManifest(tag)
    BY DEF FoldShard
<1>2. fold.phase = "shards" /\ tag \in DOMAIN bins
    BY DEF FoldShard, FilesInv, FoldOK
<1>3. CASE SkipMerged(tag) \/ SkipOrphan(tag)
    <2>1. db' = db /\ (fold' = Done(tag) \/ fold'.phase = Idle)
        <3>1. CASE SkipMerged(tag)
            BY <3>1 DEF SkipMerged, storeVars, Aborted
        <3>2. CASE SkipOrphan(tag)
            BY <3>2 DEF SkipOrphan, storeVars
        <3>3. QED
            BY <1>3, <3>1, <3>2
    <2>2. QED
        BY <1>2, <2>1, DoneKeepsTree, NoFoldTree, DbTreeAlone
<1>4. CASE FoldSidecar(tag)
    <2>1. db' = db /\ tag \in fold.seen /\ tag \notin DOMAIN db.shards
        BY <1>4 DEF FoldSidecar, storeVars
    <2>2. CASE Loads(tag, sides[tag])
        <3>1. /\ tag \in DOMAIN sides /\ TagOK(tag) /\ sides[tag].path = tag[2]
              /\ bins[tag] = sides[tag].sha /\ sides[tag].sha \in ProofsAt[tag[2]]
            BY <1>2, <2>1, <2>2 DEF FilesInv, DiskOK, FoldOK, ShardsOK, Loads
        <3>2. fold' = Overlaid(tag, tag[2])
            BY <1>4, <2>2, <3>1 DEF FoldSidecar
        <3>3. QED
            BY <1>2, <2>1, <3>1, <3>2, OverlaidTree, DbTreeAlone
    <2>3. CASE ~Loads(tag, sides[tag])
        <3>1. fold'.phase = Idle
            BY <1>4, <2>3 DEF FoldSidecar, Aborted
        <3>2. QED
            BY <2>1, <3>1, NoFoldTree, DbTreeAlone
    <2>4. QED
        BY <2>2, <2>3
<1>5. CASE FoldManifest(tag)
    <2> DEFINE path == fold.manifest[tag]
               entry == [path |-> path, outcome |-> Value[path], sha |-> bins[tag]]
    <2>1. db' = db /\ tag \in DOMAIN fold.manifest /\ tag \notin DOMAIN db.shards
        BY <1>5 DEF FoldManifest
    <2>2. TagOK(tag) /\ path = tag[2]
        <3>1. DOMAIN <<>> = {}
            OBVIOUS
        <3>2. fold.manifest = Manifest
            BY <1>2, <2>1, <3>1 DEF FilesInv, FoldOK
        <3>3. path \in Paths /\ Value[path] # "draw" /\ tag = <<"m", path>>
            BY <2>1, <3>2, StoreAssumption
        <3>4. tag \in {"h", "m"} \X Paths /\ path = tag[2]
            BY <3>3
        <3>5. QED
            BY <3>3, <3>4 DEF TagOK
    <2>3. CASE Loads(tag, entry)
        <3>1. fold' = Overlaid(tag, path)
            BY <1>5, <2>3 DEF FoldManifest
        <3>2. bins[tag] \in ProofsAt[tag[2]]
            BY <1>2, <2>3 DEF FilesInv, DiskOK, Loads
        <3>3. fold' = Overlaid(tag, tag[2])
            BY <2>2, <3>1
        <3> HIDE DEF entry, path
        <3>4. QED
            BY <1>2, <2>1, <2>2, <3>2, <3>3, OverlaidTree, DbTreeAlone
    <2>4. CASE ~Loads(tag, entry)
        <3>1. fold'.phase = Idle
            <4>1. fold' = Aborted("bad shard")
                BY <1>5, <2>4 DEF FoldManifest
            <4>2. QED
                BY <4>1 DEF Aborted
        <3>2. QED
            BY <2>1, <3>1, NoFoldTree, DbTreeAlone
    <2>5. QED
        BY <2>3, <2>4
<1>6. QED
    BY <1>1, <1>3, <1>4, <1>5

(* What a fold commits.                                                    *)
LEMMA FinishIs ==
    ASSUME FilesInv, DbTree, FoldTree, FinishFold, db' # db
    PROVE  /\ fold.phase = "shards" /\ fold'.phase = Idle
           /\ db'.schema = TRUE /\ db'.nodes = Delta(fold.tree, Bounds(fold.tree))
           /\ db'.shards = Folded /\ db'.censor = fold.censor /\ db'.drawn = db.drawn
           /\ db'.builtFrom = {<<t, Folded[t].sha>> : t \in DOMAIN Folded}
           /\ ~Corrupted(fold.tree, Bounds(fold.tree))
<1>1. fold.phase = "shards"
    BY DEF FinishFold
<1>2. PICK bounds : /\ bounds = Bounds(fold.tree)
                    /\ ~Corrupted(fold.tree, bounds)
                    /\ fold' = NoFold
                    /\ db' = [schema    |-> TRUE,
                              nodes     |-> Delta(fold.tree, bounds),
                              shards    |-> Folded,
                              censor    |-> fold.censor,
                              drawn     |-> db.drawn,
                              builtFrom |-> {<<tag, Folded[tag].sha>> : tag \in DOMAIN Folded}]
    BY DEF FinishFold, Folded
<1>3. fold'.phase = Idle
    BY <1>2 DEF NoFold
<1>4. QED
    BY <1>1, <1>2, <1>3

(* The rows that a fold writes: those that were there keep their ids, and  *)
(* none is lost.                                                           *)
LEMMA DeltaIs ==
    ASSUME FilesInv, DbTree, FoldTree, fold.phase = "shards",
           NEW new, new = Delta(fold.tree, Bounds(fold.tree))
    PROVE  /\ DOMAIN new = DOMAIN fold.tree /\ Holds(new, Folded) /\ IdsOK(new) /\ Stored(new)
           /\ Rows \subseteq DOMAIN new
           /\ \A q \in DOMAIN new : /\ new[q].bound = Bounds(new)[q] /\ new[q].bound \in Int
                                    /\ new[q].bound = Bounds(fold.tree)[q]
                                    /\ new[q].outcome = fold.tree[q].outcome
           /\ \A q \in Rows : new[q].id = db.nodes[q].id
           /\ \A q \in DOMAIN new \ Rows, r \in Rows : db.nodes[r].id < new[q].id
<1>1. /\ DOMAIN new = DOMAIN fold.tree
      /\ \A q \in DOMAIN new : /\ new[q].id = RowId(fold.tree, q)
                               /\ new[q].outcome = fold.tree[q].outcome
                               /\ new[q].bound = Bounds(fold.tree)[q]
                               /\ new[q].prov = fold.tree[q].prov
    BY DEF Delta
<1>2. Holds(fold.tree, Folded) /\ ShardsOK(Folded)
    BY FoldedOK DEF FoldTree
<1>3. Holds(new, Folded)
    BY <1>1, <1>2, HoldsSame
<1>4. Bounds(new) = Bounds(fold.tree)
    <2>1. [q \in DOMAIN new |-> new[q].outcome] = [q \in DOMAIN fold.tree |-> fold.tree[q].outcome]
        BY <1>1
    <2>2. QED
        BY <2>1 DEF Bounds
<1>5. \A q \in DOMAIN new : Bounds(fold.tree)[q] \in Int
    BY <1>1, <1>2, ZeroBound
<1>6. DOMAIN fold.tree = Touched(Folded) /\ DOMAIN fold.tree \subseteq Paths
    BY <1>2, TouchedPaths DEF Holds
<1>7. Rows \subseteq DOMAIN fold.tree
    BY <1>6, RowsAre, FoldedOK
<1>8. \A q \in DOMAIN fold.tree : q # <<>> => Front(q) \in DOMAIN fold.tree
    BY <1>2, <1>6, TouchedFront
<1>9. IdsOK(db.nodes) /\ \A q \in Rows : q # <<>> => Front(q) \in Rows
    BY RowsAre
<1>10. /\ \A q \in Rows : RowId(fold.tree, q) = db.nodes[q].id
       /\ \A q \in DOMAIN fold.tree : /\ RowId(fold.tree, q) \in Nat
                                      /\ q # <<>> => RowId(fold.tree, Front(q)) < RowId(fold.tree, q)
       /\ \A q \in DOMAIN fold.tree \ Rows, r \in Rows : db.nodes[r].id < RowId(fold.tree, q)
    BY <1>6, <1>7, <1>8, <1>9, IdsGrow
<1>11. IdsOK(new)
    BY <1>1, <1>8, <1>10 DEF IdsOK
<1>12. Stored(new)
    <2> SUFFICES ASSUME NEW q \in DOMAIN new
                 PROVE  /\ DOMAIN new[q] = {"id", "outcome", "bound", "status", "prov"}
                        /\ new[q].status = "none" <=> new[q].outcome = "open"
        BY DEF Stored
    <2>1. new[q] = [id      |-> RowId(fold.tree, q),
                    outcome |-> fold.tree[q].outcome,
                    bound   |-> Bounds(fold.tree)[q],
                    status  |-> DepthStatus(fold.tree, q),
                    prov    |-> fold.tree[q].prov]
        BY <1>1 DEF Delta
    <2>2. DepthStatus(fold.tree, q) = "none" <=> fold.tree[q].outcome = "open"
        BY DEF DepthStatus
    <2>3. QED
        BY <2>1, <2>2
<1>13. QED
    BY <1>1, <1>3, <1>4, <1>5, <1>7, <1>10, <1>11, <1>12

LEMMA FinishKeepsTree ==
    ASSUME FilesInv, DbTree, FoldTree, FinishFold
    PROVE  DbTree' /\ FoldTree'
<1>1. CASE db' = db
    <2>1. fold'.phase = Idle
        <3>1. fold' = NoFold \/ \E cause : fold' = Aborted(cause)
            BY DEF FinishFold
        <3>2. QED
            BY <3>1 DEF NoFold, Aborted
    <2>2. QED
        BY <1>1, <2>1, NoFoldTree, DbTreeAlone
<1>2. CASE db' # db
    <2>1. /\ fold.phase = "shards" /\ fold'.phase = Idle
          /\ db'.schema = TRUE /\ db'.nodes = Delta(fold.tree, Bounds(fold.tree))
          /\ db'.shards = Folded
          /\ db'.builtFrom = {<<t, Folded[t].sha>> : t \in DOMAIN Folded}
        BY <1>2, FinishIs
    <2>2. /\ Holds(db'.nodes, Folded) /\ IdsOK(db'.nodes) /\ Stored(db'.nodes)
          /\ \A q \in DOMAIN db'.nodes : db'.nodes[q].bound = Bounds(db'.nodes)[q]
        BY <2>1, DeltaIs
    <2>3. DbTree'
        BY <2>1, <2>2 DEF DbTree, Rows
    <2>4. QED
        BY <2>1, <2>3, NoFoldTree
<1>3. QED
    BY <1>1, <1>2

-----------------------------------------------------------------------------
(* What is durable.                                                        *)

(* Only the scheduling tables change, and only grow.                       *)
Schedules ==
    /\ db'.nodes = db.nodes /\ db'.shards = db.shards /\ db'.schema = db.schema
    /\ db'.builtFrom = db.builtFrom
    /\ Grown(db.censor, db'.censor) /\ db.drawn \subseteq db'.drawn

LEMMA SameSchedules ==
    ASSUME FilesInv, db' = db
    PROVE  Schedules
BY GrownRefl DEF Schedules, FilesInv, DbOK

LEMMA HarvestSchedules ==
    ASSUME FilesInv, HarvestRuns
    PROVE  Schedules
<1>1. HarvestNext
    BY DEF HarvestRuns
<1>2. CASE EndSearch
    <2>1. session.phase = "search"
        BY <1>2 DEF EndSearch
    <2>2. session.key \in Paths /\ session.base \in Nat
        BY <2>1 DEF FilesInv, SessionOK
    <2>3. ASSUME NEW evals \in {1, session.base}, Censored(evals)
          PROVE  Schedules
        <3>1. db' = [db EXCEPT !.censor = Bump(@, session.key, evals)]
            BY <2>3 DEF Censored
        <3>2. /\ db'.nodes = db.nodes /\ db'.shards = db.shards /\ db'.schema = db.schema
              /\ db'.builtFrom = db.builtFrom /\ db'.drawn = db.drawn
              /\ db'.censor = Bump(db.censor, session.key, evals)
            BY <3>1 DEF FilesInv, DbOK
        <3>3. CensorOK(db.censor) /\ evals \in Nat
            BY <2>2, <2>3 DEF FilesInv, DbOK
        <3>4. Grown(db.censor, db'.censor)
            BY <2>2, <3>2, <3>3, BumpIs
        <3>5. QED
            BY <3>2, <3>4 DEF Schedules
    <2>4. CASE ProvenDraw
        <3>1. db' = [db EXCEPT !.drawn = @ \cup {session.key}]
            BY <2>4 DEF ProvenDraw
        <3>2. /\ db'.nodes = db.nodes /\ db'.shards = db.shards /\ db'.schema = db.schema
              /\ db'.builtFrom = db.builtFrom /\ db'.drawn = db.drawn \cup {session.key}
              /\ db'.censor = db.censor
            BY <3>1 DEF FilesInv, DbOK
        <3>3. QED
            BY <3>2, GrownRefl DEF Schedules, FilesInv, DbOK
    <2>5. CASE Decisive \/ ExportRejected
        <3>1. db' = db
            BY <2>5 DEF Decisive, ExportRejected, storeVars
        <3>2. QED
            BY <3>1, SameSchedules
    <2>6. QED
        BY <1>2, <2>3, <2>4, <2>5 DEF EndSearch
<1>3. CASE ~EndSearch
    <2>1. db' = db
        BY <1>1, <1>3 DEF HarvestNext, SessionStep, StartSession, Iterate, WriteShardBin,
           WriteShardSidecar, CrashSession, storeVars
    <2>2. QED
        BY <2>1, SameSchedules
<1>4. QED
    BY <1>2, <1>3

(* Every step schedules at most, or is a fold that commits.                *)
LEMMA StepsAre ==
    ASSUME FilesInv, [Next]_vars
    PROVE  \/ Schedules
           \/ FinishFold /\ db' # db
<1>1. CASE FoldRuns
    <2>1. db' = db \/ (FinishFold /\ db' # db)
        BY <1>1 DEF FoldRuns, FoldNext, BeginFold, FoldShard, SkipMerged, SkipOrphan, FoldSidecar,
           FoldManifest, CrashFold, storeVars
    <2>2. QED
        BY <2>1, SameSchedules
<1>2. CASE HarvestRuns
    BY <1>2, HarvestSchedules
<1>3. CASE (\E tag \in DOMAIN sides : Spoil(tag)) \/ DeleteTransport \/ UNCHANGED vars
    <2>1. db' = db
        BY <1>3 DEF Spoil, DeleteTransport, vars, storeVars
    <2>2. QED
        BY <2>1, SameSchedules
<1>4. QED
    BY <1>1, <1>2, <1>3 DEF Next

LEMMA TreeStep ==
    ASSUME FilesInv, DbTree, FoldTree, [Next]_vars
    PROVE  DbTree' /\ FoldTree'
<1>1. CASE FoldRuns
    <2>1. session.phase = "off" /\ FoldNext
        BY <1>1 DEF FoldRuns
    <2>2. ASSUME NEW manifest \in {Manifest, <<>>}, NEW import \in BOOLEAN, BeginFold(manifest, import)
          PROVE  DbTree' /\ FoldTree'
        BY <2>2, BeginKeepsTree
    <2>3. CASE FoldShard
        BY <2>3, ShardKeepsTree
    <2>4. CASE FinishFold
        BY <2>4, FinishKeepsTree
    <2>5. CASE CrashFold
        <3>1. db' = db /\ fold'.phase = Idle
            BY <2>5 DEF CrashFold, storeVars, NoFold
        <3>2. QED
            BY <3>1, NoFoldTree, DbTreeAlone
    <2>6. QED
        BY <2>1, <2>2, <2>3, <2>4, <2>5 DEF FoldNext
<1>2. CASE HarvestRuns
    <2>1. Schedules
        BY <1>2, HarvestSchedules
    <2>2. fold'.phase = Idle
        BY <1>2 DEF HarvestRuns
    <2>3. QED
        BY <2>1, <2>2, NoFoldTree, DbTreeAlone DEF Schedules
<1>3. CASE (\E tag \in DOMAIN sides : Spoil(tag)) \/ DeleteTransport
    <2>1. db' = db /\ fold'.phase = Idle
        BY <1>3 DEF Spoil, DeleteTransport, Quiet
    <2>2. QED
        BY <2>1, NoFoldTree, DbTreeAlone
<1>4. CASE UNCHANGED vars
    <2>1. db' = db /\ fold' = fold
        BY <1>4 DEF vars, storeVars
    <2>2. FoldTree'
        BY <2>1 DEF FoldTree, Folded
    <2>3. QED
        BY <2>1, <2>2, DbTreeAlone
<1>5. QED
    BY <1>1, <1>2, <1>3, <1>4 DEF Next

LEMMA StoreBegins == Init => StoreInv
<1> SUFFICES ASSUME Init PROVE StoreInv
    OBVIOUS
<1>1. db = EmptyDb /\ fold = NoFold
    BY DEF Init, StoreInit, FoldInit
<1>2. DbTree
    BY <1>1 DEF EmptyDb, DbTree
<1>3. FoldTree
    BY <1>1 DEF NoFold, FoldTree, Idle
<1>4. QED
    BY <1>2, <1>3, FilesInit DEF StoreInv

LEMMA StoreSteps == StoreInv /\ [Next]_vars => StoreInv'
BY FilesStep, TreeStep DEF StoreInv

(* The invariant says what the property does.                              *)
LEMMA StoreHolds == StoreInv => StoreSound
<1> SUFFICES ASSUME FilesInv, DbTree PROVE StoreSound
    BY DEF StoreInv
<1>1. ShardsOK(db.shards)
    BY DEF FilesInv, DbOK
<1>2. TypeOK
    <2>1. \A tag \in DOMAIN bins : tag \in Tags /\ (bins[tag] = Torn \/ bins[tag] \in ProofsAt[tag[2]])
        BY DEF FilesInv, DiskOK, TagOK, Tags
    <2>2. ASSUME NEW tag \in DOMAIN sides
          PROVE  tag \in Tags /\ sides[tag].path = tag[2] /\ sides[tag].outcome \in OutcomeNames
        <3>1. TagOK(tag) /\ sides[tag].path = tag[2] /\ sides[tag].outcome = Value[tag[2]]
            BY DEF FilesInv, DiskOK, ShardsOK
        <3>2. Value[tag[2]] \in Worths
            BY <3>1, ValueFacts DEF TagOK
        <3>3. QED
            BY <3>1, <3>2 DEF TagOK, Tags, Worths, OutcomeNames
    <2>3. DOMAIN db.shards \subseteq Tags
        BY <1>1 DEF ShardsOK, TagOK, Tags
    <2>4. Rows \subseteq Paths /\ \A q \in Rows : db.nodes[q].outcome \in OutcomeNames
        <3>1. CASE db.schema
            BY <1>1, <3>1, RowsAre, TreeContract DEF DbTree, Rows
        <3>2. CASE ~db.schema
            <4>1. DOMAIN <<>> = {}
                OBVIOUS
            <4>2. Rows = {}
                BY <3>2, <4>1 DEF DbTree, Rows
            <4>3. QED
                BY <4>2
        <3>3. QED
            BY <3>1, <3>2
    <2>5. DOMAIN db.censor \cup db.drawn \subseteq Paths
        BY DEF FilesInv, DbOK, CensorOK
    <2>6. fold.phase \in {Idle, "shards"} /\ session.phase \in {"off", "walk", "search", "bin", "sidecar"}
        BY DEF FilesInv, FoldOK, SessionOK
    <2>7. QED
        BY <2>1, <2>2, <2>3, <2>4, <2>5, <2>6 DEF TypeOK
<1>3. StandingIsFoldOfShards
    <2> SUFFICES ASSUME db.schema
                 PROVE  LET tree == Overlay(db.shards)
                            bounds == Bounds(tree)
                        IN /\ Rows = DOMAIN tree
                           /\ \A q \in Rows : /\ db.nodes[q].outcome = tree[q].outcome
                                              /\ db.nodes[q].bound = bounds[q]
                                              /\ db.nodes[q].prov = tree[q].prov
                           /\ db.builtFrom = {<<t, db.shards[t].sha>> : t \in DOMAIN db.shards}
        BY DEF StandingIsFoldOfShards
    <2> DEFINE tree == Overlay(db.shards)
    <2>1. /\ DOMAIN tree = Touched(db.shards)
          /\ \A q \in DOMAIN tree : /\ tree[q].outcome = OutcomeIn(db.shards, q)
                                    /\ tree[q].prov = Naming(db.shards, q) \cup Claiming(db.shards, q)
        BY DEF Overlay, OutcomeIn
    <2> HIDE DEF tree
    <2>2. /\ Holds(db.nodes, db.shards)
          /\ \A q \in Rows : db.nodes[q].bound = Bounds(db.nodes)[q]
          /\ db.builtFrom = {<<t, db.shards[t].sha>> : t \in DOMAIN db.shards}
        BY DEF DbTree
    <2>3. DOMAIN tree = Rows /\ \A q \in Rows : /\ db.nodes[q].outcome = tree[q].outcome
                                                /\ db.nodes[q].prov = tree[q].prov
        BY <2>1, <2>2 DEF Holds, Rows
    <2>4. Bounds(tree) = Bounds(db.nodes)
        <3>1. [q \in DOMAIN tree |-> tree[q].outcome] = [q \in DOMAIN db.nodes |-> db.nodes[q].outcome]
            BY <2>3 DEF Rows
        <3>2. QED
            BY <3>1 DEF Bounds
    <2>5. QED
        BY <2>2, <2>3, <2>4 DEF tree
<1>4. StoreContract
    <2> SUFFICES ASSUME NEW q \in Rows
                 PROVE  /\ q # <<>> => Front(q) \in Rows /\ db.nodes[Front(q)].id < db.nodes[q].id
                        /\ db.nodes[q].outcome = "win" =>
                              \E k \in Kids(db.nodes, q) : db.nodes[k].outcome = "loss"
                        /\ db.nodes[q].outcome = "loss" =>
                              /\ {Last(k) : k \in Kids(db.nodes, q)} = Replies[q]
                              /\ \A k \in Kids(db.nodes, q) : db.nodes[k].outcome = "win"
                        /\ db.nodes[q].bound = 0 => Replies[q] = {}
        BY DEF StoreContract
    <2>1. db.schema
        <3>1. DOMAIN <<>> = {}
            OBVIOUS
        <3>2. QED
            BY <3>1 DEF DbTree, Rows
    <2>2. q # <<>> => Front(q) \in Rows /\ db.nodes[Front(q)].id < db.nodes[q].id
        BY RowsAre DEF IdsOK, Rows
    <2>3. Holds(db.nodes, db.shards) /\ db.nodes[q].bound = Bounds(db.nodes)[q] /\ q \in DOMAIN db.nodes
        BY <2>1 DEF DbTree, Rows
    <2>4. db.nodes[q].bound = 0 => Replies[q] = {}
        BY <1>1, <2>3, ZeroBound
    <2>5. /\ db.nodes[q].outcome = "win" =>
                  \E k \in Kids(db.nodes, q) : db.nodes[k].outcome = "loss"
          /\ db.nodes[q].outcome = "loss" =>
                  /\ {Last(k) : k \in Kids(db.nodes, q)} = Replies[q]
                  /\ \A k \in Kids(db.nodes, q) : db.nodes[k].outcome = "win"
        BY <1>1, <2>3, TreeContract
    <2>6. QED
        BY <2>2, <2>4, <2>5
<1>5. SidecarCommits
    BY DEF FilesInv
<1>6. QED
    BY <1>2, <1>3, <1>4, <1>5 DEF StoreSound

(* The scheduling tables leave the rows as they are.                       *)
LEMMA SchedulesGrow ==
    ASSUME FilesInv, DbTree, Schedules
    PROVE  Grows
<1>1. \A q \in Rows : db.nodes[q].bound \in Int
    BY RowsAre
<1>2. DOMAIN db'.nodes = Rows
    BY DEF Schedules, Rows
<1>3. \A k \in DOMAIN db.censor : /\ k \in DOMAIN db'.censor
                                  /\ db'.censor[k].work >= db.censor[k].work
                                  /\ db'.censor[k].passes >= db.censor[k].passes
    BY DEF Schedules, Grown
<1>4. QED
    BY <1>1, <1>2, <1>3 DEF Schedules, Grows

(* A fold that commits takes nothing back.                                 *)
LEMMA FinishGrows ==
    ASSUME FilesInv, DbTree, FoldTree, FinishFold, db' # db
    PROVE  Grows
<1> DEFINE new == db'.nodes
<1>1. /\ fold.phase = "shards" /\ new = Delta(fold.tree, Bounds(fold.tree))
      /\ db'.shards = Folded /\ db'.censor = fold.censor /\ db'.drawn = db.drawn
      /\ ~Corrupted(fold.tree, Bounds(fold.tree))
    BY FinishIs
<1>2. /\ DOMAIN new = DOMAIN fold.tree /\ Holds(new, Folded)
      /\ Rows \subseteq DOMAIN new
      /\ \A q \in DOMAIN new : /\ new[q].bound \in Int
                               /\ new[q].bound = Bounds(fold.tree)[q]
                               /\ new[q].outcome = fold.tree[q].outcome
      /\ \A q \in Rows : new[q].id = db.nodes[q].id
      /\ \A q \in DOMAIN new \ Rows, r \in Rows : db.nodes[r].id < new[q].id
    BY <1>1, DeltaIs
<1> HIDE DEF new
<1>3. ASSUME NEW q \in Rows
      PROVE  /\ q \in DOMAIN new /\ new[q].id = db.nodes[q].id
             /\ new[q].outcome = db.nodes[q].outcome /\ new[q].bound <= db.nodes[q].bound
             /\ db.nodes[q].prov \subseteq new[q].prov
    <2>1. fold.tree[q].outcome = db.nodes[q].outcome /\ ~(Bounds(fold.tree)[q] > db.nodes[q].bound)
        BY <1>1 DEF Corrupted
    <2>2. db.nodes[q].bound \in Int /\ db.nodes[q].prov = Naming(db.shards, q) \cup Claiming(db.shards, q)
        BY RowsAre
    <2>3. new[q].prov = Naming(Folded, q) \cup Claiming(Folded, q)
        BY <1>2 DEF Holds
    <2>4. db.nodes[q].prov \subseteq new[q].prov
        BY <1>1, <2>2, <2>3, FoldedOK
    <2>5. QED
        BY <1>2, <2>1, <2>2, <2>4
<1>4. \A t \in DOMAIN db.shards : t \in DOMAIN db'.shards /\ db'.shards[t] = db.shards[t]
    BY <1>1, FoldedOK
<1>5. Grown(db.censor, db'.censor)
    BY <1>1 DEF FilesInv, FoldOK
<1>6. db.drawn \subseteq db'.drawn
    BY <1>1
<1>7. QED
    BY <1>2, <1>3, <1>4, <1>5, <1>6 DEF Grows, Grown, new

(* What is durable is whole, whatever was folded, harvested, crashed or    *)
(* spoilt before: the committed tree is one fold of all its shards and     *)
(* keeps the contract of its consumers, and a sidecar commits its binary   *)
(* (fold.rs, sidecar.rs).                                                  *)
THEOREM StoreAlwaysSound == Spec => []StoreSound
<1>1. Init => StoreInv
    BY StoreBegins
<1>2. StoreInv /\ [Next]_vars => StoreInv'
    BY StoreSteps
<1>3. StoreInv => StoreSound
    BY StoreHolds
<1>4. QED
    BY <1>1, <1>2, <1>3, PTL DEF Spec

(* No step takes a row, an outcome, an id, a shard or a scheduling record  *)
(* back, and bounds and counters move one way (fold.rs, ledger.rs).        *)
THEOREM OnlyAppends == Spec => AppendOnly
<1>1. Init => StoreInv
    BY StoreBegins
<1>2. StoreInv /\ [Next]_vars => StoreInv'
    BY StoreSteps
<1>3. StoreInv /\ [Next]_vars => [Grows]_vars
    BY StepsAre, SchedulesGrow, FinishGrows DEF StoreInv
<1>4. QED
    BY <1>1, <1>2, <1>3, PTL DEF Spec, AppendOnly

-----------------------------------------------------------------------------
(* The verifier.                                                           *)

LEMMA NodeBounds ==
    ASSUME NEW shards, ShardsOK(shards), NEW nodes, Holds(nodes, shards),
           \A r \in DOMAIN nodes : nodes[r].bound = Bounds(nodes)[r], NEW q \in DOMAIN nodes
    PROVE  /\ nodes[q].bound \in Int
           /\ nodes[q].outcome = "open" => nodes[q].bound = NoBound
           /\ nodes[q].outcome # "open" => nodes[q].bound >= 0
           /\ nodes[q].bound = 0 => Replies[q] = {} /\ Kids(nodes, q) = {}
           /\ nodes[q].outcome # "open" /\ Kids(nodes, q) = {} => nodes[q].bound = 0
           /\ nodes[q].outcome = "win" =>
                  nodes[q].bound = Min({nodes[k].bound : k \in {j \in Kids(nodes, q) : nodes[j].outcome = "loss"}}) + 1
           /\ nodes[q].outcome = "loss" /\ Kids(nodes, q) # {} =>
                  nodes[q].bound = Max({nodes[k].bound : k \in Kids(nodes, q)}) + 1
<1> DEFINE out == [r \in DOMAIN nodes |-> nodes[r].outcome]
           b == BoundsOf(out)
<1>1. /\ DOMAIN out = DOMAIN nodes /\ \A r \in DOMAIN nodes : out[r] = nodes[r].outcome
      /\ \A r : Kids(out, r) = Kids(nodes, r) /\ Kids(nodes, r) \subseteq DOMAIN nodes
      /\ Bounds(nodes) = b
    BY DEF Kids, Bounds
<1>2. DOMAIN nodes \subseteq Paths
    BY TouchedPaths DEF Holds
<1> HIDE DEF out
<1>3. b[q] \in Int /\ b[q] = BoundIn(out, b, q)
    BY <1>1, <1>2, BoundsAre
<1> HIDE DEF b
<1>4. \A r \in DOMAIN nodes : nodes[r].bound = b[r]
    BY <1>1
<1>5. /\ nodes[q].outcome # "open" => nodes[q].bound >= 0
      /\ nodes[q].bound = 0 => Replies[q] = {}
    BY ZeroBound
<1>6. Replies[q] = {} => Kids(nodes, q) = {}
    <2> SUFFICES ASSUME NEW k \in Kids(nodes, q) PROVE Replies[q] # {}
        OBVIOUS
    <2>1. k \in Paths /\ k # <<>> /\ Front(k) = q
        BY <1>1, <1>2, KidsIs
    <2>2. Last(k) \in Replies[q]
        BY <2>1, PathIs
    <2>3. QED
        BY <2>2
<1> DEFINE lost == {j \in Kids(nodes, q) : nodes[j].outcome = "loss"}
           kids == Kids(nodes, q)
<1>7. {b[k] : k \in LostKids(out, q)} = {nodes[k].bound : k \in lost}
    <2>1. LostKids(out, q) = lost /\ \A k \in lost : b[k] = nodes[k].bound
        BY <1>1, <1>4 DEF LostKids
    <2> HIDE DEF lost
    <2>2. QED
        BY <2>1
<1>8. {b[k] : k \in Kids(out, q)} = {nodes[k].bound : k \in kids}
    <2>1. Kids(out, q) = kids /\ \A k \in kids : b[k] = nodes[k].bound
        BY <1>1, <1>4
    <2> HIDE DEF kids
    <2>2. QED
        BY <2>1
<1>9. nodes[q].outcome = "win" => lost # {} /\ kids # {} /\ LostKids(out, q) # {}
    <2>1. nodes[q].outcome = "win" => \E k \in kids : nodes[k].outcome = "loss"
        BY TreeContract
    <2>2. QED
        BY <1>1, <2>1 DEF LostKids
<1> DEFINE B == {b[k] : k \in LostKids(out, q)}
<1>10. LostKids(out, q) # {} => B # {}
    OBVIOUS
<1>11. /\ out[q] = "open" => b[q] = NoBound
       /\ out[q] # "open" /\ Kids(out, q) = {} => b[q] = 0
       /\ out[q] = "win" /\ Kids(out, q) # {} /\ B # {} => b[q] = Min(B) + 1
       /\ out[q] # "open" /\ out[q] # "win" /\ Kids(out, q) # {} =>
              b[q] = Max({b[k] : k \in Kids(out, q)}) + 1
    BY <1>3 DEF BoundIn
<1>12. nodes[q].outcome = "win" => b[q] = Min({nodes[k].bound : k \in lost}) + 1
    <2> HIDE DEF lost, kids
    <2>1. nodes[q].outcome = "win" => b[q] = Min(B) + 1
        <3> HIDE DEF B
        <3>1. QED
            BY <1>1, <1>9, <1>10, <1>11 DEF kids
    <2>2. QED
        BY <1>7, <2>1
<1>13. nodes[q].outcome = "loss" /\ kids # {} => b[q] = Max({nodes[k].bound : k \in kids}) + 1
    <2> HIDE DEF lost, B
    <2>1. QED
        BY <1>1, <1>8, <1>11
<1>14. QED
    BY <1>1, <1>3, <1>4, <1>5, <1>6, <1>11, <1>12, <1>13

(* The verifier accepts the tree that a fold commits.                      *)
LEMMA Accepts ==
    ASSUME FilesInv, DbTree, db.schema
    PROVE  VerifyDb(db.nodes)
<1>1. /\ ShardsOK(db.shards) /\ Holds(db.nodes, db.shards) /\ Stored(db.nodes)
      /\ \A q \in Rows : db.nodes[q].bound = Bounds(db.nodes)[q]
      /\ Rows = Touched(db.shards)
    BY DEF FilesInv, DbOK, DbTree, Holds, Rows
<1>2. ASSUME NEW q \in Rows
      PROVE  /\ db.nodes[q].bound \in Int
             /\ db.nodes[q].outcome = "open" => db.nodes[q].bound = NoBound
             /\ db.nodes[q].outcome # "open" => db.nodes[q].bound >= 0
             /\ db.nodes[q].bound = 0 => Replies[q] = {} /\ Kids(db.nodes, q) = {}
             /\ db.nodes[q].outcome # "open" /\ Kids(db.nodes, q) = {} => db.nodes[q].bound = 0
             /\ db.nodes[q].outcome = "win" =>
                    db.nodes[q].bound = Min({db.nodes[k].bound : k \in {j \in Kids(db.nodes, q) : db.nodes[j].outcome = "loss"}}) + 1
             /\ db.nodes[q].outcome = "loss" /\ Kids(db.nodes, q) # {} =>
                    db.nodes[q].bound = Max({db.nodes[k].bound : k \in Kids(db.nodes, q)}) + 1
    <2>1. q \in DOMAIN db.nodes /\ \A r \in DOMAIN db.nodes : db.nodes[r].bound = Bounds(db.nodes)[r]
        BY <1>1 DEF Rows
    <2>2. QED
        BY <1>1, <2>1, NodeBounds
<1>3. ASSUME NEW q \in Rows
      PROVE  /\ q \in Paths /\ db.nodes[q].outcome \in OutcomeNames
             /\ db.nodes[q].outcome = "win" => \E k \in Kids(db.nodes, q) : db.nodes[k].outcome = "loss"
             /\ db.nodes[q].outcome = "loss" => /\ {Last(k) : k \in Kids(db.nodes, q)} = Replies[q]
                                                /\ \A k \in Kids(db.nodes, q) : db.nodes[k].outcome = "win"
    BY <1>1, TreeContract DEF Rows
<1>4. ASSUME NEW q \in Rows
      PROVE  RowHolds(db.nodes, q)
    <2>1. DomainsHold(db.nodes, q)
        <3>1. ASSUME q # <<>>
              PROVE  db.nodes[q].prov # {}
            <4>1. PICK t \in DOMAIN db.shards :
                      q \in Prefixes(db.shards[t].path) \/ q \in DOMAIN db.shards[t].sha
                BY <1>1, <3>1 DEF Touched
            <4>2. db.shards[t].path \in Paths
                BY <1>1, TouchedPaths
            <4>3. t \in Naming(db.shards, q) \cup Claiming(db.shards, q)
                BY <4>1, <4>2, PathIs, PrefixesIs DEF Naming, Claiming
            <4>4. QED
                BY <1>1, <4>3 DEF Holds, Rows
        <3>2. db.nodes[q].bound # NoBound <=> db.nodes[q].outcome # "open"
            <4>1. \A b \in Int : b >= 0 => b # NoBound
                BY DEF NoBound
            <4> DEFINE b == db.nodes[q].bound
            <4>2. b \in Int /\ (db.nodes[q].outcome = "open" => b = NoBound)
                    /\ (db.nodes[q].outcome # "open" => b >= 0)
                BY <1>2
            <4> HIDE DEF b
            <4>3. b # NoBound <=> db.nodes[q].outcome # "open"
                BY <4>1, <4>2
            <4>4. QED
                BY <4>3 DEF b
        <3>3. QED
            BY <1>1, <3>1, <3>2 DEF DomainsHold, Proven, Outcome, Stored, Rows
    <2>2. CASE ~Proven(db.nodes, q)
        BY <2>1, <2>2 DEF RowHolds
    <2>3. CASE Proven(db.nodes, q) /\ db.nodes[q].bound = 0
        <3>1. Replies[q] = {} /\ Kids(db.nodes, q) = {}
            BY <1>2, <2>3
        <3>2. db.nodes[q].outcome = Value[q]
            BY <1>1, <2>3 DEF Proven, Outcome, Holds, OutcomeIn, Rows
        <3>3. Ended[q] = db.nodes[q].outcome
            BY <1>3, <3>1, <3>2, ValueFacts
        <3>4. QED
            BY <2>1, <2>3, <3>1, <3>3 DEF RowHolds, TerminalHolds, Outcome
    <2>4. CASE db.nodes[q].outcome = "win" /\ db.nodes[q].bound # 0
        <3>1. WinHolds(db.nodes, q)
            BY <1>2, <1>3, <2>4 DEF WinHolds, Outcome
        <3>2. QED
            BY <2>1, <2>4, <3>1 DEF RowHolds, Outcome
    <2>5. CASE db.nodes[q].outcome = "loss" /\ db.nodes[q].bound # 0
        <3>1. LossHolds(db.nodes, q)
            BY <1>2, <1>3, <2>5 DEF LossHolds, Outcome
        <3>2. QED
            BY <2>1, <2>5, <3>1 DEF RowHolds, Outcome
    <2>6. QED
        BY <1>3, <2>2, <2>3, <2>4, <2>5 DEF Proven, Outcome, OutcomeNames
<1>5. ASSUME NEW q \in Rows, q # <<>>
      PROVE  Front(q) \in Rows /\ ~(Proven(db.nodes, Front(q)) /\ db.nodes[Front(q)].bound = 0)
    <2>1. Front(q) \in Rows
        BY <1>5, RowsAre
    <2>2. Last(q) \in Replies[Front(q)]
        BY <1>3, <1>5, PathIs
    <2>3. QED
        BY <1>2, <2>1, <2>2
<1>6. <<>> \in Rows
    BY <1>1, TouchedPaths
<1>7. QED
    BY <1>4, <1>5, <1>6 DEF VerifyDb, Rows

(* The distance to the end, from longer paths to shorter ones.             *)
LostAfter(q) == {Append(q, m) : m \in {m \in Replies[q] : Value[Append(q, m)] = "loss"}}
AfterAll(q) == {Append(q, m) : m \in Replies[q]}
PliesIn(d, q) ==
    LET lost == {d[Append(q, m)] : m \in {m \in Replies[q] : Value[Append(q, m)] = "loss"}}
    IN IF Replies[q] = {} THEN 0
       ELSE IF Value[q] = "win" THEN Min(lost) + 1
       ELSE Max({d[Append(q, m)] : m \in Replies[q]}) + 1

LEMMA DistanceIs ==
    /\ DOMAIN Distance = {q \in Paths : Value[q] # "draw"}
    /\ \E d \in [Paths -> Int] : /\ \A q \in Paths : d[q] = PliesIn(d, q)
                                 /\ \A q \in DOMAIN Distance : Distance[q] = d[q]
<1> DEFINE step == [x \in Paths \X [Paths -> Int] |-> PliesIn(x[2], x[1])]
<1>1. ASSUME NEW q \in Paths
      PROVE  /\ \A m \in Replies[q] : Append(q, m) \in Paths /\ Len(Append(q, m)) > Len(q)
             /\ LostAfter(q) \subseteq AfterAll(q) /\ AfterAll(q) \subseteq Paths
             /\ Value[q] = "win" => LostAfter(q) # {}
             /\ Replies[q] # {} => AfterAll(q) # {}
    <2>1. \A m \in Replies[q] : Append(q, m) \in Paths /\ Len(Append(q, m)) > Len(q)
        <3> SUFFICES ASSUME NEW m \in Replies[q] PROVE Append(q, m) \in Paths /\ Len(Append(q, m)) > Len(q)
            OBVIOUS
        <3>1. Append(q, m) \in Paths /\ q \in Seq(Nat) /\ m \in Nat /\ Len(q) \in Nat
            BY PathIs
        <3>2. Len(Append(q, m)) = Len(q) + 1
            BY <3>1, AppendIs
        <3>3. QED
            BY <3>1, <3>2
    <2>2. Value[q] = "win" => LostAfter(q) # {}
        BY ValueFacts DEF LostMoves, LostAfter
    <2>3. LostAfter(q) \subseteq AfterAll(q) /\ AfterAll(q) \subseteq Paths /\ (Replies[q] # {} => AfterAll(q) # {})
        BY <2>1 DEF LostAfter, AfterAll
    <2>4. QED
        BY <2>1, <2>2, <2>3
<1>2. ASSUME NEW q \in Paths, NEW d \in [Paths -> Int]
      PROVE  PliesIn(d, q) \in Int
    <2> DEFINE lost == LostAfter(q)
               all == AfterAll(q)
    <2>1. /\ lost \subseteq Paths /\ all \subseteq Paths /\ (Value[q] = "win" => lost # {})
          /\ Replies[q] # {} => all # {}
        BY <1>1
    <2>5. /\ {d[Append(q, m)] : m \in {m \in Replies[q] : Value[Append(q, m)] = "loss"}} = {d[r] : r \in lost}
          /\ {d[Append(q, m)] : m \in Replies[q]} = {d[r] : r \in all}
        BY DEF LostAfter, AfterAll
    <2>6. PliesIn(d, q) = IF Replies[q] = {} THEN 0
                          ELSE IF Value[q] = "win" THEN Min({d[r] : r \in lost}) + 1
                          ELSE Max({d[r] : r \in all}) + 1
        BY <2>5 DEF PliesIn
    <2> HIDE DEF lost, all
    <2>2. lost # {} => Min({d[r] : r \in lost}) \in Int
        <3> SUFFICES ASSUME lost # {} PROVE Min({d[r] : r \in lost}) \in Int
            OBVIOUS
        <3>1. \A r \in lost : d[r] \in Int
            BY <2>1
        <3>2. PICK m \in lost : Min({d[r] : r \in lost}) = d[m]
            BY <2>1, <3>1, BestOf
        <3>3. QED
            BY <3>1, <3>2
    <2>3. all # {} => Max({d[r] : r \in all}) \in Int
        <3> SUFFICES ASSUME all # {} PROVE Max({d[r] : r \in all}) \in Int
            OBVIOUS
        <3>1. \A r \in all : d[r] \in Int
            BY <2>1
        <3>2. PICK m \in all : Max({d[r] : r \in all}) = d[m]
            BY <2>1, <3>1, BestOf
        <3>3. QED
            BY <3>1, <3>2
    <2>4. QED
        BY <2>1, <2>2, <2>3, <2>6
<1>3. ASSUME NEW q \in Paths, NEW d \in [Paths -> Int], NEW g \in [Paths -> Int],
             \A r \in Paths : Len(r) > Len(q) => d[r] = g[r]
      PROVE  PliesIn(d, q) = PliesIn(g, q)
    <2>1. \A m \in Replies[q] : d[Append(q, m)] = g[Append(q, m)]
        BY <1>1, <1>3
    <2>2. {d[Append(q, m)] : m \in Replies[q]} = {g[Append(q, m)] : m \in Replies[q]}
        BY <2>1
    <2>3. {d[Append(q, m)] : m \in {m \in Replies[q] : Value[Append(q, m)] = "loss"}}
              = {g[Append(q, m)] : m \in {m \in Replies[q] : Value[Append(q, m)] = "loss"}}
        BY <2>1
    <2>4. QED
        BY <2>2, <2>3 DEF PliesIn
<1>4. \A q \in Paths : \A d \in [Paths -> Int] : step[<<q, d>>] = PliesIn(d, q)
    OBVIOUS
<1> HIDE DEF step
<1>5. PICK f \in [Paths -> Int] : \A q \in Paths : f[q] = step[<<q, f>>]
    <2>1. Int # {} /\ Paths \subseteq Paths
        OBVIOUS
    <2>2. \A q \in Paths : \A h, g \in [Paths -> Int] :
             (\A r \in Paths : Len(r) > Len(q) => h[r] = g[r]) => step[<<q, h>>] = step[<<q, g>>]
        <3> SUFFICES ASSUME NEW q \in Paths, NEW h \in [Paths -> Int], NEW g \in [Paths -> Int],
                            \A r \in Paths : Len(r) > Len(q) => h[r] = g[r]
                     PROVE  step[<<q, h>>] = step[<<q, g>>]
            OBVIOUS
        <3>1. PliesIn(h, q) = PliesIn(g, q)
            BY <1>3
        <3>2. QED
            BY <1>4, <3>1
    <2>3. \A q \in Paths : \A h \in [Paths -> Int] : step[<<q, h>>] \in Int
        BY <1>2, <1>4
    <2>4. Upward(Paths, Int, step)
        BY <2>1, <2>2, <2>3 DEF Upward
    <2>5. QED
        BY <2>4, Recursion
<1>6. f = [q \in Paths |-> PliesIn(f, q)]
    BY <1>4, <1>5
<1> DEFINE d == CHOOSE d : d = [q \in Paths |-> PliesIn(d, q)]
<1>7. Distance = [p \in {q \in Paths : Value[q] # "draw"} |-> d[p]]
    BY DEF Distance, Table, PliesIn
<1>8. d = [q \in Paths |-> PliesIn(d, q)]
    BY <1>6
<1> HIDE DEF d
<1>9. \A q \in Paths : d[q] = PliesIn(d, q)
    BY <1>8
<1>10. d \in [Paths -> Int]
    <2> DEFINE S == {q \in Paths : d[q] = f[q]}
    <2>1. ASSUME NEW q \in Paths, \A r \in Paths : Len(r) > Len(q) => r \in S
          PROVE  q \in S
        <3>1. \A m \in Replies[q] : d[Append(q, m)] = f[Append(q, m)]
            BY <1>1, <2>1
        <3>2. {d[Append(q, m)] : m \in Replies[q]} = {f[Append(q, m)] : m \in Replies[q]}
            BY <3>1
        <3>3. {d[Append(q, m)] : m \in {m \in Replies[q] : Value[Append(q, m)] = "loss"}}
                  = {f[Append(q, m)] : m \in {m \in Replies[q] : Value[Append(q, m)] = "loss"}}
            BY <3>1
        <3>4. PliesIn(d, q) = PliesIn(f, q)
            BY <3>2, <3>3 DEF PliesIn
        <3>5. d[q] = f[q]
            BY <1>4, <1>5, <1>9, <3>4
        <3>6. QED
            BY <3>5
    <2> HIDE DEF S
    <2>2. Paths \subseteq S
        BY <2>1, FromLonger
    <2>3. \A q \in Paths : d[q] = f[q] /\ f[q] \in Int
        BY <2>2 DEF S
    <2>4. QED
        BY <1>8, <2>3
<1>11. QED
    BY <1>7, <1>9, <1>10

LEMMA DistanceFacts ==
    ASSUME NEW q \in Paths, Value[q] # "draw"
    PROVE  /\ Distance[q] \in Int
           /\ Replies[q] = {} => Distance[q] = 0
           /\ Value[q] = "win" => \A m \in Replies[q] :
                  Value[Append(q, m)] = "loss" => Distance[q] <= Distance[Append(q, m)] + 1
           /\ Value[q] = "loss" /\ Replies[q] # {} => \E m \in Replies[q] :
                  Value[Append(q, m)] = "win" /\ Distance[q] = Distance[Append(q, m)] + 1
<1>1. PICK d \in [Paths -> Int] : /\ \A r \in Paths : d[r] = PliesIn(d, r)
                                  /\ \A r \in DOMAIN Distance : Distance[r] = d[r]
    BY DistanceIs
<1>2. \A r \in Paths : Value[r] # "draw" => Distance[r] = d[r] /\ d[r] \in Int
    BY <1>1, DistanceIs
<1>3. \A m \in Replies[q] : Append(q, m) \in Paths
    BY PathIs
<1> DEFINE lost == LostAfter(q)
           all == AfterAll(q)
<1>4. /\ {d[Append(q, m)] : m \in {m \in Replies[q] : Value[Append(q, m)] = "loss"}} = {d[r] : r \in lost}
      /\ {d[Append(q, m)] : m \in Replies[q]} = {d[r] : r \in all}
    BY DEF LostAfter, AfterAll
<1>5. d[q] = IF Replies[q] = {} THEN 0
             ELSE IF Value[q] = "win" THEN Min({d[r] : r \in lost}) + 1
             ELSE Max({d[r] : r \in all}) + 1
    BY <1>1, <1>4 DEF PliesIn
<1>6. /\ lost \subseteq Paths /\ all \subseteq Paths
      /\ \A m \in Replies[q] : /\ Append(q, m) \in all
                               /\ Value[Append(q, m)] = "loss" => Append(q, m) \in lost
      /\ \A r \in all : \E m \in Replies[q] : r = Append(q, m)
    BY <1>3 DEF LostAfter, AfterAll
<1> HIDE DEF lost, all
<1>7. (\A r \in lost : d[r] \in Int) /\ (\A r \in all : d[r] \in Int)
    BY <1>1, <1>6
<1>8. ASSUME Value[q] = "win", NEW m \in Replies[q], Value[Append(q, m)] = "loss"
      PROVE  Distance[q] <= Distance[Append(q, m)] + 1
    <2> DEFINE a == Append(q, m)
    <2>1. a \in lost /\ Replies[q] # {} /\ a \in Paths /\ Value[a] # "draw"
        BY <1>3, <1>6, <1>8
    <2> HIDE DEF a
    <2>2. Min({d[r] : r \in lost}) <= d[a] /\ \E k \in lost : Min({d[r] : r \in lost}) = d[k]
        BY <1>6, <1>7, <2>1, BestOf
    <2>3. Min({d[r] : r \in lost}) \in Int
        BY <1>7, <2>2
    <2>4. Distance[q] = Min({d[r] : r \in lost}) + 1
        BY <1>2, <1>5, <1>8, <2>1
    <2>5. Distance[a] = d[a] /\ d[a] \in Int
        BY <1>2, <2>1
    <2>6. Distance[q] <= Distance[a] + 1
        BY <2>2, <2>3, <2>4, <2>5
    <2>7. QED
        BY <2>6 DEF a
<1>9. ASSUME Value[q] = "loss", Replies[q] # {}
      PROVE  \E m \in Replies[q] : Value[Append(q, m)] = "win" /\ Distance[q] = Distance[Append(q, m)] + 1
    <2>1. all # {}
        BY <1>6, <1>9
    <2>2. PICK k \in all : Max({d[r] : r \in all}) = d[k]
        BY <1>6, <1>7, <2>1, BestOf
    <2>3. PICK m \in Replies[q] : k = Append(q, m)
        BY <1>6
    <2>4. Value[Append(q, m)] = "win"
        BY <1>9, ValueFacts
    <2>5. Distance[q] = d[k] + 1 /\ Distance[k] = d[k]
        BY <1>2, <1>3, <1>5, <1>9, <2>2, <2>3, <2>4
    <2>6. QED
        BY <2>3, <2>4, <2>5
<1>10. Replies[q] = {} => Distance[q] = 0
    BY <1>2, <1>5
<1>11. QED
    BY <1>2, <1>8, <1>9, <1>10

(* Rows of a tree of the game, whatever they claim; a lost finished game   *)
(* that is not lost says that it is over.                                  *)
Readable(rows) ==
    /\ DOMAIN rows \subseteq Paths
    /\ \A q \in DOMAIN rows : /\ rows[q].outcome \in OutcomeNames /\ rows[q].bound \in Nat \cup {NoBound}
                              /\ rows[q].outcome = "loss" /\ Replies[q] = {} =>
                                     rows[q].bound = 0 \/ Value[q] = "loss"

(* What the verifier accepts is so: outcomes by the rules, and bounds that *)
(* can be kept.                                                            *)
LEMMA AcceptedIsTrue ==
    ASSUME NEW rows, Readable(rows), VerifyDb(rows)
    PROVE  \A q \in DOMAIN rows : rows[q].outcome # "open" =>
               rows[q].outcome = Value[q] /\ rows[q].bound >= Distance[q]
<1> DEFINE Right(q) == rows[q].outcome # "open" => rows[q].outcome = Value[q] /\ rows[q].bound >= Distance[q]
           S == {q \in DOMAIN rows : Right(q)}
<1>1. DOMAIN rows \subseteq Paths
    BY DEF Readable
<1>2. \A q \in DOMAIN rows : /\ q \in Paths /\ rows[q].outcome \in OutcomeNames /\ rows[q].bound \in Int
                             /\ rows[q].bound # NoBound => rows[q].bound >= 0
    BY DEF Readable, NoBound
<1>3. ASSUME NEW q \in DOMAIN rows, \A r \in DOMAIN rows : Len(r) > Len(q) => r \in S
      PROVE  q \in S
    <2>1. q \in Paths /\ rows[q].outcome \in OutcomeNames /\ rows[q].bound \in Int
        BY <1>2
    <2>2. ASSUME NEW k \in Kids(rows, q)
          PROVE  /\ k \in DOMAIN rows /\ k \in Paths /\ k # <<>> /\ Front(k) = q
                 /\ Last(k) \in Replies[q] /\ k = Append(q, Last(k))
                 /\ Right(k) /\ rows[k].bound \in Int
        <3>1. k \in DOMAIN rows /\ k \in Paths /\ k # <<>> /\ Front(k) = q
            BY <1>1, <2>1, KidsIs
        <3>2. Last(k) \in Replies[q] /\ k = Append(q, Last(k)) /\ Len(k) > Len(q)
            <4>1. /\ Len(k) \in Nat /\ Last(k) \in Replies[Front(k)]
                  /\ Len(Front(k)) = Len(k) - 1 /\ k = Append(Front(k), Last(k))
                BY <3>1, PathIs
            <4>2. QED
                BY <3>1, <4>1
        <3>3. Right(k)
            BY <1>3, <3>1, <3>2
        <3>4. rows[k].bound \in Int
            BY <1>2, <3>1
        <3>5. QED
            BY <3>1, <3>2, <3>3, <3>4
    <2> SUFFICES ASSUME rows[q].outcome # "open"
                 PROVE  rows[q].outcome = Value[q] /\ rows[q].bound >= Distance[q]
        OBVIOUS
    <2>3. /\ rows[q].bound = 0 => TerminalHolds(rows, q)
          /\ rows[q].bound # 0 /\ rows[q].outcome = "win" => WinHolds(rows, q)
          /\ rows[q].bound # 0 /\ rows[q].outcome # "win" => LossHolds(rows, q)
          /\ rows[q].bound # NoBound
        BY DEF VerifyDb, RowHolds, Proven, Outcome, DomainsHold
    <2> HIDE DEF Right, S
    <2>4. CASE rows[q].bound = 0
        <3>1. Replies[q] = {} /\ Ended[q] = rows[q].outcome
            BY <2>3, <2>4 DEF TerminalHolds, Outcome
        <3>2. Value[q] = rows[q].outcome
            BY <2>1, <3>1, ValueFacts
        <3>3. Value[q] # "draw"
            BY <2>1, <3>2 DEF OutcomeNames
        <3>4. Distance[q] = 0
            BY <2>1, <3>1, <3>3, DistanceFacts
        <3>5. QED
            BY <2>4, <3>2, <3>4
    <2>5. CASE rows[q].outcome = "win" /\ rows[q].bound # 0
        <3> DEFINE lost == {k \in Kids(rows, q) : rows[k].outcome = "loss"}
                   b == [k \in lost |-> rows[k].bound]
        <3>1. lost # {} /\ rows[q].bound = Min({rows[k].bound : k \in lost}) + 1
            BY <2>3, <2>5 DEF WinHolds, Outcome
        <3>2. lost \subseteq Kids(rows, q) /\ \A k \in lost : rows[k].outcome = "loss" /\ b[k] = rows[k].bound
            OBVIOUS
        <3>3. {rows[k].bound : k \in lost} = {b[k] : k \in lost}
            OBVIOUS
        <3> HIDE DEF lost, b
        <3>4. lost \subseteq Paths /\ \A k \in lost : b[k] \in Int
            BY <2>2, <3>2
        <3>5. PICK k \in lost : Min({b[j] : j \in lost}) = b[k]
            BY <3>1, <3>4, BestOf
        <3>6. k \in Kids(rows, q) /\ rows[k].outcome = "loss" /\ rows[q].bound = rows[k].bound + 1
            BY <3>1, <3>2, <3>3, <3>5
        <3>7. Value[k] = "loss" /\ rows[k].bound >= Distance[k]
            BY <2>2, <3>6 DEF Right
        <3> DEFINE m == Last(k)
        <3>8. m \in Replies[q] /\ k = Append(q, m)
            BY <2>2, <3>6
        <3> HIDE DEF m
        <3>9. Value[q] = "win"
            <4>1. "loss" \in {Value[Append(q, n)] : n \in Replies[q]}
                BY <3>7, <3>8
            <4>2. QED
                BY <2>1, <3>8, <4>1, ValueIs
        <3>10. Distance[q] <= Distance[k] + 1 /\ Distance[q] \in Int /\ Distance[k] \in Int
            <4>1. Distance[q] <= Distance[Append(q, m)] + 1 /\ Distance[q] \in Int
                BY <2>1, <3>7, <3>8, <3>9, DistanceFacts
            <4>2. Distance[k] \in Int
                BY <2>2, <3>6, <3>7, DistanceFacts
            <4>3. QED
                BY <3>8, <4>1, <4>2
        <3>11. rows[k].bound \in Int
            BY <2>2, <3>6
        <3>12. QED
            BY <2>5, <3>6, <3>7, <3>9, <3>10, <3>11
    <2>6. CASE rows[q].outcome = "loss" /\ rows[q].bound # 0
        <3> DEFINE kids == Kids(rows, q)
                   b == [k \in kids |-> rows[k].bound]
        <3>1. /\ {Last(k) : k \in kids} = Replies[q] /\ \A k \in kids : rows[k].outcome = "win"
              /\ kids # {} => rows[q].bound = Max({rows[k].bound : k \in kids}) + 1
            BY <2>3, <2>6 DEF LossHolds, Outcome
        <3>2. CASE Replies[q] = {}
            <4>1. Value[q] = "loss"
                BY <2>6, <3>2 DEF Readable
            <4>2. Distance[q] = 0
                BY <2>1, <3>2, <4>1, DistanceFacts
            <4>3. kids = {}
                BY <3>1, <3>2
            <4>4. QED
                <5>1. rows[q].bound >= 0
                    BY <1>2, <2>3
                <5>2. QED
                    BY <2>6, <4>1, <4>2, <5>1
        <3>3. CASE Replies[q] # {}
            <4>1. ASSUME NEW m \in Replies[q]
                  PROVE  Append(q, m) \in kids /\ Value[Append(q, m)] = "win"
                <5>1. PICK k \in kids : Last(k) = m
                    BY <3>1
                <5>2. k = Append(q, m) /\ Right(k) /\ rows[k].outcome = "win"
                    BY <2>2, <3>1, <5>1
                <5>3. QED
                    BY <5>2 DEF Right
            <4>2. kids # {}
                BY <3>1, <3>3
            <4>3. {rows[k].bound : k \in kids} = {b[k] : k \in kids} /\ \A k \in kids : b[k] = rows[k].bound
                OBVIOUS
            <4> HIDE DEF kids, b
            <4>4. Value[q] = "loss"
                <5>1. {Value[Append(q, n)] : n \in Replies[q]} = {"win"}
                    BY <3>3, <4>1
                <5>2. QED
                    BY <2>1, <3>3, <5>1, ValueIs
            <4>5. PICK m \in Replies[q] : Distance[q] = Distance[Append(q, m)] + 1
                BY <2>1, <3>3, <4>4, DistanceFacts
            <4> DEFINE a == Append(q, m)
            <4>6. a \in kids /\ Distance[q] = Distance[a] + 1
                BY <4>1, <4>5
            <4> HIDE DEF a
            <4>7. /\ a \in Paths /\ rows[a].bound >= Distance[a] /\ rows[a].bound \in Int
                  /\ Value[a] # "draw" /\ Distance[a] \in Int
                <5>1. a \in Paths /\ Right(a) /\ rows[a].bound \in Int /\ rows[a].outcome = "win"
                    BY <2>2, <3>1, <4>6 DEF kids
                <5>2. QED
                    BY <5>1, DistanceFacts DEF Right
            <4>8. b[a] <= Max({b[k] : k \in kids}) /\ \E k \in kids : Max({b[j] : j \in kids}) = b[k]
                <5>1. kids \subseteq Paths /\ \A k \in kids : b[k] \in Int
                    BY <2>2, <4>3 DEF kids
                <5>2. QED
                    BY <4>2, <4>6, <5>1, BestOf
            <4>9. rows[q].bound = Max({b[k] : k \in kids}) + 1 /\ b[a] = rows[a].bound
                BY <3>1, <4>2, <4>3, <4>6
            <4>12. Max({b[k] : k \in kids}) \in Int
                BY <2>2, <4>3, <4>8 DEF kids
            <4> DEFINE top == Max({b[k] : k \in kids})
            <4> HIDE DEF top
            <4>10. rows[q].bound >= rows[a].bound + 1
                <5>1. top \in Int /\ b[a] <= top /\ rows[q].bound = top + 1
                    BY <4>8, <4>9, <4>12 DEF top
                <5>2. QED
                    BY <4>7, <4>9, <5>1
            <4>11. QED
                BY <2>1, <2>6, <4>4, <4>6, <4>7, <4>10
        <3>4. QED
            BY <3>2, <3>3
    <2>7. QED
        BY <2>1, <2>4, <2>5, <2>6 DEF OutcomeNames
<1>4. DOMAIN rows \subseteq S
    <2> HIDE DEF S
    <2>1. QED
        BY <1>1, <1>3, FromLonger
<1>5. QED
    BY <1>4

(* One change away from a committed tree, the rows are still readable.     *)
LEMMA DamagedReads ==
    ASSUME FilesInv, DbTree, db.schema, NEW rows \in Damaged(db.nodes), VerifyDb(rows)
    PROVE  Readable(rows)
<1> DEFINE nodes == db.nodes
<1>1. /\ ShardsOK(db.shards) /\ Holds(nodes, db.shards) /\ Stored(nodes)
      /\ \A q \in DOMAIN nodes : nodes[q].bound = Bounds(nodes)[q]
    BY DEF FilesInv, DbOK, DbTree, Rows
<1> HIDE DEF nodes
<1>2. ASSUME NEW q \in DOMAIN nodes
      PROVE  /\ q \in Paths /\ nodes[q].outcome \in OutcomeNames
             /\ nodes[q].bound \in Nat \cup {NoBound}
             /\ nodes[q].outcome = "open" => nodes[q].bound = NoBound
             /\ nodes[q].outcome # "open" => nodes[q].outcome = Value[q]
             /\ nodes[q].outcome # "open" /\ Replies[q] = {} => nodes[q].bound = 0
             /\ DOMAIN nodes[q] = {"id", "outcome", "bound", "status", "prov"}
    <2>1. q \in Paths /\ DOMAIN nodes \subseteq Paths /\ nodes[q].outcome \in OutcomeNames
        BY <1>1, TreeContract
    <2>2. /\ nodes[q].bound \in Int
          /\ nodes[q].outcome = "open" => nodes[q].bound = NoBound
          /\ nodes[q].outcome # "open" => nodes[q].bound >= 0
          /\ nodes[q].outcome # "open" /\ Kids(nodes, q) = {} => nodes[q].bound = 0
        BY <1>1, NodeBounds
    <2>3. Replies[q] = {} => Kids(nodes, q) = {}
        BY <2>1, KidsIs, PathIs
    <2>4. nodes[q].outcome # "open" => nodes[q].outcome = Value[q]
        BY <1>1 DEF Holds, OutcomeIn
    <2>5. nodes[q].bound \in Nat \cup {NoBound}
        BY <2>1, <2>2 DEF OutcomeNames
    <2>6. QED
        BY <1>1, <2>1, <2>2, <2>3, <2>4, <2>5 DEF Stored
<1>3. \/ \E q \in DOMAIN nodes : rows = [r \in DOMAIN nodes \ {q} |-> nodes[r]]
      \/ \E q \in DOMAIN nodes, o \in OutcomeNames : rows = [nodes EXCEPT ![q].outcome = o]
      \/ \E q \in DOMAIN nodes, b \in {NoBound, 0, 1} : rows = [nodes EXCEPT ![q].bound = b]
    BY DEF Damaged, nodes
<1>4. CASE \E q \in DOMAIN nodes : rows = [r \in DOMAIN nodes \ {q} |-> nodes[r]]
    BY <1>2, <1>4 DEF Readable
<1>5. ASSUME NEW q \in DOMAIN nodes, NEW o \in OutcomeNames, rows = [nodes EXCEPT ![q].outcome = o]
      PROVE  Readable(rows)
    <2>1. /\ DOMAIN rows = DOMAIN nodes /\ rows[q].outcome = o /\ rows[q].bound = nodes[q].bound
          /\ \A r \in DOMAIN nodes : r # q => rows[r] = nodes[r]
        BY <1>2, <1>5
    <2>2. o # "open" => nodes[q].bound # NoBound
        BY <2>1 DEF VerifyDb, RowHolds, DomainsHold, Proven, Outcome
    <2>3. o # "open" /\ Replies[q] = {} => nodes[q].bound = 0
        BY <1>2, <2>2
    <2>4. QED
        BY <1>2, <2>1, <2>3 DEF Readable
<1>6. ASSUME NEW q \in DOMAIN nodes, NEW b \in {NoBound, 0, 1}, rows = [nodes EXCEPT ![q].bound = b]
      PROVE  Readable(rows)
    <2>1. /\ DOMAIN rows = DOMAIN nodes /\ rows[q].outcome = nodes[q].outcome /\ rows[q].bound = b
          /\ \A r \in DOMAIN nodes : r # q => rows[r] = nodes[r]
        BY <1>2, <1>6
    <2>2. b \in Nat \cup {NoBound}
        OBVIOUS
    <2>3. QED
        BY <1>2, <2>1, <2>2 DEF Readable
<1>7. QED
    BY <1>3, <1>4, <1>5, <1>6

LEMMA VerifierHolds == StoreInv => VerifierExact
<1> SUFFICES ASSUME FilesInv, DbTree PROVE VerifierExact
    BY DEF StoreInv
<1>1. VerifierAccepts
    BY Accepts DEF VerifierAccepts, Consulted
<1>2. VerifierSound
    <2> SUFFICES ASSUME db.schema, NEW rows \in Damaged(db.nodes), VerifyDb(rows)
                 PROVE  \A q \in DOMAIN rows : rows[q].outcome # "open" =>
                            rows[q].outcome = Value[q] /\ rows[q].bound >= Distance[q]
        BY DEF VerifierSound, Consulted
    <2>1. QED
        BY DamagedReads, AcceptedIsTrue
<1>3. QED
    BY <1>1, <1>2 DEF VerifierExact

(* The verifier accepts every tree the folds commit, and none that one     *)
(* change has turned into a false claim (proofdb_verify.rs, verify.rs).    *)
THEOREM VerifierAlwaysExact == Spec => []VerifierExact
<1>1. Init => StoreInv
    BY StoreBegins
<1>2. StoreInv /\ [Next]_vars => StoreInv'
    BY StoreSteps
<1>3. StoreInv => VerifierExact
    BY VerifierHolds
<1>4. QED
    BY <1>1, <1>2, <1>3, PTL DEF Spec

-----------------------------------------------------------------------------
(* The walk.                                                               *)

SettledHere == {q \in Settled : InScope(q)}

(* Nothing that is settled is a candidate, what was won in this session is *)
(* complete, and what was or-closed in it has no candidate at or under it. *)
WalkInv ==
    /\ session.cause # "path collision"
    /\ session.phase # "off" =>
          /\ session.fresh \subseteq Paths /\ session.orClosed \subseteq Paths
          /\ \A k \in session.order : InScope(k) /\ ~Under(k, SettledHere)
          /\ \A q \in WonByChild : InScope(q) => q \in session.complete
          /\ \A q \in session.orClosed : InScope(q) /\ \A k \in session.order : ~IsPrefix(q, k)
    /\ session.phase = "search" =>
          /\ InScope(session.key) /\ ~Under(session.key, SettledHere)
          /\ \A q \in session.orClosed : IsPrefix(q, session.key) =>
                session.key = q /\ q # session.scope /\ q \notin session.order

(* The rows are paths with all their prefixes, and every shard that is     *)
(* folded has a proven row.                                                *)
LEMMA RowsHold ==
    ASSUME FilesInv, DbTree
    PROVE  /\ Rows \subseteq Paths /\ \A q \in Rows : q # <<>> => Front(q) \in Rows
           /\ Standing \subseteq ProvenRows
           /\ \A scope : OrClosedRows(scope) \subseteq Rows
<1>1. CASE db.schema
    <2>1. Holds(db.nodes, db.shards) /\ ShardsOK(db.shards)
        BY <1>1 DEF DbTree, FilesInv, DbOK
    <2>2. Rows = Touched(db.shards)
        BY <2>1 DEF Holds, Rows
    <2>3. Rows \subseteq Paths /\ \A q \in Rows : q # <<>> => Front(q) \in Rows
        BY <2>1, <2>2, TouchedPaths, TouchedFront
    <2>4. ASSUME NEW t \in DOMAIN db.shards
          PROVE  db.shards[t].path \in ProvenRows
        <3>1. /\ db.shards[t].path = t[2] /\ t[2] \in Paths /\ Value[t[2]] # "draw"
              /\ ProofOf(t[2], db.shards[t].sha)
            BY <2>1, TouchedPaths DEF ShardsOK, TagOK
        <3>2. t[2] \in DOMAIN db.shards[t].sha
            BY <3>1 DEF ProofOf
        <3>3. t[2] \in Rows /\ t \in Claiming(db.shards, t[2])
            BY <2>2, <3>2 DEF Touched, Claiming
        <3>4. db.nodes[t[2]].outcome = Value[t[2]]
            BY <2>1, <3>3 DEF Holds, OutcomeIn, Rows
        <3>5. Value[t[2]] # "open"
            BY <3>1, ValueFacts DEF Worths
        <3>6. QED
            BY <3>1, <3>3, <3>4, <3>5 DEF ProvenRows
    <2>5. Standing \subseteq ProvenRows
        BY <2>4 DEF Standing
    <2>6. \A scope : OrClosedRows(scope) \subseteq Rows
        BY <2>3 DEF OrClosedRows, ProvenRows
    <2>7. QED
        BY <2>3, <2>5, <2>6
<1>2. CASE ~db.schema
    <2>1. Rows = {} /\ DOMAIN db.shards = {}
        BY <1>2 DEF DbTree, Rows
    <2>2. QED
        BY <2>1 DEF Standing, ProvenRows, OrClosedRows
<1>3. QED
    BY <1>1, <1>2

(* What is settled lies in the tree.                                       *)
LEMMA SettledPaths ==
    ASSUME FilesInv, DbTree, session.phase # "off", session.fresh \subseteq Paths
    PROVE  SettledHere \subseteq Paths
<1>1. Rows \subseteq Paths /\ Standing \subseteq ProvenRows /\ OrClosedRows(session.scope) \subseteq Rows
    BY RowsHold
<1>2. ProvenRows \subseteq Rows
    BY DEF ProvenRows
<1>3. db.drawn \subseteq Paths
    BY DEF FilesInv, DbOK
<1>4. QED
    BY <1>1, <1>2, <1>3 DEF SettledHere, Settled

(* One more path is settled at most.                                       *)
LEMMA SettledGrows ==
    ASSUME session'.scope = session.scope, db'.nodes = db.nodes, db'.shards = db.shards, NEW S,
           db'.drawn \subseteq db.drawn \cup S, session'.fresh \subseteq session.fresh \cup S
    PROVE  SettledHere' \subseteq SettledHere \cup S
<1>1. Rows' = Rows /\ ProvenRows' = ProvenRows /\ Standing' = Standing
    BY DEF Rows, ProvenRows, Standing
<1>2. OrClosedRows(session.scope)' = OrClosedRows(session.scope)
    BY <1>1 DEF OrClosedRows
<1>3. Settled' \subseteq Settled \cup S
    BY <1>1, <1>2 DEF Settled
<1>4. \A q : InScope(q)' <=> InScope(q)
    BY DEF InScope
<1>5. QED
    BY <1>3, <1>4 DEF SettledHere

LEMMA OffWalks ==
    ASSUME session'.phase = "off", session'.cause # "path collision"
    PROVE  WalkInv'
BY DEF WalkInv

LEMMA StartWalks ==
    ASSUME FilesInv, DbTree, NEW scope \in Scopes, NEW base \in Bases, StartSession(scope, base)
    PROVE  WalkInv'
<1>1. CASE ~db.schema \/ LostBin \/ UnmergedShard
    BY <1>1, OffWalks DEF StartSession, Refused, NoSession
<1>2. CASE ~ (~db.schema \/ LostBin \/ UnmergedShard)
    <2>1. session' = [phase |-> "walk", cause |-> "none", scope |-> scope, base |-> base,
                      order |-> Frontier(scope), complete |-> {}, orClosed |-> {}, fresh |-> {},
                      key |-> <<>>, tree |-> <<>>]
        BY <1>2 DEF StartSession
    <2>2. /\ session'.phase = "walk" /\ session'.cause = "none" /\ session'.scope = scope
          /\ session'.order = Frontier(scope) /\ session'.orClosed = {} /\ session'.fresh = {}
        BY <2>1
    <2>3. db' = db
        BY DEF StartSession, storeVars
    <2>4. \A q : InScope(q)' <=> IsPrefix(scope, q)
        BY <2>2 DEF InScope
    <2>5. /\ ProvenRows' = ProvenRows /\ Standing' = Standing /\ Standing \subseteq ProvenRows
          /\ OrClosedRows(session.scope)' = OrClosedRows(scope)
        BY <2>2, <2>3, RowsHold DEF Rows, ProvenRows, Standing, OrClosedRows
    <2>6. Settled' = ProvenRows \cup db.drawn \cup OrClosedRows(scope)
        BY <2>2, <2>3, <2>5 DEF Settled
    <2>7. SettledHere' \subseteq {q \in ProvenRows \cup db.drawn : IsPrefix(scope, q)} \cup OrClosedRows(scope)
        BY <2>4, <2>6 DEF SettledHere
    <2>8. \A k \in Frontier(scope) : IsPrefix(scope, k) /\ ~Under(k, SettledHere')
        BY <2>7 DEF Frontier, Dropped, Under
    <2>9. WonByChild' = {}
        BY <2>2 DEF WonByChild
    <2>10. QED
        BY <2>2, <2>4, <2>8, <2>9 DEF WalkInv, Under
<1>3. QED
    BY <1>1, <1>2

(* A visit of the walk goes to a path in scope that is not settled.        *)
LEMMA VisitWalks ==
    ASSUME WalkInv, SessionOK, session.phase = "walk", UNCHANGED <<sides, db>>,
           NEW k \in Paths, Visit(k), InScope(k), ~Under(k, SettledHere),
           \A q \in session.orClosed : IsPrefix(q, k) =>
               k = q /\ q # session.scope /\ q \notin session.order
    PROVE  WalkInv'
<1>1. /\ session'.phase = "search" /\ session'.key = k /\ session'.cause = session.cause
      /\ session'.scope = session.scope /\ session'.order = session.order
      /\ session'.fresh = session.fresh /\ session'.complete = session.complete
      /\ session'.orClosed = session.orClosed
    BY DEF Visit, SessionOK
<1>2. SettledHere' = SettledHere
    BY <1>1 DEF SettledHere, Settled, InScope, Rows, ProvenRows, Standing, OrClosedRows
<1>3. \A q : InScope(q)' <=> InScope(q)
    BY <1>1 DEF InScope
<1>4. WonByChild' = WonByChild
    BY <1>1 DEF WonByChild
<1>5. QED
    BY <1>1, <1>2, <1>3, <1>4 DEF WalkInv, Under

LEMMA IterateWalks ==
    ASSUME WalkInv, FilesInv, DbTree, Iterate
    PROVE  WalkInv'
<1>1. session.phase = "walk" /\ UNCHANGED <<bins, sides, db>>
    BY DEF Iterate, storeVars
<1>2. /\ SessionOK /\ session.scope \in Paths /\ session.order \subseteq Paths
      /\ session.scope \in Seq(Nat) /\ session.orClosed \subseteq Paths
    BY <1>1, PathIs DEF FilesInv, SessionOK, WalkInv
<1>3. /\ \A k \in session.order : InScope(k) /\ ~Under(k, SettledHere)
      /\ \A q \in session.orClosed : InScope(q) /\ \A k \in session.order : ~IsPrefix(q, k)
    BY <1>1 DEF WalkInv
<1>4. SettledHere \subseteq Paths
    BY <1>1, SettledPaths DEF WalkInv
<1>5. session.order # {} => First(session.order) \in session.order
    BY <1>2, FirstIs
<1>6. \A q \in Paths : InScope(q) /\ IsPrefix(q, session.scope) => q = session.scope
    <2> SUFFICES ASSUME NEW q \in Paths, InScope(q), IsPrefix(q, session.scope)
                 PROVE  q = session.scope
        OBVIOUS
    <2>1. q \in Seq(Nat)
        BY PathIs
    <2>2. Len(q) <= Len(session.scope) /\ IsPrefix(session.scope, q)
        BY <1>2, <2>1, PrefixIs DEF InScope
    <2>3. QED
        BY <1>2, <2>1, <2>2, PrefixSame
<1>7. CASE VisitRoot
    <2> DEFINE root == session.scope
    <2>1. /\ root \notin ProvenRows /\ ~HasShard(root) /\ root \notin db.drawn
          /\ root \notin OrClosedRows(root) /\ root \notin session.orClosed /\ Visit(root)
        BY <1>7 DEF VisitRoot, RootSettled
    <2>2. root \notin SettledHere
        BY <2>1 DEF SettledHere, Settled, HasShard
    <2>3. ~Under(root, SettledHere)
        <3>1. \A q \in SettledHere : InScope(q) /\ q \in Paths
            BY <1>4 DEF SettledHere
        <3>2. QED
            BY <1>6, <2>2, <3>1 DEF Under
    <2>4. InScope(root)
        BY <1>2, PrefixRefl DEF InScope
    <2>5. \A q \in session.orClosed : ~IsPrefix(q, root)
        BY <1>2, <1>3, <1>6, <2>1
    <2> HIDE DEF root
    <2>6. root \in Paths
        BY <1>2 DEF root
    <2>7. QED
        BY <1>1, <1>2, <2>1, <2>3, <2>4, <2>5, <2>6, VisitWalks
<1>8. CASE Exhausted
    BY <1>8, OffWalks DEF Exhausted, NoSession
<1>9. CASE VisitRecord
    <2>1. First(session.order) \in session.order /\ Visit(First(session.order))
        BY <1>5, <1>9 DEF VisitRecord
    <2>2. QED
        BY <1>1, <1>2, <1>3, <2>1, VisitWalks
<1>10. CASE Expand
    <2> DEFINE k == First(session.order)
               c == First(Unhandled(k))
    <2>1. k \in session.order /\ k \in Paths /\ Unhandled(k) # {} /\ Visit(c)
        BY <1>2, <1>5, <1>10 DEF Expand
    <2> HIDE DEF k
    <2>2. Unhandled(k) \subseteq Paths
        BY <2>1, PathIs DEF Unhandled
    <2>3. c \in Unhandled(k) /\ c \in Paths
        BY <2>1, <2>2, FirstIs
    <2> HIDE DEF c
    <2>4. /\ ~Handled(c) /\ c \in Seq(Nat) /\ c # <<>> /\ Front(c) = k /\ k \in Seq(Nat)
          /\ Len(c) = Len(k) + 1 /\ IsPrefix(k, c)
        <3>1. PICK m \in Replies[k] : c = Append(k, m)
            BY <2>3 DEF Unhandled
        <3>2. ~Handled(c)
            BY <2>3 DEF Unhandled
        <3>3. k \in Seq(Nat) /\ m \in Nat
            BY <2>1, PathIs
        <3>4. QED
            BY <3>1, <3>2, <3>3, AppendIs
    <2>5. c \notin SettledHere
        <3>1. c \notin Rows /\ ~HasShard(c) /\ c \notin db.drawn
            BY <2>4 DEF Handled
        <3>2. c \notin OrClosedRows(session.scope) /\ c \notin ProvenRows
            BY <3>1, RowsHold DEF ProvenRows
        <3>3. QED
            BY <3>1, <3>2 DEF SettledHere, Settled, HasShard
    <2>6. \A q \in Paths : IsPrefix(q, c) => q = c \/ IsPrefix(q, k)
        BY <2>4, PathIs, PrefixStep
    <2>7. ~Under(c, SettledHere)
        BY <1>3, <1>4, <2>1, <2>5, <2>6 DEF Under
    <2>8. InScope(k) /\ InScope(c)
        <3>1. InScope(k)
            BY <1>3, <2>1
        <3>2. QED
            BY <1>2, <2>4, <3>1, PrefixTrans DEF InScope
    <2>9. c # session.scope
        <3>1. Len(session.scope) <= Len(k)
            BY <1>2, <2>4, <2>8, PrefixIs DEF InScope
        <3>2. QED
            BY <1>2, <2>4, <3>1
    <2>10. ASSUME NEW q \in session.orClosed, IsPrefix(q, c)
           PROVE  c = q /\ q # session.scope /\ q \notin session.order
        <3>1. ~IsPrefix(q, k) /\ q \in Paths
            BY <1>2, <1>3, <2>1
        <3>2. q = c
            BY <2>6, <2>10, <3>1
        <3>3. IsPrefix(q, q)
            BY <2>4, <3>2, PrefixRefl
        <3>4. q \notin session.order
            BY <1>3, <3>3
        <3>5. QED
            BY <2>9, <3>2, <3>4
    <2>11. QED
        BY <1>1, <1>2, <2>1, <2>3, <2>7, <2>8, <2>10, VisitWalks
<1>11. CASE Complete
    <2> DEFINE k == First(session.order)
    <2>1. session' = [session EXCEPT !.complete = @ \cup {k}, !.order = @ \ {k}]
        BY <1>11 DEF Complete
    <2> HIDE DEF k
    <2>2. /\ session'.phase = "walk" /\ session'.cause = session.cause
          /\ session'.scope = session.scope /\ session'.order = session.order \ {k}
          /\ session'.fresh = session.fresh /\ session'.complete = session.complete \cup {k}
          /\ session'.orClosed = session.orClosed
        BY <1>1, <1>2, <2>1 DEF SessionOK
    <2>3. SettledHere' = SettledHere
        BY <1>1, <2>2 DEF SettledHere, Settled, InScope, Rows, ProvenRows, Standing, OrClosedRows
    <2>4. \A q : InScope(q)' <=> InScope(q)
        BY <2>2 DEF InScope
    <2>5. WonByChild' = WonByChild
        BY <2>2 DEF WonByChild
    <2>6. QED
        BY <1>1, <2>2, <2>3, <2>4, <2>5 DEF WalkInv, Under
<1>12. QED
    BY <1>7, <1>8, <1>9, <1>10, <1>11 DEF Iterate

LEMMA EndWalks ==
    ASSUME WalkInv, FilesInv, DbTree, EndSearch
    PROVE  WalkInv'
<1> DEFINE k == session.key
<1>1. /\ session.phase = "search" /\ SessionOK /\ k \in Paths /\ session.order \subseteq Paths
      /\ DOMAIN session = {"phase", "cause", "scope", "base", "order", "complete",
                           "orClosed", "fresh", "key", "tree"}
    BY DEF EndSearch, FilesInv, SessionOK
<1>2. /\ InScope(k) /\ ~Under(k, SettledHere)
      /\ session.cause # "path collision"
      /\ session.fresh \subseteq Paths /\ session.orClosed \subseteq Paths
      /\ \A j \in session.order : InScope(j) /\ ~Under(j, SettledHere)
      /\ \A q \in WonByChild : InScope(q) => q \in session.complete
      /\ \A q \in session.orClosed : InScope(q) /\ \A j \in session.order : ~IsPrefix(q, j)
    BY <1>1 DEF WalkInv
<1> HIDE DEF k
<1>3. ASSUME NEW order, session' = [Walking EXCEPT !.order = order]
      PROVE  /\ session'.phase = "walk" /\ session'.cause = session.cause
             /\ session'.scope = session.scope /\ session'.order = order
             /\ session'.fresh = session.fresh /\ session'.complete = session.complete
             /\ session'.orClosed = session.orClosed
             /\ \A q : InScope(q)' <=> InScope(q)
             /\ WonByChild' = WonByChild
    <2>1. /\ session'.phase = "walk" /\ session'.cause = session.cause
          /\ session'.scope = session.scope /\ session'.order = order
          /\ session'.fresh = session.fresh /\ session'.complete = session.complete
          /\ session'.orClosed = session.orClosed
        BY <1>1, <1>3 DEF Walking
    <2>2. QED
        BY <2>1 DEF InScope, WonByChild
<1>4. ASSUME NEW evals, Censored(evals)
      PROVE  WalkInv'
    <2>1. session' = [Walking EXCEPT !.order = Admitted(k)]
        BY <1>4 DEF Censored, k
    <2>2. /\ db'.nodes = db.nodes /\ db'.shards = db.shards /\ db'.drawn = db.drawn
        BY <1>4 DEF Censored, FilesInv, DbOK
    <2>3. SettledHere' \subseteq SettledHere \cup {}
        BY <1>3, <2>1, <2>2, SettledGrows
    <2>4. \A j \in Admitted(k) : j \in session.order \/ (j = k /\ ~Under(k, session.orClosed))
        BY DEF Admitted
    <2>5. QED
        BY <1>2, <1>3, <2>1, <2>3, <2>4 DEF WalkInv, Under
<1>5. CASE ProvenDraw
    <2>1. session' = [Walking EXCEPT !.order = Sweep(session.order, k)]
        BY <1>1, <1>5 DEF ProvenDraw, Walking, k
    <2>2. /\ db'.nodes = db.nodes /\ db'.shards = db.shards /\ db'.drawn = db.drawn \cup {k}
        BY <1>5 DEF ProvenDraw, FilesInv, DbOK, k
    <2>3. SettledHere' \subseteq SettledHere \cup {k}
        BY <1>3, <2>1, <2>2, SettledGrows
    <2>4. \A j \in Sweep(session.order, k) : j \in session.order /\ ~IsPrefix(k, j)
        BY DEF Sweep
    <2>5. QED
        BY <1>2, <1>3, <2>1, <2>3, <2>4 DEF WalkInv, Under
<1>6. CASE Decisive
    <2>1. IsPrefix(k, k)
        BY <1>1, PathIs, PrefixRefl
    <2>2. ~HasShard(k)
        BY <1>2, <2>1 DEF HasShard, SettledHere, Settled, Under
    <2>3. db' = db /\ \E tree : session' = [session EXCEPT !.phase = "bin", !.tree = tree]
        BY <1>6, <2>2 DEF Decisive, storeVars, k
    <2>4. /\ session'.phase = "bin" /\ session'.cause = session.cause
          /\ session'.scope = session.scope /\ session'.order = session.order
          /\ session'.fresh = session.fresh /\ session'.complete = session.complete
          /\ session'.orClosed = session.orClosed
        BY <1>1, <2>3
    <2>5. /\ \A q : InScope(q)' <=> InScope(q)
          /\ WonByChild' = WonByChild
        BY <2>4 DEF InScope, WonByChild
    <2>6. SettledHere' \subseteq SettledHere \cup {}
        BY <2>3, <2>4, SettledGrows
    <2>7. QED
        BY <1>2, <2>4, <2>5, <2>6 DEF WalkInv, Under
<1>7. CASE ExportRejected
    BY <1>7, OffWalks DEF ExportRejected, Refused, NoSession
<1>8. QED
    BY <1>4, <1>5, <1>6, <1>7 DEF EndSearch

LEMMA WriteBinWalks ==
    ASSUME WalkInv, FilesInv, WriteShardBin
    PROVE  WalkInv'
<1>1. /\ session.phase = "bin" /\ db' = db
      /\ DOMAIN session = {"phase", "cause", "scope", "base", "order", "complete",
                           "orClosed", "fresh", "key", "tree"}
    BY DEF WriteShardBin, FilesInv, SessionOK
<1>2. /\ session'.phase = "sidecar" /\ session'.cause = session.cause
      /\ session'.scope = session.scope /\ session'.order = session.order
      /\ session'.fresh = session.fresh /\ session'.complete = session.complete
      /\ session'.orClosed = session.orClosed
    BY <1>1 DEF WriteShardBin
<1>3. (\A q : InScope(q)' <=> InScope(q)) /\ WonByChild' = WonByChild
    BY <1>2 DEF InScope, WonByChild
<1>4. SettledHere' \subseteq SettledHere \cup {}
    BY <1>1, <1>2, SettledGrows
<1>5. QED
    BY <1>1, <1>2, <1>3, <1>4 DEF WalkInv, Under

(* The new shard settles its path, and the parent of a lost child.         *)
LEMMA WriteSidecarWalks ==
    ASSUME WalkInv, FilesInv, WriteShardSidecar
    PROVE  WalkInv'
<1> DEFINE k == session.key
           closes == ClosesParent(k)
           closed == IF closes THEN {Front(k)} ELSE {}
           order == IF closes THEN Sweep(Sweep(session.order, k), Front(k)) ELSE Sweep(session.order, k)
<1>1. /\ session.phase = "sidecar" /\ db' = db /\ k \in Paths
      /\ DOMAIN session = {"phase", "cause", "scope", "base", "order", "complete",
                           "orClosed", "fresh", "key", "tree"}
    BY DEF WriteShardSidecar, FilesInv, SessionOK
<1>2. /\ session'.phase = "walk" /\ session'.cause = session.cause
      /\ session'.scope = session.scope /\ session'.order = order
      /\ session'.fresh = session.fresh \cup {k} /\ session'.complete = session.complete \cup closed
      /\ session'.orClosed = session.orClosed \cup closed
    BY <1>1 DEF WriteShardSidecar, Walking
<1>3. /\ session.cause # "path collision"
      /\ session.fresh \subseteq Paths /\ session.orClosed \subseteq Paths
      /\ \A j \in session.order : InScope(j) /\ ~Under(j, SettledHere)
      /\ \A q \in WonByChild : InScope(q) => q \in session.complete
      /\ \A q \in session.orClosed : InScope(q) /\ \A j \in session.order : ~IsPrefix(q, j)
    BY <1>1 DEF WalkInv
<1>4. \A j \in order : /\ j \in session.order /\ ~IsPrefix(k, j)
                       /\ closes => ~IsPrefix(Front(k), j)
    BY DEF Sweep
<1>5. closes => Front(k) \in Paths /\ InScope(Front(k))
    BY <1>1, PathIs DEF ClosesParent
<1>6. SettledHere' \subseteq SettledHere \cup {k}
    BY <1>1, <1>2, SettledGrows
<1>7. \A q : InScope(q)' <=> InScope(q)
    BY <1>2 DEF InScope
<1>8. \A q \in WonByChild' : InScope(q) => q \in session.complete \cup closed
    <2> SUFFICES ASSUME NEW q \in WonByChild', InScope(q) PROVE q \in session.complete \cup closed
        OBVIOUS
    <2>1. PICK r \in session.fresh \cup {k} :
             q = Front(r) /\ r # <<>> /\ Value[r] = "loss" /\ WhiteToMove(Front(r))
        BY <1>2 DEF WonByChild
    <2>2. CASE r \in session.fresh
        BY <1>3, <2>1, <2>2 DEF WonByChild
    <2>3. CASE r = k
        BY <2>1, <2>3 DEF ClosesParent
    <2>4. QED
        BY <2>1, <2>2, <2>3
<1>9. closed \subseteq Paths /\ \A q \in closed : InScope(q) /\ \A j \in order : ~IsPrefix(q, j)
    BY <1>4, <1>5
<1> HIDE DEF k, closes, closed, order
<1>10. \A j \in order : InScope(j)' /\ ~Under(j, SettledHere')
    BY <1>3, <1>4, <1>6, <1>7 DEF Under
<1>11. \A q \in WonByChild' : InScope(q)' => q \in session'.complete
    BY <1>2, <1>7, <1>8
<1>12. \A q \in session'.orClosed : InScope(q)' /\ \A j \in order : ~IsPrefix(q, j)
    BY <1>2, <1>3, <1>4, <1>7, <1>9
<1>13. session'.fresh \subseteq Paths /\ session'.orClosed \subseteq Paths
    BY <1>1, <1>2, <1>3, <1>9
<1>14. QED
    BY <1>2, <1>3, <1>10, <1>11, <1>12, <1>13 DEF WalkInv, Under

LEMMA WalkStep ==
    ASSUME WalkInv, StoreInv, [Next]_vars
    PROVE  WalkInv'
<1>1. FilesInv /\ DbTree
    BY DEF StoreInv
<1>2. CASE session' = session /\ session.phase = "off"
    BY <1>2, OffWalks DEF WalkInv
<1>3. CASE FoldRuns
    BY <1>2, <1>3 DEF FoldRuns
<1>4. CASE HarvestRuns
    <2>1. CASE session.phase = "walk" /\ StopWalk /\ UNCHANGED storeVars
        BY <2>1, OffWalks DEF StopWalk, NoSession
    <2>2. CASE CrashSession
        BY <2>2, OffWalks DEF CrashSession, NoSession
    <2>3. QED
        BY <1>1, <1>4, <2>1, <2>2, StartWalks, IterateWalks, EndWalks, WriteBinWalks, WriteSidecarWalks
           DEF HarvestRuns, HarvestNext, SessionStep
<1>5. CASE (\E tag \in DOMAIN sides : Spoil(tag)) \/ DeleteTransport
    BY <1>2, <1>5 DEF Spoil, DeleteTransport, Quiet
<1>6. CASE UNCHANGED vars
    <2>1. UNCHANGED <<db, session>>
        BY <1>6 DEF vars, storeVars
    <2>2. SettledHere' = SettledHere /\ WonByChild' = WonByChild /\ \A q : InScope(q)' <=> InScope(q)
        BY <2>1 DEF SettledHere, Settled, InScope, Rows, ProvenRows, Standing, OrClosedRows, WonByChild
    <2>3. QED
        BY <2>1, <2>2 DEF WalkInv, Under
<1>7. QED
    BY <1>3, <1>4, <1>5, <1>6 DEF Next

(* No session, however often the database was walked and folded before,    *)
(* visits what is settled, nor below what it won itself (walk.rs).         *)
THEOREM NoVisitWasted == Spec => []NoWastedVisit
<1>1. Init => WalkInv /\ StoreInv
    <2>1. ASSUME Init
          PROVE  WalkInv
        BY <2>1 DEF Init, HarvestInit, NoSession, WalkInv
    <2>2. QED
        BY <2>1, StoreBegins
<1>2. WalkInv /\ StoreInv /\ [Next]_vars => (WalkInv /\ StoreInv)'
    BY WalkStep, StoreSteps
<1>3. WalkInv /\ StoreInv => NoWastedVisit
    <2> SUFFICES ASSUME WalkInv, StoreInv PROVE NoWastedVisit
        OBVIOUS
    <2>1. ASSUME session.phase = "search", NEW q \in WonByChild \ (session.complete \ session.orClosed),
                 InScope(q), IsPrefix(q, session.key)
          PROVE  session.key = q /\ q # session.scope /\ q \notin session.order
        <3>1. q \in session.orClosed
            BY <2>1 DEF WalkInv
        <3>2. QED
            BY <2>1, <3>1 DEF WalkInv
    <2>2. session.phase = "search" => ~Under(session.key, {q \in Settled : InScope(q)})
        BY DEF WalkInv, SettledHere
    <2>3. QED
        BY <2>1, <2>2 DEF NoWastedVisit, NoWorkUnderSettled, NoCollision, WalkInv
<1>4. QED
    BY <1>1, <1>2, <1>3, PTL DEF Spec

-----------------------------------------------------------------------------
(* The advance of the walk.                                                *)

WorkOf(censor, k) == EntryAt(censor, k).work

(* What is complete is no candidate, and is won by a child or has its base *)
(* spent.  An anchor with its base spent is a candidate until it is done   *)
(* with.  A visit is to a node in scope, not drawn, with base left.        *)
PayInv ==
    /\ session.phase # "off" =>
          /\ session.base # 0
          /\ session.complete \cap session.order = {}
          /\ \A k \in session.complete : k \in session.orClosed \/ WorkOf(db.censor, k) >= session.base
          /\ WorkOf(db.censor, session.scope) >= session.base =>
             session.scope \in session.order \/ RootSettled
    /\ session.phase \in {"search", "bin", "sidecar"} =>
          /\ InScope(session.key) /\ session.key \notin db.drawn
          /\ WorkOf(db.censor, session.key) < session.base

LEMMA WorkedIs ==
    ASSUME FilesInv, NEW k
    PROVE  WorkOf(db.censor, k) \in Nat /\ (k \notin DOMAIN db.censor => WorkOf(db.censor, k) = 0)
BY DEF FilesInv, DbOK, CensorOK, WorkOf, EntryAt, Scheduled

LEMMA WorkedBump ==
    ASSUME NEW k, NEW evals, db'.censor = Bump(db.censor, k, evals)
    PROVE  /\ WorkOf(db'.censor, k) = WorkOf(db.censor, k) + evals
           /\ \A j : j # k => WorkOf(db'.censor, j) = WorkOf(db.censor, j)
<1> DEFINE entry == [work   |-> EntryAt(db.censor, k).work + evals,
                     passes |-> EntryAt(db.censor, k).passes + 1]
<1>1. db'.censor = Put(db.censor, k, entry)
    BY DEF Bump
<1>2. entry.work = WorkOf(db.censor, k) + evals
    BY DEF WorkOf
<1> HIDE DEF entry
<1>3. /\ DOMAIN db'.censor = DOMAIN db.censor \cup {k} /\ db'.censor[k] = entry
      /\ \A j \in DOMAIN db.censor : j # k => db'.censor[j] = db.censor[j]
    BY <1>1 DEF Put
<1>4. QED
    BY <1>2, <1>3 DEF WorkOf, EntryAt

(* Nothing of the scope lies above its anchor.                             *)
LEMMA AnchorOnly ==
    ASSUME session.scope \in Paths, NEW q \in Paths, InScope(q), IsPrefix(q, session.scope)
    PROVE  q = session.scope
<1>1. q \in Seq(Nat) /\ session.scope \in Seq(Nat)
    BY PathIs
<1>2. Len(q) <= Len(session.scope) /\ IsPrefix(session.scope, q)
    BY <1>1, PrefixIs DEF InScope
<1>3. QED
    BY <1>1, <1>2, PrefixSame

(* What settled the anchor goes on to.                                     *)
LEMMA AnchorStaysSettled ==
    ASSUME session'.scope = session.scope, db'.nodes = db.nodes, db'.shards = db.shards,
           db.drawn \subseteq db'.drawn, session.fresh \subseteq session'.fresh,
           session.orClosed \subseteq session'.orClosed, session.complete \subseteq session'.complete,
           RootSettled
    PROVE  RootSettled'
<1>1. ProvenRows' = ProvenRows /\ Standing' = Standing
    BY DEF Rows, ProvenRows, Standing
<1>2. OrClosedRows(session.scope)' = OrClosedRows(session.scope)
    BY <1>1 DEF OrClosedRows
<1>3. QED
    BY <1>1, <1>2 DEF RootSettled, HasShard

(* A dropped anchor is settled.                                            *)
LEMMA AnchorDropped ==
    ASSUME FilesInv, DbTree, session.scope \in Paths, Dropped(session.scope, session.scope)
    PROVE  RootSettled
<1> DEFINE root == session.scope
<1>1. PICK q \in {r \in ProvenRows \cup db.drawn : IsPrefix(root, r)} \cup OrClosedRows(root) :
         IsPrefix(q, root)
    BY DEF Dropped, Under
<1>2. q \in Paths /\ InScope(q)
    BY <1>1, RowsHold DEF OrClosedRows, ProvenRows, FilesInv, DbOK, InScope
<1>3. q = root
    BY <1>1, <1>2, AnchorOnly
<1>4. QED
    BY <1>1, <1>3 DEF RootSettled

LEMMA OffPays ==
    ASSUME session'.phase = "off"
    PROVE  PayInv'
BY DEF PayInv

LEMMA StartPays ==
    ASSUME FilesInv, DbTree, NEW scope \in Scopes, NEW base \in Bases, StartSession(scope, base)
    PROVE  PayInv'
<1>1. CASE ~db.schema \/ LostBin \/ UnmergedShard
    BY <1>1, OffPays DEF StartSession, Refused, NoSession
<1>2. CASE ~ (~db.schema \/ LostBin \/ UnmergedShard)
    <2>1. session' = [phase |-> "walk", cause |-> "none", scope |-> scope, base |-> base,
                      order |-> Frontier(scope), complete |-> {}, orClosed |-> {}, fresh |-> {},
                      key |-> <<>>, tree |-> <<>>]
        BY <1>2 DEF StartSession
    <2>2. /\ session'.phase = "walk" /\ session'.scope = scope /\ session'.base = base
          /\ session'.order = Frontier(scope) /\ session'.complete = {}
        BY <2>1
    <2>3. db' = db
        BY DEF StartSession, storeVars
    <2>4. base \in Nat /\ base # 0 /\ scope \in Paths
        BY HarvestAssumption
    <2>5. ASSUME WorkOf(db.censor, scope) >= base, scope \notin Frontier(scope)
          PROVE  RootSettled'
        <3>1. scope \in DOMAIN db.censor
            BY <2>4, <2>5, WorkedIs
        <3>2. Dropped(scope, scope)
            BY <2>4, <2>5, <3>1, PathIs, PrefixRefl DEF Frontier
        <3>3. PICK q \in {r \in ProvenRows \cup db.drawn : IsPrefix(scope, r)} \cup OrClosedRows(scope) :
                 IsPrefix(q, scope)
            BY <3>2 DEF Dropped, Under
        <3>4. q \in Paths /\ IsPrefix(scope, q)
            BY <3>3, RowsHold DEF OrClosedRows, ProvenRows, FilesInv, DbOK
        <3>5. q = scope
            BY <2>4, <3>3, <3>4, PathIs, PrefixIs, PrefixSame
        <3>6. ProvenRows' = ProvenRows /\ OrClosedRows(session.scope)' = OrClosedRows(scope)
            BY <2>2, <2>3 DEF Rows, ProvenRows, OrClosedRows
        <3>7. QED
            BY <2>2, <2>3, <3>3, <3>5, <3>6 DEF RootSettled
    <2>6. WorkOf(db'.censor, scope) = WorkOf(db.censor, scope)
        BY <2>3 DEF WorkOf
    <2>7. QED
        BY <2>2, <2>3, <2>4, <2>5, <2>6 DEF PayInv, WorkOf
<1>3. QED
    BY <1>1, <1>2

LEMMA VisitGoesOn ==
    ASSUME PayInv, SessionOK, session.phase = "walk", UNCHANGED db,
           NEW k, Visit(k), InScope(k), WorkOf(db.censor, k) < session.base, k \notin db.drawn
    PROVE  PayInv' /\ DoneStaysDone /\ PickRetires
<1>1. /\ session'.phase = "search" /\ session'.key = k /\ session'.base = session.base
      /\ session'.scope = session.scope /\ session'.order = session.order
      /\ session'.fresh = session.fresh /\ session'.complete = session.complete
      /\ session'.orClosed = session.orClosed
    BY DEF Visit, SessionOK
<1>2. RootSettled => RootSettled'
    BY <1>1, AnchorStaysSettled
<1>3. \A j : WorkOf(db'.censor, j) = WorkOf(db.censor, j)
    BY DEF WorkOf
<1>4. PayInv'
    BY <1>1, <1>2, <1>3 DEF PayInv, WorkOf, InScope
<1>5. QED
    BY <1>1, <1>4 DEF PayInv, DoneStaysDone, PickRetires

LEMMA IteratePays ==
    ASSUME PayInv, WalkInv, FilesInv, DbTree, Iterate
    PROVE  PayInv' /\ DoneStaysDone /\ PickRetires
<1>1. session.phase = "walk" /\ UNCHANGED <<bins, sides, db>>
    BY DEF Iterate, storeVars
<1>2. /\ SessionOK /\ session.scope \in Paths /\ session.order \subseteq Paths /\ session.base \in Nat
      /\ DOMAIN session = {"phase", "cause", "scope", "base", "order", "complete",
                           "orClosed", "fresh", "key", "tree"}
    BY <1>1 DEF FilesInv, SessionOK
<1>3. /\ session.complete \cap session.order = {}
      /\ WorkOf(db.censor, session.scope) >= session.base =>
             session.scope \in session.order \/ RootSettled
      /\ \A k \in session.complete : k \in session.orClosed \/ WorkOf(db.censor, k) >= session.base
      /\ session.base # 0
    BY <1>1 DEF PayInv
<1>4. session.order # {} => First(session.order) \in session.order /\ First(session.order) \in Paths
    BY <1>2, FirstIs
<1>5. CASE VisitRoot
    <2>1. ~RootSettled /\ session.order = {} /\ Visit(session.scope)
        BY <1>5 DEF VisitRoot
    <2>2. WorkOf(db.censor, session.scope) < session.base
        BY <1>2, <1>3, <2>1, WorkedIs
    <2>3. session.scope \notin db.drawn
        BY <2>1 DEF RootSettled
    <2>4. InScope(session.scope)
        BY <1>2, PathIs, PrefixRefl DEF InScope
    <2>5. QED
        BY <1>1, <1>2, <2>1, <2>2, <2>3, <2>4, VisitGoesOn
<1>6. CASE Exhausted
    <2>1. session'.phase = "off"
        BY <1>6 DEF Exhausted, NoSession
    <2>2. QED
        BY <2>1, OffPays DEF DoneStaysDone, PickRetires
<1>7. CASE VisitRecord
    <2> DEFINE k == First(session.order)
    <2>1. k \in session.order /\ k \in Paths /\ Visit(k) /\ WorkOf(db.censor, k) < session.base
        BY <1>4, <1>7 DEF VisitRecord, WorkOf
    <2> HIDE DEF k
    <2>2. InScope(k) /\ ~Under(k, SettledHere) /\ IsPrefix(k, k)
        BY <1>1, <2>1, PathIs, PrefixRefl DEF WalkInv
    <2>3. k \notin db.drawn
        BY <2>2 DEF Under, SettledHere, Settled
    <2>4. QED
        BY <1>1, <1>2, <2>1, <2>2, <2>3, VisitGoesOn
<1>8. CASE Expand
    <2> DEFINE k == First(session.order)
               c == First(Unhandled(k))
    <2>1. k \in session.order /\ k \in Paths /\ Unhandled(k) # {} /\ Visit(c)
        BY <1>4, <1>8 DEF Expand
    <2> HIDE DEF k
    <2>2. Unhandled(k) \subseteq Paths
        BY <2>1, PathIs DEF Unhandled
    <2>3. c \in Unhandled(k)
        BY <2>1, <2>2, FirstIs
    <2> HIDE DEF c
    <2>4. c \notin db.drawn /\ ~(WorkOf(db.censor, c) >= session.base)
        BY <2>3 DEF Unhandled, Handled, WorkOf
    <2>5. WorkOf(db.censor, c) < session.base
        BY <1>2, <2>4, WorkedIs
    <2>6. InScope(c)
        <3>1. PICK m \in Replies[k] : c = Append(k, m)
            BY <2>3 DEF Unhandled
        <3>2. c \in Seq(Nat) /\ k \in Seq(Nat) /\ session.scope \in Seq(Nat) /\ IsPrefix(k, c)
            BY <1>2, <2>1, <3>1, PathIs, AppendIs
        <3>3. InScope(k)
            BY <1>1, <2>1 DEF WalkInv
        <3>4. QED
            BY <3>2, <3>3, PrefixTrans DEF InScope
    <2>7. QED
        BY <1>1, <1>2, <2>1, <2>4, <2>5, <2>6, VisitGoesOn
<1>9. CASE Complete
    <2> DEFINE k == First(session.order)
    <2>1. /\ session' = [session EXCEPT !.complete = @ \cup {k}, !.order = @ \ {k}]
          /\ WorkOf(db.censor, k) >= session.base /\ k \in session.order
        BY <1>4, <1>9 DEF Complete, WorkOf
    <2> HIDE DEF k
    <2>2. /\ session'.phase = "walk" /\ session'.base = session.base
          /\ session'.scope = session.scope /\ session'.order = session.order \ {k}
          /\ session'.fresh = session.fresh /\ session'.complete = session.complete \cup {k}
          /\ session'.orClosed = session.orClosed
        BY <1>1, <1>2, <2>1
    <2>3. RootSettled => RootSettled'
        BY <1>1, <2>2, AnchorStaysSettled
    <2>4. \A j : WorkOf(db'.censor, j) = WorkOf(db.censor, j)
        BY <1>1 DEF WorkOf
    <2>5. session.scope = k => RootSettled'
        BY <2>2 DEF RootSettled
    <2>6. PayInv'
        BY <1>3, <2>1, <2>2, <2>3, <2>4, <2>5 DEF PayInv
    <2>7. QED
        BY <1>4, <2>1, <2>2, <2>6 DEF PayInv, DoneStaysDone, PickRetires
<1>10. QED
    BY <1>5, <1>6, <1>7, <1>8, <1>9 DEF Iterate

LEMMA EndPays ==
    ASSUME PayInv, WalkInv, FilesInv, DbTree, EndSearch
    PROVE  PayInv' /\ DoneStaysDone /\ VisitPays
<1> DEFINE k == session.key
<1>1. /\ session.phase = "search" /\ SessionOK /\ k \in Paths /\ session.scope \in Paths
      /\ session.base \in Nat /\ session.orClosed \subseteq Paths
      /\ DOMAIN session = {"phase", "cause", "scope", "base", "order", "complete",
                           "orClosed", "fresh", "key", "tree"}
    BY DEF EndSearch, FilesInv, SessionOK, WalkInv
<1>2. /\ session.complete \cap session.order = {}
      /\ WorkOf(db.censor, session.scope) >= session.base =>
             session.scope \in session.order \/ RootSettled
      /\ \A j \in session.complete : j \in session.orClosed \/ WorkOf(db.censor, j) >= session.base
      /\ session.base # 0 /\ WorkOf(db.censor, k) < session.base /\ k \notin db.drawn
    BY <1>1 DEF PayInv
<1>3. InScope(k) /\ ~Under(k, SettledHere) /\ IsPrefix(k, k)
      /\ \A q \in session.orClosed : InScope(q)
    BY <1>1, PathIs, PrefixRefl DEF WalkInv
<1>4. ~HasShard(k)
    BY <1>3 DEF HasShard, SettledHere, Settled, Under
<1>5. k = session.key
    OBVIOUS
<1> HIDE DEF k
<1>6. ASSUME NEW order, session' = [Walking EXCEPT !.order = order]
      PROVE  /\ session'.phase = "walk" /\ session'.base = session.base
             /\ session'.scope = session.scope /\ session'.order = order
             /\ session'.fresh = session.fresh /\ session'.complete = session.complete
             /\ session'.orClosed = session.orClosed
    BY <1>1, <1>6 DEF Walking
<1>7. ASSUME NEW evals \in {1, session.base}, Censored(evals)
      PROVE  PayInv' /\ DoneStaysDone /\ VisitPays
    <2>1. session' = [Walking EXCEPT !.order = Admitted(k)]
        BY <1>7 DEF Censored, k
    <2>2. /\ session'.phase = "walk" /\ session'.base = session.base
          /\ session'.scope = session.scope /\ session'.order = Admitted(k)
          /\ session'.fresh = session.fresh /\ session'.complete = session.complete
          /\ session'.orClosed = session.orClosed
        BY <1>6, <2>1
    <2>3. /\ db'.nodes = db.nodes /\ db'.shards = db.shards /\ db'.drawn = db.drawn
          /\ db'.censor = Bump(db.censor, k, evals)
        BY <1>7 DEF Censored, FilesInv, DbOK, k
    <2>4. /\ WorkOf(db'.censor, k) = WorkOf(db.censor, k) + evals
          /\ \A j : j # k => WorkOf(db'.censor, j) = WorkOf(db.censor, j)
        BY <2>3, WorkedBump
    <2>5. evals \in Nat /\ evals > 0 /\ \A j : WorkOf(db.censor, j) \in Nat
        BY <1>1, <1>2, <1>7, WorkedIs
    <2>6. /\ WorkOf(db'.censor, k) > WorkOf(db.censor, k)
          /\ \A j : WorkOf(db'.censor, j) >= WorkOf(db.censor, j)
        <3>1. WorkOf(db'.censor, k) > WorkOf(db.censor, k)
            BY <2>4, <2>5
        <3>2. ASSUME NEW j
              PROVE  WorkOf(db'.censor, j) >= WorkOf(db.censor, j)
            BY <2>4, <2>5
        <3>3. QED
            BY <3>1, <3>2
    <2>7. k \in session.complete => k \notin Admitted(k)
        <3>1. k \in session.complete => k \in session.orClosed
            BY <1>1, <1>2, <2>5
        <3>2. k \in session.orClosed => Under(k, session.orClosed)
            BY <1>3 DEF Under
        <3>3. QED
            BY <1>2, <3>1, <3>2 DEF Admitted
    <2>8. session.order \subseteq Admitted(k) /\ Admitted(k) \subseteq session.order \cup {k}
        BY DEF Admitted
    <2>9. session'.complete \cap session'.order = {}
        BY <1>2, <2>2, <2>7, <2>8
    <2>10. RootSettled => RootSettled'
        BY <2>2, <2>3, AnchorStaysSettled
    <2>11. k = session.scope => k \in Admitted(k) \/ RootSettled'
        <3>1. SUFFICES ASSUME k = session.scope, k \notin Admitted(k)
                       PROVE  RootSettled
            BY <2>10
        <3>2. Dropped(k, session.scope) \/ Under(k, session.orClosed)
            BY <3>1 DEF Admitted
        <3>3. Dropped(k, session.scope) => RootSettled
            BY <1>1, <3>1, AnchorDropped
        <3>4. Under(k, session.orClosed) => RootSettled
            <4>1. SUFFICES ASSUME NEW q \in session.orClosed, IsPrefix(q, k)
                           PROVE  RootSettled
                BY DEF Under
            <4>2. q = session.scope
                BY <1>1, <1>3, <3>1, <4>1, AnchorOnly
            <4>3. QED
                BY <4>1, <4>2 DEF RootSettled
        <3>5. QED
            BY <3>2, <3>3, <3>4
    <2>12. ASSUME WorkOf(db'.censor, session.scope) >= session.base
           PROVE  session.scope \in Admitted(k) \/ RootSettled'
        <3>1. CASE session.scope = k
            BY <2>11, <3>1
        <3>2. CASE session.scope # k
            BY <1>2, <2>4, <2>8, <2>10, <2>12, <3>2
        <3>3. QED
            BY <3>1, <3>2
    <2>13. \A j \in session.complete : j \in session.orClosed \/ WorkOf(db'.censor, j) >= session.base
        <3>1. SUFFICES ASSUME NEW j \in session.complete, j \notin session.orClosed
                       PROVE  WorkOf(db'.censor, j) >= session.base
            OBVIOUS
        <3>2. j # k
            BY <1>1, <1>2, <2>5, <3>1
        <3>3. QED
            BY <1>2, <2>4, <3>1, <3>2
    <2>14. PayInv'
        <3>1. WorkOf(db'.censor, session.scope) = WorkOf(db'.censor, session'.scope)
            BY <2>2 DEF WorkOf
        <3>2. QED
            BY <1>2, <2>2, <2>9, <2>12, <2>13, <3>1 DEF PayInv
    <2>15. DoneStaysDone
        BY <2>2, <2>9 DEF DoneStaysDone
    <2>16. VisitPays
        BY <1>2, <1>4, <1>5, <2>6 DEF VisitPays, WorkOf
    <2>17. QED
        BY <2>14, <2>15, <2>16
<1>8. CASE ProvenDraw
    <2>1. session' = [Walking EXCEPT !.order = Sweep(session.order, k)]
        BY <1>1, <1>8 DEF ProvenDraw, Walking, k
    <2>2. /\ session'.phase = "walk" /\ session'.base = session.base
          /\ session'.scope = session.scope /\ session'.order = Sweep(session.order, k)
          /\ session'.fresh = session.fresh /\ session'.complete = session.complete
          /\ session'.orClosed = session.orClosed
        BY <1>6, <2>1
    <2>3. /\ db'.nodes = db.nodes /\ db'.shards = db.shards /\ db'.drawn = db.drawn \cup {k}
          /\ db'.censor = db.censor
        BY <1>8 DEF ProvenDraw, FilesInv, DbOK, k
    <2>4. \A j : WorkOf(db'.censor, j) = WorkOf(db.censor, j)
        BY <2>3 DEF WorkOf
    <2>5. RootSettled => RootSettled'
        BY <2>2, <2>3, AnchorStaysSettled
    <2>6. session.scope \in session.order => session.scope \in Sweep(session.order, k) \/ RootSettled'
        <3>1. IsPrefix(k, session.scope) => k = session.scope
            BY <1>1, <1>3, AnchorOnly
        <3>2. k = session.scope => RootSettled'
            BY <2>2, <2>3 DEF RootSettled
        <3>3. QED
            BY <3>1, <3>2 DEF Sweep
    <2>7. session'.complete \cap session'.order = {}
        BY <1>2, <2>2 DEF Sweep
    <2>8. PayInv'
        BY <1>2, <2>2, <2>4, <2>5, <2>6, <2>7 DEF PayInv
    <2>9. DoneStaysDone
        BY <2>2, <2>7 DEF DoneStaysDone
    <2>10. VisitPays
        BY <1>2, <1>4, <1>5, <2>3 DEF VisitPays, WorkOf
    <2>11. QED
        BY <2>8, <2>9, <2>10
<1>9. CASE Decisive
    <2>1. db' = db /\ \E tree : session' = [session EXCEPT !.phase = "bin", !.tree = tree]
        BY <1>4, <1>9 DEF Decisive, storeVars, k
    <2>2. /\ session'.phase = "bin" /\ session'.base = session.base /\ session'.key = k
          /\ session'.scope = session.scope /\ session'.order = session.order
          /\ session'.fresh = session.fresh /\ session'.complete = session.complete
          /\ session'.orClosed = session.orClosed
        BY <1>1, <1>5, <2>1
    <2>3. RootSettled => RootSettled'
        BY <2>1, <2>2, AnchorStaysSettled
    <2>4. \A j : WorkOf(db'.censor, j) = WorkOf(db.censor, j)
        BY <2>1 DEF WorkOf
    <2>5. PayInv'
        BY <1>2, <1>3, <2>1, <2>2, <2>3, <2>4 DEF PayInv, InScope
    <2>6. QED
        BY <1>2, <2>2, <2>5 DEF DoneStaysDone, VisitPays
<1>10. CASE ExportRejected
    <2>1. session'.phase = "off"
        BY <1>10 DEF ExportRejected, Refused, NoSession
    <2>2. QED
        BY <2>1, OffPays DEF DoneStaysDone, VisitPays
<1>11. QED
    BY <1>7, <1>8, <1>9, <1>10 DEF EndSearch

LEMMA WriteBinPays ==
    ASSUME PayInv, FilesInv, WriteShardBin
    PROVE  PayInv' /\ DoneStaysDone /\ VisitPays
<1>1. /\ session.phase = "bin" /\ db' = db
      /\ DOMAIN session = {"phase", "cause", "scope", "base", "order", "complete",
                           "orClosed", "fresh", "key", "tree"}
    BY DEF WriteShardBin, FilesInv, SessionOK
<1>2. /\ session'.phase = "sidecar" /\ session'.base = session.base /\ session'.key = session.key
      /\ session'.scope = session.scope /\ session'.order = session.order
      /\ session'.fresh = session.fresh /\ session'.complete = session.complete
      /\ session'.orClosed = session.orClosed
    BY <1>1 DEF WriteShardBin
<1>3. RootSettled => RootSettled'
    BY <1>1, <1>2, AnchorStaysSettled
<1>4. \A j : WorkOf(db'.censor, j) = WorkOf(db.censor, j)
    BY <1>1 DEF WorkOf
<1>5. PayInv'
    BY <1>1, <1>2, <1>3, <1>4 DEF PayInv, InScope
<1>6. QED
    BY <1>1, <1>2, <1>5 DEF PayInv, DoneStaysDone, VisitPays

LEMMA WriteSidecarPays ==
    ASSUME PayInv, WalkInv, FilesInv, WriteShardSidecar
    PROVE  PayInv' /\ DoneStaysDone /\ VisitPays
<1> DEFINE k == session.key
           closes == ClosesParent(k)
           closed == IF closes THEN {Front(k)} ELSE {}
           order == IF closes THEN Sweep(Sweep(session.order, k), Front(k)) ELSE Sweep(session.order, k)
<1>1. /\ session.phase = "sidecar" /\ db' = db /\ k \in Paths /\ session.scope \in Paths
      /\ ~HasShard(k)
      /\ DOMAIN session = {"phase", "cause", "scope", "base", "order", "complete",
                           "orClosed", "fresh", "key", "tree"}
    BY DEF WriteShardSidecar, FilesInv, SessionOK
<1>2. /\ session'.phase = "walk" /\ session'.base = session.base
      /\ session'.scope = session.scope /\ session'.order = order
      /\ session'.fresh = session.fresh \cup {k} /\ session'.complete = session.complete \cup closed
      /\ session'.orClosed = session.orClosed \cup closed
    BY <1>1 DEF WriteShardSidecar, Walking
<1>3. /\ session.complete \cap session.order = {}
      /\ WorkOf(db.censor, session.scope) >= session.base =>
             session.scope \in session.order \/ RootSettled
      /\ \A j \in session.complete : j \in session.orClosed \/ WorkOf(db.censor, j) >= session.base
      /\ session.base # 0 /\ WorkOf(db.censor, k) < session.base /\ k \notin db.drawn
      /\ InScope(k)
    BY <1>1 DEF PayInv
<1>4. \A j \in order : /\ j \in session.order /\ ~IsPrefix(k, j)
                       /\ closes => ~IsPrefix(Front(k), j)
    BY DEF Sweep
<1>5. \A j \in session.order : j \in order \/ IsPrefix(k, j) \/ (closes /\ IsPrefix(Front(k), j))
    BY DEF Sweep
<1>6. closes => Front(k) \in Paths /\ InScope(Front(k)) /\ IsPrefix(Front(k), Front(k))
    BY <1>1, PathIs, PrefixRefl DEF ClosesParent
<1>7. \A j : WorkOf(db'.censor, j) = WorkOf(db.censor, j)
    BY <1>1 DEF WorkOf
<1>8. RootSettled => RootSettled'
    BY <1>1, <1>2, AnchorStaysSettled
<1>9. session.scope \in session.order => session.scope \in order \/ RootSettled'
    <2>1. IsPrefix(k, session.scope) => RootSettled'
        <3>1. SUFFICES ASSUME IsPrefix(k, session.scope)
                       PROVE  RootSettled'
            OBVIOUS
        <3>2. k \in session'.fresh
            BY <1>2
        <3>3. k = session.scope
            BY <1>1, <3>1, <1>3, AnchorOnly
        <3>4. QED
            BY <1>2, <3>2, <3>3 DEF RootSettled, HasShard
    <2>2. closes /\ IsPrefix(Front(k), session.scope) => RootSettled'
        <3>1. SUFFICES ASSUME closes, IsPrefix(Front(k), session.scope)
                       PROVE  RootSettled'
            OBVIOUS
        <3>2. Front(k) = session.scope
            BY <1>1, <1>6, <3>1, AnchorOnly
        <3>3. Front(k) \in session'.orClosed
            BY <1>2, <3>1
        <3>4. QED
            BY <1>2, <3>2, <3>3 DEF RootSettled
    <2>3. QED
        BY <1>5, <2>1, <2>2
<1>10. closed \cap order = {}
    BY <1>4, <1>6
<1>11. k = session.key
    OBVIOUS
<1> HIDE DEF k, closes, closed, order
<1>12. session'.complete \cap session'.order = {}
    BY <1>2, <1>3, <1>4, <1>10
<1>13. PayInv'
    BY <1>2, <1>3, <1>7, <1>8, <1>9, <1>12 DEF PayInv
<1>14. DoneStaysDone
    BY <1>2, <1>12 DEF DoneStaysDone
<1>15. VisitPays
    BY <1>1, <1>2, <1>3, <1>11 DEF VisitPays, WorkOf
<1>16. QED
    BY <1>13, <1>14, <1>15

LEMMA PayStep ==
    ASSUME PayInv, WalkInv, StoreInv, [Next]_vars
    PROVE  PayInv' /\ [Advances]_vars
<1>1. FilesInv /\ DbTree
    BY DEF StoreInv
<1>2. CASE session.phase = "off" /\ session' = session
    BY <1>2, OffPays DEF Advances, DoneStaysDone, PickRetires, VisitPays
<1>3. CASE FoldRuns
    BY <1>2, <1>3 DEF FoldRuns
<1>4. CASE HarvestRuns
    <2>1. CASE \E scope \in Scopes, base \in Bases : StartSession(scope, base)
        <3>1. session.phase = "off"
            BY <2>1 DEF StartSession
        <3>2. PayInv'
            BY <1>1, <2>1, StartPays
        <3>3. QED
            BY <3>1, <3>2 DEF Advances, DoneStaysDone, PickRetires, VisitPays
    <2>2. CASE (session.phase = "walk" /\ StopWalk /\ UNCHANGED storeVars) \/ CrashSession
        <3>1. session'.phase = "off"
            BY <2>2 DEF StopWalk, CrashSession, NoSession
        <3>2. QED
            BY <3>1, OffPays DEF Advances, DoneStaysDone, PickRetires, VisitPays
    <2>3. CASE Iterate
        <3>1. session.phase = "walk"
            BY <2>3 DEF Iterate
        <3>2. QED
            BY <1>1, <2>3, <3>1, IteratePays DEF Advances, VisitPays
    <2>4. CASE EndSearch \/ WriteShardBin \/ WriteShardSidecar
        <3>1. session.phase # "walk"
            BY <2>4 DEF EndSearch, WriteShardBin, WriteShardSidecar
        <3>2. PayInv' /\ DoneStaysDone /\ VisitPays
            BY <1>1, <2>4, EndPays, WriteBinPays, WriteSidecarPays
        <3>3. QED
            BY <3>1, <3>2 DEF Advances, PickRetires
    <2>5. QED
        BY <1>4, <2>1, <2>2, <2>3, <2>4 DEF HarvestRuns, HarvestNext, SessionStep
<1>5. CASE (\E tag \in DOMAIN sides : Spoil(tag)) \/ DeleteTransport
    BY <1>2, <1>5 DEF Spoil, DeleteTransport, Quiet
<1>6. CASE UNCHANGED vars
    <2>1. UNCHANGED <<db, session>>
        BY <1>6 DEF vars, storeVars
    <2>2. /\ RootSettled' = RootSettled /\ \A q : InScope(q)' <=> InScope(q)
          /\ \A j : WorkOf(db'.censor, j) = WorkOf(db.censor, j)
        BY <2>1 DEF RootSettled, HasShard, InScope, Rows, ProvenRows, Standing, OrClosedRows, WorkOf
    <2>3. PayInv'
        BY <2>1, <2>2 DEF PayInv, WorkOf
    <2>4. QED
        BY <1>6, <2>3
<1>7. QED
    BY <1>3, <1>4, <1>5, <1>6 DEF Next

(* On a tree of any size, and with no cap: nothing is completed twice,     *)
(* every pick visits a node or retires a candidate, and every visit goes   *)
(* to a node with budget left that nothing has decided, and brings a       *)
(* shard, a draw or work on its record (walk.rs, D3).                      *)
THEOREM EveryVisitPays == Spec => [][Advances]_vars
<1>1. Init => PayInv /\ WalkInv /\ StoreInv
    <2>1. ASSUME Init
          PROVE  PayInv /\ WalkInv
        BY <2>1 DEF Init, HarvestInit, NoSession, PayInv, WalkInv
    <2>2. QED
        BY <2>1, StoreBegins
<1>2. PayInv /\ WalkInv /\ StoreInv /\ [Next]_vars =>
         (PayInv /\ WalkInv /\ StoreInv)' /\ [Advances]_vars
    BY PayStep, WalkStep, StoreSteps
<1>3. QED
    BY <1>1, <1>2, PTL DEF Spec

-----------------------------------------------------------------------------
(* The flip analysis.                                                      *)

ClaimRecords == [win : BOOLEAN, bound : Int, complete : BOOLEAN, exact : BOOLEAN,
                 witnesses : Nat, unresolved : Nat]
ClaimTables == UNION {[D -> ClaimRecords] : D \in SUBSET OpenRows}

LEMMA NodeNumbers ==
    ASSUME NEW shards, ShardsOK(shards), NEW nodes, Holds(nodes, shards),
           \A r \in DOMAIN nodes : nodes[r].bound = Bounds(nodes)[r], NEW q \in DOMAIN nodes
    PROVE  /\ nodes[q].bound \in Int
           /\ nodes[q].outcome = "open" => nodes[q].bound = NoBound
           /\ nodes[q].outcome # "open" => nodes[q].bound >= 0
BY NodeBounds

(* The proven rows are true, with bounds that can be kept.                 *)
LEMMA RowsTrue ==
    ASSUME FilesInv, DbTree, NEW q \in ProvenRows
    PROVE  /\ q \in Paths /\ Value[q] \in {"win", "loss"} /\ db.nodes[q].outcome = Value[q]
           /\ db.nodes[q].bound \in Int /\ db.nodes[q].bound >= Distance[q]
<1>1. db.schema
    BY DEF DbTree, ProvenRows, Rows
<1>2. /\ Holds(db.nodes, db.shards) /\ ShardsOK(db.shards)
      /\ \A r \in Rows : db.nodes[r].bound = Bounds(db.nodes)[r]
    BY <1>1 DEF DbTree, FilesInv, DbOK
<1>3. ASSUME NEW r \in Rows
      PROVE  /\ r \in Paths /\ db.nodes[r].outcome \in {"open", Value[r]}
             /\ db.nodes[r].bound \in Int
             /\ db.nodes[r].outcome = "open" => db.nodes[r].bound = NoBound
             /\ db.nodes[r].outcome # "open" => db.nodes[r].bound >= 0 /\ Value[r] \in {"win", "loss"}
    <2>1. r \in Touched(db.shards)
        BY <1>2 DEF Holds, Rows
    <2>2. r \in Paths
        BY <1>2, <2>1, TouchedPaths
    <2>3. db.nodes[r].outcome = OutcomeIn(db.shards, r)
        BY <1>2 DEF Holds, Rows
    <2>4. db.nodes[r].outcome # "open" => Value[r] \in {"win", "loss"}
        <3> SUFFICES ASSUME db.nodes[r].outcome # "open" PROVE Value[r] \in {"win", "loss"}
            OBVIOUS
        <3>1. PICK t \in DOMAIN db.shards : r \in DOMAIN db.shards[t].sha
            BY <2>3 DEF OutcomeIn, Claiming
        <3>2. ProofOf(t[2], db.shards[t].sha)
            BY <1>2, <3>1, TouchedPaths
        <3>3. QED
            BY <3>1, <3>2 DEF ProofOf
    <2>5. /\ db.nodes[r].bound \in Int
          /\ db.nodes[r].outcome = "open" => db.nodes[r].bound = NoBound
          /\ db.nodes[r].outcome # "open" => db.nodes[r].bound >= 0
        <3>1. r \in DOMAIN db.nodes /\ \A r2 \in DOMAIN db.nodes : db.nodes[r2].bound = Bounds(db.nodes)[r2]
            BY <1>2 DEF Rows
        <3>2. QED
            BY <1>2, <3>1, NodeNumbers
    <2>6. QED
        BY <2>2, <2>3, <2>4, <2>5 DEF OutcomeIn
<1>4. Readable(db.nodes)
    <2> SUFFICES ASSUME NEW r \in Rows
                 PROVE  /\ r \in Paths /\ db.nodes[r].outcome \in OutcomeNames
                        /\ db.nodes[r].bound \in Nat \cup {NoBound}
                        /\ db.nodes[r].outcome = "loss" => Value[r] = "loss"
        BY DEF Readable, Rows
    <2>1. CASE db.nodes[r].outcome = "open"
        BY <1>3, <2>1 DEF OutcomeNames
    <2>2. CASE db.nodes[r].outcome # "open"
        BY <1>3, <2>2 DEF OutcomeNames
    <2>3. QED
        BY <2>1, <2>2
<1>5. VerifyDb(db.nodes)
    BY <1>1, Accepts
<1>6. q \in Rows /\ db.nodes[q].outcome # "open"
    BY DEF ProvenRows
<1>7. db.nodes[q].outcome = Value[q] /\ db.nodes[q].bound >= Distance[q]
    BY <1>4, <1>5, <1>6, AcceptedIsTrue DEF Rows
<1>8. QED
    BY <1>3, <1>6, <1>7

LEMMA AfterIs ==
    ASSUME NEW q \in Paths
    PROVE  /\ After(q) \subseteq Paths
           /\ Replies[q] # {} => After(q) # {}
           /\ \A r \in After(q) : r # <<>> /\ Front(r) = q /\ Len(r) = Len(q) + 1
<1> SUFFICES ASSUME NEW m \in Replies[q]
             PROVE  /\ Append(q, m) \in Paths /\ Append(q, m) # <<>> /\ Front(Append(q, m)) = q
                    /\ Len(Append(q, m)) = Len(q) + 1
    BY DEF After
<1>1. q \in Seq(Nat) /\ m \in Nat /\ Append(q, m) \in Paths
    BY PathIs
<1>2. QED
    BY <1>1, AppendIs

LEMMA StatusIs ==
    ASSUME FilesInv, DbTree, NEW claims \in ClaimTables, NEW r \in Known(claims)
    PROVE  /\ Status(claims, r).loss \in BOOLEAN /\ Status(claims, r).bound \in Int
           /\ Status(claims, r).exact \in BOOLEAN
<1>1. CASE r \in ProvenRows
    BY <1>1, RowsTrue DEF Status
<1>2. CASE r \notin ProvenRows
    <2>1. r \in DOMAIN claims
        BY <1>2 DEF Known
    <2>2. claims[r] \in ClaimRecords
        BY <2>1 DEF ClaimTables
    <2>3. QED
        BY <1>2, <2>2 DEF Status, ClaimRecords
<1>3. QED
    BY <1>1, <1>2

(* A claim takes its side and its bound from the replies that are known.   *)
LEMMA ClassifyIs ==
    ASSUME FilesInv, DbTree, NEW claims \in ClaimTables, NEW q \in OpenRows, Claimable(claims, q)
    PROVE  LET claim == Classify(claims, q)
               lost  == {r \in After(q) \cap Known(claims) : Status(claims, r).loss}
           IN /\ claim \in ClaimRecords
              /\ claim.win <=> lost # {}
              /\ claim.win =>
                    /\ \E r \in lost : claim.bound = Status(claims, r).bound + 1
                    /\ \A r \in lost : claim.bound <= Status(claims, r).bound + 1
              /\ ~claim.win =>
                    /\ After(q) \subseteq Known(claims)
                    /\ \E r \in After(q) : claim.bound = Status(claims, r).bound + 1
                    /\ \A r \in After(q) : Status(claims, r).bound + 1 <= claim.bound
<1> DEFINE known == {r \in After(q) : r \in Known(claims)}
           lost  == {r \in known : Status(claims, r).loss}
           g     == [r \in known |-> Status(claims, r).bound]
           claim == Classify(claims, q)
<1>1. /\ q \in Paths /\ After(q) \subseteq Paths /\ After(q) # {} /\ IsFiniteSet(After(q))
    <2>1. q \in Paths /\ Replies[q] # {}
        BY RowsHold DEF OpenRows, Claimable
    <2>2. After(q) \subseteq Paths /\ After(q) # {}
        BY <2>1, AfterIs
    <2>3. IsFiniteSet(After(q))
        BY <2>2, ReplyTree, FS_Subset
    <2>4. QED
        BY <2>1, <2>2, <2>3
<1>2. \A r \in known : g[r] = Status(claims, r).bound /\ g[r] \in Int
    BY StatusIs
<1>3. /\ known \subseteq Paths /\ lost \subseteq known
    BY <1>1
<1>4. Cardinality(lost) \in Nat /\ Cardinality(After(q) \ known) \in Nat
    BY <1>1, FS_Subset, FS_CardinalityType
<1>5. lost = {} => known = After(q)
    BY DEF Claimable
<1>6. {Status(claims, r).bound : r \in lost} = {g[r] : r \in lost}
    BY <1>2
<1>7. {Status(claims, r).bound : r \in known} = {g[r] : r \in known}
    BY <1>2
<1>8. claim = IF lost # {}
       THEN [win |-> TRUE, bound |-> Min({g[r] : r \in lost}) + 1, complete |-> (known = After(q)),
             exact |-> (known = After(q)) /\ \A r \in lost : Status(claims, r).bound = Min({g[r2] : r2 \in lost}) =>
                                                       Status(claims, r).exact,
             witnesses |-> Cardinality(lost), unresolved |-> Cardinality(After(q) \ known)]
       ELSE [win |-> FALSE, bound |-> Max({g[r] : r \in known}) + 1,
             complete |-> TRUE, exact |-> \A r \in known : Status(claims, r).exact,
             witnesses |-> 0, unresolved |-> 0]
    BY <1>6, <1>7 DEF Classify
<1> HIDE DEF g, known, lost, claim
<1>9. CASE lost # {}
    <2>1. /\ \E m \in lost : Min({g[r] : r \in lost}) = g[m]
          /\ \A r \in lost : Min({g[r2] : r2 \in lost}) <= g[r]
        <3>1. lost \subseteq Paths /\ \A r \in lost : g[r] \in Int
            BY <1>2, <1>3
        <3>2. QED
            BY <1>9, <3>1, BestOf
    <2>2. /\ claim.win = TRUE /\ claim.bound = Min({g[r] : r \in lost}) + 1 /\ claim \in ClaimRecords
        <3>1. Min({g[r] : r \in lost}) + 1 \in Int
            BY <1>2, <1>3, <2>1
        <3>2. QED
            BY <1>4, <1>8, <1>9, <3>1 DEF ClaimRecords
    <2>3. /\ \E r \in lost : claim.bound = Status(claims, r).bound + 1
          /\ \A r \in lost : claim.bound <= Status(claims, r).bound + 1
        <3> DEFINE least == Min({g[r] : r \in lost})
        <3>1. PICK m \in lost : least = g[m]
            BY <2>1
        <3>2. m \in known /\ g[m] = Status(claims, m).bound /\ least \in Int /\ claim.bound = least + 1
            BY <1>2, <1>3, <2>2, <3>1
        <3>3. \A r \in lost : g[r] = Status(claims, r).bound /\ g[r] \in Int /\ least <= g[r]
            BY <1>2, <1>3, <2>1
        <3> HIDE DEF least
        <3>4. QED
            BY <3>1, <3>2, <3>3
    <2>4. QED
        BY <1>9, <2>2, <2>3 DEF lost, known, claim
<1>10. CASE lost = {}
    <2>1. /\ \E m \in known : Max({g[r] : r \in known}) = g[m]
          /\ \A r \in known : g[r] <= Max({g[r2] : r2 \in known})
        <3>1. known # {} /\ known \subseteq Paths /\ \A r \in known : g[r] \in Int
            BY <1>1, <1>2, <1>3, <1>5, <1>10
        <3>2. QED
            BY <3>1, BestOf
    <2>2. /\ claim.win = FALSE /\ claim.bound = Max({g[r] : r \in known}) + 1 /\ claim \in ClaimRecords
        <3>1. Max({g[r] : r \in known}) + 1 \in Int
            BY <1>2, <2>1
        <3>2. QED
            BY <1>8, <1>10, <3>1 DEF ClaimRecords
    <2>3. /\ \E r \in known : claim.bound = Status(claims, r).bound + 1
          /\ \A r \in known : Status(claims, r).bound + 1 <= claim.bound
        <3> DEFINE most == Max({g[r] : r \in known})
        <3>1. PICK m \in known : most = g[m]
            BY <2>1
        <3>2. g[m] = Status(claims, m).bound /\ most \in Int /\ claim.bound = most + 1
            BY <1>2, <2>2, <3>1
        <3>3. \A r \in known : g[r] = Status(claims, r).bound /\ g[r] \in Int /\ g[r] <= most
            BY <1>2, <2>1
        <3> HIDE DEF most
        <3>4. QED
            BY <3>1, <3>2, <3>3
    <2>4. QED
        BY <1>5, <1>10, <2>2, <2>3 DEF lost, known, claim
<1>11. QED
    BY <1>9, <1>10

(* The claim that the known and the lost replies make.                     *)
ClaimOn(claims, q, known, lost) ==
    IF lost # {}
    THEN [win |-> TRUE, bound |-> Min({Status(claims, r).bound : r \in lost}) + 1,
          complete |-> known = After(q),
          exact |-> /\ known = After(q)
                    /\ \A r \in lost : Status(claims, r).bound = Min({Status(claims, t).bound : t \in lost}) =>
                                          Status(claims, r).exact,
          witnesses |-> Cardinality(lost), unresolved |-> Cardinality(After(q) \ known)]
    ELSE [win |-> FALSE, bound |-> Max({Status(claims, r).bound : r \in known}) + 1,
          complete |-> TRUE, exact |-> \A r \in known : Status(claims, r).exact,
          witnesses |-> 0, unresolved |-> 0]

(* Two tables that say the same of the replies make the same claim.        *)
LEMMA ClassifySame ==
    ASSUME NEW old, NEW new, NEW q,
           \A r \in After(q) : /\ r \in DOMAIN old <=> r \in DOMAIN new
                               /\ r \in DOMAIN old => old[r] = new[r]
    PROVE  /\ Claimable(old, q) <=> Claimable(new, q)
           /\ Classify(old, q) = Classify(new, q)
<1>1. \A r \in After(q) : r \in Known(old) <=> r \in Known(new)
    BY DEF Known
<1>2. \A r \in After(q) \cap Known(old) : Status(old, r) = Status(new, r)
    BY DEF Known, Status
<1>3. Claimable(old, q) <=> Claimable(new, q)
    BY <1>1, <1>2 DEF Claimable
<1> DEFINE known == {r \in After(q) : r \in Known(old)}
           lost  == {r \in known : Status(old, r).loss}
<1>4. {r \in After(q) : r \in Known(new)} = known
    BY <1>1
<1>5. {r \in known : Status(new, r).loss} = lost
    BY <1>2
<1>6. /\ \A r \in known : Status(old, r).bound = Status(new, r).bound
      /\ \A r \in known : Status(old, r).exact = Status(new, r).exact
    BY <1>2
<1>7. Classify(old, q) = ClaimOn(old, q, known, lost)
    BY DEF Classify, ClaimOn
<1>8. Classify(new, q) = ClaimOn(new, q, known, lost)
    <2> DEFINE new_known == {r \in After(q) : r \in Known(new)}
               new_lost  == {r \in new_known : Status(new, r).loss}
    <2>1. Classify(new, q) = ClaimOn(new, q, new_known, new_lost)
        BY DEF Classify, ClaimOn
    <2>2. new_known = known
        BY <1>4
    <2>3. new_lost = {r \in known : Status(new, r).loss}
        BY <2>2
    <2>4. new_lost = lost
        BY <1>5, <2>3
    <2> HIDE DEF known, lost, new_known, new_lost
    <2>5. QED
        BY <2>1, <2>2, <2>4
<1>9. {Status(new, r).bound : r \in lost} = {Status(old, r).bound : r \in lost}
    BY <1>6
<1>10. {Status(new, r).bound : r \in known} = {Status(old, r).bound : r \in known}
    BY <1>6
<1>11. lost \subseteq known
    OBVIOUS
<1> HIDE DEF known, lost
<1> DEFINE all(claims) == \A r \in known : Status(claims, r).exact
           sure(claims, least) == \A r \in lost : Status(claims, r).bound = least => Status(claims, r).exact
<1>12. all(new) = all(old)
    BY <1>6
<1>13. \A least : sure(new, least) = sure(old, least)
    BY <1>6, <1>11
<1>14. ClaimOn(new, q, known, lost) = ClaimOn(old, q, known, lost)
    <2> DEFINE low(claims) == Min({Status(claims, r).bound : r \in lost})
               high(claims) == Max({Status(claims, r).bound : r \in known})
               Said(claims) ==
                   IF lost # {}
                   THEN [win |-> TRUE, bound |-> low(claims) + 1, complete |-> known = After(q),
                         exact |-> known = After(q) /\ sure(claims, low(claims)),
                         witnesses |-> Cardinality(lost), unresolved |-> Cardinality(After(q) \ known)]
                   ELSE [win |-> FALSE, bound |-> high(claims) + 1, complete |-> TRUE,
                         exact |-> all(claims), witnesses |-> 0, unresolved |-> 0]
    <2>1. ClaimOn(old, q, known, lost) = Said(old)
        BY Zenon DEF ClaimOn
    <2>2. ClaimOn(new, q, known, lost) = Said(new)
        BY Zenon DEF ClaimOn
    <2>3. low(new) = low(old) /\ high(new) = high(old)
        BY <1>9, <1>10
    <2> HIDE DEF low, high, sure, all
    <2>4. sure(new, low(new)) = sure(old, low(old))
        BY <1>13, <2>3
    <2>5. Said(new) = Said(old)
        BY <1>12, <2>3, <2>4, Zenon
    <2> HIDE DEF Said
    <2>6. QED
        BY <2>1, <2>2, <2>5
<1>15. QED
    BY <1>3, <1>7, <1>8, <1>14

LEMMA PassIs ==
    ASSUME FilesInv, DbTree, NEW claims \in ClaimTables
    PROVE  /\ Pass(claims) \in ClaimTables
           /\ DOMAIN Pass(claims) = {q \in OpenRows : Claimable(claims, q)}
           /\ \A q \in DOMAIN Pass(claims) : Pass(claims)[q] = Classify(claims, q)
<1> DEFINE D == {q \in OpenRows : Claimable(claims, q)}
<1>1. Pass(claims) = [q \in D |-> Classify(claims, q)]
    BY DEF Pass, Table
<1>2. \A q \in D : Classify(claims, q) \in ClaimRecords
    BY ClassifyIs
<1>3. D \in SUBSET OpenRows
    OBVIOUS
<1> HIDE DEF D
<1>4. Pass(claims) \in [D -> ClaimRecords]
    BY <1>1, <1>2
<1>5. QED
    BY <1>1, <1>3, <1>4 DEF ClaimTables, D

LEMMA TableIs ==
    ASSUME NEW claims \in ClaimTables
    PROVE  /\ DOMAIN claims \subseteq OpenRows
           /\ \A q \in DOMAIN claims : /\ claims[q] \in ClaimRecords /\ claims[q].win \in BOOLEAN
                                       /\ claims[q].bound \in Int
           /\ claims = [q \in DOMAIN claims |-> claims[q]]
<1>1. PICK D \in SUBSET OpenRows : claims \in [D -> ClaimRecords]
    BY DEF ClaimTables
<1>2. QED
    BY <1>1 DEF ClaimRecords

(* What a pass knew, the next one knows, and no worse.                     *)
LEMMA StatusGrows ==
    ASSUME FilesInv, DbTree, NEW old \in ClaimTables, NEW new \in ClaimTables, Monotone(old, new),
           NEW r \in Known(old)
    PROVE  /\ r \in Known(new) /\ Status(new, r).loss = Status(old, r).loss
           /\ Status(new, r).bound <= Status(old, r).bound
<1>1. CASE r \in ProvenRows
    <2>1. Status(new, r) = Status(old, r) /\ Status(old, r).bound \in Int
        BY <1>1, StatusIs DEF Status
    <2>2. QED
        BY <1>1, <2>1 DEF Known
<1>2. CASE r \notin ProvenRows
    <2>1. r \in DOMAIN old
        BY <1>2 DEF Known
    <2>2. r \in DOMAIN new /\ new[r].bound <= old[r].bound /\ new[r].win = old[r].win
        BY <2>1 DEF Monotone
    <2>3. QED
        BY <1>2, <2>2 DEF Known, Status
<1>3. QED
    BY <1>1, <1>2

LEMMA PassMonotone ==
    ASSUME FilesInv, DbTree, NEW old \in ClaimTables, NEW new \in ClaimTables, Monotone(old, new)
    PROVE  Monotone(Pass(old), Pass(new))
<1> SUFFICES ASSUME NEW q \in DOMAIN Pass(old)
             PROVE  /\ q \in DOMAIN Pass(new)
                    /\ Pass(new)[q].bound <= Pass(old)[q].bound
                    /\ Pass(new)[q].win = Pass(old)[q].win
    BY DEF Monotone
<1>1. q \in OpenRows /\ Claimable(old, q) /\ Pass(old)[q] = Classify(old, q)
    BY PassIs
<1>2. \A r \in Known(old) : /\ r \in Known(new) /\ Status(new, r).loss = Status(old, r).loss
                            /\ Status(new, r).bound <= Status(old, r).bound
    BY StatusGrows
<1>3. Claimable(new, q)
    BY <1>1, <1>2 DEF Claimable
<1>4. q \in DOMAIN Pass(new) /\ Pass(new)[q] = Classify(new, q)
    BY <1>1, <1>3, PassIs
<1> DEFINE a == Classify(old, q)
           b == Classify(new, q)
           lostA == {r \in After(q) \cap Known(old) : Status(old, r).loss}
           lostB == {r \in After(q) \cap Known(new) : Status(new, r).loss}
<1>5. /\ a \in ClaimRecords
      /\ a.win <=> lostA # {}
      /\ a.win => /\ \E r \in lostA : a.bound = Status(old, r).bound + 1
                  /\ \A r \in lostA : a.bound <= Status(old, r).bound + 1
      /\ ~a.win => /\ After(q) \subseteq Known(old)
                   /\ \E r \in After(q) : a.bound = Status(old, r).bound + 1
                   /\ \A r \in After(q) : Status(old, r).bound + 1 <= a.bound
    BY <1>1, ClassifyIs
<1>6. /\ b \in ClaimRecords
      /\ b.win <=> lostB # {}
      /\ b.win => /\ \E r \in lostB : b.bound = Status(new, r).bound + 1
                  /\ \A r \in lostB : b.bound <= Status(new, r).bound + 1
      /\ ~b.win => /\ After(q) \subseteq Known(new)
                   /\ \E r \in After(q) : b.bound = Status(new, r).bound + 1
                   /\ \A r \in After(q) : Status(new, r).bound + 1 <= b.bound
    BY <1>1, <1>3, ClassifyIs
<1>7. lostA \subseteq lostB /\ lostA \subseteq Known(old) /\ lostB \subseteq Known(new)
    BY <1>2
<1>8. ~a.win => lostB = lostA
    BY <1>2, <1>5
<1>9. \A r \in Known(old) : Status(old, r).bound \in Int /\ Status(new, r).bound \in Int
    BY <1>2, StatusIs
<1>10. a.bound \in Int /\ b.bound \in Int /\ a.win \in BOOLEAN /\ b.win \in BOOLEAN
    BY <1>5, <1>6 DEF ClaimRecords
<1> HIDE DEF a, b, lostA, lostB
<1>11. a.win = b.win
    BY <1>5, <1>6, <1>7, <1>8, <1>10
<1>12. b.bound <= a.bound
    <2>1. CASE a.win
        <3>1. PICK r \in lostA : a.bound = Status(old, r).bound + 1
            BY <1>5, <2>1
        <3>2. b.bound <= Status(new, r).bound + 1 /\ Status(new, r).bound <= Status(old, r).bound
            BY <1>2, <1>6, <1>7, <1>11, <2>1, <3>1
        <3>3. Status(old, r).bound \in Int /\ Status(new, r).bound \in Int
            BY <1>7, <1>9, <3>1
        <3>4. QED
            BY <1>10, <3>1, <3>2, <3>3
    <2>2. CASE ~a.win
        <3>1. PICK r \in After(q) : b.bound = Status(new, r).bound + 1
            BY <1>6, <1>11, <2>2
        <3>2. /\ r \in Known(old) /\ Status(old, r).bound + 1 <= a.bound
              /\ Status(new, r).bound <= Status(old, r).bound
            BY <1>2, <1>5, <2>2, <3>1
        <3>3. Status(old, r).bound \in Int /\ Status(new, r).bound \in Int
            BY <1>9, <3>2
        <3>4. QED
            BY <1>10, <3>1, <3>2, <3>3
    <2>3. QED
        BY <2>1, <2>2
<1>13. QED
    BY <1>1, <1>4, <1>11, <1>12 DEF a, b

(* One turn of the loop.                                                   *)
Turn(done) ==
    IF Len(done) > 1 /\ done[Len(done)] = done[Len(done) - 1] THEN done
    ELSE Append(done, Pass(Last(done)))

Turns(f, n) == /\ DOMAIN f = 0 .. n /\ f[0] = << <<>> >>
               /\ \A k \in 1 .. n : f[k] = Turn(f[k - 1])

LEMMA PassesAre ==
    ASSUME Ceiling \in Nat
    PROVE  \E f : Turns(f, Ceiling) /\ Passes = f[Ceiling]
<1> DEFINE S == {n \in Nat : \E f : Turns(f, n)}
           N == Ceiling
<1> HIDE DEF N
<1>1. 0 \in S
    <2> DEFINE f == [n \in 0 .. 0 |-> << <<>> >>]
    <2>1. Turns(f, 0)
        BY DEF Turns
    <2>2. QED
        BY <2>1
<1>2. ASSUME NEW n \in 0 .. N, n # 0, n - 1 \in S
      PROVE  n \in S
    <2>1. PICK f : Turns(f, n - 1)
        BY <1>2
    <2> DEFINE g == [k \in 0 .. n |-> IF k = n THEN Turn(f[n - 1]) ELSE f[k]]
    <2>2. n \in Nat /\ n - 1 \in Nat /\ N \in Nat
        BY <1>2 DEF N
    <2>3. DOMAIN g = 0 .. n /\ g[0] = f[0] /\ g[n] = Turn(f[n - 1]) /\ g[n - 1] = f[n - 1]
        BY <1>2, <2>2
    <2>4. ASSUME NEW k \in 1 .. n
          PROVE  g[k] = Turn(g[k - 1])
        <3>1. CASE k = n
            BY <2>3, <3>1
        <3>2. CASE k # n
            <4>1. k \in 1 .. n - 1 /\ k \in 0 .. n /\ k - 1 \in 0 .. n /\ k - 1 # n
                BY <2>2, <3>2
            <4>2. g[k] = f[k] /\ g[k - 1] = f[k - 1]
                BY <3>2, <4>1
            <4>3. QED
                BY <2>1, <4>1, <4>2 DEF Turns
        <3>3. QED
            BY <3>1, <3>2
    <2> HIDE DEF g
    <2>5. Turns(g, n)
        BY <2>1, <2>3, <2>4 DEF Turns
    <2>6. QED
        BY <2>2, <2>5
<1>3. N \in S
    <2> HIDE DEF S
    <2>1. N \in Nat
        BY DEF N
    <2>2. 0 .. N \subseteq S
        BY <1>1, <1>2, <2>1, Counting
    <2>3. QED
        BY <2>1, <2>2
<1> DEFINE Body(a, n) == IF n = 0 THEN << <<>> >> ELSE Turn(a[n - 1])
           p == CHOOSE a : a = [n \in 0 .. N |-> Body(a, n)]
<1>4. Passes = p[N]
    BY DEF Passes, Turn, N
<1>5. PICK f : Turns(f, N)
    BY <1>3
<1>6. \A a : Turns(a, N) => a[0] = << <<>> >> /\ \A n \in 1 .. N : a[n] = Turn(a[n - 1])
    BY DEF Turns
<1>7. N \in Nat
    BY DEF N
<1> DEFINE g == [n \in 0 .. N |-> f[n]]
<1>8. Turns(g, N)
    <2>1. \A n \in 1 .. N : n \in 0 .. N /\ n - 1 \in 0 .. N
        BY <1>7
    <2>2. \A n \in 1 .. N : g[n] = Turn(g[n - 1])
        BY <1>5, <2>1 DEF Turns
    <2>3. 0 \in 0 .. N
        BY <1>7
    <2>4. QED
        BY <1>5, <2>2, <2>3 DEF Turns
<1>9. \A n \in 0 .. N : g[n] = Body(g, n)
    <2>1. \A n \in 0 .. N : n = 0 \/ n \in 1 .. N
        BY <1>7
    <2> HIDE DEF g
    <2>2. QED
        BY <1>6, <1>8, <2>1
<1>10. g = [n \in 0 .. N |-> Body(g, n)]
    <2>1. [n \in 0 .. N |-> g[n]] = [n \in 0 .. N |-> Body(g, n)]
        BY <1>9
    <2>2. g = [n \in 0 .. N |-> g[n]]
        OBVIOUS
    <2>3. QED
        BY <2>1, <2>2
<1>11. p = [n \in 0 .. N |-> Body(p, n)]
    <2> HIDE DEF g, Body
    <2>1. QED
        BY <1>10
<1>12. Turns(p, N)
    <2> HIDE DEF p
    <2>1. \A n \in 0 .. N : p[n] = Body(p, n)
        BY <1>11
    <2>2. DOMAIN p = 0 .. N
        BY <1>11
    <2>3. 0 \in 0 .. N /\ \A n \in 1 .. N : n \in 0 .. N /\ n # 0
        BY <1>7
    <2>4. QED
        BY <2>1, <2>2, <2>3 DEF Turns
<1>13. QED
    BY <1>4, <1>12 DEF N

(* The claims after each pass, from none.                                  *)
PassRun(run) ==
    /\ run \in Seq(ClaimTables) /\ Len(run) >= 1 /\ run[1] = <<>>
    /\ \A i \in 1 .. Len(run) - 1 : run[i + 1] = Pass(run[i])

Settles(run) == Len(run) > 1 /\ run[Len(run)] = run[Len(run) - 1]

LEMMA TurnIs ==
    ASSUME FilesInv, DbTree, NEW run, PassRun(run)
    PROVE  /\ PassRun(Turn(run))
           /\ Settles(run) => Settles(Turn(run))
           /\ ~Settles(run) => Len(Turn(run)) = Len(run) + 1
<1>1. CASE Settles(run)
    BY <1>1 DEF Turn, Settles
<1>2. CASE ~Settles(run)
    <2> DEFINE n == Len(run)
               new == Append(run, Pass(run[n]))
    <2>1. run \in Seq(ClaimTables) /\ n \in Nat /\ n >= 1 /\ run[n] \in ClaimTables
        BY DEF PassRun
    <2>2. Pass(run[n]) \in ClaimTables
        BY <2>1, PassIs
    <2>3. /\ new \in Seq(ClaimTables) /\ Len(new) = n + 1 /\ new[n + 1] = Pass(run[n])
          /\ \A i \in 1 .. n : new[i] = run[i]
        BY <2>1, <2>2, AppendProperties
    <2>4. Turn(run) = new
        BY <1>2 DEF Turn, Settles, Last
    <2>5. ASSUME NEW i \in 1 .. n
          PROVE  new[i + 1] = Pass(new[i])
        <3>1. CASE i = n
            BY <2>3, <3>1
        <3>2. CASE i # n
            <4>1. i \in 1 .. Len(run) - 1 /\ i + 1 \in 1 .. n
                BY <2>1, <3>2
            <4>2. QED
                BY <2>3, <4>1 DEF PassRun
        <3>3. QED
            BY <3>1, <3>2
    <2>6. new[1] = <<>> /\ Len(new) >= 1 /\ Len(new) - 1 = n
        BY <2>1, <2>3 DEF PassRun
    <2> HIDE DEF new
    <2>7. PassRun(new)
        <3> HIDE DEF n
        <3>1. QED
            BY <2>3, <2>5, <2>6 DEF PassRun
    <2>8. QED
        BY <1>2, <2>3, <2>4, <2>7
<1>3. QED
    BY <1>1, <1>2

LEMMA CeilingIs ==
    ASSUME FilesInv, DbTree
    PROVE  /\ IsFiniteSet(OpenRows) /\ OpenRows \subseteq Paths
           /\ Cardinality(OpenRows) \in Nat /\ Ceiling = Cardinality(OpenRows) + 8 /\ Ceiling \in Nat
<1>1. OpenRows \subseteq Paths
    BY RowsHold DEF OpenRows
<1>2. IsFiniteSet(OpenRows)
    BY <1>1, ReplyTree, FS_Subset
<1>3. Cardinality(OpenRows) \in Nat
    BY <1>2, FS_CardinalityType
<1>4. QED
    BY <1>1, <1>2, <1>3 DEF Ceiling

(* The loop is such a run; it settles, or it comes to the ceiling.         *)
LEMMA LoopRuns ==
    ASSUME FilesInv, DbTree
    PROVE  PassRun(Passes) /\ (Settles(Passes) \/ Len(Passes) = Ceiling + 1)
<1>1. Ceiling \in Nat
    BY CeilingIs
<1>2. PICK f : Turns(f, Ceiling) /\ Passes = f[Ceiling]
    BY <1>1, PassesAre
<1> DEFINE S == {k \in Nat : PassRun(f[k]) /\ (Settles(f[k]) \/ Len(f[k]) = k + 1)}
<1>3. 0 \in S
    <2>1. f[0] = << <<>> >>
        BY <1>2 DEF Turns
    <2>2. <<>> \in ClaimTables
        <3>1. <<>> \in [{} -> ClaimRecords]
            OBVIOUS
        <3>2. QED
            BY <3>1 DEF ClaimTables
    <2>3. PassRun(f[0]) /\ Len(f[0]) = 1
        BY <2>1, <2>2 DEF PassRun
    <2>4. QED
        BY <2>3
<1>4. ASSUME NEW k \in 0 .. Ceiling, k # 0, k - 1 \in S
      PROVE  k \in S
    <2>1. k \in Nat /\ k \in 1 .. Ceiling /\ k - 1 \in Nat
        BY <1>1, <1>4
    <2>2. f[k] = Turn(f[k - 1])
        BY <1>2, <2>1 DEF Turns
    <2>3. PassRun(f[k - 1]) /\ (Settles(f[k - 1]) \/ Len(f[k - 1]) = k)
        BY <1>4, <2>1
    <2>4. PassRun(f[k]) /\ (Settles(f[k]) \/ Len(f[k]) = k + 1)
        BY <2>2, <2>3, TurnIs
    <2>5. QED
        BY <2>1, <2>4
<1>5. Ceiling \in S
    <2> HIDE DEF S
    <2>1. 0 .. Ceiling \subseteq S
        BY <1>1, <1>3, <1>4, Counting
    <2>2. QED
        BY <1>1, <2>1
<1>6. QED
    BY <1>2, <1>5

(* No pass takes back what the one before claimed.                         *)
LEMMA RunGrows ==
    ASSUME FilesInv, DbTree, NEW run, PassRun(run)
    PROVE  \A i \in 1 .. Len(run) - 1 : Monotone(run[i], run[i + 1])
<1> DEFINE n == Len(run)
           S == {i \in Nat : i \in 1 .. n - 1 => Monotone(run[i], run[i + 1])}
<1>1. n \in Nat /\ n >= 1 /\ run[1] = <<>> /\ \A i \in 1 .. n : run[i] \in ClaimTables
    BY DEF PassRun
<1>2. \A i \in 1 .. n - 1 : run[i + 1] = Pass(run[i])
    BY DEF PassRun
<1> HIDE DEF n
<1>3. 0 \in S
    OBVIOUS
<1>4. ASSUME NEW i \in 0 .. n, i # 0, i - 1 \in S
      PROVE  i \in S
    <2>1. i \in Nat
        BY <1>4
    <2>2. CASE i = 1
        <3>1. Monotone(run[1], run[2])
            BY <1>1 DEF Monotone
        <3>2. QED
            BY <2>2, <3>1
    <2>3. CASE i # 1 /\ i \in 1 .. n - 1
        <3>1. i - 1 \in 1 .. n - 1 /\ i - 1 \in 1 .. n /\ i \in 1 .. n /\ (i - 1) + 1 = i
            BY <1>1, <2>3
        <3>2. Monotone(run[i - 1], run[i])
            BY <1>4, <3>1
        <3>3. run[i] = Pass(run[i - 1]) /\ run[i + 1] = Pass(run[i])
            BY <1>2, <2>3, <3>1
        <3>4. run[i - 1] \in ClaimTables /\ run[i] \in ClaimTables
            BY <1>1, <3>1
        <3>5. Monotone(Pass(run[i - 1]), Pass(run[i]))
            BY <3>2, <3>4, PassMonotone
        <3>6. QED
            BY <2>1, <3>3, <3>5
    <2>4. QED
        BY <2>1, <2>2, <2>3
<1>5. 0 .. n \subseteq S
    <2> HIDE DEF S
    <2>1. QED
        BY <1>1, <1>3, <1>4, Counting
<1>6. \A i \in 1 .. n - 1 : i \in 0 .. n
    BY <1>1
<1>7. \A i \in 1 .. n - 1 : Monotone(run[i], run[i + 1])
    BY <1>5, <1>6
<1>8. QED
    BY <1>7 DEF n

(* The open rows at and under a path.                                      *)
OpenUnder(q) == {r \in OpenRows : IsPrefix(q, r)}

LEMMA OpenUnderIs ==
    ASSUME FilesInv, DbTree, NEW q \in OpenRows
    PROVE  /\ Cardinality(OpenUnder(q)) \in 1 .. Cardinality(OpenRows)
           /\ \A r \in After(q) \cap OpenRows : Cardinality(OpenUnder(r)) < Cardinality(OpenUnder(q))
<1>1. IsFiniteSet(OpenRows) /\ OpenRows \subseteq Paths /\ Cardinality(OpenRows) \in Nat
    BY CeilingIs
<1>2. q \in Paths /\ q \in Seq(Nat) /\ IsPrefix(q, q)
    BY <1>1, PathIs, PrefixRefl
<1>3. \A r \in OpenRows : /\ IsFiniteSet(OpenUnder(r)) /\ Cardinality(OpenUnder(r)) \in Nat
                          /\ Cardinality(OpenUnder(r)) <= Cardinality(OpenRows)
    BY <1>1, FS_Subset, FS_CardinalityType DEF OpenUnder
<1>4. q \in OpenUnder(q)
    BY <1>2 DEF OpenUnder
<1>5. Cardinality(OpenUnder(q)) # 0
    BY <1>3, <1>4, FS_EmptySet
<1>6. ASSUME NEW r \in After(q) \cap OpenRows
      PROVE  Cardinality(OpenUnder(r)) < Cardinality(OpenUnder(q))
    <2>1. r \in Seq(Nat) /\ r # <<>> /\ Front(r) = q /\ Len(r) = Len(q) + 1
        BY <1>1, <1>2, AfterIs, PathIs
    <2>2. IsPrefix(q, r)
        BY <1>2, <2>1, PrefixStep
    <2>3. OpenUnder(r) \subseteq OpenUnder(q)
        <3>1. \A s \in OpenRows : IsPrefix(r, s) => IsPrefix(q, s)
            BY <1>1, <1>2, <2>1, <2>2, PathIs, PrefixTrans
        <3>2. QED
            BY <3>1 DEF OpenUnder
    <2>4. q \notin OpenUnder(r)
        <3>1. ~IsPrefix(r, q)
            <4>1. Len(q) \in Nat
                BY <1>2, PathIs
            <4>2. QED
                BY <1>2, <2>1, <4>1, PrefixIs
        <3>2. QED
            BY <3>1 DEF OpenUnder
    <2>5. OpenUnder(r) # OpenUnder(q)
        BY <1>4, <2>4
    <2>6. QED
        BY <1>3, <2>3, <2>5, FS_Subset
<1>7. QED
    BY <1>3, <1>5, <1>6

Agree(old, new, q) == /\ q \in DOMAIN old <=> q \in DOMAIN new
                      /\ q \in DOMAIN old => old[q] = new[q]

(* At most as many passes change a claim as open rows lie at and under it. *)
LEMMA RunSettles ==
    ASSUME FilesInv, DbTree, NEW run, PassRun(run), Len(run) = Ceiling + 1
    PROVE  Settles(run)
<1> DEFINE n == Ceiling
           S == {i \in Nat : i \in 0 .. n - 1 =>
                    \A q \in OpenRows : Cardinality(OpenUnder(q)) <= i => Agree(run[i + 1], run[i + 2], q)}
<1>1. /\ n \in Nat /\ n = Cardinality(OpenRows) + 8 /\ Cardinality(OpenRows) \in Nat
    BY CeilingIs
<1> HIDE DEF n
<1>2. /\ Len(run) = n + 1 /\ \A i \in 1 .. n + 1 : run[i] \in ClaimTables
    BY DEF PassRun, n
<1>3. \A i \in 1 .. n : run[i + 1] = Pass(run[i])
    BY <1>1, <1>2 DEF PassRun
<1>4. 0 \in S
    <2>1. \A q \in OpenRows : ~ (Cardinality(OpenUnder(q)) <= 0)
        BY <1>1, OpenUnderIs
    <2>2. QED
        BY <2>1
<1>5. ASSUME NEW i \in 0 .. n, i # 0, i - 1 \in S
      PROVE  i \in S
    <2> SUFFICES ASSUME i \in 0 .. n - 1, NEW q \in OpenRows, Cardinality(OpenUnder(q)) <= i
                 PROVE  Agree(run[i + 1], run[i + 2], q)
        BY <1>5
    <2>1. /\ i \in Nat /\ i - 1 \in Nat /\ i - 1 \in 0 .. n - 1 /\ i \in 1 .. n /\ i + 1 \in 1 .. n
          /\ (i - 1) + 1 = i /\ (i - 1) + 2 = i + 1 /\ (i + 1) + 1 = i + 2
          /\ i \in 1 .. n + 1 /\ i + 1 \in 1 .. n + 1
        BY <1>1, <1>5
    <2> DEFINE old == run[i]
               new == run[i + 1]
    <2>2. old \in ClaimTables /\ new \in ClaimTables /\ new = Pass(old) /\ run[i + 2] = Pass(new)
        BY <1>2, <1>3, <2>1
    <2>3. \A r \in OpenRows : Cardinality(OpenUnder(r)) <= i - 1 => Agree(old, new, r)
        BY <1>5, <2>1
    <2> HIDE DEF old, new
    <2>4. ASSUME NEW r \in After(q)
          PROVE  Agree(old, new, r)
        <3>1. CASE r \in OpenRows
            <4>1. Cardinality(OpenUnder(r)) < Cardinality(OpenUnder(q))
                BY <3>1, OpenUnderIs
            <4>2. Cardinality(OpenUnder(r)) \in Int /\ Cardinality(OpenUnder(q)) \in Int
                BY <3>1, OpenUnderIs
            <4>3. Cardinality(OpenUnder(r)) <= i - 1
                BY <2>1, <4>1, <4>2
            <4>4. QED
                BY <2>3, <3>1, <4>3
        <3>2. CASE r \notin OpenRows
            <4>1. r \notin DOMAIN old /\ r \notin DOMAIN new
                BY <2>2, <3>2, TableIs
            <4>2. QED
                BY <4>1 DEF Agree
        <3>3. QED
            BY <3>1, <3>2
    <2>5. /\ Claimable(old, q) <=> Claimable(new, q)
          /\ Classify(old, q) = Classify(new, q)
        BY <2>4, ClassifySame DEF Agree
    <2>6. Agree(Pass(old), Pass(new), q)
        BY <2>2, <2>5, PassIs DEF Agree
    <2>7. QED
        BY <2>2, <2>6 DEF new
<1>6. 0 .. n \subseteq S
    <2> HIDE DEF S
    <2>1. QED
        BY <1>1, <1>4, <1>5, Counting
<1>7. \A q \in OpenRows : Agree(run[n], run[n + 1], q)
    <2>1. n - 1 \in 0 .. n /\ n - 1 \in 0 .. n - 1 /\ (n - 1) + 1 = n /\ (n - 1) + 2 = n + 1
        BY <1>1
    <2>2. \A q \in OpenRows : Cardinality(OpenUnder(q)) <= n - 1
        BY <1>1, OpenUnderIs
    <2>3. QED
        BY <1>6, <2>1, <2>2
<1>8. run[n] = run[n + 1]
    <2> DEFINE a == run[n]
               b == run[n + 1]
    <2>1. a \in ClaimTables /\ b \in ClaimTables
        BY <1>1, <1>2
    <2>2. \A q \in OpenRows : Agree(a, b, q)
        BY <1>7
    <2> HIDE DEF a, b
    <2>3. /\ DOMAIN a \subseteq OpenRows /\ DOMAIN b \subseteq OpenRows
          /\ a = [q \in DOMAIN a |-> a[q]] /\ b = [q \in DOMAIN b |-> b[q]]
        BY <2>1, TableIs
    <2>4. DOMAIN a = DOMAIN b /\ \A q \in DOMAIN a : a[q] = b[q]
        BY <2>2, <2>3 DEF Agree
    <2>5. a = b
        BY <2>3, <2>4
    <2>6. QED
        BY <2>5 DEF a, b
<1>9. Len(run) > 1 /\ Len(run) - 1 = n
    BY <1>1, <1>2
<1>10. QED
    BY <1>2, <1>8, <1>9 DEF Settles

(* Claims that a pass reproduces pass the recursive reading.               *)
LEMMA FixedVerifies ==
    ASSUME FilesInv, DbTree, NEW claims \in ClaimTables, Pass(claims) = claims
    PROVE  Verified(claims)
<1> DEFINE D == DOMAIN claims
           Ok(q, f) == /\ q \in OpenRows
                       /\ ~claims[q].win => After(q) \subseteq Known(claims)
                       /\ Claimable(claims, q)
                       /\ claims[q] = Classify(claims, q)
                       /\ \A r \in RestsOn(claims, q) : f[r]
           step == [x \in D \X [D -> BOOLEAN] |-> Ok(x[1], x[2])]
           ok == CHOOSE f : f = [q \in D |-> Ok(q, f)]
<1>1. Verified(claims) <=> \A q \in D : ok[q]
    BY DEF Verified
<1>2. D \subseteq OpenRows /\ D \subseteq Paths
    BY TableIs, CeilingIs
<1>3. ASSUME NEW q \in D
      PROVE  \A r \in RestsOn(claims, q) : r \in D /\ Len(r) > Len(q)
    <2>1. q \in Paths /\ Len(q) \in Nat
        BY <1>2, <1>3, PathIs
    <2>2. \A r \in RestsOn(claims, q) : r \in D /\ Len(r) = Len(q) + 1
        BY <2>1, AfterIs DEF RestsOn
    <2>3. QED
        BY <2>1, <2>2
<1>4. ASSUME NEW q \in D
      PROVE  /\ q \in OpenRows /\ Claimable(claims, q) /\ claims[q] = Classify(claims, q)
             /\ ~claims[q].win => After(q) \subseteq Known(claims)
    <2>1. q \in OpenRows /\ Claimable(claims, q) /\ claims[q] = Classify(claims, q)
        BY <1>4, PassIs
    <2>2. ~claims[q].win => After(q) \subseteq Known(claims)
        BY <2>1, ClassifyIs
    <2>3. QED
        BY <2>1, <2>2
<1>5. \A q \in D : \A f \in [D -> BOOLEAN] : step[<<q, f>>] = Ok(q, f) /\ Ok(q, f) \in BOOLEAN
    OBVIOUS
<1>6. \A q \in D : \A f : Ok(q, f) = (\A r \in RestsOn(claims, q) : f[r])
    BY <1>4
<1> HIDE DEF Ok, step, D
<1>7. Upward(D, BOOLEAN, step)
    <2>1. ASSUME NEW q \in D, NEW f \in [D -> BOOLEAN], NEW g \in [D -> BOOLEAN],
                 \A r \in D : Len(r) > Len(q) => f[r] = g[r]
          PROVE  step[<<q, f>>] = step[<<q, g>>]
        <3>1. \A r \in RestsOn(claims, q) : f[r] = g[r]
            BY <1>3, <2>1
        <3>2. (\A r \in RestsOn(claims, q) : f[r]) = (\A r \in RestsOn(claims, q) : g[r])
            BY <3>1
        <3>3. step[<<q, f>>] = Ok(q, f) /\ step[<<q, g>>] = Ok(q, g)
            BY <1>5
        <3>4. Ok(q, f) = (\A r \in RestsOn(claims, q) : f[r])
            BY <1>6
        <3>5. Ok(q, g) = (\A r \in RestsOn(claims, q) : g[r])
            BY <1>6
        <3>6. Ok(q, f) = Ok(q, g)
            BY <3>2, <3>4, <3>5
        <3>7. QED
            BY <3>3, <3>6
    <2>2. QED
        BY <1>2, <1>5, <2>1 DEF Upward
<1>8. PICK f \in [D -> BOOLEAN] : \A q \in D : f[q] = step[<<q, f>>]
    BY <1>7, Recursion
<1>9. f = [q \in D |-> Ok(q, f)]
    <2>1. \A q \in D : f[q] = Ok(q, f)
        BY <1>5, <1>8
    <2>2. QED
        BY <2>1
<1>10. ok = [q \in D |-> Ok(q, ok)]
    BY <1>9
<1> HIDE DEF ok
<1>11. \A q \in D : ok[q] = Ok(q, ok)
    BY <1>10
<1> DEFINE S == {q \in D : ok[q]}
<1>12. ASSUME NEW q \in D, \A r \in D : Len(r) > Len(q) => r \in S
       PROVE  q \in S
    <2>1. \A r \in RestsOn(claims, q) : ok[r]
        BY <1>3, <1>12
    <2>2. Ok(q, ok)
        BY <1>6, <2>1
    <2>3. QED
        BY <1>11, <2>2
<1>13. D \subseteq S
    <2> HIDE DEF S
    <2>1. QED
        BY <1>2, <1>12, FromLonger
<1>14. QED
    BY <1>1, <1>13 DEF D

(* Such claims are true, with bounds that can be kept.                     *)
LEMMA FixedIsTrue ==
    ASSUME FilesInv, DbTree, NEW claims \in ClaimTables, Pass(claims) = claims
    PROVE  \A q \in DOMAIN claims : /\ Value[q] = IF claims[q].win THEN "win" ELSE "loss"
                                    /\ claims[q].bound >= Distance[q]
<1> DEFINE D == DOMAIN claims
           Right(q) == /\ Value[q] = IF claims[q].win THEN "win" ELSE "loss"
                       /\ claims[q].bound >= Distance[q]
           S == {q \in D : Right(q)}
<1>1. D \subseteq OpenRows /\ D \subseteq Paths
    BY TableIs, CeilingIs
<1>2. ASSUME NEW q \in D, \A r \in D : Len(r) > Len(q) => r \in S
      PROVE  Right(q)
    <2>1. q \in OpenRows /\ q \in Paths /\ Len(q) \in Nat /\ Claimable(claims, q) /\ claims[q] = Classify(claims, q)
        BY <1>1, PassIs, PathIs
    <2>2. After(q) \subseteq Paths /\ \A r \in After(q) : Len(r) = Len(q) + 1
        BY <2>1, AfterIs
    <2>3. ASSUME NEW r \in After(q), r \in Known(claims)
          PROVE  /\ Value[r] = IF Status(claims, r).loss THEN "loss" ELSE "win"
                 /\ Status(claims, r).bound >= Distance[r] /\ Status(claims, r).bound \in Int
                 /\ Distance[r] \in Int
        <3>1. r \in Paths /\ Len(r) > Len(q)
            BY <2>1, <2>2
        <3>2. Status(claims, r).bound \in Int
            BY <2>3, StatusIs
        <3>3. CASE r \in ProvenRows
            <4>1. /\ Value[r] \in {"win", "loss"} /\ db.nodes[r].outcome = Value[r]
                  /\ db.nodes[r].bound >= Distance[r]
                BY <3>3, RowsTrue
            <4>2. Distance[r] \in Int
                BY <3>1, <4>1, DistanceFacts
            <4>3. QED
                BY <3>2, <3>3, <4>1, <4>2 DEF Status
        <3>4. CASE r \notin ProvenRows
            <4>1. r \in D
                BY <2>3, <3>4 DEF Known
            <4>2. Right(r)
                BY <1>2, <3>1, <4>1
            <4>3. claims[r].win \in BOOLEAN
                BY <4>1, TableIs
            <4>4. Value[r] # "draw"
                BY <4>2
            <4>5. Distance[r] \in Int
                BY <3>1, <4>4, DistanceFacts
            <4>6. QED
                BY <3>2, <3>4, <4>2, <4>3, <4>5 DEF Status
        <3>5. QED
            BY <3>3, <3>4
    <2> DEFINE lost == {r \in After(q) \cap Known(claims) : Status(claims, r).loss}
               claim == Classify(claims, q)
    <2>4. /\ claim \in ClaimRecords
          /\ claim.win <=> lost # {}
          /\ claim.win =>
                /\ \E r \in lost : claim.bound = Status(claims, r).bound + 1
                /\ \A r \in lost : claim.bound <= Status(claims, r).bound + 1
          /\ ~claim.win =>
                /\ After(q) \subseteq Known(claims)
                /\ \E r \in After(q) : claim.bound = Status(claims, r).bound + 1
                /\ \A r \in After(q) : Status(claims, r).bound + 1 <= claim.bound
        BY <2>1, ClassifyIs
    <2>5. \A r \in lost : r \in After(q) /\ r \in Known(claims) /\ Status(claims, r).loss
        OBVIOUS
    <2> HIDE DEF claim
    <2>6. claim.bound \in Int /\ claim.win \in BOOLEAN /\ claims[q] = claim
        BY <2>1, <2>4 DEF ClaimRecords, claim
    <2>7. CASE claim.win
        <3>1. PICK r \in lost : claim.bound = Status(claims, r).bound + 1
            BY <2>4, <2>7
        <3> HIDE DEF lost
        <3>2. r \in After(q) /\ Value[r] = "loss" /\ Status(claims, r).bound >= Distance[r]
              /\ Status(claims, r).bound \in Int /\ Distance[r] \in Int
            BY <2>3, <2>5, <3>1
        <3>3. PICK m \in Replies[q] : r = Append(q, m)
            BY <3>2 DEF After
        <3>4. Value[q] = "win"
            BY <2>1, <3>2, <3>3, ValueIs
        <3>5. Distance[q] \in Int /\ Distance[q] <= Distance[r] + 1
            BY <2>1, <3>2, <3>3, <3>4, DistanceFacts
        <3>6. claim.bound >= Distance[q]
            BY <2>6, <3>1, <3>2, <3>5
        <3>7. QED
            BY <2>6, <2>7, <3>4, <3>6
    <2>8. CASE ~claim.win
        <3>1. lost = {} /\ After(q) \subseteq Known(claims)
            BY <2>4, <2>6, <2>8
        <3>2. \A r \in After(q) : Status(claims, r).loss = FALSE
            BY <3>1, StatusIs
        <3>3. \A r \in After(q) : Value[r] = "win"
            BY <2>3, <3>1, <3>2
        <3>4. Replies[q] # {} /\ \A m \in Replies[q] : Append(q, m) \in After(q)
            BY <2>1 DEF Claimable, After
        <3>5. Value[q] = "loss"
            <4>1. {Value[Append(q, m)] : m \in Replies[q]} = {"win"}
                BY <3>3, <3>4
            <4>2. QED
                BY <2>1, <3>4, <4>1, ValueIs
        <3>6. PICK m \in Replies[q] : Distance[q] = Distance[Append(q, m)] + 1
            BY <2>1, <3>4, <3>5, DistanceFacts
        <3> DEFINE r == Append(q, m)
        <3>7. r \in After(q) /\ r \in Known(claims)
            BY <3>1, <3>4
        <3>8. Status(claims, r).bound + 1 <= claim.bound
            BY <2>4, <2>6, <2>8, <3>7
        <3>9. /\ Status(claims, r).bound >= Distance[r] /\ Status(claims, r).bound \in Int
              /\ Distance[r] \in Int /\ Distance[q] = Distance[r] + 1
            BY <2>3, <3>6, <3>7
        <3> HIDE DEF r
        <3>10. claim.bound >= Distance[q]
            BY <2>6, <3>8, <3>9
        <3>11. QED
            BY <2>6, <2>8, <3>5, <3>10
    <2>9. QED
        BY <2>6, <2>7, <2>8
<1>3. D \subseteq S
    <2>1. \A q \in D : (\A r \in D : Len(r) > Len(q) => r \in S) => q \in S
        BY <1>2
    <2> HIDE DEF S
    <2>2. QED
        BY <1>1, <2>1, FromLonger
<1>4. QED
    BY <1>3

LEMMA FlipsHold == StoreInv => FlipsSound
<1> SUFFICES ASSUME FilesInv, DbTree PROVE FlipsSound
    BY DEF StoreInv
<1> DEFINE n == Len(Passes)
<1>1. PassRun(Passes) /\ Settles(Passes)
    BY LoopRuns, RunSettles
<1>2. /\ n \in Nat /\ n > 1 /\ n - 1 \in 1 .. n - 1 /\ Passes[n] = Passes[n - 1] /\ Passes[n - 1] \in ClaimTables
      /\ \A i \in 1 .. n - 1 : Passes[i + 1] = Pass(Passes[i])
    BY <1>1 DEF PassRun, Settles
<1>3. \A i \in 1 .. n - 1 : Monotone(Passes[i], Passes[i + 1])
    BY <1>1, RunGrows
<1>4. \A i \in 2 .. n : Monotone(Passes[i - 1], Passes[i])
    <2> HIDE DEF n
    <2> SUFFICES ASSUME NEW i \in 2 .. n PROVE Monotone(Passes[i - 1], Passes[i])
        OBVIOUS
    <2>1. i - 1 \in 1 .. n - 1 /\ (i - 1) + 1 = i
        BY <1>2
    <2>2. Monotone(Passes[i - 1], Passes[(i - 1) + 1])
        BY <1>3, <2>1
    <2>3. QED
        BY <2>1, <2>2
<1> DEFINE claims == Passes[n]
<1>5. claims \in ClaimTables /\ Pass(claims) = claims
    <2> HIDE DEF n
    <2>1. (n - 1) + 1 = n
        BY <1>2
    <2>2. Pass(Passes[n - 1]) = Passes[n]
        BY <1>2, <2>1
    <2>3. QED
        BY <1>2, <2>2
<1>6. Verified(claims) /\ \A q \in DOMAIN claims : /\ Value[q] = IF claims[q].win THEN "win" ELSE "loss"
                                                   /\ claims[q].bound >= Distance[q]
    BY <1>5, FixedVerifies, FixedIsTrue
<1>7. FlipResult.ok /\ FlipResult.claims = claims
    BY <1>2, <1>4, <1>6 DEF FlipResult
<1>8. QED
    BY <1>6, <1>7 DEF FlipsSound

(* The flip analysis converges below its ceiling, no pass takes a claim    *)
(* back, the recursive reading agrees, and every claim is right, for any   *)
(* database the folds and sessions can leave (flip/mod.rs).                *)
THEOREM FlipsAlwaysSound == Spec => []FlipsSound
<1>1. Init => StoreInv
    BY StoreBegins
<1>2. StoreInv /\ [Next]_vars => StoreInv'
    BY StoreSteps
<1>3. StoreInv => FlipsSound
    BY FlipsHold
<1>4. QED
    BY <1>1, <1>2, <1>3, PTL DEF Spec
=============================================================================
