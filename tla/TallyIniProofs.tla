--------------------------- MODULE TallyIniProofs ---------------------------
(* For any number of workers, lines and files to load: no worker loses a line
   of the user, and a patch or an unpatch does what it is for.  Most of it is
   about the edits themselves, which are filters of sequences. *)
EXTENDS TallyIni, SequenceTheorems, WellFoundedInduction, TLAPS

-----------------------------------------------------------------------------
(* Induction, over numbers and over sequences that grow at the end, for sets
   in place of predicates. *)

LEMMA NatHasSmallest ==
  ASSUME NEW T, T \subseteq Nat, T # {}
  PROVE  \E x \in T : \A y \in T : x <= y
<1>1. IsWellFoundedOn(OpToRel(<, Nat), Nat)
  BY NatLessThanWellFounded
<1>2. PICK x \in T : \A y \in T : ~(<<y, x>> \in OpToRel(<, Nat))
  BY <1>1, WFMin
<1>3. \A a, b \in Nat : b < a => <<b, a>> \in OpToRel(<, Nat)
  BY DEF OpToRel
<1>4. \A y \in T : ~(y < x)
  BY <1>2, <1>3, Zenon
<1>5. \A y \in T : x <= y
  BY <1>4
<1> QED BY <1>5

LEMMA CountingUp ==
  ASSUME NEW T, 0 \in T, \A n \in Nat : n \in T => n + 1 \in T
  PROVE  \A n \in Nat : n \in T
<1> SUFFICES ASSUME Nat \ T # {} PROVE FALSE
  OBVIOUS
<1>1. PICK n \in Nat \ T : \A m \in Nat \ T : n <= m
  BY NatHasSmallest
<1>2. n # 0 /\ n - 1 \in Nat /\ n - 1 \in T
  BY <1>1
<1> QED BY <1>1, <1>2

LEMMA GrowingSequences ==
  ASSUME NEW L, NEW T, <<>> \in T,
         \A s \in Seq(L), x \in L : s \in T => Append(s, x) \in T
  PROVE  \A s \in Seq(L) : s \in T
<1> DEFINE N == {n \in Nat : \A s \in Seq(L) : Len(s) = n => s \in T}
<1>1. 0 \in N
  BY EmptySeq
<1>2. ASSUME NEW n \in Nat, n \in N PROVE n + 1 \in N
  <2> SUFFICES ASSUME NEW s \in Seq(L), Len(s) = n + 1 PROVE s \in T
    OBVIOUS
  <2>1. s # <<>>
    BY EmptySeq
  <2>2. PICK t \in Seq(L), x \in L : s = Append(t, x)
    BY <2>1, SequenceEmptyOrAppend
  <2>3. Len(t) = n
    BY <2>2, AppendProperties
  <2> QED BY <1>2, <2>2, <2>3
<1> HIDE DEF N
<1>3. \A n \in Nat : n \in N
  BY <1>1, <1>2, CountingUp
<1>4. \A s \in Seq(L) : Len(s) \in Nat
  OBVIOUS
<1> QED BY <1>3, <1>4 DEF N

-----------------------------------------------------------------------------
(* Keep, one element at a time. *)

KeptNext(s, S, i, f) ==
  IF s[i] \in S THEN Append(f[i - 1], s[i]) ELSE f[i - 1]

KeptUpTo(s, S, n, f) ==
  f = [i \in 0..n |-> IF i = 0 THEN <<>> ELSE KeptNext(s, S, i, f)]

LEMMA KeptUpToExists ==
  ASSUME NEW s, NEW S
  PROVE  \A n \in Nat : \E f : KeptUpTo(s, S, n, f)
<1> DEFINE T == {n \in Nat : \E f : KeptUpTo(s, S, n, f)}
<1>1. 0 \in T
  <2> DEFINE f == [i \in 0..0 |-> <<>>]
  <2>1. KeptUpTo(s, S, 0, f)
    BY DEF KeptUpTo
  <2> QED BY <2>1
<1>2. ASSUME NEW n \in Nat, n \in T PROVE n + 1 \in T
  <2>1. PICK f : KeptUpTo(s, S, n, f)
    BY <1>2
  <2> DEFINE g == [i \in 0..n + 1 |->
                     IF i <= n THEN f[i]
                     ELSE KeptNext(s, S, i, f)]
  <2>2. ASSUME NEW i \in 0..n + 1
        PROVE  g[i] = IF i = 0 THEN <<>> ELSE KeptNext(s, S, i, g)
    <3>1. CASE i = 0
      <4>1. g[i] = f[0]
        BY <3>1
      <4>2. f[0] = <<>>
        BY <2>1 DEF KeptUpTo
      <4> QED BY <3>1, <4>1, <4>2
    <3>2. CASE i # 0 /\ i <= n
      <4>1. i \in 0..n /\ i - 1 \in 0..n + 1 /\ i - 1 <= n
        BY <3>2
      <4>2. g[i] = f[i] /\ g[i - 1] = f[i - 1]
        BY <3>2, <4>1
      <4>3. f[i] = KeptNext(s, S, i, f)
        BY <2>1, <3>2, <4>1 DEF KeptUpTo
      <4> QED BY <3>2, <4>2, <4>3 DEF KeptNext
    <3>3. CASE i = n + 1
      <4>1. i # 0 /\ ~(i <= n) /\ i - 1 \in 0..n + 1 /\ i - 1 <= n
        BY <3>3
      <4>2. g[i - 1] = f[i - 1]
        BY <4>1
      <4> QED BY <4>1, <4>2 DEF KeptNext
    <3> QED BY <3>1, <3>2, <3>3
  <2>3. KeptUpTo(s, S, n + 1, g)
    BY <2>2 DEF KeptUpTo
  <2> QED BY <2>3
<1> HIDE DEF T
<1>3. \A n \in Nat : n \in T
  BY <1>1, <1>2, CountingUp
<1> QED BY <1>3 DEF T

LEMMA KeptUpToZero ==
  \A s, S, f : \A n \in Nat : KeptUpTo(s, S, n, f) => f[0] = <<>>
<1> SUFFICES ASSUME NEW s, NEW S, NEW f, NEW n \in Nat, KeptUpTo(s, S, n, f)
             PROVE  f[0] = <<>>
  OBVIOUS
<1>1. 0 \in 0..n
  OBVIOUS
<1> QED BY <1>1 DEF KeptUpTo

LEMMA KeptUpToStep ==
  \A s, S, f : \A n \in Nat : KeptUpTo(s, S, n, f) =>
    \A i \in 1..n :
      f[i] = KeptNext(s, S, i, f)
<1> SUFFICES ASSUME NEW s, NEW S, NEW f, NEW n \in Nat, KeptUpTo(s, S, n, f), NEW i \in 1..n
             PROVE  f[i] = KeptNext(s, S, i, f)
  OBVIOUS
<1>1. i \in 0..n /\ i # 0
  OBVIOUS
<1> QED BY <1>1 DEF KeptUpTo

(* What is kept of a prefix depends on that alone. *)
LEMMA KeptUpToSame ==
  ASSUME NEW s, NEW t, NEW S, NEW n \in Nat, NEW m \in Nat, NEW f, NEW g,
         KeptUpTo(s, S, n, f), KeptUpTo(t, S, m, g), n <= m,
         \A i \in 1..n : s[i] = t[i]
  PROVE  f[n] = g[n]
<1> DEFINE T == {k \in Nat : k <= n => f[k] = g[k]}
<1>1. 0 \in T
  <2>1. f[0] = <<>>
    BY KeptUpToZero, Zenon
  <2>2. g[0] = <<>>
    BY KeptUpToZero, Zenon
  <2> QED BY <2>1, <2>2
<1>2. ASSUME NEW k \in Nat, k \in T PROVE k + 1 \in T
  <2> SUFFICES ASSUME k + 1 <= n PROVE f[k + 1] = g[k + 1]
    OBVIOUS
  <2>1. k + 1 \in 1..n /\ k + 1 \in 1..m /\ (k + 1) - 1 = k
    OBVIOUS
  <2>2. f[k + 1] = IF s[k + 1] \in S THEN Append(f[k], s[k + 1]) ELSE f[k]
    <3>1. \A i \in 1..n : f[i] = KeptNext(s, S, i, f)
      BY KeptUpToStep, Zenon
    <3> QED BY <2>1, <3>1 DEF KeptNext
  <2>3. g[k + 1] = IF t[k + 1] \in S THEN Append(g[k], t[k + 1]) ELSE g[k]
    <3>1. \A i \in 1..m : g[i] = KeptNext(t, S, i, g)
      BY KeptUpToStep, Zenon
    <3> QED BY <2>1, <3>1 DEF KeptNext
  <2>4. f[k] = g[k] /\ s[k + 1] = t[k + 1]
    BY <1>2, <2>1
  <2> QED BY <2>2, <2>3, <2>4
<1> HIDE DEF T
<1>3. \A k \in Nat : k \in T
  BY <1>1, <1>2, CountingUp
<1> QED BY <1>3 DEF T

LEMMA KeepIsKeptUpTo ==
  ASSUME NEW s, NEW S, Len(s) \in Nat
  PROVE  \E f : KeptUpTo(s, S, Len(s), f) /\ Keep(s, S) = f[Len(s)]
<1> DEFINE F == CHOOSE f : KeptUpTo(s, S, Len(s), f)
<1>1. \E f : KeptUpTo(s, S, Len(s), f)
  BY KeptUpToExists
<1>2. KeptUpTo(s, S, Len(s), F)
  BY <1>1
<1>3. Keep(s, S) = F[Len(s)]
  BY Zenon DEF Keep, KeptUpTo, KeptNext
<1> QED BY <1>2, <1>3

(* The two facts everything about Keep follows from. *)
LEMMA KeepEmpty ==
  ASSUME NEW S PROVE Keep(<<>>, S) = <<>>
<1>1. Len(<<>>) = 0 /\ 0 \in 0..0
  OBVIOUS
<1>2. PICK f : KeptUpTo(<<>>, S, 0, f) /\ Keep(<<>>, S) = f[0]
  BY <1>1, KeepIsKeptUpTo
<1>3. f[0] = <<>>
  <2>1. 0 \in Nat
    OBVIOUS
  <2> QED BY <1>2, <2>1, KeptUpToZero, Zenon
<1> QED BY <1>2, <1>3

LEMMA KeepAppend ==
  ASSUME NEW L, NEW S, NEW s \in Seq(L), NEW x \in L
  PROVE  Keep(Append(s, x), S) =
           IF x \in S THEN Append(Keep(s, S), x) ELSE Keep(s, S)
<1> DEFINE n == Len(s)
           t == Append(s, x)
<1>1. n \in Nat /\ Len(t) = n + 1 /\ t[n + 1] = x /\ \A i \in 1..n : s[i] = t[i]
  BY AppendProperties
<1>2. PICK f : KeptUpTo(s, S, n, f) /\ Keep(s, S) = f[n]
  BY <1>1, KeepIsKeptUpTo
<1>3. PICK g : KeptUpTo(t, S, n + 1, g) /\ Keep(t, S) = g[n + 1]
  <2>1. Len(t) \in Nat
    BY <1>1
  <2>2. PICK g : KeptUpTo(t, S, Len(t), g) /\ Keep(t, S) = g[Len(t)]
    BY <2>1, KeepIsKeptUpTo
  <2> QED BY <1>1, <2>2
<1> HIDE DEF n, t
<1>4. n + 1 \in Nat /\ n <= n + 1 /\ n + 1 \in 1..n + 1 /\ (n + 1) - 1 = n
  BY <1>1
<1>5. f[n] = g[n]
  BY <1>1, <1>2, <1>3, <1>4, KeptUpToSame
<1>6. g[n + 1] = IF t[n + 1] \in S THEN Append(g[n], t[n + 1]) ELSE g[n]
  <2>1. \A i \in 1..n + 1 : g[i] = KeptNext(t, S, i, g)
    BY <1>3, <1>4, KeptUpToStep, Zenon
  <2> QED BY <1>4, <2>1 DEF KeptNext
<1>7. Keep(t, S) = IF x \in S THEN Append(Keep(s, S), x) ELSE Keep(s, S)
  BY <1>1, <1>2, <1>3, <1>5, <1>6
<1> QED BY <1>7 DEF t

-----------------------------------------------------------------------------
(* Filters of any sequence. *)

LEMMA ListedAppend ==
  ASSUME NEW L, NEW s \in Seq(L), NEW x \in L
  PROVE  Listed(Append(s, x)) = Listed(s) \cup {x}
<1> DEFINE t == Append(s, x)
<1>1. /\ Len(s) \in Nat /\ DOMAIN s = 1..Len(s) /\ DOMAIN t = 1..Len(s) + 1
      /\ t[Len(s) + 1] = x /\ \A i \in 1..Len(s) : t[i] = s[i]
  BY AppendProperties
<1> HIDE DEF t
<1>2. 1..Len(s) + 1 = 1..Len(s) \cup {Len(s) + 1}
  BY <1>1
<1>3. Listed(t) = Listed(s) \cup {x}
  BY <1>1, <1>2 DEF Listed
<1> QED BY <1>3 DEF t

LEMMA ListedConcat ==
  ASSUME NEW L, NEW s \in Seq(L), NEW t \in Seq(L)
  PROVE  Listed(s \o t) = Listed(s) \cup Listed(t)
<1> DEFINE m == Len(s)
           n == Len(t)
           u == s \o t
<1>1. m \in Nat /\ n \in Nat /\ DOMAIN s = 1..m /\ DOMAIN t = 1..n /\ DOMAIN u = 1..m + n
  BY ConcatProperties
<1>2. /\ \A i \in 1..m : u[i] = s[i]
      /\ \A i \in m + 1..m + n : u[i] = t[i - m]
  BY ConcatProperties
<1> HIDE DEF m, n, u
<1>3. ASSUME NEW x \in Listed(u) PROVE x \in Listed(s) \cup Listed(t)
  <2>1. PICK i \in 1..m + n : x = u[i]
    BY <1>1 DEF Listed
  <2>2. CASE i <= m
    BY <1>1, <1>2, <2>1, <2>2 DEF Listed
  <2>3. CASE i > m
    <3>1. i \in m + 1..m + n /\ i - m \in 1..n
      BY <1>1, <2>3
    <3> QED BY <1>1, <1>2, <2>1, <3>1 DEF Listed
  <2> QED BY <1>1, <2>2, <2>3
<1>4. ASSUME NEW x \in Listed(s) PROVE x \in Listed(u)
  <2>1. PICK i \in 1..m : x = s[i]
    BY <1>1 DEF Listed
  <2>2. i \in 1..m + n
    BY <1>1
  <2> QED BY <1>1, <1>2, <2>1, <2>2 DEF Listed
<1>5. ASSUME NEW x \in Listed(t) PROVE x \in Listed(u)
  <2>1. PICK i \in 1..n : x = t[i]
    BY <1>1 DEF Listed
  <2>2. m + i \in m + 1..m + n /\ m + i \in 1..m + n /\ (m + i) - m = i
    BY <1>1
  <2> QED BY <1>1, <1>2, <2>1, <2>2 DEF Listed
<1>6. Listed(u) = Listed(s) \cup Listed(t)
  BY <1>3, <1>4, <1>5
<1> QED BY <1>6 DEF u

LEMMA NothingListed ==
  ASSUME NEW L, NEW s \in Seq(L)
  PROVE  /\ Listed(s) \subseteq L
         /\ Listed(s) = {} <=> s = <<>>
         /\ Listed(<<>>) = {}
<1>1. DOMAIN s = 1..Len(s) /\ Len(s) \in Nat /\ \A i \in 1..Len(s) : s[i] \in L
  OBVIOUS
<1>2. Listed(s) = {} => Len(s) = 0
  <2>1. Len(s) # 0 => 1 \in 1..Len(s)
    BY <1>1
  <2> QED BY <1>1, <2>1 DEF Listed
<1>3. DOMAIN <<>> = {}
  OBVIOUS
<1> QED BY <1>1, <1>2, <1>3, EmptySeq DEF Listed

(* What is kept is what there was and is wanted. *)
LEMMA KeepListed ==
  ASSUME NEW L, NEW S
  PROVE  \A s \in Seq(L) : Keep(s, S) \in Seq(L) /\ Listed(Keep(s, S)) = Listed(s) \cap S
<1> DEFINE T == {s \in Seq(L) : /\ Keep(s, S) \in Seq(L)
                                /\ Listed(Keep(s, S)) = Listed(s) \cap S}
<1>1. <<>> \in T
  BY KeepEmpty, NothingListed, EmptySeq
<1>2. ASSUME NEW s \in Seq(L), NEW x \in L, s \in T PROVE Append(s, x) \in T
  <2>1. Append(s, x) \in Seq(L) /\ Listed(Append(s, x)) = Listed(s) \cup {x}
    BY AppendProperties, ListedAppend
  <2>2. CASE x \in S
    <3>1. Keep(Append(s, x), S) = Append(Keep(s, S), x)
      BY <2>2, KeepAppend
    <3>2. Listed(Append(Keep(s, S), x)) = Listed(Keep(s, S)) \cup {x}
      BY <1>2, ListedAppend
    <3>3. Append(Keep(s, S), x) \in Seq(L)
      BY <1>2, AppendProperties
    <3> QED BY <1>2, <2>1, <2>2, <3>1, <3>2, <3>3
  <2>3. CASE x \notin S
    <3>1. Keep(Append(s, x), S) = Keep(s, S)
      BY <2>3, KeepAppend
    <3> QED BY <1>2, <2>1, <2>3, <3>1
  <2> QED BY <2>2, <2>3
<1> HIDE DEF T
<1>3. \A s \in Seq(L) : s \in T
  BY <1>1, <1>2, GrowingSequences
<1> QED BY <1>3 DEF T

LEMMA KeepNone ==
  ASSUME NEW L, NEW S, NEW s \in Seq(L), Listed(s) \cap S = {}
  PROVE  Keep(s, S) = <<>>
<1>1. Keep(s, S) \in Seq(L) /\ Listed(Keep(s, S)) = {}
  BY KeepListed
<1> QED BY <1>1, NothingListed

LEMMA KeepConcat ==
  ASSUME NEW L, NEW S, NEW s \in Seq(L)
  PROVE  \A t \in Seq(L) : Keep(s \o t, S) = Keep(s, S) \o Keep(t, S)
<1> DEFINE T == {t \in Seq(L) : Keep(s \o t, S) = Keep(s, S) \o Keep(t, S)}
<1>0. Keep(s, S) \in Seq(L)
  BY KeepListed
<1>1. <<>> \in T
  <2>1. s \o <<>> = s /\ Keep(s, S) \o <<>> = Keep(s, S)
    BY <1>0, ConcatEmptySeq
  <2> QED BY <2>1, KeepEmpty, EmptySeq
<1>2. ASSUME NEW t \in Seq(L), NEW x \in L, t \in T PROVE Append(t, x) \in T
  <2>0. Append(t, x) \in Seq(L) /\ <<x>> \in Seq(L) /\ Keep(t, S) \in Seq(L) /\ s \o t \in Seq(L)
    BY AppendProperties, ConcatProperties, KeepListed
  <2>1. Append(t, x) = t \o <<x>> /\ Append(s \o t, x) = (s \o t) \o <<x>>
    BY <2>0, AppendIsConcat
  <2>2. (s \o t) \o <<x>> = s \o (t \o <<x>>)
    BY <2>0, ConcatAssociative
  <2>3. s \o Append(t, x) = Append(s \o t, x)
    BY <2>1, <2>2
  <2>4. Keep(Append(s \o t, x), S) =
          IF x \in S THEN Append(Keep(s \o t, S), x) ELSE Keep(s \o t, S)
    <3>1. \A u \in Seq(L) :
            Keep(Append(u, x), S) = IF x \in S THEN Append(Keep(u, S), x) ELSE Keep(u, S)
      BY KeepAppend
    <3> HIDE DEF T
    <3> QED BY <2>0, <3>1, Zenon
  <2>5. Keep(Append(t, x), S) = IF x \in S THEN Append(Keep(t, S), x) ELSE Keep(t, S)
    BY KeepAppend
  <2>6. Append(Keep(s, S) \o Keep(t, S), x) = Keep(s, S) \o Append(Keep(t, S), x)
    <3>1. Keep(s, S) \o Keep(t, S) \in Seq(L)
      BY <1>0, <2>0, ConcatProperties
    <3>2. Append(Keep(s, S) \o Keep(t, S), x) = (Keep(s, S) \o Keep(t, S)) \o <<x>>
      BY <2>0, <3>1, AppendIsConcat
    <3>3. Append(Keep(t, S), x) = Keep(t, S) \o <<x>>
      BY <2>0, AppendIsConcat
    <3>4. (Keep(s, S) \o Keep(t, S)) \o <<x>> = Keep(s, S) \o (Keep(t, S) \o <<x>>)
      BY <1>0, <2>0, ConcatAssociative
    <3> QED BY <3>2, <3>3, <3>4
  <2> QED BY <1>2, <2>0, <2>3, <2>4, <2>5, <2>6
<1> HIDE DEF T
<1>3. \A t \in Seq(L) : t \in T
  BY <1>1, <1>2, GrowingSequences
<1> QED BY <1>3 DEF T

LEMMA KeepTwice ==
  ASSUME NEW L, NEW A, NEW B
  PROVE  \A s \in Seq(L) : Keep(Keep(s, A), B) = Keep(s, A \cap B)
<1> DEFINE T == {s \in Seq(L) : Keep(Keep(s, A), B) = Keep(s, A \cap B)}
<1>1. <<>> \in T
  BY KeepEmpty, EmptySeq
<1>2. ASSUME NEW s \in Seq(L), NEW x \in L, s \in T PROVE Append(s, x) \in T
  <2>0. Append(s, x) \in Seq(L) /\ Keep(s, A) \in Seq(L)
    BY AppendProperties, KeepListed
  <2>1. Keep(Append(s, x), A) = IF x \in A THEN Append(Keep(s, A), x) ELSE Keep(s, A)
    BY KeepAppend
  <2>2. Keep(Append(s, x), A \cap B) =
          IF x \in A \cap B THEN Append(Keep(s, A \cap B), x) ELSE Keep(s, A \cap B)
    BY KeepAppend
  <2>3. Keep(Append(Keep(s, A), x), B) =
          IF x \in B THEN Append(Keep(Keep(s, A), B), x) ELSE Keep(Keep(s, A), B)
    BY <2>0, KeepAppend
  <2>4. Keep(Keep(s, A), B) = Keep(s, A \cap B)
    BY <1>2
  <2>5. Keep(Keep(Append(s, x), A), B) = Keep(Append(s, x), A \cap B)
    <3>1. CASE x \in A
      <4>1. Keep(Append(s, x), A) = Append(Keep(s, A), x)
        BY <2>1, <3>1
      <4>2. Keep(Append(s, x), A \cap B) = 
              IF x \in B THEN Append(Keep(s, A \cap B), x) ELSE Keep(s, A \cap B)
        BY <2>2, <3>1
      <4> QED BY <2>3, <2>4, <4>1, <4>2, Zenon
    <3>2. CASE x \notin A
      BY <2>1, <2>2, <2>4, <3>2
    <3> QED BY <3>1, <3>2
  <2> QED BY <2>0, <2>5
<1> HIDE DEF T
<1>3. \A s \in Seq(L) : s \in T
  BY <1>1, <1>2, GrowingSequences
<1> QED BY <1>3 DEF T

-----------------------------------------------------------------------------
(* The two edits. *)

LEMMA LineKinds ==
  /\ Note \in Lines /\ Switch("yes") \in Lines /\ Switch("no") \in Lines
  /\ \A p \in Listed(Shipped) : Tdl(p) \in Lines /\ p \in Under
  /\ Note \notin Theirs /\ \A v : Switch(v) \notin Theirs
  /\ \A p \in Under : Tdl(p) \notin Theirs
  /\ \A v : Switch(v).key = "switch" /\ Switch(v).val = v
  /\ \A p : Tdl(p).key = "tdl" /\ Tdl(p).val = p
  /\ Note.key = "text"
<1>1. Note.key = "text" /\ (\A v : Switch(v).key = "switch" /\ Switch(v).val = v)
      /\ \A p : Tdl(p).key = "tdl" /\ Tdl(p).val = p
  BY DEF Note, Switch, Tdl
<1>2. Listed(Shipped) \subseteq Under
  BY TallyIniAssumption, NothingListed
<1>3. /\ Note \in Lines /\ Switch("yes") \in Lines /\ Switch("no") \in Lines
      /\ \A p \in Listed(Shipped) : Tdl(p) \in Lines
  BY DEF Lines
<1>4. \A v : Switch(v) \notin Theirs
  BY <1>1 DEF Theirs
<1>5. \A p \in Under : Tdl(p) \notin Theirs
  BY <1>1 DEF Theirs, Elsewhere
<1>6. Note \notin Theirs
  BY DEF Theirs
<1> QED BY <1>1, <1>2, <1>3, <1>4, <1>5, <1>6

LEMMA LoadedConcat ==
  ASSUME NEW s \in Seq(Lines), NEW t \in Seq(Lines)
  PROVE  Loaded(s \o t) = Loaded(s) \cup Loaded(t)
BY ListedConcat DEF Loaded

LEMMA SwitchedOnAtEnd ==
  ASSUME NEW s \in Seq(Lines), NEW t \in Seq(Lines), SwitchedOn(t)
  PROVE  SwitchedOn(s \o t)
<1> DEFINE m == Len(s)
           n == Len(t)
           u == s \o t
<1>1. m \in Nat /\ n \in Nat /\ DOMAIN t = 1..n /\ DOMAIN u = 1..m + n
  BY ConcatProperties
<1>2. \A i \in m + 1..m + n : u[i] = t[i - m]
  BY ConcatProperties
<1>3. PICK i \in 1..n : t[i] = Switch("yes") /\ \A j \in 1..n : j > i => t[j].key # "switch"
  BY <1>1 DEF SwitchedOn
<1> HIDE DEF m, n, u
<1>4. m + i \in m + 1..m + n /\ m + i \in 1..m + n /\ (m + i) - m = i
  BY <1>1
<1>5. u[m + i] = Switch("yes")
  BY <1>2, <1>3, <1>4
<1>6. ASSUME NEW j \in 1..m + n, j > m + i PROVE u[j].key # "switch"
  <2>1. j \in m + 1..m + n /\ j - m \in 1..n /\ j - m > i
    BY <1>1, <1>6
  <2> QED BY <1>2, <1>3, <2>1
<1>7. SwitchedOn(u)
  BY <1>1, <1>4, <1>5, <1>6 DEF SwitchedOn
<1> QED BY <1>7 DEF u

LEMMA SwitchedOnBefore ==
  ASSUME NEW s \in Seq(Lines), NEW t \in Seq(Lines), SwitchedOn(s),
         \A l \in Listed(t) : l.key # "switch"
  PROVE  SwitchedOn(s \o t)
<1> DEFINE m == Len(s)
           n == Len(t)
           u == s \o t
<1>1. /\ m \in Nat /\ n \in Nat /\ DOMAIN s = 1..m /\ DOMAIN t = 1..n
      /\ DOMAIN u = 1..m + n
  BY ConcatProperties
<1>2. /\ \A i \in 1..m : u[i] = s[i]
      /\ \A i \in m + 1..m + n : u[i] = t[i - m]
  BY ConcatProperties
<1>3. PICK i \in 1..m : s[i] = Switch("yes") /\ \A j \in 1..m : j > i => s[j].key # "switch"
  BY <1>1 DEF SwitchedOn
<1> HIDE DEF m, n, u
<1>4. i \in 1..m + n /\ u[i] = Switch("yes")
  BY <1>1, <1>2, <1>3
<1>5. ASSUME NEW j \in 1..m + n, j > i PROVE u[j].key # "switch"
  <2>1. CASE j <= m
    BY <1>1, <1>2, <1>3, <1>5, <2>1
  <2>2. CASE j > m
    <3>1. j \in m + 1..m + n /\ j - m \in 1..n
      BY <1>1, <2>2
    <3>2. t[j - m] \in Listed(t)
      BY <1>1, <3>1 DEF Listed
    <3> QED BY <1>2, <3>1, <3>2
  <2> QED BY <1>1, <2>1, <2>2
<1>6. SwitchedOn(u)
  BY <1>1, <1>4, <1>5 DEF SwitchedOn
<1> QED BY <1>6 DEF u

(* What a patch adds: the missing files, after a switch when that is off. *)
MissingTdls(s) ==
  [i \in DOMAIN Keep(Shipped, Under \ Loaded(s)) |->
     Tdl(Keep(Shipped, Under \ Loaded(s))[i])]

LEMMA MissingTdlsFacts ==
  ASSUME NEW s
  PROVE  /\ MissingTdls(s) \in Seq(Lines)
         /\ Listed(MissingTdls(s)) = {Tdl(p) : p \in Listed(Shipped) \ Loaded(s)}
<1> DEFINE k == Keep(Shipped, Under \ Loaded(s))
<1>1. k \in Seq(Under) /\ Listed(k) = Listed(Shipped) \cap (Under \ Loaded(s))
  BY TallyIniAssumption, KeepListed
<1>2. Listed(k) = Listed(Shipped) \ Loaded(s)
  BY <1>1, LineKinds
<1>3. MissingTdls(s) = [i \in DOMAIN k |-> Tdl(k[i])]
  BY DEF MissingTdls
<1> HIDE DEF k
<1>4. DOMAIN k = 1..Len(k) /\ Len(k) \in Nat
  BY <1>1
<1>5. \A i \in 1..Len(k) : k[i] \in Listed(Shipped)
  BY <1>2, <1>4 DEF Listed
<1>6. \A i \in 1..Len(k) : Tdl(k[i]) \in Lines
  BY <1>5, LineKinds
<1>7. MissingTdls(s) \in Seq(Lines)
  BY <1>3, <1>4, <1>6, IsASeq
<1>8. Listed(MissingTdls(s)) = {Tdl(p) : p \in Listed(k)}
  BY <1>3 DEF Listed
<1> QED BY <1>2, <1>7, <1>8

LEMMA AdditionsFacts ==
  ASSUME NEW s \in Seq(Lines)
  PROVE  /\ Additions(s) = (IF SwitchedOn(s) THEN <<>> ELSE <<Switch("yes")>>) \o MissingTdls(s)
         /\ Additions(s) \in Seq(Lines)
         /\ Keep(Additions(s), Theirs) = <<>>
         /\ Listed(Shipped) \ Loaded(s) \subseteq Loaded(Additions(s))
         /\ SwitchedOn(s) => \A l \in Listed(Additions(s)) : l.key # "switch"
         /\ ~SwitchedOn(s) => SwitchedOn(Additions(s))
<1> DEFINE first == IF SwitchedOn(s) THEN <<>> ELSE <<Switch("yes")>>
           m     == MissingTdls(s)
<1>1. Additions(s) = first \o m
  BY DEF Additions, MissingTdls
<1>2. m \in Seq(Lines) /\ Listed(m) = {Tdl(p) : p \in Listed(Shipped) \ Loaded(s)}
  BY MissingTdlsFacts
<1>3. first \in Seq(Lines) /\ Listed(first) \subseteq {Switch("yes")}
      /\ (SwitchedOn(s) => Listed(first) = {})
  <2>1. CASE SwitchedOn(s)
    BY <2>1, EmptySeq, NothingListed
  <2>2. CASE ~SwitchedOn(s)
    <3>1. <<Switch("yes")>> \in Seq(Lines)
      BY LineKinds
    <3>2. Listed(<<Switch("yes")>>) = {Switch("yes")}
      BY DEF Listed
    <3> QED BY <2>2, <3>1, <3>2
  <2> QED BY <2>1, <2>2
<1> HIDE DEF first, m
<1>4. Additions(s) \in Seq(Lines) /\ Listed(Additions(s)) = Listed(first) \cup Listed(m)
  BY <1>1, <1>2, <1>3, ConcatProperties, ListedConcat
<1>5. Keep(Additions(s), Theirs) = <<>>
  <2>1. Listed(Additions(s)) \cap Theirs = {}
    BY <1>2, <1>3, <1>4, LineKinds
  <2> QED BY <1>4, <2>1, KeepNone
<1>6. Listed(Shipped) \ Loaded(s) \subseteq Loaded(Additions(s))
  BY <1>2, <1>4, LineKinds DEF Loaded
<1>7. SwitchedOn(s) => \A l \in Listed(Additions(s)) : l.key # "switch"
  BY <1>2, <1>3, <1>4, LineKinds
<1>8. ~SwitchedOn(s) => SwitchedOn(Additions(s))
  <2> SUFFICES ASSUME ~SwitchedOn(s) PROVE SwitchedOn(Additions(s))
    OBVIOUS
  <2>1. first = <<Switch("yes")>>
    BY DEF first
  <2>2. SwitchedOn(<<Switch("yes")>>)
    <3> DEFINE y == <<Switch("yes")>>
    <3>1. DOMAIN y = 1..1 /\ y[1] = Switch("yes")
      OBVIOUS
    <3> HIDE DEF y
    <3>2. 1 \in DOMAIN y /\ \A j \in DOMAIN y : ~(j > 1)
      BY <3>1
    <3>3. SwitchedOn(y)
      BY <3>1, <3>2 DEF SwitchedOn
    <3> QED BY <3>3 DEF y
  <2>3. \A l \in Listed(m) : l.key # "switch"
    BY <1>2, LineKinds
  <2>4. SwitchedOn(first \o m)
    BY <1>2, <1>3, <2>1, <2>2, <2>3, SwitchedOnBefore
  <2> QED BY <1>1, <2>4
<1>9. Additions(s) = (IF SwitchedOn(s) THEN <<>> ELSE <<Switch("yes")>>) \o MissingTdls(s)
  BY <1>1 DEF first, m
<1> QED BY <1>4, <1>5, <1>6, <1>7, <1>8, <1>9

(* A patch leaves the user's lines as they are, and everything is loaded. *)
LEMMA ApplyPatchFacts ==
  ASSUME NEW s \in Seq(Lines)
  PROVE  /\ ApplyPatch(s) \in Seq(Lines)
         /\ OfUser(ApplyPatch(s)) = OfUser(s)
         /\ SwitchedOn(ApplyPatch(s))
         /\ Listed(Shipped) \subseteq Loaded(ApplyPatch(s))
<1> DEFINE a == Additions(s)
<1>1. a \in Seq(Lines) /\ Keep(a, Theirs) = <<>> /\ Listed(Shipped) \ Loaded(s) \subseteq Loaded(a)
  BY AdditionsFacts
<1>2. /\ SwitchedOn(s) => \A l \in Listed(a) : l.key # "switch"
      /\ ~SwitchedOn(s) => SwitchedOn(a)
  BY AdditionsFacts
<1>3. ApplyPatch(s) = IF a = <<>> THEN s ELSE (s \o <<Note>>) \o a
  BY DEF ApplyPatch
<1> HIDE DEF a
<1>4. CASE a = <<>>
  <2>1. Loaded(a) = {} /\ ~SwitchedOn(a)
    BY <1>4 DEF Loaded, Listed, SwitchedOn
  <2> QED BY <1>1, <1>2, <1>3, <1>4, <2>1
<1>5. CASE a # <<>>
  <2>1. <<Note>> \in Seq(Lines) /\ Listed(<<Note>>) = {Note}
    BY LineKinds DEF Listed
  <2> DEFINE b == s \o <<Note>>
  <2>2. b \in Seq(Lines) /\ b \o a \in Seq(Lines)
    BY <1>1, <2>1, ConcatProperties
  <2>3. Keep(b, Theirs) = Keep(s, Theirs)
    <3>1. Keep(<<Note>>, Theirs) = <<>>
      BY <2>1, LineKinds, KeepNone
    <3>2. Keep(b, Theirs) = Keep(s, Theirs) \o Keep(<<Note>>, Theirs)
      BY <2>1, KeepConcat
    <3>3. Keep(s, Theirs) \in Seq(Lines)
      BY KeepListed
    <3> QED BY <3>1, <3>2, <3>3, ConcatEmptySeq
  <2>4. SwitchedOn(s) => SwitchedOn(b)
    BY <2>1, LineKinds, SwitchedOnBefore
  <2>5. Loaded(s) \subseteq Loaded(b)
    BY <2>1, LoadedConcat
  <2>6. ApplyPatch(s) = b \o a
    BY <1>3, <1>5
  <2> HIDE DEF b
  <2>7. Keep(b \o a, Theirs) = Keep(b, Theirs)
    <3>1. Keep(b \o a, Theirs) = Keep(b, Theirs) \o Keep(a, Theirs)
      BY <1>1, <2>2, KeepConcat
    <3>2. Keep(b, Theirs) \in Seq(Lines)
      BY <2>2, KeepListed
    <3> QED BY <1>1, <3>1, <3>2, ConcatEmptySeq
  <2>8. OfUser(ApplyPatch(s)) = OfUser(s)
    BY <2>3, <2>6, <2>7 DEF OfUser
  <2>9. SwitchedOn(b \o a)
    <3>1. CASE SwitchedOn(s)
      BY <1>1, <1>2, <2>2, <2>4, <3>1, SwitchedOnBefore
    <3>2. CASE ~SwitchedOn(s)
      BY <1>1, <1>2, <2>2, <3>2, SwitchedOnAtEnd
    <3> QED BY <3>1, <3>2
  <2>10. Loaded(b \o a) = Loaded(b) \cup Loaded(a)
    BY <1>1, <2>2, LoadedConcat
  <2> QED BY <1>1, <2>2, <2>5, <2>6, <2>8, <2>9, <2>10
<1> QED BY <1>4, <1>5

(* Turning the switches off changes no other line. *)
Turned(l, off) == IF off /\ l = Switch("yes") THEN Switch("no") ELSE l

AllTurned(s, off) == [i \in DOMAIN s |-> Turned(s[i], off)]

LEMMA TurnedFacts ==
  ASSUME NEW l \in Lines, NEW off
  PROVE  /\ Turned(l, off) \in Lines
         /\ Turned(l, off) \in Theirs <=> l \in Theirs
         /\ l \in Theirs => Turned(l, off) = l
         /\ Turned(l, off).key = l.key
         /\ l.key = "tdl" \/ Turned(l, off).key = "tdl" => Turned(l, off) = l
BY LineKinds DEF Turned

LEMMA AllTurnedTyped ==
  ASSUME NEW s \in Seq(Lines), NEW off
  PROVE  /\ AllTurned(s, off) \in Seq(Lines)
         /\ Len(AllTurned(s, off)) = Len(s)
         /\ \A i \in 1..Len(s) : AllTurned(s, off)[i] = Turned(s[i], off)
<1>1. DOMAIN s = 1..Len(s) /\ Len(s) \in Nat /\ \A i \in 1..Len(s) : s[i] \in Lines
  OBVIOUS
<1>2. \A i \in 1..Len(s) : Turned(s[i], off) \in Lines
  BY <1>1, TurnedFacts
<1>3. AllTurned(s, off) = [i \in 1..Len(s) |-> Turned(s[i], off)]
  BY <1>1 DEF AllTurned
<1> QED BY <1>1, <1>2, <1>3, IsASeq

LEMMA AllTurnedKeeps ==
  ASSUME NEW off
  PROVE  \A s \in Seq(Lines) : Keep(AllTurned(s, off), Theirs) = Keep(s, Theirs)
<1> DEFINE T == {s \in Seq(Lines) : Keep(AllTurned(s, off), Theirs) = Keep(s, Theirs)}
<1>1. <<>> \in T
  <2>1. AllTurned(<<>>, off) = <<>>
    BY EmptySeq, AllTurnedTyped
  <2> QED BY <2>1, EmptySeq
<1>2. ASSUME NEW s \in Seq(Lines), NEW x \in Lines, s \in T PROVE Append(s, x) \in T
  <2> DEFINE u == AllTurned(s, off)
             y == Turned(x, off)
  <2>1. u \in Seq(Lines) /\ y \in Lines /\ Append(s, x) \in Seq(Lines)
    BY AllTurnedTyped, TurnedFacts, AppendProperties
  <2>2. AllTurned(Append(s, x), off) = Append(u, y)
    <3> DEFINE a == AllTurned(Append(s, x), off)
               b == Append(u, y)
               n == Len(s)
    <3>1. n \in Nat /\ Len(Append(s, x)) = n + 1 /\ Append(s, x)[n + 1] = x
          /\ \A i \in 1..n : Append(s, x)[i] = s[i]
      BY AppendProperties
    <3>2. a \in Seq(Lines) /\ Len(a) = n + 1 /\ \A i \in 1..n + 1 : a[i] = Turned(Append(s, x)[i], off)
      BY <2>1, <3>1, AllTurnedTyped
    <3>3. Len(u) = n /\ \A i \in 1..n : u[i] = Turned(s[i], off)
      BY AllTurnedTyped
    <3>4. b \in Seq(Lines) /\ Len(b) = n + 1 /\ b[n + 1] = y /\ \A i \in 1..n : b[i] = u[i]
      BY <2>1, <3>3, AppendProperties
    <3> HIDE DEF a, b, n, u
    <3>5. \A i \in 1..n + 1 : a[i] = b[i]
      <4> SUFFICES ASSUME NEW i \in 1..n + 1 PROVE a[i] = b[i]
        OBVIOUS
      <4>1. CASE i = n + 1
        BY <3>1, <3>2, <3>4, <4>1
      <4>2. CASE i # n + 1
        <5>1. i \in 1..n
          BY <3>1, <4>2
        <5> QED BY <3>1, <3>2, <3>3, <3>4, <5>1
      <4> QED BY <4>1, <4>2
    <3>6. a = b
      BY <3>2, <3>4, <3>5, SeqEqual
    <3> QED BY <3>6 DEF a, b
  <2>3. Keep(Append(u, y), Theirs) = IF y \in Theirs THEN Append(Keep(u, Theirs), y) ELSE Keep(u, Theirs)
    BY <2>1, KeepAppend
  <2>4. Keep(Append(s, x), Theirs) = IF x \in Theirs THEN Append(Keep(s, Theirs), x) ELSE Keep(s, Theirs)
    BY KeepAppend
  <2>5. Keep(u, Theirs) = Keep(s, Theirs) /\ (y \in Theirs <=> x \in Theirs) /\ (x \in Theirs => y = x)
    BY <1>2, TurnedFacts
  <2> HIDE DEF u, y
  <2>6. Keep(AllTurned(Append(s, x), off), Theirs) = Keep(Append(s, x), Theirs)
    BY <2>2, <2>3, <2>4, <2>5
  <2> QED BY <2>1, <2>6
<1> HIDE DEF T
<1>3. \A s \in Seq(Lines) : s \in T
  BY <1>1, <1>2, GrowingSequences
<1> QED BY <1>3 DEF T

(* An unpatch leaves the user's lines as they are, loads none of the files and
   turns the switch off when there are no others. *)
LEMMA StripTDLsFacts ==
  ASSUME NEW s \in Seq(Lines)
  PROVE  /\ StripTDLs(s) \in Seq(Lines)
         /\ OfUser(StripTDLs(s)) = OfUser(s)
         /\ Loaded(StripTDLs(s)) \cap Under = {}
         /\ Loaded(StripTDLs(s)) = {} => ~SwitchedOn(StripTDLs(s))
<1> DEFINE k   == Keep(s, Elsewhere)
           off == Loaded(k) = {}
           u   == AllTurned(k, off)
<1>1. k \in Seq(Lines) /\ Listed(k) = Listed(s) \cap Elsewhere
  BY KeepListed
<1>2. StripTDLs(s) = u
  BY DEF StripTDLs, AllTurned, Turned
<1>3. Keep(k, Theirs) = Keep(s, Theirs)
  <2>1. Elsewhere \cap Theirs = Theirs
    BY DEF Theirs
  <2> QED BY <2>1, KeepTwice
<1> HIDE DEF k
<1>4. u \in Seq(Lines) /\ Len(u) = Len(k) /\ \A i \in 1..Len(k) : u[i] = Turned(k[i], off)
  BY <1>1, AllTurnedTyped
<1>5. Keep(u, Theirs) = Keep(s, Theirs)
  BY <1>1, <1>3, AllTurnedKeeps
<1>6. DOMAIN k = 1..Len(k) /\ \A i \in 1..Len(k) : k[i] \in Lines
  BY <1>1
<1>7. DOMAIN u = 1..Len(k)
  BY <1>4
<1> HIDE DEF u
<1>8. Loaded(u) = Loaded(k)
  <2>1. ASSUME NEW i \in 1..Len(k)
        PROVE  (u[i].key = "tdl" <=> k[i].key = "tdl") /\ (k[i].key = "tdl" => u[i] = k[i])
    <3>1. u[i] = Turned(k[i], off) /\ k[i] \in Lines
      BY <1>4, <1>6
    <3> HIDE DEF off
    <3> QED BY <3>1, TurnedFacts
  <2> QED BY <1>6, <1>7, <2>1 DEF Loaded, Listed
<1>9. Loaded(u) \cap Under = {}
  BY <1>1, <1>8 DEF Loaded, Elsewhere
<1>10. Loaded(u) = {} => ~SwitchedOn(u)
  <2> SUFFICES ASSUME Loaded(u) = {} PROVE \A i \in DOMAIN u : u[i] # Switch("yes")
    BY DEF SwitchedOn
  <2>1. off
    BY <1>8
  <2>2. Switch("yes") # Switch("no")
    BY LineKinds
  <2> QED BY <1>4, <1>7, <2>1, <2>2 DEF Turned
<1> QED BY <1>2, <1>4, <1>5, <1>9, <1>10 DEF OfUser

-----------------------------------------------------------------------------
(* The inductive invariant. *)

IniPast == Holding \cup {Renaming}

(* One worker at a time finds in the temporary file what it put there. *)
OneIniWriter ==
  ~disturbed =>
    /\ \A v, w \in Workers : pc[v] \in IniPast /\ pc[w] \in IniPast => v = w
    /\ \A w \in Workers :
         /\ pc[w] = "write" => iniTmp = Blank
         /\ pc[w] \in {"close", Renaming} => iniTmp = contents[w]

(* A worker that saw the file as it is computed its contents from that. *)
Computed ==
  \A w \in Workers \ behind :
    pc[w] # "idle" => contents[w] = Result(w, Read(ini))

(* The file has the user's lines. *)
Whole ==
  ~disturbed => ini \in Seq(Lines) \cup {NoFile} /\ OfUser(Read(ini)) = mine

(* And so has the copy. *)
Copied ==
  ~disturbed =>
    \A w \in Workers \ behind : pc[w] \in WriterSteps /\ ini # NoFile => bak = ini

IniInv ==
  /\ IniTypeOK
  /\ OneIniWriter
  /\ Computed
  /\ Whole
  /\ Copied
  /\ PatchTakesEffect

Files == Seq(Lines) \cup {NoFile, Blank, Mixed}

LEMMA ReadFacts ==
  /\ \A f \in Seq(Lines) : Read(f) = f /\ f # NoFile /\ f # Blank /\ f # Mixed /\ f # Idle
  /\ Read(NoFile) = <<>> /\ <<>> \in Seq(Lines)
  /\ \A f \in Files : f # Blank /\ f # Mixed => Read(f) \in Seq(Lines)
BY IniFilesAssumption, EmptySeq DEF Read, Files

(* What a worker makes of the lines it read: the user's lines are there, and
   it did what it is for. *)
Effect(w, s) ==
  IF w \in Patchers
    THEN SwitchedOn(s) /\ Listed(Shipped) \subseteq Loaded(s)
    ELSE /\ Loaded(s) \cap Under = {}
         /\ Loaded(s) = {} => ~SwitchedOn(s)

LEMMA ResultFacts ==
  ASSUME NEW w, NEW s \in Seq(Lines)
  PROVE  /\ Result(w, s) \in Seq(Lines)
         /\ OfUser(Result(w, s)) = OfUser(s)
         /\ Effect(w, Result(w, s))
<1>1. CASE w \in Patchers
  BY <1>1, ApplyPatchFacts DEF Result, Effect
<1>2. CASE w \notin Patchers
  BY <1>2, StripTDLsFacts DEF Result, Effect
<1> QED BY <1>1, <1>2

LEMMA OfUserType ==
  ASSUME NEW s \in Seq(Lines) PROVE OfUser(s) \in Seq(Lines)
BY KeepListed DEF OfUser

LEMMA EditedType ==
  ASSUME NEW s \in Seq(Lines), NEW t \in Edited(s) PROVE t \in Seq(Lines)
<1>1. CASE \E l \in UserLines : t = <<l>> \o s
  <2>1. PICK l \in UserLines : t = <<l>> \o s
    BY <1>1
  <2>2. <<l>> \in Seq(Lines)
    BY DEF Lines
  <2> QED BY <2>1, <2>2, ConcatProperties
<1>2. CASE \E l \in Listed(s) : t = Keep(s, Lines \ {l})
  BY <1>2, KeepListed
<1>3. CASE t = Append(Keep(s, {x \in Lines : x.key # "switch"}), Switch("no"))
  <2>1. Keep(s, {x \in Lines : x.key # "switch"}) \in Seq(Lines)
    BY KeepListed
  <2> QED BY <1>3, <2>1, LineKinds, AppendProperties
<1> QED BY <1>1, <1>2, <1>3 DEF Edited

LEMMA IniInitInv ==
  ASSUME IniInit PROVE IniInv
<1> USE TallyIniAssumption DEF IniInit
<1>1. ini \in Seq(Lines) \cup {NoFile} /\ Read(ini) \in Seq(Lines)
  BY ReadFacts
<1>2. mine = OfUser(Read(ini)) /\ mine \in Seq(Lines)
  BY <1>1, OfUserType
<1>3. IniTypeOK
  <2>1. starts \in [Workers -> 0..MaxStarts] /\ edits \in 0..MaxEdits
    OBVIOUS
  <2> QED BY <1>1, <1>2, <2>1 DEF IniTypeOK
<1>4. OneIniWriter /\ Computed /\ Copied
  BY DEF OneIniWriter, Computed, Copied, IniPast, WriterSteps, Opening, Holding, Renaming
<1>5. Whole /\ PatchTakesEffect
  BY <1>1, <1>2 DEF Whole, PatchTakesEffect
<1> QED BY <1>3, <1>4, <1>5 DEF IniInv

-----------------------------------------------------------------------------
(* Every step preserves it, one conjunct at a time. *)

LEMMA ContentsFound ==
  ASSUME IniTypeOK, ini # Blank, ini # Mixed
  PROVE  Read(ini) \in Seq(Lines)
BY ReadFacts DEF IniTypeOK, Files

LEMMA IniTypeStep ==
  ASSUME IniTypeOK, [IniNext]_iniVars
  PROVE  IniTypeOK'
<1> USE DEF IniTypeOK, Go, Stop, WriterSteps, Holding, Opening, Renaming
<1>1. ASSUME NEW w \in Workers, ReadIni(w) PROVE IniTypeOK'
  <2> DEFINE r == Result(w, Read(ini))
  <2>1. r \in Seq(Lines) /\ r # Idle
    BY <1>1, ContentsFound, ResultFacts, ReadFacts DEF ReadIni
  <2>2. starts' \in [Workers -> 0..MaxStarts]
    BY <1>1, TallyIniAssumption DEF ReadIni
  <2>3. pc' \in [Workers -> {"idle", "backup"} \cup WriterSteps]
    BY <1>1 DEF ReadIni
  <2>4. contents' \in [Workers -> Seq(Lines) \cup {Idle}]
    BY <1>1, <2>1 DEF ReadIni
  <2>5. ASSUME NEW v \in Workers PROVE pc'[v] = "idle" <=> contents'[v] = Idle
    BY <1>1, <2>1 DEF ReadIni
  <2> QED BY <1>1, <2>2, <2>3, <2>4, <2>5 DEF ReadIni
<1>2. ASSUME NEW w \in Workers, BackupFile(w) PROVE IniTypeOK'
  BY <1>2 DEF BackupFile
<1>3. ASSUME NEW w \in Workers, OpenIni(w) PROVE IniTypeOK'
  BY <1>3 DEF OpenIni
<1>4. ASSUME NEW w \in Workers, WriteIni(w) PROVE IniTypeOK'
  <2>1. contents[w] \in Seq(Lines)
    BY <1>4 DEF WriteIni
  <2>2. iniTmp' \in Seq(Lines) \cup {NoFile, Blank, Mixed}
    BY <1>4, <2>1 DEF WriteIni, Written
  <2> QED BY <1>4, <2>2 DEF WriteIni
<1>5. ASSUME NEW w \in Workers, CloseIni(w) PROVE IniTypeOK'
  BY <1>5 DEF CloseIni
<1>6. ASSUME NEW w \in Workers, RenameIni(w) PROVE IniTypeOK'
  BY <1>6 DEF RenameIni
<1>7. ASSUME NEW w \in Workers, GiveUp(w) PROVE IniTypeOK'
  BY <1>7 DEF GiveUp
<1>8. ASSUME ini \notin {Blank, Mixed}, NEW s \in Edited(Read(ini)), UserSaves(s)
      PROVE  IniTypeOK'
  <2>1. s \in Seq(Lines) /\ OfUser(s) \in Seq(Lines)
    BY <1>8, ContentsFound, EditedType, OfUserType
  <2>2. edits' \in 0..MaxEdits
    BY <1>8, TallyIniAssumption DEF UserSaves
  <2> QED BY <1>8, <2>1, <2>2 DEF UserSaves
<1>9. ASSUME TallyReinstalled PROVE IniTypeOK'
  <2>1. edits' \in 0..MaxEdits
    BY <1>9, TallyIniAssumption DEF TallyReinstalled
  <2> QED BY <1>9, <2>1, ReadFacts DEF TallyReinstalled
<1>10. ASSUME UNCHANGED iniVars PROVE IniTypeOK'
  BY <1>10 DEF iniVars
<1> QED BY <1>1, <1>2, <1>3, <1>4, <1>5, <1>6, <1>7, <1>8, <1>9, <1>10 DEF IniNext

LEMMA OneIniWriterStep ==
  ASSUME IniTypeOK, OneIniWriter, [IniNext]_iniVars
  PROVE  OneIniWriter'
<1> USE DEF OneIniWriter, IniPast, Go, Stop, WriterSteps, Holding, Opening, Renaming
<1>0. pc \in [Workers -> {"idle", "backup"} \cup WriterSteps]
      /\ contents \in [Workers -> Seq(Lines) \cup {Idle}]
  BY DEF IniTypeOK
<1>1. ASSUME NEW w \in Workers, ReadIni(w) PROVE OneIniWriter'
  <2>1. \A v \in Workers : pc'[v] \in IniPast => pc'[v] = pc[v] /\ contents'[v] = contents[v]
    BY <1>0, <1>1 DEF ReadIni
  <2> QED BY <1>0, <1>1, <2>1 DEF ReadIni
<1>2. ASSUME NEW w \in Workers, BackupFile(w) PROVE OneIniWriter'
  BY <1>0, <1>2 DEF BackupFile
<1>3. ASSUME NEW w \in Workers, OpenIni(w) PROVE OneIniWriter'
  BY <1>0, <1>3 DEF OpenIni
<1>4. ASSUME NEW w \in Workers, WriteIni(w) PROVE OneIniWriter'
  <2> SUFFICES ASSUME ~disturbed PROVE OneIniWriter'
    BY <1>4 DEF WriteIni
  <2>1. iniTmp' = contents[w]
    BY <1>4 DEF WriteIni, Written
  <2>2. \A v \in Workers : pc'[v] \in IniPast => v = w
    BY <1>0, <1>4 DEF WriteIni
  <2>3. pc'[w] = "close"
    BY <1>0, <1>4 DEF WriteIni
  <2> QED BY <1>4, <2>1, <2>2, <2>3 DEF WriteIni
<1>5. ASSUME NEW w \in Workers, CloseIni(w) PROVE OneIniWriter'
  BY <1>0, <1>5 DEF CloseIni
<1>6. ASSUME NEW w \in Workers, RenameIni(w) PROVE OneIniWriter'
  <2> SUFFICES ASSUME ~disturbed' PROVE OneIniWriter'
    OBVIOUS
  <2>1. ~disturbed
    BY <1>6 DEF RenameIni
  <2>2. \A v \in Workers : pc'[v] \notin IniPast
    BY <1>0, <1>6, <2>1 DEF RenameIni
  <2> QED BY <2>2
<1>7. ASSUME NEW w \in Workers, GiveUp(w) PROVE OneIniWriter'
  <2>1. \A v \in Workers : pc'[v] \in IniPast => pc'[v] = pc[v] /\ contents'[v] = contents[v]
    BY <1>0, <1>7 DEF GiveUp
  <2>2. ~disturbed' => ~disturbed
    BY <1>7 DEF GiveUp
  <2> QED BY <1>7, <2>1, <2>2 DEF GiveUp
<1>8. ASSUME NEW s, UserSaves(s) PROVE OneIniWriter'
  BY <1>8 DEF UserSaves
<1>9. ASSUME TallyReinstalled PROVE OneIniWriter'
  BY <1>9 DEF TallyReinstalled
<1>10. ASSUME UNCHANGED iniVars PROVE OneIniWriter'
  BY <1>10 DEF iniVars
<1> QED BY <1>1, <1>2, <1>3, <1>4, <1>5, <1>6, <1>7, <1>8, <1>9, <1>10 DEF IniNext

LEMMA ComputedStep ==
  ASSUME IniTypeOK, Computed, [IniNext]_iniVars
  PROVE  Computed'
<1> USE DEF Computed, Go, Stop
<1>0. pc \in [Workers -> {"idle", "backup"} \cup WriterSteps]
      /\ contents \in [Workers -> Seq(Lines) \cup {Idle}]
  BY DEF IniTypeOK
<1>1. ASSUME NEW w \in Workers, ReadIni(w) PROVE Computed'
  <2>1. ini' = ini /\ \A v : Result(v, Read(ini))' = Result(v, Read(ini))
    BY <1>1 DEF ReadIni
  <2>2. ASSUME NEW v \in Workers \ behind', pc'[v] # "idle"
        PROVE  contents'[v] = Result(v, Read(ini))
    <3>1. CASE v = w
      BY <1>0, <1>1, <2>2, <3>1 DEF ReadIni
    <3>2. CASE v # w
      <4>1. v \in Workers \ behind /\ pc'[v] = pc[v] /\ contents'[v] = contents[v]
        BY <1>0, <1>1, <2>2, <3>2 DEF ReadIni
      <4> QED BY <2>2, <4>1
    <3> QED BY <3>1, <3>2
  <2> QED BY <2>1, <2>2
<1>2. ASSUME NEW w \in Workers, BackupFile(w) PROVE Computed'
  BY <1>0, <1>2 DEF BackupFile
<1>3. ASSUME NEW w \in Workers, OpenIni(w) PROVE Computed'
  BY <1>0, <1>3 DEF OpenIni, Opening
<1>4. ASSUME NEW w \in Workers, WriteIni(w) PROVE Computed'
  BY <1>0, <1>4 DEF WriteIni
<1>5. ASSUME NEW w \in Workers, CloseIni(w) PROVE Computed'
  BY <1>0, <1>5 DEF CloseIni
<1>6. ASSUME NEW w \in Workers, RenameIni(w) PROVE Computed'
  <2>1. \A v \in Workers \ behind' : pc'[v] = "idle"
    BY <1>0, <1>6 DEF RenameIni
  <2> QED BY <2>1
<1>7. ASSUME NEW w \in Workers, GiveUp(w) PROVE Computed'
  <2>1. \A v \in Workers : pc'[v] # "idle" => pc'[v] = pc[v] /\ contents'[v] = contents[v]
    BY <1>0, <1>7 DEF GiveUp
  <2> QED BY <1>7, <2>1 DEF GiveUp
<1>8. ASSUME NEW s, UserSaves(s) PROVE Computed'
  BY <1>8 DEF UserSaves
<1>9. ASSUME TallyReinstalled PROVE Computed'
  BY <1>9 DEF TallyReinstalled
<1>10. ASSUME UNCHANGED iniVars PROVE Computed'
  BY <1>10 DEF iniVars
<1> QED BY <1>1, <1>2, <1>3, <1>4, <1>5, <1>6, <1>7, <1>8, <1>9, <1>10 DEF IniNext

LEMMA GiveUpFrame ==
  ASSUME IniTypeOK, NEW w \in Workers, GiveUp(w)
  PROVE  ini' = ini /\ mine' = mine /\ fresh' = fresh /\ (~disturbed' => ~disturbed)
<1>1. CASE UNCHANGED <<bak, disturbed>>
  BY <1>1 DEF GiveUp
<1>2. CASE disturbed' = (disturbed \/ \E v \in Workers : pc[v] \in WriterSteps)
  BY <1>2 DEF GiveUp
<1> QED BY <1>1, <1>2 DEF GiveUp

LEMMA WholeStep ==
  ASSUME IniTypeOK, OneIniWriter, Computed, Whole, [IniNext]_iniVars
  PROVE  Whole'
<1> USE DEF Whole
<1>1. ASSUME NEW w \in Workers, ReadIni(w) PROVE Whole'
  BY <1>1 DEF ReadIni
<1>2. ASSUME NEW w \in Workers, BackupFile(w) PROVE Whole'
  BY <1>2 DEF BackupFile
<1>3. ASSUME NEW w \in Workers, OpenIni(w) PROVE Whole'
  BY <1>3 DEF OpenIni
<1>4. ASSUME NEW w \in Workers, WriteIni(w) PROVE Whole'
  BY <1>4 DEF WriteIni
<1>5. ASSUME NEW w \in Workers, CloseIni(w) PROVE Whole'
  BY <1>5 DEF CloseIni
<1>6. ASSUME NEW w \in Workers, RenameIni(w) PROVE Whole'
  <2> SUFFICES ASSUME ~disturbed' PROVE Whole'
    OBVIOUS
  <2>1. ~disturbed /\ w \in Workers \ behind /\ pc[w] = Renaming
    BY <1>6 DEF RenameIni
  <2>2. Read(ini) \in Seq(Lines) /\ OfUser(Read(ini)) = mine
    BY <2>1, ReadFacts
  <2>3. ini' = Result(w, Read(ini))
    BY <1>6, <2>1 DEF RenameIni, OneIniWriter, Computed, Renaming
  <2>4. ini' \in Seq(Lines) /\ OfUser(ini') = mine
    BY <2>2, <2>3, ResultFacts
  <2>5. Read(ini') = ini' /\ mine' = mine
    BY <1>6, <2>4, ReadFacts DEF RenameIni
  <2> QED BY <2>4, <2>5
<1>7. ASSUME NEW w \in Workers, GiveUp(w) PROVE Whole'
  BY <1>7, GiveUpFrame
<1>8. ASSUME ini \notin {Blank, Mixed}, NEW s \in Edited(Read(ini)), UserSaves(s)
      PROVE  Whole'
  <2>1. s \in Seq(Lines)
    BY <1>8, ContentsFound, EditedType
  <2> QED BY <1>8, <2>1, ReadFacts DEF UserSaves
<1>9. ASSUME TallyReinstalled PROVE Whole'
  BY <1>9, ReadFacts, KeepEmpty DEF TallyReinstalled, OfUser
<1>10. ASSUME UNCHANGED iniVars PROVE Whole'
  BY <1>10 DEF iniVars
<1> QED BY <1>1, <1>2, <1>3, <1>4, <1>5, <1>6, <1>7, <1>8, <1>9, <1>10 DEF IniNext

LEMMA CopiedStep ==
  ASSUME IniTypeOK, Computed, Copied, [IniNext]_iniVars
  PROVE  Copied'
<1> USE DEF Copied, Go, Stop, WriterSteps, Holding, Opening, Renaming
<1>0. pc \in [Workers -> {"idle", "backup"} \cup WriterSteps]
  BY DEF IniTypeOK
<1>1. ASSUME NEW w \in Workers, ReadIni(w) PROVE Copied'
  <2> SUFFICES ASSUME ~disturbed, ini # NoFile,
                      NEW v \in Workers \ behind', pc'[v] \in WriterSteps
               PROVE  bak = ini
    BY <1>1 DEF ReadIni
  <2>1. v # w
    BY <1>0, <1>1 DEF ReadIni
  <2>2. v \in Workers \ behind /\ pc'[v] = pc[v]
    BY <1>0, <1>1, <2>1 DEF ReadIni
  <2> QED BY <2>2
<1>2. ASSUME NEW w \in Workers, BackupFile(w) PROVE Copied'
  BY <1>2 DEF BackupFile
<1>3. ASSUME NEW w \in Workers, OpenIni(w) PROVE Copied'
  BY <1>0, <1>3 DEF OpenIni
<1>4. ASSUME NEW w \in Workers, WriteIni(w) PROVE Copied'
  BY <1>0, <1>4 DEF WriteIni
<1>5. ASSUME NEW w \in Workers, CloseIni(w) PROVE Copied'
  BY <1>0, <1>5 DEF CloseIni
<1>6. ASSUME NEW w \in Workers, RenameIni(w) PROVE Copied'
  <2>1. \A v \in Workers \ behind' : pc'[v] = "idle"
    BY <1>0, <1>6 DEF RenameIni
  <2> QED BY <2>1
<1>7. ASSUME NEW w \in Workers, GiveUp(w) PROVE Copied'
  <2>1. \A v \in Workers : pc'[v] \in WriterSteps => pc'[v] = pc[v]
    BY <1>0, <1>7 DEF GiveUp
  <2>2. CASE UNCHANGED <<bak, disturbed>>
    BY <1>7, <2>1, <2>2 DEF GiveUp
  <2>3. CASE disturbed' = (disturbed \/ \E v \in Workers : pc[v] \in WriterSteps)
    BY <1>7, <2>1, <2>3 DEF GiveUp
  <2> QED BY <1>7, <2>2, <2>3 DEF GiveUp
<1>8. ASSUME NEW s, UserSaves(s) PROVE Copied'
  BY <1>8 DEF UserSaves
<1>9. ASSUME TallyReinstalled PROVE Copied'
  BY <1>9 DEF TallyReinstalled
<1>10. ASSUME UNCHANGED iniVars PROVE Copied'
  BY <1>10 DEF iniVars
<1> QED BY <1>1, <1>2, <1>3, <1>4, <1>5, <1>6, <1>7, <1>8, <1>9, <1>10 DEF IniNext

LEMMA PatchTakesEffectStep ==
  ASSUME IniTypeOK, OneIniWriter, Computed, Whole, PatchTakesEffect, [IniNext]_iniVars
  PROVE  PatchTakesEffect'
<1> DEFINE E == ~disturbed => \A w \in fresh : Effect(w, Read(ini))
<1>0. E /\ (PatchTakesEffect' <=> E')
  BY DEF PatchTakesEffect, Effect
<1> SUFFICES E'
  BY <1>0
<1>1. ASSUME NEW w \in Workers, ReadIni(w) PROVE E'
  <2>1. CASE Result(w, Read(ini)) = Read(ini)
    <3>1. Effect(w, Read(ini))
      BY <1>1, <2>1, ContentsFound, ResultFacts DEF ReadIni
    <3>2. ini' = ini /\ disturbed' = disturbed /\ fresh' = fresh \cup {w}
      BY <1>1, <2>1 DEF ReadIni
    <3> QED BY <1>0, <3>1, <3>2
  <2>2. CASE Result(w, Read(ini)) # Read(ini)
    BY <1>0, <1>1, <2>2 DEF ReadIni
  <2> QED BY <2>1, <2>2
<1>2. ASSUME NEW w \in Workers, BackupFile(w) PROVE E'
  BY <1>0, <1>2 DEF BackupFile
<1>3. ASSUME NEW w \in Workers, OpenIni(w) PROVE E'
  BY <1>0, <1>3 DEF OpenIni
<1>4. ASSUME NEW w \in Workers, WriteIni(w) PROVE E'
  BY <1>0, <1>4 DEF WriteIni
<1>5. ASSUME NEW w \in Workers, CloseIni(w) PROVE E'
  BY <1>0, <1>5 DEF CloseIni
<1>6. ASSUME NEW w \in Workers, RenameIni(w) PROVE E'
  <2> SUFFICES ASSUME ~disturbed' PROVE E'
    OBVIOUS
  <2>1. ~disturbed /\ w \in Workers \ behind /\ pc[w] = Renaming /\ fresh' = {w}
    BY <1>6 DEF RenameIni
  <2>2. Read(ini) \in Seq(Lines)
    BY <2>1, ReadFacts DEF Whole
  <2>3. ini' = Result(w, Read(ini))
    BY <1>6, <2>1 DEF RenameIni, OneIniWriter, Computed, Renaming
  <2>4. ini' \in Seq(Lines) /\ Effect(w, ini')
    BY <2>2, <2>3, ResultFacts
  <2>5. Read(ini') = ini'
    BY <2>4, ReadFacts
  <2> QED BY <2>1, <2>4, <2>5
<1>7. ASSUME NEW w \in Workers, GiveUp(w) PROVE E'
  BY <1>0, <1>7, GiveUpFrame
<1>8. ASSUME NEW s, UserSaves(s) PROVE E'
  BY <1>8 DEF UserSaves
<1>9. ASSUME TallyReinstalled PROVE E'
  BY <1>9 DEF TallyReinstalled
<1>10. ASSUME UNCHANGED iniVars PROVE E'
  BY <1>0, <1>10 DEF iniVars
<1> QED BY <1>1, <1>2, <1>3, <1>4, <1>5, <1>6, <1>7, <1>8, <1>9, <1>10 DEF IniNext

LEMMA IniInvStep ==
  ASSUME IniInv, [IniNext]_iniVars PROVE IniInv'
BY IniTypeStep, OneIniWriterStep, ComputedStep, WholeStep, CopiedStep, PatchTakesEffectStep
   DEF IniInv

LEMMA IniInvMeans ==
  ASSUME IniInv PROVE UserLinesSurvive
<1> SUFFICES ASSUME ~disturbed PROVE UserLinesSurvive
  BY DEF UserLinesSurvive
<1>1. OfUser(Read(ini)) = mine /\ ini \in Seq(Lines) \cup {NoFile}
  BY DEF IniInv, Whole
<1>2. ASSUME NEW w \in Workers \ behind, pc[w] \in WriterSteps, ini # NoFile
      PROVE  OfUser(bak) = mine
  BY <1>1, <1>2, ReadFacts DEF IniInv, Copied
<1> QED BY <1>1, <1>2 DEF UserLinesSurvive

LEMMA IniInvariance == IniSpec => []IniInv
BY IniInitInv, IniInvStep, PTL DEF IniSpec

(* The files and the workers have their types. *)
THEOREM IniTyped == IniSpec => []IniTypeOK
<1>1. IniInv => IniTypeOK
  BY DEF IniInv
<1> QED BY IniInvariance, <1>1, PTL

(* Whatever workers run at once, fail or are killed, none of the user's lines
   is lost, added or moved, and the copy has them while the file is being
   replaced, unless a worker replaced a change it had not read or two used the
   temporary file or the copy at once. *)
THEOREM UserLinesAreKept == IniSpec => []UserLinesSurvive
<1>1. IniInv => UserLinesSurvive
  BY IniInvMeans
<1> QED BY IniInvariance, <1>1, PTL

(* A patch that succeeded has every shipped file loaded, and an unpatch none,
   until somebody changes the file again. *)
THEOREM PatchesTakeEffect == IniSpec => []PatchTakesEffect
<1>1. IniInv => PatchTakesEffect
  BY DEF IniInv
<1> QED BY IniInvariance, <1>1, PTL

-----------------------------------------------------------------------------
(* A change of the file that is not the user's is one whole edit. *)

EditOfOne == \E w \in Workers : ini' = Result(w, Read(ini))

EditsAreWhole ==
  [][~disturbed' /\ ini' # ini /\ edits' = edits => EditOfOne]_iniVars

LEMMA RenameIsAnEdit ==
  ASSUME IniInv, NEW w \in Workers, RenameIni(w), ~disturbed'
  PROVE  EditOfOne
<1>1. ~disturbed /\ w \notin behind
  BY DEF RenameIni, IniInv, IniTypeOK
<1>2. pc[w] = Renaming /\ ini' = iniTmp
  BY DEF RenameIni
<1>3. iniTmp = contents[w]
  BY <1>1, <1>2 DEF IniInv, OneIniWriter
<1>4. contents[w] = Result(w, Read(ini))
  BY <1>1, <1>2 DEF IniInv, Computed, Renaming
<1> QED BY <1>2, <1>3, <1>4 DEF EditOfOne

(* The steps of a patch or unpatch, from the reading to the rename, amount to
   one: unless two are at the files at once or a change was not read, a worker
   changes tally.ini by putting in place all that it makes of the file as it is
   at that moment (tally.go:76, tally.go:293). *)
THEOREM EditsAreOneStep == IniSpec => EditsAreWhole
<1>1. IniInv /\ [IniNext]_iniVars =>
        [~disturbed' /\ ini' # ini /\ edits' = edits => EditOfOne]_iniVars
  <2> SUFFICES ASSUME IniInv, IniNext, ~disturbed', ini' # ini, edits' = edits
               PROVE  EditOfOne
    OBVIOUS
  <2>1. edits \in Nat
    BY TallyIniAssumption DEF IniInv, IniTypeOK
  <2>2. PICK w \in Workers : RenameIni(w)
    BY <2>1 DEF IniNext, ReadIni, BackupFile, OpenIni, WriteIni, CloseIni, GiveUp,
                UserSaves, TallyReinstalled
  <2> QED BY <2>2, RenameIsAnEdit
<1> QED BY <1>1, IniInvariance, PTL DEF IniSpec, EditsAreWhole

=============================================================================
