-------------------------- MODULE ConnectionProofs --------------------------
(***************************************************************************)
(* The WebSocket connection manager, for any number of clients, messages   *)
(* and failures of Redis: who is registered, who listens, and what the     *)
(* clients are sent while the lists change under the broadcast.            *)
(***************************************************************************)
EXTENDS ConnectionManager, FiniteSetTheorems, SequenceTheorems, TLAPS

-----------------------------------------------------------------------------
(* Positions *)

Rank(K, i) == Cardinality({j \in K : j <= i})

LEMMA Segment ==
  ASSUME NEW n \in Nat PROVE IsFiniteSet(1 .. n) /\ Cardinality(1 .. n) = n
  BY FS_Interval

LEMMA RankFacts ==
  ASSUME NEW N \in Nat, NEW K \in SUBSET (1 .. N)
  PROVE  /\ IsFiniteSet(K) /\ Cardinality(K) \in Nat /\ Cardinality(K) <= N
         /\ \A i \in K : Rank(K, i) \in 1 .. Cardinality(K) /\ Rank(K, i) <= i
         /\ \A i, j \in K : i < j => Rank(K, i) < Rank(K, j)
<1>1. IsFiniteSet(1 .. N) /\ Cardinality(1 .. N) = N
  BY FS_Interval
<1>2. IsFiniteSet(K) /\ Cardinality(K) <= N /\ Cardinality(K) \in Nat
  BY <1>1, FS_Subset, FS_CardinalityType
<1> DEFINE U(i) == {j \in K : j <= i}
<1>0. \A i : Rank(K, i) = Cardinality(U(i))
  BY DEF Rank
<1>3. \A i : IsFiniteSet(U(i)) /\ Rank(K, i) \in Nat /\ Rank(K, i) <= Cardinality(K)
  <2> SUFFICES ASSUME NEW i
               PROVE  IsFiniteSet(U(i)) /\ Rank(K, i) \in Nat /\ Rank(K, i) <= Cardinality(K)
    OBVIOUS
  <2>1. U(i) \in SUBSET K
    OBVIOUS
  <2> HIDE DEF U
  <2>2. IsFiniteSet(U(i)) /\ Cardinality(U(i)) <= Cardinality(K) /\ Cardinality(U(i)) \in Nat
    BY <1>2, <2>1, FS_Subset, FS_CardinalityType
  <2> QED BY <2>2 DEF Rank, U
<1>4. ASSUME NEW i \in K, NEW j \in K, i < j PROVE Rank(K, i) < Rank(K, j)
  <2>1. U(i) \in SUBSET U(j) /\ U(i) # U(j)
    <3>1. \A x \in K : x \in Nat
      OBVIOUS
    <3>2. j \in U(j) /\ j \notin U(i)
      BY <1>4, <3>1
    <3>3. \A x \in U(i) : x \in U(j)
      BY <1>4, <3>1
    <3> HIDE DEF U
    <3> QED BY <3>2, <3>3
  <2> HIDE DEF U
  <2>2. Cardinality(U(i)) <= Cardinality(U(j)) /\ Cardinality(U(i)) # Cardinality(U(j))
    BY <1>3, <2>1, FS_Subset
  <2> QED BY <1>0, <1>3, <2>2
<1>5. ASSUME NEW i \in K PROVE Rank(K, i) >= 1 /\ Rank(K, i) <= i
  <2>1. i \in U(i) /\ U(i) \in SUBSET (1 .. i) /\ i \in Nat
    <3>1. \A x \in K : x \in Nat /\ x >= 1
      OBVIOUS
    <3>2. i \in U(i)
      BY <3>1
    <3>3. \A x \in U(i) : x \in 1 .. i
      BY <3>1
    <3> HIDE DEF U
    <3> QED BY <3>1, <3>2, <3>3
  <2> HIDE DEF U
  <2>2. IsFiniteSet(1 .. i) /\ Cardinality(1 .. i) = i
    BY <2>1, FS_Interval
  <2>3. Cardinality(U(i)) <= i
    BY <2>1, <2>2, FS_Subset
  <2>4. IsFiniteSet(U(i)) /\ U(i) # {}
    BY <1>3, <2>1
  <2>5. Cardinality(U(i)) # 0
    BY <2>4, FS_EmptySet
  <2> QED BY <1>0, <1>3, <2>3, <2>5
<1> HIDE DEF U
<1> QED BY <1>2, <1>3, <1>4, <1>5

\* Every rank is taken, so the n-th position exists.
LEMMA NthFacts ==
  ASSUME NEW N \in Nat, NEW K \in SUBSET (1 .. N), NEW n \in 1 .. Cardinality(K)
  PROVE  Nth(K, n) \in K /\ Rank(K, Nth(K, n)) = n
<1> DEFINE C == Cardinality(K)
           f == [i \in K |-> Rank(K, i)]
<1>1. C \in Nat /\ \A i \in K : Rank(K, i) \in 1 .. C
  BY RankFacts
<1>2. \A i, j \in K : f[i] = f[j] => i = j
  <2> SUFFICES ASSUME NEW i \in K, NEW j \in K, i # j PROVE f[i] # f[j]
    OBVIOUS
  <2>1. i < j \/ j < i
    OBVIOUS
  <2>2. \A x, y \in K : x < y => Rank(K, x) < Rank(K, y)
    BY RankFacts
  <2> QED BY <1>1, <2>1, <2>2
<1>3. f \in [K -> 1 .. C]
  BY <1>1
<1>4. IsFiniteSet(1 .. C) /\ Cardinality(1 .. C) = C
  BY <1>1, FS_Interval
<1> HIDE DEF f, C
<1>5. f \in Injection(K, 1 .. C)
  BY <1>2, <1>3 DEF Injection, IsInjective
<1>6. f \in Surjection(K, 1 .. C)
  BY <1>4, <1>5, FS_Injection DEF C
<1>7. \E i \in K : f[i] = n
  BY <1>6 DEF Surjection, C
<1>8. \E i \in K : Rank(K, i) = n
  BY <1>7 DEF f
<1> QED BY <1>8 DEF Nth, Rank

-----------------------------------------------------------------------------
(* Lists of clients *)

Distinct(s) == \A i, j \in DOMAIN s : s[i] = s[j] => i = j

\* h tells where the elements of r stood in s.
Embeds(r, s, h) ==
  /\ h \in [1 .. Len(r) -> 1 .. Len(s)]
  /\ \A n \in 1 .. Len(r) : r[n] = s[h[n]] /\ n <= h[n]
  /\ \A m, n \in 1 .. Len(r) : h[m] = h[n] => m = n

LEMMA WithoutFacts ==
  ASSUME NEW T, NEW s \in Seq(T), NEW S
  PROVE  LET r == Without(s, S)
         IN  /\ r \in Seq(T)
             /\ \E h : Embeds(r, s, h)
             /\ Elements(r) = Elements(s) \ S
             /\ Distinct(s) => Distinct(r)
             /\ Len(r) <= Len(s)
<1> DEFINE r == Without(s, S)
           N == Len(s)
           K == {i \in DOMAIN s : s[i] \notin S}
           C == Cardinality(K)
           h == [n \in 1 .. C |-> Nth(K, n)]
<1>1. N \in Nat /\ DOMAIN s = 1 .. N /\ K \in SUBSET (1 .. N)
  OBVIOUS
<1>2. C \in Nat /\ C <= N
  BY <1>1, RankFacts
<1>3. \A n \in 1 .. C : Nth(K, n) \in K /\ Rank(K, Nth(K, n)) = n
  BY <1>1, NthFacts
<1>4. r = [n \in 1 .. C |-> s[Nth(K, n)]]
  BY DEF Without
<1>5. \A i \in K : s[i] \in T /\ s[i] \notin S
  OBVIOUS
<1>6. \A i \in K : Rank(K, i) \in 1 .. C /\ Rank(K, i) <= i
  BY <1>1, RankFacts
<1>7. \A i, j \in K : i < j => Rank(K, i) < Rank(K, j)
  BY <1>1, RankFacts
<1> HIDE DEF r, C
<1>8. r \in Seq(T) /\ Len(r) = C
  BY <1>2, <1>3, <1>4, <1>5
<1>9. \A n \in 1 .. C : /\ h[n] \in K /\ h[n] \in 1 .. N
                        /\ n <= h[n] /\ r[n] = s[h[n]]
  BY <1>1, <1>3, <1>4, <1>6
<1>10. \A m, n \in 1 .. C : h[m] = h[n] => m = n
  BY <1>3
<1>11. Embeds(r, s, h)
  <2>1. h \in [1 .. C -> 1 .. N]
    BY <1>9
  <2> HIDE DEF h, N, K
  <2> QED BY <1>8, <1>9, <1>10, <2>1 DEF Embeds, N
<1>12. Elements(r) = Elements(s) \ S
  <2>1. ASSUME NEW c \in Elements(r) PROVE c \in Elements(s) \ S
    <3>1. PICK n \in 1 .. C : c = r[n]
      BY <1>8 DEF Elements
    <3> QED BY <1>1, <1>9, <3>1 DEF Elements
  <2>2. ASSUME NEW c \in Elements(s) \ S PROVE c \in Elements(r)
    <3>1. PICK i \in K : c = s[i]
      BY <2>2 DEF Elements
    <3>2. Rank(K, i) \in 1 .. C /\ Nth(K, Rank(K, i)) = i
      <4>1. Rank(K, i) \in 1 .. C
        BY <1>6
      <4> DEFINE j == Nth(K, Rank(K, i))
      <4>2. j \in K /\ Rank(K, j) = Rank(K, i)
        BY <1>3, <4>1
      <4> HIDE DEF j
      <4>3. i \in Nat /\ j \in Nat /\ Rank(K, i) \in Nat
        BY <1>1, <1>2, <4>1, <4>2
      <4>4. ~ (i < j) /\ ~ (j < i)
        BY <1>6, <1>7, <4>2, <4>3
      <4>5. i = j
        BY <4>3, <4>4
      <4> QED BY <4>1, <4>5 DEF j
    <3> QED BY <1>4, <1>8, <3>1, <3>2 DEF Elements
  <2> QED BY <2>1, <2>2
<1>13. ASSUME Distinct(s) PROVE Distinct(r)
  <2> SUFFICES ASSUME NEW m \in 1 .. C, NEW n \in 1 .. C, r[m] = r[n] PROVE m = n
    BY <1>8 DEF Distinct
  <2>1. h[m] = h[n]
    BY <1>1, <1>9, <1>13 DEF Distinct
  <2> QED BY <1>10, <2>1
<1> HIDE DEF h
<1> QED BY <1>2, <1>8, <1>11, <1>12, <1>13 DEF r

\* A position is the n-th if its rank is n.
LEMMA NthIs ==
  ASSUME NEW N \in Nat, NEW K \in SUBSET (1 .. N), NEW i \in K
  PROVE  Nth(K, Rank(K, i)) = i
<1> DEFINE n == Rank(K, i)
           j == Nth(K, n)
<1>1. n \in 1 .. Cardinality(K) /\ Cardinality(K) \in Nat
  BY RankFacts
<1>2. j \in K /\ Rank(K, j) = n
  BY <1>1, NthFacts
<1> HIDE DEF j
<1>3. i \in Nat /\ j \in Nat
  BY <1>2
<1>4. ~ (i < j) /\ ~ (j < i)
  BY <1>1, <1>2, RankFacts
<1>5. i = j
  BY <1>3, <1>4
<1> QED BY <1>5 DEF j

\* Who is not in the list is not removed.
LEMMA WithoutOthers ==
  ASSUME NEW T, NEW s \in Seq(T), NEW S, S \cap Elements(s) = {}
  PROVE  Without(s, S) = s
<1> DEFINE r == Without(s, S)
           N == Len(s)
           K == {i \in DOMAIN s : s[i] \notin S}
<1>0. N \in Nat /\ K = 1 .. N
  BY DEF Elements
<1>1. N \in Nat /\ K = 1 .. N /\ IsFiniteSet(1 .. N) /\ Cardinality(1 .. N) = N
  BY <1>0, Segment
<1>2. ASSUME NEW i \in 1 .. N PROVE Rank(1 .. N, i) = i
  <2>1. {j \in 1 .. N : j <= i} = 1 .. i
    BY <1>1
  <2>2. Cardinality(1 .. i) = i
    BY <1>1, Segment
  <2> QED BY <2>1, <2>2 DEF Rank
<1>3. \A i \in 1 .. N : Nth(1 .. N, i) = i
  BY <1>1, <1>2, NthIs
<1>4. r = [n \in 1 .. Cardinality(K) |-> s[Nth(K, n)]]
  BY DEF Without
<1> HIDE DEF r, K
<1>5. r = [n \in 1 .. N |-> s[n]]
  BY <1>1, <1>3, <1>4
<1> QED BY <1>5 DEF r

LEMMA WithoutNone ==
  ASSUME NEW T, NEW s \in Seq(T), NEW c, c \notin Elements(s)
  PROVE  Without(s, {c}) = s
BY WithoutOthers

LEMMA WithoutEmpty ==
  ASSUME NEW T, NEW s \in Seq(T) PROVE Without(s, {}) = s
BY WithoutOthers

\* Who is in it leaves a gap that the later ones close.
LEMMA WithoutOne ==
  ASSUME NEW T, NEW s \in Seq(T), Distinct(s), NEW k \in 1 .. Len(s)
  PROVE  LET r == Without(s, {s[k]})
         IN  /\ Len(r) = Len(s) - 1
             /\ \A n \in 1 .. Len(s) - 1 : r[n] = IF n < k THEN s[n] ELSE s[n + 1]
<1> DEFINE r == Without(s, {s[k]})
           N == Len(s)
           K == {i \in DOMAIN s : s[i] \notin {s[k]}}
           C == Cardinality(K)
<1>0. N \in Nat /\ DOMAIN s = 1 .. N
  OBVIOUS
<1>1. N \in Nat /\ DOMAIN s = 1 .. N /\ IsFiniteSet(1 .. N) /\ Cardinality(1 .. N) = N
  BY <1>0, Segment
<1>2. K = (1 .. N) \ {k}
  BY <1>1 DEF Distinct
<1>3. r = [n \in 1 .. C |-> s[Nth(K, n)]]
  BY DEF Without
<1> HIDE DEF K, r
<1>4. C = N - 1
  BY <1>1, <1>2, FS_RemoveElement
<1>5. ASSUME NEW i \in K, i < k PROVE Nth(K, i) = i
  <2>1. {j \in K : j <= i} = 1 .. i
    BY <1>1, <1>2, <1>5
  <2>2. Rank(K, i) = i
    <3>1. i \in Nat
      BY <1>1, <1>2
    <3> QED BY <2>1, <3>1, Segment DEF Rank
  <2> QED BY <1>1, <1>2, <2>2, NthIs
<1>6. ASSUME NEW i \in K, i > k PROVE Nth(K, i - 1) = i
  <2>1. {j \in K : j <= i} = (1 .. i) \ {k}
    BY <1>1, <1>2, <1>6
  <2>2. i \in Nat /\ k \in 1 .. i /\ IsFiniteSet(1 .. i) /\ Cardinality(1 .. i) = i
    BY <1>1, <1>2, <1>6, FS_Interval
  <2>3. Rank(K, i) = i - 1
    BY <2>1, <2>2, FS_RemoveElement DEF Rank
  <2> QED BY <1>1, <1>2, <2>3, NthIs
<1> HIDE DEF C
<1>7. Len(r) = N - 1
  <2>1. r \in Seq(T)
    BY WithoutFacts DEF r
  <2>2. DOMAIN r = 1 .. N - 1 /\ N - 1 \in Nat
    BY <1>1, <1>3, <1>4
  <2>3. DOMAIN r = 1 .. Len(r) /\ Len(r) \in Nat
    BY <2>1
  <2> QED BY <2>2, <2>3
<1>8. ASSUME NEW n \in 1 .. N - 1 PROVE r[n] = IF n < k THEN s[n] ELSE s[n + 1]
  <2>1. r[n] = s[Nth(K, n)]
    BY <1>3, <1>4, <1>8
  <2>2. CASE n < k
    <3>1. n \in K
      BY <1>1, <1>2, <1>8, <2>2
    <3> QED BY <1>5, <2>1, <2>2, <3>1
  <2>3. CASE ~ (n < k)
    <3>1. n + 1 \in K /\ n + 1 > k /\ n = (n + 1) - 1
      BY <1>1, <1>2, <1>8, <2>3
    <3>2. Nth(K, n) = n + 1
      BY <1>6, <3>1
    <3> QED BY <2>1, <2>3, <3>2
  <2> QED BY <2>2, <2>3
<1> QED BY <1>7, <1>8 DEF r

\* A list without repetition has as many members as positions.
LEMMA DistinctCardinality ==
  ASSUME NEW T, NEW s \in Seq(T), Distinct(s)
  PROVE  IsFiniteSet(Elements(s)) /\ Cardinality(Elements(s)) = Len(s)
<1> DEFINE N == Len(s)
           D == 1 .. N
           f == [i \in D |-> s[i]]
<1>0. N \in Nat /\ DOMAIN s = D
  OBVIOUS
<1>1. N \in Nat /\ DOMAIN s = D /\ IsFiniteSet(D) /\ Cardinality(D) = N
  BY <1>0, Segment
<1>2. \A i \in D : f[i] \in Elements(s)
  BY <1>1 DEF Elements
<1>3. \A x \in Elements(s) : \E i \in D : f[i] = x
  BY <1>1 DEF Elements
<1>4. \A i, j \in D : f[i] = f[j] => i = j
  BY <1>1 DEF Distinct
<1>5. f \in [D -> Elements(s)]
  BY <1>2
<1> HIDE DEF f, D
<1>6. f \in Bijection(D, Elements(s))
  BY <1>3, <1>4, <1>5 DEF Bijection, Injection, IsInjective, Surjection
<1>7. ExistsBijection(D, Elements(s))
  BY <1>6 DEF ExistsBijection
<1> QED BY <1>1, <1>7, FS_Bijection

LEMMA AppendFacts ==
  ASSUME NEW T, NEW s \in Seq(T), NEW c \in T
  PROVE  LET r == Append(s, c)
         IN  /\ r \in Seq(T) /\ Len(r) = Len(s) + 1 /\ DOMAIN r = 1 .. Len(s) + 1
             /\ \A i \in 1 .. Len(s) : r[i] = s[i]
             /\ r[Len(s) + 1] = c
             /\ Elements(r) = Elements(s) \cup {c}
             /\ Distinct(s) /\ c \notin Elements(s) => Distinct(r)
<1> DEFINE r == Append(s, c)
           N == Len(s)
<1>1. /\ r \in Seq(T) /\ Len(r) = N + 1 /\ DOMAIN r = 1 .. N + 1 /\ DOMAIN s = 1 .. N
      /\ \A i \in 1 .. N : r[i] = s[i]
      /\ r[N + 1] = c /\ N \in Nat
  OBVIOUS
<1> HIDE DEF r
<1>2. Elements(r) = Elements(s) \cup {c}
  <2>1. \A x \in Elements(r) : x \in Elements(s) \cup {c}
    BY <1>1 DEF Elements
  <2>2. \A x \in Elements(s) \cup {c} : x \in Elements(r)
    BY <1>1 DEF Elements
  <2> QED BY <2>1, <2>2
<1>3. ASSUME Distinct(s), c \notin Elements(s) PROVE Distinct(r)
  <2> SUFFICES ASSUME NEW i \in 1 .. N + 1, NEW j \in 1 .. N + 1, r[i] = r[j] PROVE i = j
    BY <1>1 DEF Distinct
  <2>1. \A x \in 1 .. N : r[x] = s[x] /\ s[x] # c
    BY <1>1, <1>3 DEF Elements
  <2>2. CASE i \in 1 .. N /\ j \in 1 .. N
    BY <1>1, <1>3, <2>1, <2>2 DEF Distinct
  <2>3. CASE i = N + 1 \/ j = N + 1
    BY <1>1, <2>1, <2>3
  <2> QED BY <2>2, <2>3
<1> QED BY <1>1, <1>2, <1>3 DEF r

-----------------------------------------------------------------------------
(* The inductive invariant *)

Serving == {"listen", "track", "fleet"}
Row == [pc : Stopped \cup Serving \cup {"created"}, cancelled : BOOLEAN,
        next : 0 .. MaxMessages + 1, at : Nat \ {0}, stale : SUBSET Clients, left : Nat]

\* The lists that were ever made, and the trackers that made them.
Started == {g \in Lists : listener[g].pc # "none"}
Arrived == {c \in Trackers : client[c].pc \notin {"new", "accepting"}}

\* Lists are made one after the other, each by a client of its own; those that
\* are served no more are empty.
ListsOK ==
  /\ Started = 1 .. Cardinality(Started)
  /\ Cardinality(Started) <= Cardinality(Arrived)
  /\ \A g \in Lists : g # current => lists[g] = <<>>
  /\ \A g \in Lists : listener[g].pc = "none" => ~ listener[g].cancelled

\* The message a listener works on has been published.
NextOK ==
  \A g \in Lists :
    /\ listener[g].pc \in Serving => listener[g].next \in 1 .. published + 1
    /\ listener[g].pc \in {"track", "fleet"} => listener[g].next <= published

\* OneListener, and the entry is a listener that was created.
ListenerOK ==
  /\ entry = current
  /\ current # 0 =>
       /\ lists[current] # <<>>
       /\ listener[current].pc # "none" /\ ~ listener[current].cancelled
       /\ listener[current].pc \in Stopped => failures > 0
  /\ \A g \in Lists : g # current => listener[g].cancelled \/ listener[g].pc \in Stopped

BaseInv == TypeOK /\ ListsOK /\ NextOK /\ ListenerOK

LEMMA BaseFacts ==
  ASSUME BaseInv
  PROVE  /\ listener \in [Lists -> Row]
         /\ lists \in [Lists -> Seq(Trackers)] /\ fleet \in Seq(Watchers)
         /\ got \in [Clients -> Seq(Messages)] /\ published \in 0 .. MaxMessages
         /\ MaxMessages \in Nat /\ current \in Lists \cup {0} /\ entry = current
  BY ConnectionAssumption DEF BaseInv, TypeOK, Row, Serving, ListenerOK

-----------------------------------------------------------------------------
(* What a listener's step makes of its row *)

Becomes(g, pc, cancelled, next, at, stale, left) ==
  /\ listener' \in [Lists -> Row]
  /\ \A h \in Lists \ {g} : listener'[h] = listener[h]
  /\ LET l == listener'[g]
     IN  /\ l.pc = pc /\ l.cancelled = cancelled /\ l.next = next
         /\ l.at = at /\ l.stale = stale /\ l.left = left

LEMMA ListenerSteps ==
  ASSUME BaseInv, NEW g \in Lists
  PROVE  LET l == listener[g]
             m == listener'[g]
         IN  /\ Subscribe(g) =>
                  Becomes(g, "listen", l.cancelled, published + 1, l.at, l.stale, l.left)
             /\ Receive(g) => Becomes(g, "track", l.cancelled, l.next, 1, {}, 0)
             /\ EndFleet(g) =>
                  Becomes(g, "listen", l.cancelled, l.next + 1, l.at, l.stale, l.left)
             /\ Cancelled(g) =>
                  /\ Becomes(g, m.pc, l.cancelled, l.next, l.at, l.stale, l.left)
                  /\ m.pc \in {"closing", "ended"}
             /\ ListenerFails(g) =>
                  /\ Becomes(g, m.pc, l.cancelled, l.next, l.at, l.stale, l.left)
                  /\ m.pc \in {"closing", "ended"}
             /\ Close(g) => Becomes(g, "ended", l.cancelled, l.next, l.at, l.stale, l.left)
<1> DEFINE l == listener[g]
           m == listener'[g]
<1>1. /\ listener \in [Lists -> Row] /\ l \in Row
      /\ published \in 0 .. MaxMessages /\ MaxMessages \in Nat
      /\ l.pc = "fleet" => l.next <= published
  BY BaseFacts DEF BaseInv, NextOK
<1>2. ASSUME Subscribe(g)
      PROVE  Becomes(g, "listen", l.cancelled, published + 1, l.at, l.stale, l.left)
  <2>1. published + 1 \in 0 .. MaxMessages + 1
    BY <1>1
  <2> QED BY <1>1, <1>2, <2>1 DEF Subscribe, Becomes, Row, Serving
<1>3. ASSUME Receive(g) PROVE Becomes(g, "track", l.cancelled, l.next, 1, {}, 0)
  <2>1. /\ {} \in SUBSET Clients /\ 1 \in Nat \ {0} /\ 0 \in Nat
        /\ "track" \in Stopped \cup Serving \cup {"created"}
    BY DEF Serving
  <2>2. listener' = [listener EXCEPT ![g] = [l EXCEPT !.pc = "track", !.at = 1, !.stale = {}, !.left = 0]]
    BY <1>3 DEF Receive
  <2> QED BY <1>1, <2>1, <2>2 DEF Becomes, Row
<1>4. ASSUME EndFleet(g)
      PROVE  Becomes(g, "listen", l.cancelled, l.next + 1, l.at, l.stale, l.left)
  <2>1. l.next + 1 \in 0 .. MaxMessages + 1
    BY <1>1, <1>4 DEF EndFleet, Active, Row
  <2> QED BY <1>1, <1>4, <2>1 DEF EndFleet, Becomes, Row, Serving
<1>5. ASSUME Cancelled(g)
      PROVE  /\ Becomes(g, m.pc, l.cancelled, l.next, l.at, l.stale, l.left)
             /\ m.pc \in {"closing", "ended"}
  BY <1>1, <1>5 DEF Cancelled, Becomes, Row, Stopped
<1>6. ASSUME ListenerFails(g)
      PROVE  /\ Becomes(g, m.pc, l.cancelled, l.next, l.at, l.stale, l.left)
             /\ m.pc \in {"closing", "ended"}
  BY <1>1, <1>6 DEF ListenerFails, Becomes, Row, Stopped
<1>7. ASSUME Close(g)
      PROVE  Becomes(g, "ended", l.cancelled, l.next, l.at, l.stale, l.left)
  BY <1>1, <1>7 DEF Close, Becomes, Row, Stopped
<1> QED BY <1>2, <1>3, <1>4, <1>5, <1>6, <1>7

\* The client to which a listener's next send goes, and what the send does.
LEMMA SendSteps ==
  ASSUME BaseInv, NEW g \in Lists, NEW s \in Seq(Clients), SendTo(g, s),
         listener[g].pc \in Serving
  PROVE  LET l == listener[g]
             c == s[l.at]
         IN  /\ l.at \in 1 .. Len(s) /\ c \in Clients
             /\ Becomes(g, l.pc, l.cancelled, l.next, l.at + 1, listener'[g].stale, l.left)
             /\ \/ /\ client[c].alive
                   /\ got' = [got EXCEPT ![c] = Append(@, l.next)]
                   /\ listener'[g].stale = l.stale
                \/ /\ ~ client[c].alive
                   /\ got' = got
                   /\ listener'[g].stale \in {l.stale, l.stale \cup {c}}
<1> DEFINE l == listener[g]
           c == s[l.at]
<1>1. listener \in [Lists -> Row] /\ l \in Row
  BY BaseFacts
<1>2. l.at \in 1 .. Len(s) /\ c \in Clients
  BY <1>1 DEF SendTo, Row
<1>3. PICK S \in SUBSET Clients :
        /\ listener' = [listener EXCEPT ![g].at = @ + 1, ![g].stale = S]
        /\ \/ client[c].alive /\ got' = [got EXCEPT ![c] = Append(@, l.next)] /\ S = l.stale
           \/ ~ client[c].alive /\ got' = got /\ S \in {l.stale, l.stale \cup {c}}
  <2>1. CASE client[c].alive
    <3>1. listener' = [listener EXCEPT ![g].at = @ + 1, ![g].stale = l.stale]
      BY <1>1, <2>1 DEF SendTo, Row
    <3> QED BY <1>1, <2>1, <3>1 DEF SendTo, Row
  <2>2. CASE ~ client[c].alive
    BY <1>1, <1>2, <2>2 DEF SendTo, Row
  <2> QED BY <2>1, <2>2
<1>4. Becomes(g, l.pc, l.cancelled, l.next, l.at + 1, S, l.left) /\ listener'[g].stale = S
  <2>1. listener' = [listener EXCEPT ![g].at = @ + 1, ![g].stale = S]
    BY <1>3
  <2>2. l.at + 1 \in Nat \ {0} /\ S \in SUBSET Clients
    BY <1>1 DEF Row
  <2> QED BY <1>1, <2>1, <2>2 DEF Becomes, Row
<1> QED BY <1>2, <1>3, <1>4

-----------------------------------------------------------------------------
(* Types, and one listener *)

ClientRow == [pc : {"new", "accepting", "refused", "open", "closed"}, alive : BOOLEAN]

LEMMA CardinalityFacts ==
  /\ Cardinality(Trackers) \in Nat
  /\ IsFiniteSet(Started) /\ Cardinality(Started) \in Nat
  /\ IsFiniteSet(Arrived) /\ Cardinality(Arrived) \in Nat
  /\ Cardinality(Arrived) <= Cardinality(Trackers)
<1>1. Arrived \in SUBSET Trackers /\ IsFiniteSet(Trackers)
  BY ConnectionAssumption DEF Arrived
<1>2. /\ IsFiniteSet(Arrived) /\ Cardinality(Arrived) <= Cardinality(Trackers)
      /\ Cardinality(Arrived) \in Nat /\ Cardinality(Trackers) \in Nat
  BY <1>1, FS_Subset, FS_CardinalityType
<1>3. IsFiniteSet(Lists)
  BY <1>2, Segment DEF Lists
<1>4. Started \in SUBSET Lists
  BY DEF Started
<1> QED BY <1>2, <1>3, <1>4, FS_Subset, FS_CardinalityType

LEMMA InitBase == Init => BaseInv
<1> SUFFICES ASSUME Init PROVE BaseInv
  OBVIOUS
<1>1. TypeOK
  <2>1. client \in [Clients -> ClientRow]
    BY DEF Init, ClientRow
  <2>2. listener \in [Lists -> Row]
    BY ConnectionAssumption DEF Init, Row, Stopped
  <2>3. /\ lists \in [Lists -> Seq(Trackers)] /\ fleet \in Seq(Watchers)
        /\ got \in [Clients -> Seq(Messages)]
    BY DEF Init
  <2> QED BY <2>1, <2>2, <2>3, ConnectionAssumption
          DEF Init, TypeOK, ClientRow, Row, Serving
<1>2. ListsOK
  <2>1. Started = {}
    BY DEF Init, Started
  <2>2. Cardinality(Started) = 0
    BY <2>1, FS_EmptySet
  <2>3. Started = 1 .. Cardinality(Started) /\ Cardinality(Started) <= Cardinality(Arrived)
    BY <2>1, <2>2, CardinalityFacts
  <2> QED BY <2>3 DEF Init, ListsOK
<1>3. NextOK /\ ListenerOK
  BY DEF Init, NextOK, ListenerOK, Serving, Stopped
<1> QED BY <1>1, <1>2, <1>3 DEF BaseInv

\* Who serves a list serves the current one.
LEMMA ActiveIsCurrent ==
  ASSUME BaseInv, NEW g \in Lists, NEW pc, Active(g, pc), pc \notin Stopped
  PROVE  g = current /\ lists[g] # <<>> /\ current # 0 /\ entry = g
<1>1. current \in Lists \cup {0} /\ 0 \notin Lists
  BY BaseFacts, CardinalityFacts DEF Lists
<1> QED BY <1>1 DEF BaseInv, ListenerOK, Active

\* A step of handlers that leaves the lists and the listeners alone.
LEMMA ClientBase ==
  ASSUME BaseInv, client' \in [Clients -> ClientRow], fleet' \in Seq(Watchers),
         \A c \in Trackers : client[c].pc \notin {"new", "accepting"} =>
                               client'[c].pc \notin {"new", "accepting"},
         UNCHANGED <<lists, current, entry, listener, published, got, failures>>
  PROVE  BaseInv'
<1>1. TypeOK'
  BY DEF BaseInv, TypeOK, ClientRow
<1>2. ListsOK'
  <2>1. Arrived \in SUBSET Arrived' /\ Started' = Started /\ Arrived' \in SUBSET Trackers
    BY DEF Arrived, Started
  <2>2. Cardinality(Started) <= Cardinality(Arrived) /\ IsFiniteSet(Trackers)
    BY ConnectionAssumption DEF BaseInv, ListsOK
  <2>3. IsFiniteSet(Arrived')
    BY <2>1, <2>2, FS_Subset
  <2>4. Cardinality(Arrived) <= Cardinality(Arrived') /\ Cardinality(Arrived') \in Nat
    BY <2>1, <2>3, FS_Subset, FS_CardinalityType
  <2>5. Cardinality(Started) <= Cardinality(Arrived')
    BY <2>2, <2>4, CardinalityFacts
  <2> QED BY <2>1, <2>5 DEF BaseInv, ListsOK
<1>3. NextOK' /\ ListenerOK'
  BY DEF BaseInv, NextOK, ListenerOK
<1> QED BY <1>1, <1>2, <1>3 DEF BaseInv

\* A step of one listener that leaves the lists and the clients alone.
LEMMA ListenerBase ==
  ASSUME BaseInv, NEW g \in Lists, NEW pc, NEW next, NEW at, NEW stale, NEW left,
         Becomes(g, pc, listener[g].cancelled, next, at, stale, left),
         fleet' \in Seq(Watchers), got' \in [Clients -> Seq(Messages)],
         failures' \in 0 .. MaxFailures, failures' >= failures,
         listener[g].pc # "none", pc # "none",
         pc \in Serving => next \in 1 .. published + 1,
         pc \in {"track", "fleet"} => next <= published,
         g = current => (pc \in Stopped => failures' > 0),
         g # current => (listener[g].pc \in Stopped => pc \in Stopped),
         UNCHANGED <<client, lists, current, entry, published>>
  PROVE  BaseInv'
<1>1. /\ listener' \in [Lists -> Row]
      /\ \A h \in Lists : h # g => listener'[h] = listener[h]
      /\ listener'[g].pc = pc /\ listener'[g].cancelled = listener[g].cancelled
      /\ listener'[g].next = next
  BY DEF Becomes
<1>2. TypeOK'
  BY <1>1 DEF BaseInv, TypeOK, Row, Serving
<1>3. ListsOK'
  <2>1. Started' = Started /\ Arrived' = Arrived
    <3>1. \A h \in Lists : listener'[h].pc # "none" <=> listener[h].pc # "none"
      BY <1>1
    <3> QED BY <3>1 DEF Started, Arrived
  <2>2. \A h \in Lists : listener'[h].pc = "none" => ~ listener'[h].cancelled
    BY <1>1 DEF BaseInv, ListsOK
  <2> QED BY <2>1, <2>2 DEF BaseInv, ListsOK
<1>4. NextOK'
  BY <1>1 DEF BaseInv, NextOK
<1>5. ListenerOK'
  <2>1. /\ failures \in Nat /\ failures' \in Nat
        /\ current \in Lists \cup {0} /\ entry = current
    BY ConnectionAssumption DEF BaseInv, TypeOK, ListenerOK
  <2>2. ASSUME current # 0
        PROVE  /\ lists[current] # <<>>
               /\ listener'[current].pc # "none" /\ ~ listener'[current].cancelled
               /\ listener'[current].pc \in Stopped => failures' > 0
    <3>1. /\ lists[current] # <<>>
          /\ listener[current].pc # "none" /\ ~ listener[current].cancelled
          /\ listener[current].pc \in Stopped => failures > 0
      BY <2>2 DEF BaseInv, ListenerOK
    <3>2. CASE current = g
      BY <1>1, <3>1, <3>2
    <3>3. CASE current # g
      BY <1>1, <2>1, <2>2, <3>1, <3>3
    <3> QED BY <3>2, <3>3
  <2>3. ASSUME NEW h \in Lists, h # current
        PROVE  listener'[h].cancelled \/ listener'[h].pc \in Stopped
    <3>1. listener[h].cancelled \/ listener[h].pc \in Stopped
      BY <2>3 DEF BaseInv, ListenerOK
    <3>2. CASE h = g
      BY <1>1, <2>3, <3>1, <3>2
    <3>3. CASE h # g
      BY <1>1, <3>1, <3>3
    <3> QED BY <3>2, <3>3
  <2> QED BY <2>1, <2>2, <2>3 DEF ListenerOK
<1> QED BY <1>2, <1>3, <1>4, <1>5 DEF BaseInv

LEMMA HandlerBase ==
  ASSUME BaseInv, NEW c \in Clients,
         Connect(c) \/ AcceptFails(c) \/ Drop(c)
           \/ (c \in Watchers /\ (ConnectFleet(c) \/ LeaveFleet(c)))
  PROVE  BaseInv'
<1>1. client \in [Clients -> ClientRow] /\ fleet \in Seq(Watchers) /\ client[c] \in ClientRow
  BY DEF BaseInv, TypeOK, ClientRow
<1>2. client' \in [Clients -> ClientRow]
  <2>1. PICK r \in ClientRow : client' = [client EXCEPT ![c] = r]
    <3>1. CASE Connect(c)
      <4>1. [pc |-> "accepting", alive |-> TRUE] \in ClientRow
        BY DEF ClientRow
      <4> QED BY <3>1, <4>1 DEF Connect
    <3>2. CASE AcceptFails(c)
      <4>1. [pc |-> "refused", alive |-> FALSE] \in ClientRow
        BY DEF ClientRow
      <4> QED BY <3>2, <4>1 DEF AcceptFails
    <3>3. CASE Drop(c)
      <4>1. [client[c] EXCEPT !.alive = FALSE] \in ClientRow
        BY <1>1 DEF ClientRow
      <4> QED BY <3>3, <4>1 DEF Drop
    <3>4. CASE ConnectFleet(c)
      <4>1. [client[c] EXCEPT !.pc = "open"] \in ClientRow
        BY <1>1 DEF ClientRow
      <4> QED BY <3>4, <4>1 DEF ConnectFleet
    <3>5. CASE LeaveFleet(c)
      <4>1. [client[c] EXCEPT !.pc = "closed"] \in ClientRow
        BY <1>1 DEF ClientRow
      <4> QED BY <3>5, <4>1 DEF LeaveFleet
    <3> QED BY <3>1, <3>2, <3>3, <3>4, <3>5
  <2> QED BY <1>1, <2>1
<1>3. fleet' \in Seq(Watchers)
  <2>1. CASE Connect(c) \/ AcceptFails(c) \/ Drop(c) \/ (c \in Watchers /\ ConnectFleet(c))
    BY <1>1, <2>1 DEF Connect, AcceptFails, Drop, ConnectFleet
  <2>2. CASE LeaveFleet(c)
    <3>1. Without(fleet, {c}) \in Seq(Watchers)
      BY <1>1, WithoutFacts
    <3> QED BY <2>2, <3>1 DEF LeaveFleet
  <2> QED BY <2>1, <2>2
<1>4. \A d \in Trackers : client[d].pc \notin {"new", "accepting"} =>
                            client'[d].pc \notin {"new", "accepting"}
  <2> SUFFICES ASSUME NEW d \in Trackers, client[d].pc \notin {"new", "accepting"}
               PROVE  client'[d].pc \notin {"new", "accepting"}
    OBVIOUS
  <2>1. d \in Clients
    BY DEF Clients
  <2> QED BY <1>1, <2>1 DEF Connect, AcceptFails, Drop, ConnectFleet, LeaveFleet, ClientRow
<1>5. UNCHANGED <<lists, current, entry, listener, published, got, failures>>
  BY DEF Connect, AcceptFails, Drop, ConnectFleet, LeaveFleet
<1> QED BY <1>2, <1>3, <1>4, <1>5, ClientBase

\* The clients to which a listener sends.
LEMMA SendBase ==
  ASSUME BaseInv, NEW g \in Lists, SendTrack(g) \/ SendFleet(g)
  PROVE  BaseInv'
<1> DEFINE l == listener[g]
<1>1. PICK s \in {lists[g], fleet} : s \in Seq(Clients) /\ SendTo(g, s)
  <2>1. lists[g] \in Seq(Clients) /\ fleet \in Seq(Clients)
    BY BaseFacts DEF Clients
  <2> QED BY <2>1 DEF SendTrack, SendFleet
<1>2. /\ l.pc \in {"track", "fleet"} /\ ~ l.cancelled
      /\ UNCHANGED <<client, lists, current, entry, fleet, published, failures>>
  BY DEF SendTrack, SendFleet, Active
<1>3. l.pc \in Serving /\ l.pc \notin Stopped /\ l.pc # "none"
  BY <1>2 DEF Serving, Stopped
<1>4. l.next \in 1 .. published + 1 /\ l.next <= published /\ published \in 0 .. MaxMessages
      /\ MaxMessages \in Nat
  BY <1>2, <1>3, BaseFacts DEF BaseInv, NextOK
<1>5. l.next \in Messages
  BY <1>4 DEF Messages
<1>6. /\ Becomes(g, l.pc, l.cancelled, l.next, l.at + 1, listener'[g].stale, l.left)
      /\ got' = got \/ got' = [got EXCEPT ![s[l.at]] = Append(@, l.next)]
      /\ s[l.at] \in Clients
  BY <1>1, <1>3, SendSteps
<1>7. got' \in [Clients -> Seq(Messages)]
  <2>1. got \in [Clients -> Seq(Messages)]
    BY BaseFacts
  <2>2. ASSUME NEW c \in Clients, got' = [got EXCEPT ![c] = Append(@, l.next)]
        PROVE  got' \in [Clients -> Seq(Messages)]
    BY <1>5, <2>1, <2>2
  <2> QED BY <1>6, <2>1, <2>2
<1>8. fleet' \in Seq(Watchers) /\ failures' \in 0 .. MaxFailures /\ failures' >= failures
  BY <1>2, ConnectionAssumption DEF BaseInv, TypeOK
<1> HIDE DEF l
<1> QED BY ZenonT(40), <1>2, <1>3, <1>4, <1>6, <1>7, <1>8, ListenerBase DEF l

LEMMA StepBase ==
  ASSUME BaseInv, NEW g \in Lists,
         Subscribe(g) \/ Receive(g) \/ EndFleet(g) \/ Cancelled(g) \/ ListenerFails(g) \/ Close(g)
  PROVE  BaseInv'
<1> DEFINE l == listener[g]
           m == listener'[g]
<1>1. /\ published \in 0 .. MaxMessages /\ MaxMessages \in Nat
      /\ failures \in 0 .. MaxFailures /\ MaxFailures \in Nat
      /\ fleet \in Seq(Watchers) /\ got \in [Clients -> Seq(Messages)]
  BY BaseFacts, ConnectionAssumption DEF BaseInv, TypeOK
<1>2. /\ l.pc \in Serving => l.next \in 1 .. published + 1
      /\ l.pc \in {"track", "fleet"} => l.next <= published
  BY DEF BaseInv, NextOK
<1>9. g = current => ~ l.cancelled /\ (l.pc \in Stopped => failures > 0)
  <2>1. g # 0
    BY CardinalityFacts DEF Lists
  <2> QED BY <2>1 DEF BaseInv, ListenerOK
<1>3. CASE Subscribe(g)
  <2>1. Becomes(g, "listen", l.cancelled, published + 1, l.at, l.stale, l.left)
    BY <1>3, ListenerSteps
  <2>2. /\ l.pc = "created"
        /\ UNCHANGED <<client, lists, current, entry, fleet, published, got, failures>>
    BY <1>3 DEF Subscribe, Active
  <2>3. /\ l.pc # "none" /\ "listen" # "none"
        /\ "listen" \in Serving => published + 1 \in 1 .. published + 1
        /\ "listen" \in {"track", "fleet"} => published + 1 <= published
        /\ g = current => ("listen" \in Stopped => failures' > 0)
        /\ g # current => (l.pc \in Stopped => "listen" \in Stopped)
        /\ fleet' \in Seq(Watchers) /\ got' \in [Clients -> Seq(Messages)]
        /\ failures' \in 0 .. MaxFailures /\ failures' >= failures
    BY <1>1, <1>2, <2>2 DEF Stopped, Serving
  <2> HIDE DEF l
  <2> QED BY <2>1, <2>2, <2>3, ListenerBase DEF l
<1>4. CASE Receive(g)
  <2>1. Becomes(g, "track", l.cancelled, l.next, 1, {}, 0)
    BY <1>4, ListenerSteps
  <2>2. /\ l.pc = "listen" /\ l.next <= published
        /\ UNCHANGED <<client, lists, current, entry, fleet, published, got, failures>>
    BY <1>4 DEF Receive, Active
  <2>3. /\ l.pc # "none" /\ "track" # "none"
        /\ "track" \in Serving => l.next \in 1 .. published + 1
        /\ "track" \in {"track", "fleet"} => l.next <= published
        /\ g = current => ("track" \in Stopped => failures' > 0)
        /\ g # current => (l.pc \in Stopped => "track" \in Stopped)
        /\ fleet' \in Seq(Watchers) /\ got' \in [Clients -> Seq(Messages)]
        /\ failures' \in 0 .. MaxFailures /\ failures' >= failures
    BY <1>1, <1>2, <2>2 DEF Stopped, Serving
  <2> HIDE DEF l
  <2> QED BY <2>1, <2>2, <2>3, ListenerBase DEF l
<1>5. CASE EndFleet(g)
  <2>1. Becomes(g, "listen", l.cancelled, l.next + 1, l.at, l.stale, l.left)
    BY <1>5, ListenerSteps
  <2>2. /\ l.pc = "fleet" /\ fleet' = Without(fleet, l.stale)
        /\ UNCHANGED <<client, lists, current, entry, published, got, failures>>
    BY <1>5 DEF EndFleet, Active
  <2>3. fleet' \in Seq(Watchers)
    BY <1>1, <2>2, WithoutFacts
  <2>4. l.next + 1 \in 1 .. published + 1
    BY <1>1, <1>2, <2>2 DEF Serving
  <2>5. /\ l.pc # "none" /\ "listen" # "none"
        /\ "listen" \in Serving => l.next + 1 \in 1 .. published + 1
        /\ "listen" \in {"track", "fleet"} => l.next + 1 <= published
        /\ g = current => ("listen" \in Stopped => failures' > 0)
        /\ g # current => (l.pc \in Stopped => "listen" \in Stopped)
        /\ fleet' \in Seq(Watchers) /\ got' \in [Clients -> Seq(Messages)]
        /\ failures' \in 0 .. MaxFailures /\ failures' >= failures
    BY <1>1, <2>2, <2>3, <2>4 DEF Stopped, Serving
  <2> HIDE DEF l
  <2> QED BY <2>1, <2>2, <2>5, ListenerBase DEF l
<1>6. CASE Cancelled(g)
  <2>1. /\ Becomes(g, m.pc, l.cancelled, l.next, l.at, l.stale, l.left)
        /\ m.pc \in {"closing", "ended"}
    BY <1>6, ListenerSteps
  <2>2. /\ l.cancelled /\ l.pc \notin Stopped
        /\ UNCHANGED <<client, lists, current, entry, fleet, published, got, failures>>
    BY <1>6 DEF Cancelled
  <2> HIDE DEF l, m
  <2>3. /\ l.pc # "none" /\ m.pc # "none"
        /\ m.pc \in Serving => l.next \in 1 .. published + 1
        /\ m.pc \in {"track", "fleet"} => l.next <= published
        /\ g = current => (m.pc \in Stopped => failures' > 0)
        /\ g # current => (l.pc \in Stopped => m.pc \in Stopped)
        /\ fleet' \in Seq(Watchers) /\ got' \in [Clients -> Seq(Messages)]
        /\ failures' \in 0 .. MaxFailures /\ failures' >= failures
    BY <1>1, <1>9, <2>1, <2>2 DEF Stopped, Serving
  <2> QED BY <2>1, <2>2, <2>3, ListenerBase DEF l
<1>7. CASE ListenerFails(g)
  <2>1. /\ Becomes(g, m.pc, l.cancelled, l.next, l.at, l.stale, l.left)
        /\ m.pc \in {"closing", "ended"}
    BY <1>7, ListenerSteps
  <2>2. /\ l.pc \in {"created", "listen"} /\ failures < MaxFailures /\ failures' = failures + 1
        /\ UNCHANGED <<client, lists, current, entry, fleet, published, got>>
    BY <1>7 DEF ListenerFails, Active
  <2> HIDE DEF l, m
  <2>3. /\ l.pc # "none" /\ m.pc # "none"
        /\ m.pc \in Serving => l.next \in 1 .. published + 1
        /\ m.pc \in {"track", "fleet"} => l.next <= published
        /\ g = current => (m.pc \in Stopped => failures' > 0)
        /\ g # current => (l.pc \in Stopped => m.pc \in Stopped)
        /\ fleet' \in Seq(Watchers) /\ got' \in [Clients -> Seq(Messages)]
        /\ failures' \in 0 .. MaxFailures /\ failures' >= failures
    BY <1>1, <2>1, <2>2 DEF Stopped, Serving
  <2> QED BY <2>1, <2>2, <2>3, ListenerBase DEF l
<1>8. CASE Close(g)
  <2>1. Becomes(g, "ended", l.cancelled, l.next, l.at, l.stale, l.left)
    BY <1>8, ListenerSteps
  <2>2. /\ l.pc = "closing"
        /\ UNCHANGED <<client, lists, current, entry, fleet, published, got, failures>>
    BY <1>8 DEF Close
  <2>3. /\ l.pc # "none" /\ "ended" # "none"
        /\ "ended" \in Serving => l.next \in 1 .. published + 1
        /\ "ended" \in {"track", "fleet"} => l.next <= published
        /\ g = current => ("ended" \in Stopped => failures' > 0)
        /\ g # current => (l.pc \in Stopped => "ended" \in Stopped)
        /\ fleet' \in Seq(Watchers) /\ got' \in [Clients -> Seq(Messages)]
        /\ failures' \in 0 .. MaxFailures /\ failures' >= failures
    BY <1>1, <1>9, <2>2 DEF Stopped, Serving
  <2> HIDE DEF l
  <2> QED BY <2>1, <2>2, <2>3, ListenerBase DEF l
<1> QED BY <1>3, <1>4, <1>5, <1>6, <1>7, <1>8

-----------------------------------------------------------------------------
(* The steps that change the lists *)

\* The handler of c goes on to pc; its connection is what it was.
Turns(c, pc) ==
  /\ client' \in [Clients -> ClientRow]
  /\ client'[c].pc = pc /\ client'[c].alive = client[c].alive
  /\ \A d \in Clients : d # c => client'[d] = client[d]

LEMMA TurnsFact ==
  ASSUME BaseInv, NEW c \in Clients, NEW pc \in {"open", "closed"},
         client' = [client EXCEPT ![c].pc = pc]
  PROVE  Turns(c, pc)
<1>1. client \in [Clients -> ClientRow] /\ client[c] \in ClientRow
  BY DEF BaseInv, TypeOK, ClientRow
<1>2. [client[c] EXCEPT !.pc = pc] \in ClientRow
  BY <1>1 DEF ClientRow
<1>3. client'[c] = [client[c] EXCEPT !.pc = pc] /\ client' \in [Clients -> ClientRow]
  BY <1>1, <1>2
<1>4. \A d \in Clients : d # c => client'[d] = client[d]
  BY <1>1
<1>5. client'[c].pc = pc /\ client'[c].alive = client[c].alive
  BY <1>1, <1>3 DEF ClientRow
<1> QED BY <1>3, <1>4, <1>5 DEF Turns

\* A tracker that was accepted but not registered finds room for a list.
LEMMA RoomForList ==
  ASSUME BaseInv, NEW c \in Trackers, client[c].pc = "accepting"
  PROVE  /\ Unused = Cardinality(Started) + 1 /\ Unused \in Lists
         /\ listener[Unused].pc = "none"
<1> DEFINE n == Cardinality(Started)
<1>1. Unused = n + 1
  BY DEF Unused, Started
<1>2. Arrived \cup {c} \in SUBSET Trackers /\ c \notin Arrived
  BY DEF Arrived
<1>3. Cardinality(Arrived \cup {c}) = Cardinality(Arrived) + 1
  BY <1>2, CardinalityFacts, FS_AddElement
<1>4. Cardinality(Arrived \cup {c}) <= Cardinality(Trackers)
  BY <1>2, ConnectionAssumption, FS_Subset
<1>5. n <= Cardinality(Arrived) /\ Started = 1 .. n
  BY DEF BaseInv, ListsOK
<1>6. n \in Nat /\ Cardinality(Arrived) \in Nat /\ Cardinality(Trackers) \in Nat
  BY CardinalityFacts
<1> HIDE DEF n
<1>7. n + 1 \in 1 .. Cardinality(Trackers)
  BY <1>3, <1>4, <1>5, <1>6
<1>8. n + 1 \in Lists /\ n + 1 \notin Started
  BY <1>5, <1>6, <1>7 DEF Lists
<1> QED BY <1>1, <1>8 DEF Started, n

LEMMA ConnectTrackSteps ==
  ASSUME BaseInv, NEW c \in Trackers, ConnectTrack(c)
  PROVE  /\ client[c].pc = "accepting" /\ Turns(c, "open")
         /\ current' \in Lists /\ entry' = current'
         /\ lists' \in [Lists -> Seq(Trackers)]
         /\ lists'[current'] = Append(lists[current'], c)
         /\ \A h \in Lists : h # current' => lists'[h] = lists[h]
         /\ current # 0 => current' = current /\ listener' = listener
         /\ current = 0 =>
              LET l == listener[current']
              IN  /\ current' = Cardinality(Started) + 1
                  /\ l.pc = "none" /\ ~ l.cancelled /\ lists[current'] = <<>>
                  /\ Becomes(current', "created", FALSE, l.next, l.at, l.stale, l.left)
         /\ UNCHANGED <<fleet, published, got, failures>>
<1> DEFINE g == IF current = 0 THEN Unused ELSE current
           l == listener[g]
<1>1. /\ listener \in [Lists -> Row] /\ lists \in [Lists -> Seq(Trackers)]
      /\ current \in Lists \cup {0} /\ entry = current
  BY BaseFacts
<1>2. c \in Clients /\ client[c].pc = "accepting" /\ client' = [client EXCEPT ![c].pc = "open"]
  BY DEF ConnectTrack, Clients
<1>3. Turns(c, "open")
  BY <1>2, TurnsFact
<1>4. current = 0 => /\ Unused = Cardinality(Started) + 1 /\ Unused \in Lists
                     /\ listener[Unused].pc = "none"
  BY <1>2, RoomForList
<1>5. /\ current' = g /\ lists' = [lists EXCEPT ![g] = Append(@, c)]
      /\ IF Len(lists'[g]) = 1
         THEN entry' = g /\ listener' = [listener EXCEPT ![g].pc = "created"]
         ELSE UNCHANGED <<entry, listener>>
      /\ UNCHANGED <<fleet, published, got, failures>>
  BY DEF ConnectTrack
<1>6. g \in Lists /\ 0 \notin Lists
  BY <1>1, <1>4, CardinalityFacts DEF Lists
<1>7. CASE current = 0
  <2>1. g = Unused /\ g # current
    BY <1>6, <1>7
  <2>2. lists[g] = <<>>
    BY <1>6, <2>1 DEF BaseInv, ListsOK
  <2>3. l.pc = "none" /\ ~ l.cancelled /\ g = Cardinality(Started) + 1
    BY <1>4, <1>6, <1>7, <2>1 DEF BaseInv, ListsOK
  <2> HIDE DEF g
  <2>4. lists'[g] = Append(lists[g], c) /\ lists' \in [Lists -> Seq(Trackers)]
        /\ \A h \in Lists : h # g => lists'[h] = lists[h]
    BY <1>1, <1>5, <1>6
  <2>5. Len(lists'[g]) = 1
    BY <2>2, <2>4
  <2>6. entry' = g /\ listener' = [listener EXCEPT ![g].pc = "created"]
    BY <1>5, <2>5
  <2>7. Becomes(g, "created", FALSE, l.next, l.at, l.stale, l.left)
    <3>1. l \in Row /\ l.cancelled = FALSE
      BY <1>1, <1>6, <2>3 DEF Row
    <3> QED BY <1>1, <1>6, <2>6, <3>1 DEF Becomes, Row
  <2> QED BY <1>2, <1>3, <1>5, <1>6, <1>7, <2>2, <2>3, <2>4, <2>6, <2>7
<1>8. CASE current # 0
  <2>1. g = current /\ lists[g] # <<>>
    BY <1>8 DEF BaseInv, ListenerOK
  <2> HIDE DEF g
  <2>4. lists'[g] = Append(lists[g], c) /\ lists' \in [Lists -> Seq(Trackers)]
        /\ \A h \in Lists : h # g => lists'[h] = lists[h]
    BY <1>1, <1>5, <1>6
  <2>5. Len(lists'[g]) # 1
    <3>1. lists[g] \in Seq(Trackers)
      BY <1>1, <1>6
    <3> QED BY <2>1, <2>4, <3>1
  <2>6. entry' = entry /\ listener' = listener
    BY <1>5, <2>5
  <2> QED BY <1>1, <1>2, <1>3, <1>5, <1>6, <1>8, <2>1, <2>4, <2>6
<1> QED BY <1>7, <1>8

LEMMA LeaveTrackSteps ==
  ASSUME BaseInv, NEW c \in Trackers, LeaveTrack(c)
  PROVE  /\ client[c].pc = "open" /\ ~ client[c].alive /\ Turns(c, "closed")
         /\ current = 0 => UNCHANGED <<lists, current, entry, listener>>
         /\ current # 0 =>
              LET rest == Without(lists[current], {c})
                  l    == listener[current]
                  gone == Len(lists[current]) - Len(rest)
              IN  /\ lists' \in [Lists -> Seq(Trackers)] /\ lists'[current] = rest
                  /\ \A h \in Lists : h # current => lists'[h] = lists[h]
                  /\ gone \in Nat
                  /\ rest = <<>> =>
                       /\ current' = 0 /\ entry' = 0
                       /\ Becomes(current, l.pc, TRUE, l.next, l.at, l.stale, l.left)
                  /\ rest # <<>> =>
                       /\ current' = current /\ entry' = entry
                       /\ Becomes(current, l.pc, l.cancelled, l.next, l.at, l.stale, l.left + gone)
         /\ UNCHANGED <<fleet, published, got, failures>>
<1>1. /\ listener \in [Lists -> Row] /\ lists \in [Lists -> Seq(Trackers)]
      /\ current \in Lists \cup {0} /\ entry = current
  BY BaseFacts
<1>2. /\ c \in Clients /\ client[c].pc = "open" /\ ~ client[c].alive
      /\ client' = [client EXCEPT ![c].pc = "closed"]
      /\ UNCHANGED <<fleet, published, got, failures>>
  BY DEF LeaveTrack, Clients
<1>3. Turns(c, "closed")
  BY <1>2, TurnsFact
<1>4. CASE current = 0
  BY <1>2, <1>3, <1>4 DEF LeaveTrack
<1>5. CASE current # 0
  <2> DEFINE rest == Without(lists[current], {c})
             l    == listener[current]
             gone == Len(lists[current]) - Len(rest)
  <2>1. current \in Lists /\ lists[current] \in Seq(Trackers) /\ l \in Row
    BY <1>1, <1>5
  <2>2. rest \in Seq(Trackers) /\ Len(rest) <= Len(lists[current])
    BY <2>1, WithoutFacts
  <2>3. /\ lists' = [lists EXCEPT ![current] = rest]
        /\ IF rest = <<>>
           THEN /\ current' = 0 /\ entry' = 0
                /\ listener' = [listener EXCEPT ![entry].cancelled = TRUE]
           ELSE /\ listener' = [listener EXCEPT ![current].left = @ + gone]
                /\ UNCHANGED <<current, entry>>
    BY <1>5 DEF LeaveTrack
  <2> HIDE DEF rest
  <2>4. gone \in Nat
    BY <2>1, <2>2
  <2> HIDE DEF gone
  <2>5. /\ lists' \in [Lists -> Seq(Trackers)] /\ lists'[current] = rest
        /\ \A h \in Lists : h # current => lists'[h] = lists[h]
    BY <1>1, <2>1, <2>2, <2>3
  <2>6. ASSUME rest = <<>>
        PROVE  /\ current' = 0 /\ entry' = 0
               /\ Becomes(current, l.pc, TRUE, l.next, l.at, l.stale, l.left)
    <3>1. /\ current' = 0 /\ entry' = 0
          /\ listener' = [listener EXCEPT ![current].cancelled = TRUE]
      BY <1>1, <2>3, <2>6
    <3> QED BY <1>1, <2>1, <3>1 DEF Becomes, Row
  <2>7. ASSUME rest # <<>>
        PROVE  /\ current' = current /\ entry' = entry
               /\ Becomes(current, l.pc, l.cancelled, l.next, l.at, l.stale, l.left + gone)
    <3>1. /\ current' = current /\ entry' = entry
          /\ listener' = [listener EXCEPT ![current].left = @ + gone]
      BY <2>3, <2>7
    <3>2. l.left + gone \in Nat
      BY <2>1, <2>4 DEF Row
    <3> QED BY <1>1, <2>1, <3>1, <3>2 DEF Becomes, Row
  <2> QED BY <1>2, <1>3, <1>5, <2>4, <2>5, <2>6, <2>7 DEF rest, gone
<1> QED BY <1>4, <1>5

\* The messages of a span, one after the other.
LEMMA SpanFacts ==
  ASSUME NEW i \in Nat \ {0}, NEW j \in i - 1 .. published, published \in 0 .. MaxMessages
  PROVE  /\ Span(i, j) \in Seq(Messages) /\ Span(i, j) \in Seq(Nat)
         /\ Len(Span(i, j)) = (j + 1) - i /\ (j + 1) - i \in Nat
         /\ \A k \in 1 .. (j + 1) - i : Span(i, j)[k] = i + k - 1
<1> DEFINE N == (j + 1) - i
<1>1. N \in Nat /\ MaxMessages \in Nat
  BY ConnectionAssumption
<1>2. \A k \in 1 .. N : i + k - 1 \in Messages /\ i + k - 1 \in Nat
  BY <1>1 DEF Messages
<1>3. Span(i, j) = [k \in 1 .. N |-> i + k - 1]
  BY DEF Span
<1> HIDE DEF N
<1>4. Span(i, j) \in [1 .. N -> Messages] /\ Span(i, j) \in [1 .. N -> Nat]
  BY <1>2, <1>3
<1>5. Span(i, j) \in Seq(Messages) /\ Span(i, j) \in Seq(Nat) /\ Len(Span(i, j)) = N
  <2>1. ASSUME NEW T, NEW f \in [1 .. N -> T] PROVE f \in Seq(T)
    BY <1>1
  <2>2. ASSUME NEW f, f \in Seq(Nat), f \in [1 .. N -> Nat] PROVE Len(f) = N
    <3>1. DOMAIN f = 1 .. Len(f) /\ Len(f) \in Nat /\ DOMAIN f = 1 .. N
      BY <2>2
    <3> QED BY <1>1, <3>1, Segment
  <2> QED BY <1>4, <2>1, <2>2
<1>6. \A k \in 1 .. N : Span(i, j)[k] = i + k - 1
  BY <1>3
<1> QED BY <1>1, <1>5, <1>6 DEF N

LEMMA EndTrackSteps ==
  ASSUME BaseInv, NEW g \in Lists, EndTrack(g)
  PROVE  LET l    == listener[g]
             rest == Without(lists[g], l.stale)
         IN  /\ g = current /\ current # 0
             /\ l.pc = "track" /\ ~ l.cancelled /\ l.at > Len(lists[g])
             /\ l.next \in 1 .. published
             /\ lists' \in [Lists -> Seq(Trackers)] /\ lists'[g] = rest
             /\ \A h \in Lists : h # g => lists'[h] = lists[h]
             /\ rest # <<>> =>
                  /\ UNCHANGED <<current, entry, fleet, got>>
                  /\ Becomes(g, "fleet", l.cancelled, l.next, 1, {}, l.left)
             /\ rest = <<>> =>
                  /\ current' = 0 /\ entry' = 0
                  /\ Becomes(g, "closing", TRUE, l.next, l.at, l.stale, l.left)
                  /\ got' \in [Clients -> Seq(Messages)]
                  /\ \A c \in Clients :
                       \/ got'[c] = got[c]
                       \/ c \in Elements(fleet)
                          /\ \E m \in l.next - 1 .. published :
                               got'[c] = got[c] \o Span(l.next, m)
                  /\ \E S : (\A c \in S : ~ client[c].alive) /\ fleet' = Without(fleet, S)
             /\ fleet' \in Seq(Watchers)
             /\ UNCHANGED <<client, published, failures>>
<1> DEFINE l    == listener[g]
           rest == Without(lists[g], l.stale)
<1>1. /\ listener \in [Lists -> Row] /\ lists \in [Lists -> Seq(Trackers)] /\ l \in Row
      /\ lists[g] \in Seq(Trackers) /\ entry = current /\ fleet \in Seq(Watchers)
      /\ got \in [Clients -> Seq(Messages)] /\ published \in 0 .. MaxMessages /\ MaxMessages \in Nat
  BY BaseFacts
<1>2. /\ Active(g, "track") /\ l.at > Len(lists[g])
      /\ lists' = [lists EXCEPT ![g] = rest]
      /\ IF rest # <<>>
         THEN /\ listener' = [listener EXCEPT ![g].pc = "fleet", ![g].at = 1, ![g].stale = {}]
              /\ UNCHANGED <<current, entry, fleet, got>>
         ELSE /\ current' = 0 /\ entry' = 0
              /\ listener' = [listener EXCEPT ![g].pc = "closing", ![g].cancelled = TRUE]
              /\ RunOut(g)
      /\ UNCHANGED <<client, published, failures>>
  BY DEF EndTrack
<1>3. l.pc = "track" /\ ~ l.cancelled /\ g = current /\ current # 0
  <2>1. "track" \notin Stopped
    BY DEF Stopped
  <2> QED BY <1>2, <2>1, ActiveIsCurrent DEF Active
<1>4. l.next \in 1 .. published /\ l.next \in Messages
  BY <1>1, <1>3 DEF BaseInv, NextOK, Serving, Messages
<1>5. rest \in Seq(Trackers)
  BY <1>1, WithoutFacts
<1> HIDE DEF rest
<1>6. /\ lists' \in [Lists -> Seq(Trackers)] /\ lists'[g] = rest
      /\ \A h \in Lists : h # g => lists'[h] = lists[h]
  BY <1>1, <1>2, <1>5
<1>7. ASSUME rest # <<>>
      PROVE  /\ UNCHANGED <<current, entry, fleet, got>>
             /\ Becomes(g, "fleet", l.cancelled, l.next, 1, {}, l.left)
  <2>1. /\ UNCHANGED <<current, entry, fleet, got>>
        /\ listener' = [listener EXCEPT ![g].pc = "fleet", ![g].at = 1, ![g].stale = {}]
    BY <1>2, <1>7
  <2>2. {} \in SUBSET Clients /\ 1 \in Nat \ {0} /\ "fleet" \in Stopped \cup Serving \cup {"created"}
    BY DEF Serving
  <2> QED BY <1>1, <2>1, <2>2 DEF Becomes, Row
<1>8. ASSUME rest = <<>>
      PROVE  /\ current' = 0 /\ entry' = 0
             /\ Becomes(g, "closing", TRUE, l.next, l.at, l.stale, l.left)
             /\ got' \in [Clients -> Seq(Messages)]
             /\ \A c \in Clients :
                  \/ got'[c] = got[c]
                  \/ c \in Elements(fleet)
                     /\ \E m \in l.next - 1 .. published : got'[c] = got[c] \o Span(l.next, m)
             /\ \E S : (\A c \in S : ~ client[c].alive) /\ fleet' = Without(fleet, S)
             /\ fleet' \in Seq(Watchers)
  <2>1. /\ current' = 0 /\ entry' = 0 /\ RunOut(g)
        /\ listener' = [listener EXCEPT ![g].pc = "closing", ![g].cancelled = TRUE]
    BY <1>2, <1>8
  <2>2. Becomes(g, "closing", TRUE, l.next, l.at, l.stale, l.left)
    <3>1. "closing" \in Stopped \cup Serving \cup {"created"}
      BY DEF Stopped
    <3> QED BY <1>1, <2>1, <3>1 DEF Becomes, Row
  <2>3. PICK last \in l.next .. published, n \in 0 .. Len(fleet) :
          /\ got' = [c \in Clients |->
               IF ~ client[c].alive \/ c \notin Elements(fleet) THEN got[c]
               ELSE IF c \in Elements(SubSeq(fleet, 1, n)) THEN got[c] \o Span(l.next, last)
               ELSE got[c] \o Span(l.next, last - 1)]
          /\ \E S \in SUBSET {c \in Elements(fleet) : ~ client[c].alive} :
               fleet' = Without(fleet, S)
    BY <2>1 DEF RunOut
  <2>4. /\ last \in l.next - 1 .. published /\ last - 1 \in l.next - 1 .. published
        /\ l.next \in Nat \ {0}
    BY <1>1, <1>4
  <2> DEFINE P(c) == c \in Elements(SubSeq(fleet, 1, n))
  <2> HIDE DEF P
  <2>5. ASSUME NEW c \in Clients
        PROVE  \/ got'[c] = got[c]
               \/ c \in Elements(fleet)
                  /\ \E m \in l.next - 1 .. published : got'[c] = got[c] \o Span(l.next, m)
    <3>1. got'[c] = IF ~ client[c].alive \/ c \notin Elements(fleet) THEN got[c]
                    ELSE IF P(c) THEN got[c] \o Span(l.next, last)
                    ELSE got[c] \o Span(l.next, last - 1)
      BY <2>3 DEF P
    <3>2. CASE ~ client[c].alive \/ c \notin Elements(fleet)
      BY <3>1, <3>2
    <3>3. CASE ~ (~ client[c].alive \/ c \notin Elements(fleet)) /\ P(c)
      BY <2>4, <3>1, <3>3
    <3>4. CASE ~ (~ client[c].alive \/ c \notin Elements(fleet)) /\ ~ P(c)
      BY <2>4, <3>1, <3>4
    <3> QED BY <3>2, <3>3, <3>4
  <2>6. ASSUME NEW c \in Clients PROVE got'[c] \in Seq(Messages)
    <3>1. got[c] \in Seq(Messages)
      BY <1>1
    <3>2. \A m \in l.next - 1 .. published : got[c] \o Span(l.next, m) \in Seq(Messages)
      <4>1. /\ l.next \in Nat \ {0} /\ published \in 0 .. MaxMessages
            /\ \A m \in l.next - 1 .. published : Span(l.next, m) \in Seq(Messages)
        BY <1>1, <2>4, SpanFacts
      <4> QED BY <3>1, <4>1
    <3>3. CASE got'[c] = got[c]
      BY <3>1, <3>3
    <3>4. CASE \E m \in l.next - 1 .. published : got'[c] = got[c] \o Span(l.next, m)
      <4>1. PICK m \in l.next - 1 .. published : got'[c] = got[c] \o Span(l.next, m)
        BY <3>4
      <4>2. got[c] \o Span(l.next, m) \in Seq(Messages)
        BY <3>2
      <4> QED BY <4>1, <4>2
    <3> QED BY <2>5, <3>3, <3>4
  <2>7. got' = [c \in Clients |-> got'[c]]
    BY <2>3
  <2>8. got' \in [Clients -> Seq(Messages)]
    BY <2>6, <2>7
  <2>9. PICK S \in SUBSET {c \in Elements(fleet) : ~ client[c].alive} : fleet' = Without(fleet, S)
    BY <2>3
  <2>10. fleet' \in Seq(Watchers) /\ \A c \in S : ~ client[c].alive
    BY <1>1, <2>9, WithoutFacts
  <2> QED BY <2>1, <2>2, <2>5, <2>8, <2>9, <2>10
<1>9. fleet' \in Seq(Watchers)
  BY <1>1, <1>7, <1>8
<1> QED BY <1>2, <1>3, <1>4, <1>6, <1>7, <1>8, <1>9 DEF rest

LEMMA ConnectTrackBase ==
  ASSUME BaseInv, NEW c \in Trackers, ConnectTrack(c)
  PROVE  BaseInv'
<1> DEFINE g == current'
<1>1. /\ client[c].pc = "accepting" /\ Turns(c, "open")
      /\ g \in Lists /\ entry' = g
      /\ lists' \in [Lists -> Seq(Trackers)]
      /\ lists'[g] = Append(lists[g], c)
      /\ \A h \in Lists : h # g => lists'[h] = lists[h]
      /\ current # 0 => g = current /\ listener' = listener
      /\ current = 0 => /\ g = Cardinality(Started) + 1
                        /\ listener[g].pc = "none"
                        /\ \E n, a, st, lf : Becomes(g, "created", FALSE, n, a, st, lf)
      /\ UNCHANGED <<fleet, published, got, failures>>
  BY ConnectTrackSteps
<1>2. c \in Clients /\ g # 0 /\ 0 \notin Lists
  BY <1>1, CardinalityFacts DEF Clients, Lists
<1>3. /\ listener \in [Lists -> Row] /\ lists \in [Lists -> Seq(Trackers)]
      /\ current \in Lists \cup {0}
  BY BaseFacts
<1>4. /\ listener' \in [Lists -> Row]
      /\ \A h \in Lists : h # g => listener'[h] = listener[h]
      /\ current = 0 => listener'[g].pc = "created" /\ ~ listener'[g].cancelled
  BY <1>1, <1>3 DEF Becomes
<1>5. TypeOK'
  <2>1. client' \in [Clients -> ClientRow]
    BY <1>1 DEF Turns
  <2> QED BY <1>1, <1>4, <2>1 DEF BaseInv, TypeOK, ClientRow, Row, Serving
<1>6. Arrived' = Arrived \cup {c} /\ c \notin Arrived
  <2>1. \A d \in Trackers : d \in Clients
    BY DEF Clients
  <2> QED BY <1>1, <1>2, <2>1 DEF Arrived, Turns
<1>7. Cardinality(Arrived') = Cardinality(Arrived) + 1
  BY <1>6, CardinalityFacts, FS_AddElement
<1>8. Started' = 1 .. Cardinality(Started') /\ Cardinality(Started') <= Cardinality(Arrived')
  <2>1. /\ Started = 1 .. Cardinality(Started) /\ Cardinality(Started) <= Cardinality(Arrived)
        /\ Cardinality(Started) \in Nat /\ Cardinality(Arrived) \in Nat
    BY CardinalityFacts DEF BaseInv, ListsOK
  <2>2. CASE current # 0
    <3>1. Started' = Started
      BY <1>1, <2>2 DEF Started
    <3> QED BY <1>7, <2>1, <3>1
  <2>3. CASE current = 0
    <3>1. Started' = Started \cup {g}
      BY <1>1, <1>4, <2>3 DEF Started
    <3>2. g \notin Started
      BY <1>1, <2>3 DEF Started
    <3>3. Cardinality(Started') = Cardinality(Started) + 1
      BY <3>1, <3>2, CardinalityFacts, FS_AddElement
    <3> DEFINE n == Cardinality(Started)
    <3>4. n \in Nat /\ Started = 1 .. n /\ g = n + 1
      BY <1>1, <2>1, <2>3
    <3> HIDE DEF n
    <3>5. Started' = 1 .. n + 1
      BY <3>1, <3>4
    <3>6. Started' = 1 .. Cardinality(Started')
      BY <3>3, <3>5 DEF n
    <3> QED BY <1>7, <2>1, <3>3, <3>6
  <2> QED BY <2>2, <2>3
<1>9. ListsOK'
  <2>1. ASSUME NEW h \in Lists, h # g PROVE lists'[h] = <<>>
    <3>1. h # current
      BY <1>1, <1>2, <2>1
    <3> QED BY <1>1, <2>1, <3>1 DEF BaseInv, ListsOK
  <2>2. \A h \in Lists : listener'[h].pc = "none" => ~ listener'[h].cancelled
    <3>1. CASE current = 0
      BY <1>4, <3>1 DEF BaseInv, ListsOK
    <3>2. CASE current # 0
      BY <1>1, <3>2 DEF BaseInv, ListsOK
    <3> QED BY <3>1, <3>2
  <2> QED BY <1>8, <2>1, <2>2 DEF ListsOK
<1>10. NextOK'
  <2>1. CASE current = 0
    BY <1>1, <1>4, <2>1 DEF BaseInv, NextOK, Serving
  <2>2. CASE current # 0
    BY <1>1, <2>2 DEF BaseInv, NextOK
  <2> QED BY <2>1, <2>2
<1>11. ListenerOK'
  <2>1. lists'[g] # <<>>
    <3>1. lists[g] \in Seq(Trackers)
      BY <1>1, <1>3
    <3> QED BY <1>1, <3>1
  <2>2. CASE current = 0
    <3>1. ASSUME NEW h \in Lists, h # g
          PROVE  listener'[h].cancelled \/ listener'[h].pc \in Stopped
      <4>1. h # current
        BY <1>2, <2>2
      <4> QED BY <1>4, <3>1, <4>1 DEF BaseInv, ListenerOK
    <3>2. "created" \notin Stopped /\ "created" # "none"
      BY DEF Stopped
    <3> QED BY <1>1, <1>4, <2>1, <2>2, <3>1, <3>2 DEF ListenerOK
  <2>3. CASE current # 0
    BY <1>1, <1>2, <2>1, <2>3 DEF BaseInv, ListenerOK
  <2> QED BY <2>2, <2>3
<1> QED BY <1>5, <1>9, <1>10, <1>11 DEF BaseInv

\* A list loses members: it is still served if some are left, else its listener
\* is cancelled.
LEMMA ShrinkBase ==
  ASSUME BaseInv, NEW g \in Lists, g = current, NEW pc, NEW cancelled, NEW next, NEW at,
         NEW stale, NEW left,
         Becomes(g, pc, cancelled, next, at, stale, left),
         lists' \in [Lists -> Seq(Trackers)],
         \A h \in Lists : h # g => lists'[h] = lists[h],
         lists'[g] # <<>> => current' = current /\ entry' = entry /\ ~ cancelled,
         lists'[g] = <<>> => current' = 0 /\ entry' = 0 /\ cancelled,
         pc = listener[g].pc \/ pc = "fleet" \/ (pc = "closing" /\ lists'[g] = <<>>),
         pc \in Serving => listener[g].pc \in Serving /\ next = listener[g].next,
         pc \in {"track", "fleet"} => next <= published,
         client' \in [Clients -> ClientRow], got' \in [Clients -> Seq(Messages)],
         \A c \in Trackers : client[c].pc \notin {"new", "accepting"} =>
                               client'[c].pc \notin {"new", "accepting"},
         fleet' \in Seq(Watchers), UNCHANGED <<published, failures>>
  PROVE  BaseInv'
<1>1. /\ listener' \in [Lists -> Row]
      /\ \A h \in Lists : h # g => listener'[h] = listener[h]
      /\ listener'[g].pc = pc /\ listener'[g].cancelled = cancelled
      /\ listener'[g].next = next
  BY DEF Becomes
<1>2. /\ current # 0 /\ entry = current /\ 0 \notin Lists
      /\ listener[g].pc # "none" /\ ~ listener[g].cancelled
      /\ listener[g].pc \in Stopped => failures > 0
      /\ \A h \in Lists : h # g => listener[h].cancelled \/ listener[h].pc \in Stopped
  <2>1. 0 \notin Lists
    BY CardinalityFacts DEF Lists
  <2> QED BY <2>1 DEF BaseInv, ListenerOK
<1>3. pc # "none"
  BY <1>2
<1>4. TypeOK'
  BY <1>1, <1>2 DEF BaseInv, TypeOK, ClientRow, Row, Serving
<1>5. ListsOK'
  <2>1. Started' = Started
    BY <1>1, <1>2, <1>3 DEF Started
  <2>2. Arrived \in SUBSET Arrived' /\ Arrived' \in SUBSET Trackers /\ IsFiniteSet(Trackers)
    BY ConnectionAssumption DEF Arrived
  <2>3. IsFiniteSet(Arrived') /\ Cardinality(Arrived') \in Nat
    BY <2>2, FS_Subset, FS_CardinalityType
  <2>4. Cardinality(Arrived) <= Cardinality(Arrived')
    BY <2>2, <2>3, FS_Subset
  <2>5. Cardinality(Started) <= Cardinality(Arrived) /\ Started = 1 .. Cardinality(Started)
    BY DEF BaseInv, ListsOK
  <2>6. Cardinality(Started) <= Cardinality(Arrived')
    BY <2>3, <2>4, <2>5, CardinalityFacts
  <2>7. \A h \in Lists : h # current' => lists'[h] = <<>>
    <3>1. \A h \in Lists : h # g => lists'[h] = <<>>
      BY DEF BaseInv, ListsOK
    <3> QED BY <3>1
  <2>8. ASSUME NEW h \in Lists, listener'[h].pc = "none" PROVE ~ listener'[h].cancelled
    <3>1. h # g
      BY <1>1, <1>3, <2>8
    <3>2. listener'[h] = listener[h]
      BY <1>1, <3>1
    <3>3. listener[h].pc = "none" => ~ listener[h].cancelled
      BY DEF BaseInv, ListsOK
    <3> QED BY <2>8, <3>2, <3>3
  <2> QED BY <2>1, <2>5, <2>6, <2>7, <2>8 DEF ListsOK
<1>6. NextOK'
  BY <1>1 DEF BaseInv, NextOK
<1>7. ListenerOK'
  <2>1. CASE lists'[g] # <<>>
    <3>1. pc \in Stopped => failures > 0
      BY <1>2, <2>1 DEF Stopped
    <3> QED BY <1>1, <1>2, <1>3, <2>1, <3>1 DEF ListenerOK
  <2>2. CASE lists'[g] = <<>>
    BY <1>1, <1>2, <2>2 DEF ListenerOK
  <2> QED BY <2>1, <2>2
<1> QED BY <1>4, <1>5, <1>6, <1>7 DEF BaseInv

LEMMA LeaveTrackBase ==
  ASSUME BaseInv, NEW c \in Trackers, LeaveTrack(c)
  PROVE  BaseInv'
<1>1. /\ client[c].pc = "open" /\ Turns(c, "closed") /\ c \in Clients
      /\ UNCHANGED <<fleet, published, got, failures>>
  BY LeaveTrackSteps DEF Clients
<1>2. /\ client' \in [Clients -> ClientRow]
      /\ \A d \in Trackers : client[d].pc \notin {"new", "accepting"} =>
                               client'[d].pc \notin {"new", "accepting"}
  BY <1>1 DEF Turns, Clients
<1>3. fleet' \in Seq(Watchers) /\ got' \in [Clients -> Seq(Messages)]
      /\ current \in Lists \cup {0}
  BY <1>1, BaseFacts
<1>4. CASE current = 0
  <2>1. UNCHANGED <<lists, current, entry, listener>>
    BY <1>4, LeaveTrackSteps
  <2> QED BY <1>1, <1>2, <1>3, <2>1, ClientBase
<1>5. CASE current # 0
  <2> DEFINE rest == Without(lists[current], {c})
             l    == listener[current]
             gone == Len(lists[current]) - Len(rest)
  <2>1. /\ lists' \in [Lists -> Seq(Trackers)] /\ lists'[current] = rest
        /\ \A h \in Lists : h # current => lists'[h] = lists[h]
        /\ rest = <<>> =>
             /\ current' = 0 /\ entry' = 0
             /\ Becomes(current, l.pc, TRUE, l.next, l.at, l.stale, l.left)
        /\ rest # <<>> =>
             /\ current' = current /\ entry' = entry
             /\ Becomes(current, l.pc, l.cancelled, l.next, l.at, l.stale, l.left + gone)
    BY <1>5, LeaveTrackSteps
  <2>2. current \in Lists /\ ~ l.cancelled
        /\ (l.pc \in {"track", "fleet"} => l.next <= published)
    BY <1>3, <1>5 DEF BaseInv, ListenerOK, NextOK
  <2> HIDE DEF rest, l, gone
  <2>3. CASE rest = <<>>
    BY <1>1, <1>2, <1>3, <2>1, <2>2, <2>3, ShrinkBase DEF l
  <2>4. CASE rest # <<>>
    <3>1. /\ Becomes(current, l.pc, FALSE, l.next, l.at, l.stale, l.left + gone)
          /\ current' = current /\ entry' = entry /\ lists'[current] # <<>>
      <4>1. l.cancelled = FALSE
        BY <2>2, BaseFacts DEF Row, l
      <4> QED BY <2>1, <2>4, <4>1
    <3> QED BY <1>1, <1>2, <1>3, <2>1, <2>2, <3>1, ShrinkBase DEF l
  <2> QED BY <2>3, <2>4
<1> QED BY <1>4, <1>5

LEMMA EndTrackBase ==
  ASSUME BaseInv, NEW g \in Lists, EndTrack(g)
  PROVE  BaseInv'
<1> DEFINE l    == listener[g]
           rest == Without(lists[g], l.stale)
<1>1. /\ g = current /\ l.pc = "track" /\ ~ l.cancelled /\ l.next \in 1 .. published
      /\ lists' \in [Lists -> Seq(Trackers)] /\ lists'[g] = rest
      /\ \A h \in Lists : h # g => lists'[h] = lists[h]
      /\ rest # <<>> =>
           /\ UNCHANGED <<current, entry, fleet, got>>
           /\ Becomes(g, "fleet", l.cancelled, l.next, 1, {}, l.left)
      /\ rest = <<>> =>
           /\ current' = 0 /\ entry' = 0
           /\ Becomes(g, "closing", TRUE, l.next, l.at, l.stale, l.left)
           /\ got' \in [Clients -> Seq(Messages)]
      /\ fleet' \in Seq(Watchers) /\ UNCHANGED <<client, published, failures>>
  BY EndTrackSteps
<1>2. /\ client' \in [Clients -> ClientRow] /\ got \in [Clients -> Seq(Messages)]
      /\ published \in 0 .. MaxMessages /\ MaxMessages \in Nat
  BY <1>1, BaseFacts DEF BaseInv, TypeOK, ClientRow
<1>3. /\ l.next <= published /\ l.pc \in Serving /\ "closing" \notin Serving
      /\ "closing" \notin {"track", "fleet"}
  BY <1>1, <1>2 DEF Serving
<1> HIDE DEF rest, l
<1>4. CASE rest = <<>>
  BY <1>1, <1>2, <1>3, <1>4, ShrinkBase DEF l
<1>5. CASE rest # <<>>
  BY <1>1, <1>2, <1>3, <1>5, ShrinkBase DEF l
<1> QED BY <1>4, <1>5

LEMMA PublishBase == BaseInv /\ Publish => BaseInv'
<1> SUFFICES ASSUME BaseInv, Publish PROVE BaseInv'
  OBVIOUS
<1>1. /\ published' = published + 1 /\ published < MaxMessages
      /\ UNCHANGED <<client, lists, current, entry, listener, fleet, got, failures>>
  BY DEF Publish
<1>2. published \in 0 .. MaxMessages /\ MaxMessages \in Nat
  BY BaseFacts
<1>3. TypeOK'
  BY <1>1, <1>2 DEF BaseInv, TypeOK
<1>4. ListsOK' /\ ListenerOK'
  BY <1>1 DEF BaseInv, ListsOK, ListenerOK, Started, Arrived
<1>5. NextOK'
  <2> SUFFICES ASSUME NEW g \in Lists
               PROVE  /\ listener[g].pc \in Serving => listener[g].next \in 1 .. published' + 1
                      /\ listener[g].pc \in {"track", "fleet"} => listener[g].next <= published'
    BY <1>1 DEF NextOK
  <2>1. /\ listener[g].pc \in Serving => listener[g].next \in 1 .. published + 1
        /\ listener[g].pc \in {"track", "fleet"} =>
             listener[g].pc \in Serving /\ listener[g].next <= published
    BY DEF BaseInv, NextOK, Serving
  <2> QED BY <1>1, <1>2, <2>1
<1> QED BY <1>3, <1>4, <1>5 DEF BaseInv

LEMMA NextBase == BaseInv /\ [Next]_vars => BaseInv'
<1> SUFFICES ASSUME BaseInv, [Next]_vars PROVE BaseInv'
  OBVIOUS
<1>1. CASE \E c \in Clients : Connect(c) \/ AcceptFails(c) \/ Drop(c) \/ Handle(c)
  BY <1>1, HandlerBase, ConnectTrackBase, LeaveTrackBase DEF Handle
<1>2. CASE \E g \in Lists : Listen(g) \/ ListenerFails(g)
  BY <1>2, StepBase, SendBase, EndTrackBase DEF Listen
<1>3. CASE Publish
  BY <1>3, PublishBase
<1>4. CASE UNCHANGED vars
  BY <1>4 DEF vars, BaseInv, TypeOK, ListsOK, NextOK, ListenerOK, Started, Arrived
<1> QED BY <1>1, <1>2, <1>3, <1>4 DEF Next

LEMMA BaseHolds == Spec => []BaseInv
<1>1. Init => BaseInv
  BY InitBase
<1>2. BaseInv /\ [Next]_vars => BaseInv'
  BY NextBase
<1> QED BY <1>1, <1>2, PTL DEF Spec

\* The connection manager keeps its types: a listener never works on a message
\* that was not published, and a list has a number in Lists, since each is
\* made by a client of its own (services/connection_manager.py:17-45).
THEOREM ConnectionTypes == Spec => []TypeOK
<1>1. BaseInv => TypeOK
  BY DEF BaseInv
<1> QED BY <1>1, BaseHolds, PTL

\* One listener for the clients that track the delivery: redis_tasks has that of
\* the list in delivery_connections, never cancelled while clients are in the list,
\* stopped only if Redis failed it; none goes on without clients
\* (services/connection_manager.py:17-45, 66-70).
THEOREM OneListenerHolds == Spec => []OneListener
<1>1. BaseInv => OneListener
  <2> SUFFICES ASSUME BaseInv PROVE OneListener
    OBVIOUS
  <2> QED BY DEF BaseInv, ListenerOK, OneListener
<1> QED BY <1>1, BaseHolds, PTL

-----------------------------------------------------------------------------
(* Who is registered *)

\* s holds clients that are connected to the endpoint, none twice.
Holds(s) == Distinct(s) /\ \A c \in Elements(s) : client[c].pc = "open"

ListsHold == \A g \in Lists : Holds(lists[g])

\* The clients whose send has raised have lost their connection for good.
StaleOK ==
  \A g \in Lists : \A c \in listener[g].stale : ~ client[c].alive /\ client[c].pc # "new"

\* Who is connected is in the list that is served.
Present ==
  /\ \A c \in Trackers :
       client[c].pc = "open" /\ client[c].alive => current # 0 /\ c \in Elements(lists[current])
  /\ \A c \in Watchers :
       client[c].pc = "open" /\ client[c].alive => c \in Elements(fleet)

MemberInv == ListsHold /\ Holds(fleet) /\ StaleOK /\ Present

Members == BaseInv /\ MemberInv

LEMMA EmptyList == Elements(<<>>) = {} /\ Distinct(<<>>)
  BY DEF Elements, Distinct

LEMMA ElementsType ==
  ASSUME NEW T, NEW s \in Seq(T)
  PROVE  /\ Elements(s) \in SUBSET T
         /\ \A i \in 1 .. Len(s) : s[i] \in Elements(s)
         /\ \A c \in Elements(s) : \E i \in 1 .. Len(s) : s[i] = c
  BY DEF Elements

LEMMA InitMembers == Init => MemberInv
<1> SUFFICES ASSUME Init PROVE MemberInv
  OBVIOUS
<1>1. ListsHold /\ Holds(fleet)
  BY EmptyList DEF Init, ListsHold, Holds
<1>2. StaleOK
  BY DEF Init, StaleOK
<1>3. Present
  <2>1. \A c \in Clients : client[c].pc # "open"
    BY DEF Init
  <2> QED BY <2>1 DEF Present, Clients
<1> QED BY <1>1, <1>2, <1>3 DEF MemberInv

\* What the handlers do to a client that is in no list.
LEMMA ConnectMembers ==
  ASSUME Members, NEW c \in Clients, Connect(c) \/ AcceptFails(c) \/ Drop(c)
  PROVE  MemberInv'
<1>1. client \in [Clients -> ClientRow]
  BY DEF Members, BaseInv, TypeOK, ClientRow
<1>2. \A d \in Clients : d # c => client'[d] = client[d]
  BY <1>1 DEF Connect, AcceptFails, Drop
<1>3. \/ client[c].pc \in {"new", "accepting"} /\ client'[c].pc \in {"accepting", "refused"}
         /\ (client'[c].alive => client[c].pc = "new")
      \/ client'[c].pc = client[c].pc /\ ~ client'[c].alive
  <2>1. CASE Connect(c)
    BY <1>1, <2>1 DEF Connect
  <2>2. CASE AcceptFails(c)
    BY <1>1, <2>2 DEF AcceptFails
  <2>3. CASE Drop(c)
    BY <1>1, <2>3 DEF Drop, ClientRow
  <2> QED BY <2>1, <2>2, <2>3
<1>4. UNCHANGED <<lists, current, entry, listener, fleet, published, got, failures>>
  BY DEF Connect, AcceptFails, Drop
<1>5. \A d \in Clients : client[d].pc = "open" => client'[d].pc = "open"
  BY <1>2, <1>3
<1>6. /\ \A g \in Lists : Elements(lists[g]) \in SUBSET Clients
      /\ Elements(fleet) \in SUBSET Clients
      /\ \A g \in Lists : listener[g].stale \in SUBSET Clients
  <2>1. \A g \in Lists : lists[g] \in Seq(Trackers) /\ listener[g] \in Row
    BY BaseFacts DEF Members
  <2>2. fleet \in Seq(Watchers)
    BY BaseFacts DEF Members
  <2> QED BY <2>1, <2>2, ElementsType DEF Clients, Row
<1>7. ListsHold' /\ Holds(fleet)'
  BY <1>4, <1>5, <1>6 DEF Members, MemberInv, ListsHold, Holds, Distinct, Elements
<1>8. StaleOK'
  BY <1>2, <1>3, <1>4, <1>6 DEF Members, MemberInv, StaleOK
<1>9. Present'
  <2>1. \A d \in Clients : client'[d].pc = "open" /\ client'[d].alive =>
                             client[d].pc = "open" /\ client[d].alive
    BY <1>2, <1>3
  <2> QED BY <1>4, <2>1 DEF Members, MemberInv, Present, Clients
<1> QED BY <1>7, <1>8, <1>9 DEF MemberInv

\* Only the handler of c moves, c's connection being what it was: members other
\* than c stay open, and stale clients stay disconnected.
LEMMA TurnsMembers ==
  ASSUME Members, NEW c \in Clients, NEW pc \in {"open", "closed"}, Turns(c, pc)
  PROVE  /\ \A d \in Clients : d # c => client'[d] = client[d]
         /\ \A d \in Clients : client[d].pc = "open" /\ d # c => client'[d].pc = "open"
         /\ \A g \in Lists : \A d \in listener[g].stale :
              ~ client'[d].alive /\ client'[d].pc # "new"
         /\ \A d \in Clients : d # c => (client'[d].pc = "open" /\ client'[d].alive
                                           <=> client[d].pc = "open" /\ client[d].alive)
<1>1. /\ client'[c].pc = pc /\ client'[c].alive = client[c].alive
      /\ \A d \in Clients : d # c => client'[d] = client[d]
  BY DEF Turns
<1>2. \A g \in Lists : listener[g].stale \in SUBSET Clients
  BY BaseFacts DEF Members, Row
<1>3. ASSUME NEW g \in Lists, NEW d \in listener[g].stale
      PROVE  ~ client'[d].alive /\ client'[d].pc # "new"
  <2>1. d \in Clients /\ ~ client[d].alive /\ client[d].pc # "new"
    BY <1>2 DEF Members, MemberInv, StaleOK
  <2>2. CASE d = c
    BY <1>1, <2>1, <2>2
  <2>3. CASE d # c
    BY <1>1, <2>1, <2>3
  <2> QED BY <2>2, <2>3
<1> QED BY <1>1, <1>3

LEMMA FleetMembers ==
  ASSUME Members, NEW c \in Watchers, ConnectFleet(c) \/ LeaveFleet(c)
  PROVE  MemberInv'
<1>1. c \in Clients /\ c \notin Trackers /\ fleet \in Seq(Watchers)
      /\ \A g \in Lists : lists[g] \in Seq(Trackers)
  BY BaseFacts, ConnectionAssumption DEF Clients, Members
<1>2. PICK pc \in {"open", "closed"} : client' = [client EXCEPT ![c].pc = pc]
  BY DEF ConnectFleet, LeaveFleet
<1>3. Turns(c, pc)
  BY <1>1, <1>2, TurnsFact DEF Members
<1>4. UNCHANGED <<lists, current, entry, listener, published, got, failures>>
  BY DEF ConnectFleet, LeaveFleet
<1>5. ListsHold'
  <2>1. \A g \in Lists : \A d \in Elements(lists[g]) : d \in Clients /\ d # c
    BY <1>1, ElementsType DEF Clients
  <2>2. \A g \in Lists : \A d \in Elements(lists[g]) : client'[d].pc = "open"
    BY <1>1, <1>3, <2>1, TurnsMembers DEF Members, MemberInv, ListsHold, Holds
  <2> QED BY <1>4, <2>2 DEF Members, MemberInv, ListsHold, Holds, Distinct, Elements
<1>6. StaleOK'
  BY <1>1, <1>3, <1>4, TurnsMembers DEF StaleOK
<1>7. \A d \in Elements(fleet) : d \in Watchers /\ d \in Clients /\ client[d].pc = "open"
  BY <1>1, ElementsType DEF Clients, Members, MemberInv, Holds
<1>8. /\ \A d \in Trackers : client'[d] = client[d]
      /\ \A d \in Clients : d # c => client'[d] = client[d]
  BY <1>1, <1>3 DEF Turns, Clients
<1>9. CASE ConnectFleet(c)
  <2>1. /\ client[c].pc = "accepting" /\ fleet' = Append(fleet, c)
        /\ client' = [client EXCEPT ![c].pc = "open"]
    BY <1>9 DEF ConnectFleet
  <2>2. c \notin Elements(fleet) /\ client'[c].pc = "open"
    <3>1. Turns(c, "open")
      BY <1>1, <2>1, TurnsFact DEF Members
    <3> QED BY <1>7, <2>1, <3>1 DEF Turns
  <2>3. Elements(fleet') = Elements(fleet) \cup {c} /\ Distinct(fleet')
    BY <1>1, <2>1, <2>2, AppendFacts DEF Members, MemberInv, Holds
  <2>4. \A d \in Elements(fleet') : client'[d].pc = "open"
    BY <1>7, <1>8, <2>2, <2>3
  <2>5. Holds(fleet)'
    BY <2>3, <2>4 DEF Holds, Distinct, Elements
  <2>6. Present'
    <3>1. \A d \in Watchers : client'[d].pc = "open" /\ client'[d].alive => d \in Elements(fleet')
      BY <1>8, <2>3 DEF Members, MemberInv, Present, Clients
    <3>2. \A d \in Trackers : client'[d].pc = "open" /\ client'[d].alive =>
                                current' # 0 /\ d \in Elements(lists'[current'])
      BY <1>4, <1>8 DEF Members, MemberInv, Present
    <3> QED BY <3>1, <3>2 DEF Present, Elements
  <2> QED BY <1>5, <1>6, <2>5, <2>6 DEF MemberInv
<1>10. CASE LeaveFleet(c)
  <2>1. /\ client[c].pc = "open" /\ ~ client[c].alive /\ fleet' = Without(fleet, {c})
        /\ client' = [client EXCEPT ![c].pc = "closed"]
    BY <1>10 DEF LeaveFleet
  <2>2. client'[c].pc = "closed"
    <3>1. Turns(c, "closed")
      BY <1>1, <2>1, TurnsFact DEF Members
    <3> QED BY <3>1 DEF Turns
  <2>3. Elements(fleet') = Elements(fleet) \ {c} /\ Distinct(fleet')
    BY <1>1, <2>1, WithoutFacts DEF Members, MemberInv, Holds
  <2>4. \A d \in Elements(fleet') : client'[d].pc = "open"
    BY <1>7, <1>8, <2>3
  <2>5. Holds(fleet)'
    BY <2>3, <2>4 DEF Holds, Distinct, Elements
  <2>6. Present'
    <3>1. \A d \in Watchers : client'[d].pc = "open" /\ client'[d].alive => d \in Elements(fleet')
      BY <1>8, <2>2, <2>3 DEF Members, MemberInv, Present, Clients
    <3>2. \A d \in Trackers : client'[d].pc = "open" /\ client'[d].alive =>
                                current' # 0 /\ d \in Elements(lists'[current'])
      BY <1>4, <1>8 DEF Members, MemberInv, Present
    <3> QED BY <3>1, <3>2 DEF Present, Elements
  <2> QED BY <1>5, <1>6, <2>5, <2>6 DEF MemberInv
<1> QED BY <1>9, <1>10

LEMMA ConnectTrackMembers ==
  ASSUME Members, NEW c \in Trackers, ConnectTrack(c)
  PROVE  MemberInv'
<1> DEFINE g == current'
<1>1. /\ client[c].pc = "accepting" /\ Turns(c, "open")
      /\ g \in Lists
      /\ lists'[g] = Append(lists[g], c)
      /\ \A h \in Lists : h # g => lists'[h] = lists[h]
      /\ current # 0 => g = current
      /\ current = 0 => lists[g] = <<>>
      /\ \A h \in Lists : listener'[h].stale = listener[h].stale
      /\ fleet' = fleet
  <2>1. BaseInv
    BY DEF Members
  <2>2. \A h \in Lists : listener'[h].stale = listener[h].stale
    <3>1. CASE current # 0
      BY <2>1, <3>1, ConnectTrackSteps
    <3>2. CASE current = 0
      BY <2>1, <3>2, ConnectTrackSteps DEF Becomes
    <3> QED BY <3>1, <3>2
  <2> QED BY <2>1, <2>2, ConnectTrackSteps
<1>2. /\ c \in Clients /\ c \notin Watchers /\ g # 0 /\ fleet \in Seq(Watchers)
      /\ \A h \in Lists : lists[h] \in Seq(Trackers)
  <2>1. g # 0
    BY <1>1, CardinalityFacts DEF Lists
  <2>2. c \in Clients /\ c \notin Watchers
    BY ConnectionAssumption DEF Clients
  <2> QED BY <2>1, <2>2, BaseFacts DEF Members
<1>3. \A h \in Lists : \A d \in Elements(lists[h]) :
        d \in Trackers /\ d \in Clients /\ client[d].pc = "open" /\ d # c
  BY <1>1, <1>2, ElementsType DEF Clients, Members, MemberInv, ListsHold, Holds
<1>4. /\ client'[c].pc = "open"
      /\ \A d \in Clients : d # c => client'[d] = client[d]
  BY <1>1 DEF Turns
<1>5. /\ Elements(lists'[g]) = Elements(lists[g]) \cup {c} /\ Distinct(lists'[g])
  <2>1. Distinct(lists[g]) /\ c \notin Elements(lists[g])
    BY <1>1, <1>3 DEF Members, MemberInv, ListsHold, Holds
  <2> QED BY <1>1, <1>2, <2>1, AppendFacts
<1>6. ListsHold'
  <2> SUFFICES ASSUME NEW h \in Lists
               PROVE  Distinct(lists'[h]) /\ \A d \in Elements(lists'[h]) : client'[d].pc = "open"
    BY DEF ListsHold, Holds, Distinct, Elements
  <2>1. CASE h = g
    BY <1>1, <1>3, <1>4, <1>5, <2>1
  <2>2. CASE h # g
    BY <1>1, <1>3, <1>4, <2>2 DEF Members, MemberInv, ListsHold, Holds
  <2> QED BY <2>1, <2>2
<1>7. Holds(fleet)'
  <2>1. \A d \in Elements(fleet) : d \in Clients /\ d # c /\ client[d].pc = "open"
    BY <1>2, ElementsType DEF Clients, Members, MemberInv, Holds
  <2>2. \A d \in Elements(fleet) : client'[d].pc = "open"
    BY <1>4, <2>1
  <2> QED BY <1>1, <2>2 DEF Members, MemberInv, Holds, Distinct, Elements
<1>8. StaleOK'
  BY <1>1, <1>2, TurnsMembers DEF StaleOK
<1>9. Present'
  <2>1. \A d \in Watchers : client'[d].pc = "open" /\ client'[d].alive => d \in Elements(fleet')
    BY <1>1, <1>2, <1>4 DEF Members, MemberInv, Present, Clients
  <2>2. ASSUME NEW d \in Trackers, client'[d].pc = "open" /\ client'[d].alive
        PROVE  d \in Elements(lists'[g])
    <3>1. CASE d = c
      BY <1>5, <3>1
    <3>2. CASE d # c
      <4>1. client[d].pc = "open" /\ client[d].alive
        BY <1>4, <2>2, <3>2 DEF Clients
      <4>2. current # 0 /\ d \in Elements(lists[current])
        BY <4>1 DEF Members, MemberInv, Present
      <4> QED BY <1>1, <1>5, <4>2
    <3> QED BY <3>1, <3>2
  <2> QED BY <1>2, <2>1, <2>2 DEF Present, Elements
<1> QED BY <1>6, <1>7, <1>8, <1>9 DEF MemberInv

LEMMA LeaveTrackMembers ==
  ASSUME Members, NEW c \in Trackers, LeaveTrack(c)
  PROVE  MemberInv'
<1> DEFINE rest == Without(lists[current], {c})
<1>1. /\ client[c].pc = "open" /\ ~ client[c].alive /\ Turns(c, "closed")
      /\ fleet' = fleet
      /\ current = 0 => UNCHANGED <<lists, current, entry, listener>>
      /\ current # 0 => /\ lists'[current] = rest
                        /\ \A h \in Lists : h # current => lists'[h] = lists[h]
                        /\ rest = <<>> => current' = 0
                        /\ rest # <<>> => current' = current
      /\ \A h \in Lists : listener'[h].stale = listener[h].stale
  <2>1. BaseInv /\ current \in Lists \cup {0}
    BY BaseFacts DEF Members
  <2>2. \A h \in Lists : listener'[h].stale = listener[h].stale
    <3>1. CASE current = 0
      BY <2>1, <3>1, LeaveTrackSteps
    <3>2. CASE current # 0
      BY <2>1, <3>2, LeaveTrackSteps DEF Becomes
    <3> QED BY <3>1, <3>2
  <2> QED BY <2>1, <2>2, LeaveTrackSteps
<1>2. /\ c \in Clients /\ c \notin Watchers /\ fleet \in Seq(Watchers)
      /\ current \in Lists \cup {0} /\ \A h \in Lists : lists[h] \in Seq(Trackers)
  <2>1. c \in Clients /\ c \notin Watchers
    BY ConnectionAssumption DEF Clients
  <2> QED BY <2>1, BaseFacts DEF Members
<1>3. \A h \in Lists : \A d \in Elements(lists[h]) :
        d \in Trackers /\ d \in Clients /\ client[d].pc = "open"
  BY <1>1, <1>2, ElementsType DEF Clients, Members, MemberInv, ListsHold, Holds
<1>4. /\ client'[c].pc = "closed"
      /\ \A d \in Clients : d # c => client'[d] = client[d]
  BY <1>1 DEF Turns
<1>5. current # 0 => Elements(rest) = Elements(lists[current]) \ {c} /\ Distinct(rest)
  BY <1>2, WithoutFacts DEF Members, MemberInv, ListsHold, Holds
<1>6. \A h \in Lists : h # current => Elements(lists[h]) = {}
  BY EmptyList DEF Members, BaseInv, ListsOK
<1> HIDE DEF rest
<1>7. ListsHold'
  <2> SUFFICES ASSUME NEW h \in Lists
               PROVE  Distinct(lists'[h]) /\ \A d \in Elements(lists'[h]) : client'[d].pc = "open"
    BY DEF ListsHold, Holds, Distinct, Elements
  <2>1. CASE h = current
    <3>1. current # 0 /\ lists'[h] = rest
      BY <2>1, <1>1, <1>2, CardinalityFacts DEF Lists
    <3> QED BY <1>3, <1>4, <1>5, <2>1, <3>1
  <2>2. CASE h # current
    BY <1>1, <1>6, <2>2 DEF Members, MemberInv, ListsHold, Holds
  <2> QED BY <2>1, <2>2
<1>8. Holds(fleet)'
  <2>1. \A d \in Elements(fleet) : d \in Clients /\ d # c /\ client[d].pc = "open"
    BY <1>2, ElementsType DEF Clients, Members, MemberInv, Holds
  <2>2. \A d \in Elements(fleet) : client'[d].pc = "open"
    BY <1>4, <2>1
  <2> QED BY <1>1, <2>2 DEF Members, MemberInv, Holds, Distinct, Elements
<1>9. StaleOK'
  BY <1>1, <1>2, TurnsMembers DEF StaleOK
<1>10. Present'
  <2>1. \A d \in Watchers : client'[d].pc = "open" /\ client'[d].alive => d \in Elements(fleet')
    BY <1>1, <1>2, <1>4 DEF Members, MemberInv, Present, Clients
  <2>2. ASSUME NEW d \in Trackers, client'[d].pc = "open" /\ client'[d].alive
        PROVE  current' # 0 /\ d \in Elements(lists'[current'])
    <3>1. d # c
      BY <1>4, <2>2
    <3>2. client[d].pc = "open" /\ client[d].alive
      BY <1>4, <2>2, <3>1 DEF Clients
    <3>3. current # 0 /\ d \in Elements(lists[current])
      BY <3>2 DEF Members, MemberInv, Present
    <3>4. d \in Elements(rest)
      BY <1>5, <3>1, <3>3
    <3>5. rest # <<>>
      BY <3>4, EmptyList
    <3> QED BY <1>1, <3>3, <3>4, <3>5
  <2> QED BY <2>1, <2>2 DEF Present, Elements
<1> QED BY <1>7, <1>8, <1>9, <1>10 DEF MemberInv

LEMMA EndTrackMembers ==
  ASSUME Members, NEW g \in Lists, EndTrack(g)
  PROVE  MemberInv'
<1> DEFINE l    == listener[g]
           rest == Without(lists[g], l.stale)
<1>1. /\ g = current /\ lists'[g] = rest /\ UNCHANGED client
      /\ \A h \in Lists : h # g => lists'[h] = lists[h]
      /\ rest = <<>> => current' = 0
      /\ rest # <<>> => current' = current /\ current # 0
      /\ \A h \in Lists : h # g => listener'[h].stale = listener[h].stale
      /\ listener'[g].stale \in {{}, l.stale}
  <2>1. BaseInv
    BY DEF Members
  <2>2. /\ \A h \in Lists : h # g => listener'[h].stale = listener[h].stale
        /\ listener'[g].stale \in {{}, l.stale}
    <3>1. CASE rest = <<>>
      BY <2>1, <3>1, EndTrackSteps DEF Becomes
    <3>2. CASE rest # <<>>
      BY <2>1, <3>2, EndTrackSteps DEF Becomes
    <3> QED BY <3>1, <3>2
  <2> QED BY <2>1, <2>2, EndTrackSteps
<1>0. \E S : (\A c \in S : ~ client[c].alive) /\ fleet' = Without(fleet, S)
  <2>1. CASE rest = <<>>
    BY <2>1, EndTrackSteps DEF Members
  <2>2. CASE rest # <<>>
    <3>1. fleet' = fleet /\ fleet \in Seq(Watchers)
      BY <2>2, EndTrackSteps, BaseFacts DEF Members
    <3>2. fleet' = Without(fleet, {})
      BY <3>1, WithoutEmpty
    <3> QED BY <3>2
  <2> QED BY <2>1, <2>2
<1>2. Elements(rest) = Elements(lists[g]) \ l.stale /\ Distinct(rest)
  <2>1. lists[g] \in Seq(Trackers) /\ Distinct(lists[g])
    BY BaseFacts DEF Members, MemberInv, ListsHold, Holds
  <2> QED BY <2>1, WithoutFacts
<1> HIDE DEF rest
<1>3. ListsHold'
  <2> SUFFICES ASSUME NEW h \in Lists
               PROVE  Distinct(lists'[h]) /\ \A d \in Elements(lists'[h]) : client'[d].pc = "open"
    BY DEF ListsHold, Holds, Distinct, Elements
  <2>1. CASE h = g
    BY <1>1, <1>2, <2>1 DEF Members, MemberInv, ListsHold, Holds
  <2>2. CASE h # g
    BY <1>1, <2>2 DEF Members, MemberInv, ListsHold, Holds
  <2> QED BY <2>1, <2>2
<1>4. Holds(fleet)' /\ \A c \in Elements(fleet) : client[c].alive => c \in Elements(fleet')
  <2>1. PICK S : (\A c \in S : ~ client[c].alive) /\ fleet' = Without(fleet, S)
    BY <1>0
  <2>2. fleet \in Seq(Watchers) /\ Distinct(fleet) /\ \A c \in Elements(fleet) : client[c].pc = "open"
    BY BaseFacts DEF Members, MemberInv, Holds
  <2>3. Elements(fleet') = Elements(fleet) \ S /\ Distinct(fleet')
    BY <2>1, <2>2, WithoutFacts
  <2>4. \A c \in Elements(fleet') : client'[c].pc = "open"
    BY <1>1, <2>2, <2>3
  <2> QED BY <2>1, <2>3, <2>4 DEF Holds, Distinct, Elements
<1>5. StaleOK'
  BY <1>1 DEF Members, MemberInv, StaleOK
<1>6. Present'
  <2>1. \A d \in Watchers : client'[d].pc = "open" /\ client'[d].alive => d \in Elements(fleet')
    BY <1>1, <1>4 DEF Members, MemberInv, Present
  <2>2. ASSUME NEW d \in Trackers, client'[d].pc = "open" /\ client'[d].alive
        PROVE  current' # 0 /\ d \in Elements(lists'[current'])
    <3>1. client[d].alive /\ d \in Elements(lists[g])
      BY <1>1, <2>2 DEF Members, MemberInv, Present
    <3>2. d \notin l.stale
      BY <3>1 DEF Members, MemberInv, StaleOK
    <3>3. d \in Elements(rest)
      BY <1>2, <3>1, <3>2
    <3>4. rest # <<>>
      BY <3>3, EmptyList
    <3> QED BY <1>1, <3>3, <3>4
  <2> QED BY <2>1, <2>2 DEF Present, Elements
<1> QED BY <1>3, <1>4, <1>5, <1>6 DEF MemberInv

LEMMA SendMembers ==
  ASSUME Members, NEW g \in Lists, SendTrack(g) \/ SendFleet(g)
  PROVE  MemberInv'
<1> DEFINE l == listener[g]
<1>1. PICK s \in {lists[g], fleet} : s \in Seq(Clients) /\ SendTo(g, s)
  <2>1. lists[g] \in Seq(Clients) /\ fleet \in Seq(Clients)
    BY BaseFacts DEF Clients, Members
  <2> QED BY <2>1 DEF SendTrack, SendFleet
<1>2. l.pc \in Serving /\ UNCHANGED <<client, lists, current, entry, fleet, published, failures>>
  BY DEF SendTrack, SendFleet, Active, Serving
<1>3. /\ l.at \in 1 .. Len(s)
      /\ \A h \in Lists : h # g => listener'[h] = listener[h]
      /\ \/ listener'[g].stale = l.stale
         \/ ~ client[s[l.at]].alive /\ listener'[g].stale \in {l.stale, l.stale \cup {s[l.at]}}
  BY <1>1, <1>2, SendSteps DEF Members, Becomes
<1>4. client[s[l.at]].pc = "open"
  <2>1. s[l.at] \in Elements(s)
    BY <1>1, <1>3, ElementsType
  <2> QED BY <1>1, <2>1 DEF Members, MemberInv, ListsHold, Holds
<1>5. StaleOK'
  BY <1>2, <1>3, <1>4 DEF Members, MemberInv, StaleOK
<1>6. ListsHold' /\ Holds(fleet)' /\ Present'
  BY <1>2 DEF Members, MemberInv, ListsHold, Holds, Present, Distinct, Elements
<1> QED BY <1>5, <1>6 DEF MemberInv

LEMMA StepMembers ==
  ASSUME Members, NEW g \in Lists,
         Subscribe(g) \/ Receive(g) \/ EndFleet(g) \/ Cancelled(g) \/ ListenerFails(g) \/ Close(g)
  PROVE  MemberInv'
<1> DEFINE l == listener[g]
<1>1. /\ \A h \in Lists : h # g => listener'[h] = listener[h]
      /\ listener'[g].stale \in {{}, l.stale}
  BY ListenerSteps DEF Members, Becomes
<1>2. UNCHANGED <<client, lists, current, entry>>
  BY DEF Subscribe, Receive, EndFleet, Cancelled, ListenerFails, Close
<1>3. fleet' \in {fleet, Without(fleet, l.stale)}
  BY DEF Subscribe, Receive, EndFleet, Cancelled, ListenerFails, Close
<1>4. StaleOK'
  BY <1>1, <1>2 DEF Members, MemberInv, StaleOK
<1>5. ListsHold'
  BY <1>2 DEF Members, MemberInv, ListsHold, Holds, Distinct, Elements
<1>6. Elements(fleet') \in {Elements(fleet), Elements(fleet) \ l.stale} /\ Distinct(fleet')
  <2>1. fleet \in Seq(Watchers) /\ Distinct(fleet)
    BY BaseFacts DEF Members, MemberInv, Holds
  <2> QED BY <1>3, <2>1, WithoutFacts
<1>7. Holds(fleet)'
  <2>1. \A d \in Elements(fleet') : client'[d].pc = "open"
    BY <1>2, <1>6 DEF Members, MemberInv, Holds
  <2> QED BY <1>6, <2>1 DEF Holds, Distinct, Elements
<1>8. Present'
  <2>1. ASSUME NEW d \in Watchers, client'[d].pc = "open" /\ client'[d].alive
        PROVE  d \in Elements(fleet')
    <3>1. client[d].alive /\ d \in Elements(fleet)
      BY <1>2, <2>1 DEF Members, MemberInv, Present
    <3>2. d \notin l.stale
      BY <3>1 DEF Members, MemberInv, StaleOK
    <3> QED BY <1>6, <3>1, <3>2
  <2>2. \A d \in Trackers : client'[d].pc = "open" /\ client'[d].alive =>
                              current' # 0 /\ d \in Elements(lists'[current'])
    BY <1>2 DEF Members, MemberInv, Present
  <2> QED BY <2>1, <2>2 DEF Present, Elements
<1> QED BY <1>4, <1>5, <1>7, <1>8 DEF MemberInv

LEMMA NextMembers == Members /\ [Next]_vars => MemberInv'
<1> SUFFICES ASSUME Members, [Next]_vars PROVE MemberInv'
  OBVIOUS
<1>1. CASE \E c \in Clients : Connect(c) \/ AcceptFails(c) \/ Drop(c) \/ Handle(c)
  BY <1>1, ConnectMembers, FleetMembers, ConnectTrackMembers, LeaveTrackMembers DEF Handle
<1>2. CASE \E g \in Lists : Listen(g) \/ ListenerFails(g)
  BY <1>2, StepMembers, SendMembers, EndTrackMembers DEF Listen
<1>3. CASE UNCHANGED <<client, lists, current, listener, fleet>>
  BY <1>3 DEF Members, MemberInv, ListsHold, Holds, StaleOK, Present, Distinct, Elements
<1>4. (Publish \/ UNCHANGED vars) => UNCHANGED <<client, lists, current, listener, fleet>>
  BY DEF Publish, vars
<1> QED BY <1>1, <1>2, <1>3, <1>4 DEF Next

LEMMA MembersHold == Spec => []Members
<1>1. Init => Members
  BY InitBase, InitMembers DEF Members
<1>2. Members /\ [Next]_vars => Members'
  BY NextBase, NextMembers DEF Members
<1> QED BY <1>1, <1>2, PTL DEF Spec

\* No connected client is lost, and none is kept twice, whatever handlers and the
\* listener's clean-up do to the lists: it is in the list of the delivery, or in
\* that of the fleet (services/connection_manager.py:17-54, 78-97).
THEOREM RegisteredHolds == Spec => []Registered
<1>1. Members => Registered
  <2> SUFFICES ASSUME Members PROVE Registered
    OBVIOUS
  <2>1. /\ \A g \in Lists : lists[g] \in Seq(Trackers) /\ Distinct(lists[g])
        /\ fleet \in Seq(Watchers) /\ Distinct(fleet)
    BY BaseFacts DEF Members, MemberInv, ListsHold, Holds
  <2>2. /\ \A g \in Lists : Cardinality(Elements(lists[g])) = Len(lists[g])
        /\ Cardinality(Elements(fleet)) = Len(fleet)
    BY <2>1, DistinctCardinality
  <2>3. Present
    BY DEF Members, MemberInv
  <2> QED BY <2>2, <2>3 DEF Present, Registered
<1> QED BY <1>1, MembersHold, PTL

-----------------------------------------------------------------------------
(* The order of the updates *)

Rising(s)   == \A i, j \in DOMAIN s : i < j => s[i] < s[j]
Below(s, n) == \A i \in DOMAIN s : s[i] < n

LEMMA MessagesAreNat ==
  /\ Messages \in SUBSET Nat
  /\ \A s \in Seq(Messages) : s \in Seq(Nat)
  BY ConnectionAssumption DEF Messages

LEMMA RisingAppend ==
  ASSUME NEW s \in Seq(Nat), NEW n \in Nat, Rising(s), Below(s, n)
  PROVE  Rising(Append(s, n)) /\ Below(Append(s, n), n + 1)
<1> DEFINE r == Append(s, n)
           N == Len(s)
<1>1. /\ DOMAIN r = 1 .. N + 1 /\ DOMAIN s = 1 .. N /\ N \in Nat
      /\ \A i \in 1 .. N : r[i] = s[i] /\ s[i] \in Nat
      /\ r[N + 1] = n
  OBVIOUS
<1> HIDE DEF r
<1>2. \A i \in 1 .. N : r[i] < n
  BY <1>1 DEF Below
<1>3. Below(r, n + 1)
  <2> SUFFICES ASSUME NEW i \in 1 .. N + 1 PROVE r[i] < n + 1
    BY <1>1 DEF Below
  <2>1. CASE i = N + 1
    BY <1>1, <2>1
  <2>2. CASE i \in 1 .. N
    BY <1>1, <1>2, <2>2
  <2> QED BY <1>1, <2>1, <2>2
<1>4. Rising(r)
  <2> SUFFICES ASSUME NEW i \in 1 .. N + 1, NEW j \in 1 .. N + 1, i < j PROVE r[i] < r[j]
    BY <1>1 DEF Rising
  <2>1. i \in 1 .. N
    BY <1>1
  <2>2. CASE j = N + 1
    BY <1>1, <1>2, <2>1, <2>2
  <2>3. CASE j \in 1 .. N
    BY <1>1, <2>1, <2>3 DEF Rising
  <2> QED BY <1>1, <2>2, <2>3
<1> QED BY <1>3, <1>4 DEF r

\* A rising sequence stays one when the messages from n to p are added to its end.
LEMMA RisingJoined ==
  ASSUME NEW s \in Seq(Nat), NEW t \in Seq(Nat), NEW n \in Nat, NEW p \in Nat,
         Rising(s), Below(s, n), n + Len(t) <= p + 1,
         \A k \in 1 .. Len(t) : t[k] = n + k - 1
  PROVE  Rising(s \o t) /\ Below(s \o t, p + 1)
<1> DEFINE r == s \o t
           N == Len(s)
           K == Len(t)
<1>1. /\ r \in Seq(Nat) /\ Len(r) = N + K /\ N \in Nat /\ K \in Nat
      /\ \A i \in 1 .. N + K : r[i] = IF i <= N THEN s[i] ELSE t[i - N]
  BY ConcatProperties
<1> HIDE DEF r
<1>2. /\ DOMAIN r = 1 .. N + K /\ DOMAIN s = 1 .. N
      /\ \A i \in 1 .. N : s[i] \in Nat
  BY <1>1
<1>3. \A k \in 1 .. K : t[k] = n + k - 1
  OBVIOUS
<1>4. n + K <= p + 1
  OBVIOUS
<1> HIDE DEF N, K
<1>5. ASSUME NEW i \in 1 .. N PROVE r[i] = s[i] /\ r[i] \in Nat /\ r[i] < n
  <2>1. i \in 1 .. N + K /\ i <= N
    BY <1>1
  <2>2. s[i] < n
    BY <1>2 DEF Below
  <2> QED BY <1>1, <1>2, <2>1, <2>2
<1>6. ASSUME NEW i \in N + 1 .. N + K PROVE r[i] = n + (i - N) - 1
  <2>1. i \in 1 .. N + K /\ ~ (i <= N) /\ i - N \in 1 .. K
    BY <1>1
  <2> QED BY <1>1, <1>3, <2>1
<1>7. Below(r, p + 1)
  <2> SUFFICES ASSUME NEW i \in 1 .. N + K PROVE r[i] < p + 1
    BY <1>2 DEF Below
  <2>1. CASE i \in 1 .. N
    BY <1>1, <1>4, <1>5, <2>1
  <2>2. CASE i \in N + 1 .. N + K
    BY <1>1, <1>4, <1>6, <2>2
  <2> QED BY <1>1, <2>1, <2>2
<1>8. Rising(r)
  <2> SUFFICES ASSUME NEW i \in 1 .. N + K, NEW j \in 1 .. N + K, i < j PROVE r[i] < r[j]
    BY <1>2 DEF Rising
  <2>1. CASE j \in 1 .. N
    <3>1. i \in 1 .. N
      BY <1>1, <2>1
    <3>2. s[i] < s[j]
      BY <1>2, <2>1, <3>1 DEF Rising
    <3> QED BY <1>5, <2>1, <3>1, <3>2
  <2>2. CASE j \in N + 1 .. N + K /\ i \in 1 .. N
    <3>1. r[j] = n + (j - N) - 1 /\ r[i] < n /\ r[i] \in Nat
      BY <1>5, <1>6, <2>2
    <3> QED BY <1>1, <2>2, <3>1
  <2>3. CASE i \in N + 1 .. N + K
    <3>1. j \in N + 1 .. N + K
      BY <1>1, <2>3
    <3>2. r[j] = n + (j - N) - 1 /\ r[i] = n + (i - N) - 1
      BY <1>6, <2>3, <3>1
    <3> QED BY <1>1, <2>3, <3>1, <3>2
  <2> QED BY <1>1, <2>1, <2>2, <2>3
<1> QED BY <1>7, <1>8 DEF r

LEMMA RisingSpan ==
  ASSUME NEW s \in Seq(Nat), NEW n \in Nat \ {0}, published \in 0 .. MaxMessages,
         NEW m \in n - 1 .. published, Rising(s), Below(s, n)
  PROVE  Rising(s \o Span(n, m)) /\ Below(s \o Span(n, m), published + 1)
<1> DEFINE t == Span(n, m)
<1>1. /\ t \in Seq(Nat) /\ Len(t) = (m + 1) - n
      /\ \A k \in 1 .. (m + 1) - n : t[k] = n + k - 1
  BY SpanFacts
<1>2. published \in Nat /\ n + ((m + 1) - n) <= published + 1
  BY ConnectionAssumption
<1> HIDE DEF t
<1>3. n + Len(t) <= published + 1 /\ \A k \in 1 .. Len(t) : t[k] = n + k - 1
  BY <1>1, <1>2
<1>4. Rising(s \o t) /\ Below(s \o t, published + 1)
  BY <1>1, <1>2, <1>3, RisingJoined
<1> QED BY <1>4 DEF t

LEMMA BelowMore ==
  ASSUME NEW s \in Seq(Messages), NEW n \in Nat, NEW m \in Nat, n <= m, Below(s, n)
  PROVE  Below(s, m)
  BY MessagesAreNat DEF Below

\* The broadcast of n goes through s, and stands at position k: the clients from k
\* on have not been sent n yet.
Reached(G, s, k, n) ==
  \A i \in 1 .. Len(s) : Below(G[s[i]], n + 1) /\ (i >= k => Below(G[s[i]], n))

LEMMA ReachedHere ==
  ASSUME NEW s, NEW G, NEW k \in Nat, NEW n, k \in 1 .. Len(s), Reached(G, s, k, n)
  PROVE  Below(G[s[k]], n)
<1>1. k >= k
  OBVIOUS
<1>2. k >= k => Below(G[s[k]], n)
  BY DEF Reached
<1> QED BY <1>1, <1>2

LEMMA ReachedWithout ==
  ASSUME NEW T, NEW s \in Seq(T), NEW S, NEW G, NEW k \in Nat, NEW n \in Nat,
         Reached(G, s, k, n)
  PROVE  Reached(G, Without(s, S), k, n)
<1> DEFINE r == Without(s, S)
<1>1. r \in Seq(T) /\ \E h : Embeds(r, s, h)
  BY WithoutFacts
<1> HIDE DEF r
<1>2. PICK h : Embeds(r, s, h)
  BY <1>1
<1>3. ASSUME NEW i \in 1 .. Len(r)
      PROVE  Below(G[r[i]], n + 1) /\ (i >= k => Below(G[r[i]], n))
  <2>1. h[i] \in 1 .. Len(s) /\ r[i] = s[h[i]] /\ i <= h[i]
    BY <1>2 DEF Embeds
  <2>2. i >= k => h[i] >= k
    BY <1>1, <2>1
  <2> QED BY <2>1, <2>2 DEF Reached
<1> QED BY <1>3 DEF Reached, r

LEMMA ReachedAppend ==
  ASSUME NEW T, NEW s \in Seq(T), NEW c \in T, NEW G, NEW k \in Nat, NEW n \in Nat,
         G[c] = <<>>, Reached(G, s, k, n)
  PROVE  Reached(G, Append(s, c), k, n)
<1>1. \A m : Below(G[c], m)
  BY DEF Below
<1> QED BY <1>1, AppendFacts DEF Reached

LEMMA ReachedSend ==
  ASSUME NEW s \in Seq(Clients), NEW k \in 1 .. Len(s), NEW n \in Nat, Distinct(s),
         NEW G \in [Clients -> Seq(Messages)], NEW H \in [Clients -> Seq(Messages)],
         \A c \in Clients : c # s[k] => H[c] = G[c],
         Below(H[s[k]], n + 1),
         Reached(G, s, k, n)
  PROVE  Reached(H, s, k + 1, n)
<1>1. ASSUME NEW i \in 1 .. Len(s)
      PROVE  Below(H[s[i]], n + 1) /\ (i >= k + 1 => Below(H[s[i]], n))
  <2>1. CASE i = k
    BY <2>1
  <2>2. CASE i # k
    <3>1. s[i] # s[k] /\ s[i] \in Clients
      BY <2>2 DEF Distinct
    <3>2. H[s[i]] = G[s[i]]
      BY <3>1
    <3> QED BY <3>2 DEF Reached
  <2> QED BY <2>1, <2>2
<1> QED BY <1>1 DEF Reached

\* Nothing was sent to who is not registered yet.
Fresh ==
  \A c \in Clients : client[c].pc \in {"new", "accepting", "refused"} => got[c] = <<>>

InOrder == \A c \in Clients : Rising(got[c]) /\ Below(got[c], published + 1)

\* How far the listener has come with its message.
Heard(g) ==
  LET l == listener[g]
  IN  /\ l.pc = "listen" => /\ Reached(got, lists[g], 1, l.next)
                            /\ \A w \in Watchers : Below(got[w], l.next)
      /\ l.pc = "track"  => /\ Reached(got, lists[g], l.at, l.next)
                            /\ \A w \in Watchers : Below(got[w], l.next)
      /\ l.pc = "fleet"  => /\ \A c \in Elements(lists[g]) : Below(got[c], l.next + 1)
                            /\ \A w \in Watchers : Below(got[w], l.next + 1)
                            /\ Reached(got, fleet, l.at, l.next)

OrderInv ==
  /\ Fresh
  /\ InOrder
  /\ \A g \in Lists : listener[g].pc \in Serving /\ ~ listener[g].cancelled => Heard(g)

Ordered == Members /\ OrderInv

LEMMA InitOrder == Init => OrderInv
<1> SUFFICES ASSUME Init PROVE OrderInv
  OBVIOUS
<1>1. \A c \in Clients : got[c] = <<>>
  BY DEF Init
<1>2. Fresh /\ InOrder
  BY <1>1 DEF Fresh, InOrder, Rising, Below
<1>3. \A g \in Lists : listener[g].pc \notin Serving
  BY DEF Init, Serving
<1> QED BY <1>2, <1>3 DEF OrderInv

LEMMA OrderTypes ==
  ASSUME Ordered
  PROVE  /\ BaseInv /\ Members
         /\ client \in [Clients -> ClientRow] /\ listener \in [Lists -> Row]
         /\ lists \in [Lists -> Seq(Trackers)] /\ fleet \in Seq(Watchers)
         /\ \A g \in Lists : lists[g] \in Seq(Clients) /\ Distinct(lists[g])
         /\ fleet \in Seq(Clients) /\ Distinct(fleet)
         /\ got \in [Clients -> Seq(Messages)] /\ published \in Nat
         /\ \A g \in Lists : listener[g].next \in Nat /\ listener[g].at \in Nat \ {0}
         /\ Trackers \in SUBSET Clients /\ Watchers \in SUBSET Clients
         /\ current \in Lists \cup {0} /\ 0 \notin Lists
<1>1. BaseInv /\ Members
  BY DEF Ordered, Members
<1>2. /\ listener \in [Lists -> Row]
      /\ lists \in [Lists -> Seq(Trackers)] /\ fleet \in Seq(Watchers)
      /\ got \in [Clients -> Seq(Messages)] /\ published \in 0 .. MaxMessages
      /\ MaxMessages \in Nat /\ current \in Lists \cup {0}
  BY <1>1, BaseFacts
<1>3. client \in [Clients -> ClientRow]
  BY <1>1 DEF BaseInv, TypeOK, ClientRow
<1>4. \A g \in Lists : listener[g].next \in Nat /\ listener[g].at \in Nat \ {0}
  <2>1. \A r \in Row : r.next \in Nat /\ r.at \in Nat \ {0}
    BY <1>2 DEF Row
  <2> QED BY <1>2, <2>1
<1>5. Distinct(fleet) /\ \A g \in Lists : Distinct(lists[g])
  BY <1>1 DEF Members, MemberInv, ListsHold, Holds
<1>6. fleet \in Seq(Clients) /\ \A g \in Lists : lists[g] \in Seq(Clients)
  BY <1>2 DEF Clients
<1>7. 0 \notin Lists
  BY CardinalityFacts DEF Lists
<1> QED BY <1>1, <1>2, <1>3, <1>4, <1>5, <1>6, <1>7 DEF Clients

\* A step that sends nothing, changes no list and leaves the listeners that go on
\* where they are.
LEMMA QuietOrder ==
  ASSUME Ordered, UNCHANGED <<got, published, lists, fleet>>,
         \A c \in Clients : client'[c].pc \in {"new", "accepting", "refused"} =>
                              client[c].pc \in {"new", "accepting", "refused"},
         \A g \in Lists : listener'[g].pc \in Serving /\ ~ listener'[g].cancelled =>
                            listener'[g] = listener[g]
  PROVE  OrderInv'
<1>1. Fresh' /\ InOrder'
  BY DEF Ordered, OrderInv, Fresh, InOrder
<1>2. ASSUME NEW g \in Lists, listener'[g].pc \in Serving /\ ~ listener'[g].cancelled
      PROVE  Heard(g)'
  <2>1. listener'[g] = listener[g]
    BY <1>2
  <2>2. Heard(g)
    BY <1>2, <2>1 DEF Ordered, OrderInv
  <2> QED BY <2>1, <2>2 DEF Heard
<1> QED BY <1>1, <1>2 DEF OrderInv

LEMMA ConnectOrder ==
  ASSUME Ordered, NEW c \in Clients, Connect(c) \/ AcceptFails(c) \/ Drop(c)
  PROVE  OrderInv'
<1>1. client \in [Clients -> ClientRow]
  BY OrderTypes
<1>2. \A d \in Clients : client'[d].pc \in {"new", "accepting", "refused"} =>
                           client[d].pc \in {"new", "accepting", "refused"}
  <2>1. CASE Connect(c)
    BY <1>1, <2>1 DEF Connect
  <2>2. CASE AcceptFails(c)
    BY <1>1, <2>2 DEF AcceptFails
  <2>3. CASE Drop(c)
    BY <1>1, <2>3 DEF Drop, ClientRow
  <2> QED BY <2>1, <2>2, <2>3
<1>3. UNCHANGED <<lists, current, entry, listener, fleet, published, got, failures>>
  BY DEF Connect, AcceptFails, Drop
<1> QED BY <1>2, <1>3, QuietOrder

LEMMA StopOrder ==
  ASSUME Ordered, NEW g \in Lists, Cancelled(g) \/ ListenerFails(g) \/ Close(g)
  PROVE  OrderInv'
<1>1. UNCHANGED <<client, got, published, lists, fleet>>
  BY DEF Cancelled, ListenerFails, Close
<1>2. /\ \A h \in Lists : h # g => listener'[h] = listener[h]
      /\ listener'[g].pc \in {"closing", "ended"}
  BY OrderTypes, ListenerSteps DEF Becomes
<1>3. listener'[g].pc \notin Serving
  BY <1>2 DEF Serving
<1> QED BY <1>1, <1>2, <1>3, QuietOrder

LEMMA FleetOrder ==
  ASSUME Ordered, NEW c \in Watchers, ConnectFleet(c) \/ LeaveFleet(c)
  PROVE  OrderInv'
<1>1. c \in Clients /\ BaseInv /\ fleet \in Seq(Watchers)
  BY OrderTypes
<1>2. UNCHANGED <<lists, listener, published, got>>
  BY DEF ConnectFleet, LeaveFleet
<1>3. PICK pc \in {"open", "closed"} : client' = [client EXCEPT ![c].pc = pc]
  BY DEF ConnectFleet, LeaveFleet
<1>4. Turns(c, pc)
  BY <1>1, <1>3, TurnsFact
<1>5. Fresh' /\ InOrder'
  <2>1. \A d \in Clients : client'[d].pc \in {"new", "accepting", "refused"} =>
                             client[d].pc \in {"new", "accepting", "refused"}
    BY <1>3, <1>4 DEF Turns
  <2> QED BY <1>2, <2>1 DEF Ordered, OrderInv, Fresh, InOrder
<1>6. ASSUME NEW k \in Nat, NEW n \in Nat, Reached(got, fleet, k, n)
      PROVE  Reached(got, fleet', k, n)
  <2>1. CASE ConnectFleet(c)
    <3>1. fleet' = Append(fleet, c) /\ got[c] = <<>>
      BY <1>1, <2>1 DEF ConnectFleet, Ordered, OrderInv, Fresh
    <3> QED BY <1>1, <1>6, <3>1, ReachedAppend
  <2>2. CASE LeaveFleet(c)
    <3>1. fleet' = Without(fleet, {c})
      BY <2>2 DEF LeaveFleet
    <3> QED BY <1>1, <1>6, <3>1, ReachedWithout
  <2> QED BY <2>1, <2>2
<1>7. ASSUME NEW g \in Lists, listener'[g].pc \in Serving /\ ~ listener'[g].cancelled
      PROVE  Heard(g)'
  <2>1. Heard(g)
    BY <1>2, <1>7 DEF Ordered, OrderInv
  <2>2. listener[g].next \in Nat /\ listener[g].at \in Nat
    BY OrderTypes
  <2> QED BY <1>2, <1>6, <2>1, <2>2 DEF Heard, Elements
<1> QED BY <1>5, <1>7 DEF OrderInv

\* A list that gains a client who was sent nothing, or loses clients, is heard of
\* as before.
LEMMA ListOrder ==
  ASSUME Ordered, NEW g \in Lists, NEW s \in Seq(Trackers),
         \/ \E c \in Trackers : s = Append(lists[g], c) /\ got[c] = <<>>
         \/ \E S : s = Without(lists[g], S)
  PROVE  /\ \A k, n \in Nat : Reached(got, lists[g], k, n) => Reached(got, s, k, n)
         /\ \A n : (\A c \in Elements(lists[g]) : Below(got[c], n)) =>
                      \A c \in Elements(s) : Below(got[c], n)
<1>1. lists[g] \in Seq(Trackers)
  BY OrderTypes
<1>2. CASE \E c \in Trackers : s = Append(lists[g], c) /\ got[c] = <<>>
  <2>1. PICK c \in Trackers : s = Append(lists[g], c) /\ got[c] = <<>>
    BY <1>2
  <2>2. \A n : Below(got[c], n)
    BY <2>1 DEF Below
  <2>3. Elements(s) = Elements(lists[g]) \cup {c}
    BY <1>1, <2>1, AppendFacts
  <2> QED BY <1>1, <2>1, <2>2, <2>3, ReachedAppend
<1>3. CASE \E S : s = Without(lists[g], S)
  <2>1. PICK S : s = Without(lists[g], S)
    BY <1>3
  <2>2. Elements(s) = Elements(lists[g]) \ S
    BY <1>1, <2>1, WithoutFacts
  <2> QED BY <1>1, <2>1, <2>2, ReachedWithout
<1> QED BY <1>2, <1>3

LEMMA TrackOrder ==
  ASSUME Ordered, NEW c \in Trackers, ConnectTrack(c) \/ LeaveTrack(c)
  PROVE  OrderInv'
<1>1. /\ c \in Clients /\ BaseInv /\ lists \in [Lists -> Seq(Trackers)]
      /\ current \in Lists \cup {0} /\ 0 \notin Lists
  BY OrderTypes
<1>2. UNCHANGED <<fleet, published, got>>
  BY DEF ConnectTrack, LeaveTrack
<1>3. PICK pc \in {"open", "closed"} : Turns(c, pc)
  BY <1>1, ConnectTrackSteps, LeaveTrackSteps
<1>4. Fresh' /\ InOrder'
  <2>1. \A d \in Clients : client'[d].pc \in {"new", "accepting", "refused"} =>
                             client[d].pc \in {"new", "accepting", "refused"}
    BY <1>3 DEF Turns
  <2> QED BY <1>2, <2>1 DEF Ordered, OrderInv, Fresh, InOrder
\* Every listener that goes on went on before, at the same place, and its list has
\* gained c or lost it.
<1>5. ASSUME NEW g \in Lists, listener'[g].pc \in Serving /\ ~ listener'[g].cancelled
      PROVE  /\ listener'[g].pc = listener[g].pc /\ listener'[g].next = listener[g].next
             /\ listener'[g].at = listener[g].at /\ ~ listener[g].cancelled
             /\ lists'[g] \in Seq(Trackers)
             /\ \/ lists'[g] = lists[g]
                \/ \E d \in Trackers : lists'[g] = Append(lists[g], d) /\ got[d] = <<>>
                \/ \E S : lists'[g] = Without(lists[g], S)
  <2>1. CASE ConnectTrack(c)
    <3>1. got[c] = <<>>
      BY <1>1, <2>1 DEF ConnectTrack, Ordered, OrderInv, Fresh
    <3>2. CASE current = 0
      <4>1. g # current'
        <5>1. listener'[current'].pc = "created"
          BY <1>1, <2>1, <3>2, ConnectTrackSteps DEF Becomes
        <5> QED BY <1>5, <5>1 DEF Serving
      <4>2. listener'[g] = listener[g] /\ lists'[g] = lists[g]
        BY <1>1, <2>1, <3>2, <4>1, ConnectTrackSteps DEF Becomes
      <4> QED BY <1>1, <1>5, <4>2
    <3>3. CASE current # 0
      <4>1. /\ listener' = listener /\ lists' \in [Lists -> Seq(Trackers)]
            /\ lists'[current] = Append(lists[current], c)
            /\ \A h \in Lists : h # current => lists'[h] = lists[h]
        BY <1>1, <2>1, <3>3, ConnectTrackSteps
      <4> QED BY <1>5, <3>1, <4>1
    <3> QED BY <3>2, <3>3
  <2>2. CASE LeaveTrack(c)
    <3>1. CASE current = 0
      <4>1. listener' = listener /\ lists' = lists
        BY <1>1, <2>2, <3>1, LeaveTrackSteps
      <4> QED BY <1>1, <1>5, <4>1
    <3>2. CASE current # 0
      <4> DEFINE rest == Without(lists[current], {c})
      <4>1. /\ lists' \in [Lists -> Seq(Trackers)] /\ lists'[current] = rest
            /\ \A h \in Lists : h # current => lists'[h] = lists[h]
        BY <1>1, <2>2, <3>2, LeaveTrackSteps
      <4>2. /\ \A h \in Lists : h # current => listener'[h] = listener[h]
            /\ listener'[current].pc = listener[current].pc
            /\ listener'[current].next = listener[current].next
            /\ listener'[current].at = listener[current].at
        BY <1>1, <2>2, <3>2, LeaveTrackSteps DEF Becomes
      <4>3. ~ listener[current].cancelled
        BY <1>1, <3>2 DEF BaseInv, ListenerOK
      <4> HIDE DEF rest
      <4>4. CASE g = current
        BY <4>1, <4>2, <4>3, <4>4 DEF rest
      <4>5. CASE g # current
        BY <1>5, <4>1, <4>2, <4>5
      <4> QED BY <4>4, <4>5
    <3> QED BY <3>1, <3>2
  <2> QED BY <2>1, <2>2
<1>6. ASSUME NEW g \in Lists, listener'[g].pc \in Serving /\ ~ listener'[g].cancelled
      PROVE  Heard(g)'
  <2>1. /\ listener'[g].pc = listener[g].pc /\ listener'[g].next = listener[g].next
        /\ listener'[g].at = listener[g].at /\ ~ listener[g].cancelled
        /\ lists'[g] \in Seq(Trackers)
        /\ \/ lists'[g] = lists[g]
           \/ \E d \in Trackers : lists'[g] = Append(lists[g], d) /\ got[d] = <<>>
           \/ \E S : lists'[g] = Without(lists[g], S)
    BY <1>5, <1>6
  <2>2. Heard(g)
    BY <1>6, <2>1 DEF Ordered, OrderInv
  <2>3. listener[g].next \in Nat /\ listener[g].at \in Nat
    BY OrderTypes
  <2>4. /\ \A k, n \in Nat : Reached(got, lists[g], k, n) => Reached(got, lists'[g], k, n)
        /\ \A n : (\A d \in Elements(lists[g]) : Below(got[d], n)) =>
                     \A d \in Elements(lists'[g]) : Below(got[d], n)
    <3>1. CASE lists'[g] = lists[g]
      BY <3>1
    <3>2. CASE lists'[g] # lists[g]
      BY <2>1, <3>2, ListOrder
    <3> QED BY <3>1, <3>2
  <2> QED BY <1>2, <2>1, <2>2, <2>3, <2>4 DEF Heard, Elements
<1> QED BY <1>4, <1>6 DEF OrderInv

\* Only the listener of the current list goes on.
LEMMA OneServes ==
  ASSUME Ordered, NEW g \in Lists, listener[g].pc \in Serving, ~ listener[g].cancelled
  PROVE  g = current /\ \A h \in Lists : h # g => listener[h].pc \notin Serving \/ listener[h].cancelled
<1>1. BaseInv /\ \A pc \in Serving : pc \notin Stopped
  BY OrderTypes DEF Serving, Stopped
<1>2. \A h \in Lists : h # current => listener[h].cancelled \/ listener[h].pc \in Stopped
  BY <1>1 DEF BaseInv, ListenerOK
<1> QED BY <1>1, <1>2

LEMMA LoopOrder ==
  ASSUME Ordered, NEW g \in Lists, Subscribe(g) \/ Receive(g) \/ EndFleet(g)
  PROVE  OrderInv'
<1> DEFINE l == listener[g]
           m == listener'[g]
<1>1. /\ BaseInv /\ got \in [Clients -> Seq(Messages)] /\ published \in Nat
      /\ l.next \in Nat /\ l.at \in Nat /\ lists[g] \in Seq(Clients)
      /\ Watchers \in SUBSET Clients
  BY OrderTypes
<1>2. UNCHANGED <<client, lists, published, got>>
  BY DEF Subscribe, Receive, EndFleet
<1>3. Fresh' /\ InOrder'
  BY <1>2 DEF Ordered, OrderInv, Fresh, InOrder
<1>4. \A h \in Lists : h # g => listener'[h] = listener[h]
  BY <1>1, ListenerSteps DEF Becomes
<1>5. ~ l.cancelled /\ l.pc \notin Stopped
  BY DEF Subscribe, Receive, EndFleet, Active, Stopped
<1>6. ASSUME NEW n \in Nat, \A c \in Clients : c \in Elements(lists[g]) => Below(got[c], n)
      PROVE  Reached(got, lists[g], 1, n)
  <2>1. ASSUME NEW i \in 1 .. Len(lists[g])
        PROVE  Below(got[lists[g][i]], n) /\ Below(got[lists[g][i]], n + 1)
    <3> DEFINE c == lists[g][i]
    <3>1. c \in Elements(lists[g]) /\ c \in Clients
      BY <1>1 DEF Elements
    <3>2. Below(got[c], n) /\ got[c] \in Seq(Messages) /\ n + 1 \in Nat /\ n <= n + 1
      BY <1>1, <1>6, <3>1
    <3> HIDE DEF c
    <3>3. Below(got[c], n + 1)
      BY <3>2, BelowMore
    <3> QED BY <3>2, <3>3 DEF c
  <2> QED BY <2>1 DEF Reached
<1>7. Heard(g)'
  <2>1. CASE Subscribe(g)
    <3>1. m.pc = "listen" /\ m.next = published + 1
      BY <1>1, <2>1, ListenerSteps DEF Becomes
    <3>2. \A c \in Clients : Below(got[c], published + 1)
      BY DEF Ordered, OrderInv, InOrder
    <3>3. Reached(got, lists[g], 1, published + 1)
      BY <1>1, <1>6, <3>2
    <3> QED BY <1>1, <1>2, <3>1, <3>2, <3>3 DEF Heard
  <2>2. CASE Receive(g)
    <3>1. m.pc = "track" /\ m.next = l.next /\ m.at = 1
      BY <1>1, <2>2, ListenerSteps DEF Becomes
    <3>2. l.pc = "listen" /\ Heard(g)
      BY <2>2 DEF Receive, Active, Serving, Ordered, OrderInv
    <3> QED BY <1>2, <3>1, <3>2 DEF Heard
  <2>3. CASE EndFleet(g)
    <3>1. m.pc = "listen" /\ m.next = l.next + 1
      BY <1>1, <2>3, ListenerSteps DEF Becomes
    <3>2. l.pc = "fleet" /\ Heard(g)
      BY <2>3 DEF EndFleet, Active, Serving, Ordered, OrderInv
    <3>3. /\ \A c \in Elements(lists[g]) : Below(got[c], l.next + 1)
          /\ \A w \in Watchers : Below(got[w], l.next + 1)
      BY <3>2 DEF Heard
    <3>4. Reached(got, lists[g], 1, l.next + 1)
      BY <1>1, <1>6, <3>3
    <3> QED BY <1>2, <3>1, <3>3, <3>4 DEF Heard
  <2> QED BY <2>1, <2>2, <2>3
<1>8. ASSUME NEW h \in Lists, h # g, listener'[h].pc \in Serving /\ ~ listener'[h].cancelled
      PROVE  FALSE
  <2>1. h # current => listener[h].cancelled \/ listener[h].pc \in Stopped
    BY <1>1 DEF BaseInv, ListenerOK
  <2>2. g # current => l.cancelled \/ l.pc \in Stopped
    BY <1>1 DEF BaseInv, ListenerOK
  <2> QED BY <1>4, <1>5, <1>8, <2>1, <2>2 DEF Serving, Stopped
<1> QED BY <1>3, <1>7, <1>8 DEF OrderInv

\* What a send does for the order: the client was not sent the message before.
LEMMA SentOrder ==
  ASSUME Ordered, NEW c \in Clients, NEW n \in Messages, n <= published,
         Below(got[c], n), client[c].pc = "open",
         got' = got \/ got' = [got EXCEPT ![c] = Append(@, n)],
         UNCHANGED <<client, published>>
  PROVE  /\ got' \in [Clients -> Seq(Messages)]
         /\ \A d \in Clients : d # c => got'[d] = got[d]
         /\ Below(got'[c], n + 1)
         /\ Fresh' /\ InOrder'
<1>1. got \in [Clients -> Seq(Messages)] /\ published \in Nat /\ n \in Nat
  BY OrderTypes, MessagesAreNat
<1>2. got' \in [Clients -> Seq(Messages)]
  <2>1. Append(got[c], n) \in Seq(Messages)
    BY <1>1
  <2> QED BY <1>1, <2>1
<1>3. \A d \in Clients : d # c => got'[d] = got[d]
  BY <1>1
<1>4. got'[c] = got[c] \/ got'[c] = Append(got[c], n)
  BY <1>1
<1>5. got[c] \in Seq(Nat) /\ Rising(got[c])
  BY <1>1, MessagesAreNat DEF Ordered, OrderInv, InOrder
<1>6. Rising(Append(got[c], n)) /\ Below(Append(got[c], n), n + 1)
  BY <1>1, <1>5, RisingAppend
<1>7. Below(got[c], n + 1)
  BY <1>1, BelowMore
<1>8. Rising(got'[c]) /\ Below(got'[c], n + 1)
  BY <1>4, <1>5, <1>6, <1>7
<1>9. Below(got'[c], published + 1)
  <2>1. n + 1 <= published + 1 /\ n + 1 \in Nat /\ published + 1 \in Nat
    BY <1>1
  <2> QED BY <1>2, <1>8, <2>1, BelowMore
<1>10. InOrder'
  BY <1>3, <1>8, <1>9 DEF Ordered, OrderInv, InOrder
<1>11. Fresh'
  BY <1>3 DEF Ordered, OrderInv, Fresh
<1> QED BY <1>2, <1>3, <1>8, <1>10, <1>11

LEMMA SendOrder ==
  ASSUME Ordered, NEW g \in Lists, SendTrack(g) \/ SendFleet(g)
  PROVE  OrderInv'
<1> DEFINE l == listener[g]
           m == listener'[g]
           n == l.next
<1>1. /\ BaseInv /\ got \in [Clients -> Seq(Messages)] /\ n \in Nat /\ l.at \in Nat
      /\ lists \in [Lists -> Seq(Trackers)] /\ fleet \in Seq(Watchers)
      /\ lists[g] \in Seq(Clients) /\ Distinct(lists[g])
      /\ fleet \in Seq(Clients) /\ Distinct(fleet)
      /\ Watchers \in SUBSET Clients /\ Trackers \in SUBSET Clients
  BY OrderTypes
<1>2. /\ l.pc \in {"track", "fleet"} /\ l.pc \in Serving /\ ~ l.cancelled
      /\ UNCHANGED <<client, lists, fleet, published>>
  BY DEF SendTrack, SendFleet, Active, Serving
<1>3. Heard(g)
  BY <1>2 DEF Ordered, OrderInv
<1>4. n \in Messages /\ n <= published
  <2>1. n \in 1 .. published /\ published \in 0 .. MaxMessages /\ MaxMessages \in Nat
    BY <1>1, <1>2, BaseFacts DEF NextOK, BaseInv
  <2> QED BY <2>1 DEF Messages
<1>5. \A h \in Lists : h # g => listener[h].pc \notin Serving \/ listener[h].cancelled
  BY <1>2, OneServes
<1>6. CASE SendTrack(g)
  <2> DEFINE s == lists[g]
             c == s[l.at]
  <2>1. l.pc = "track" /\ SendTo(g, s)
    BY <1>6 DEF SendTrack, Active
  <2>2. /\ l.at \in 1 .. Len(s) /\ c \in Clients
        /\ Becomes(g, l.pc, l.cancelled, n, l.at + 1, m.stale, l.left)
        /\ got' = got \/ got' = [got EXCEPT ![c] = Append(@, n)]
    BY <1>1, <1>2, <2>1, SendSteps
  <2>3. /\ Reached(got, s, l.at, n) /\ \A w \in Watchers : Below(got[w], n)
    BY <1>3, <2>1 DEF Heard
  <2>4. Below(got[c], n)
    BY <1>1, <2>2, <2>3, ReachedHere
  <2>5. c \in Trackers /\ c \in Elements(s)
    <3>1. s \in Seq(Trackers)
      BY <1>1
    <3>2. l.at \in 1 .. Len(s)
      BY <2>2
    <3> HIDE DEF s, l
    <3>3. \A i \in 1 .. Len(s) : s[i] \in Trackers /\ s[i] \in Elements(s)
      BY <3>1 DEF Elements
    <3> QED BY <3>2, <3>3
  <2>6. client[c].pc = "open" /\ c \notin Watchers
    <3>1. \A d \in Elements(s) : client[d].pc = "open"
      BY DEF Ordered, Members, MemberInv, ListsHold, Holds
    <3> HIDE DEF c, s
    <3> QED BY <2>5, <3>1, ConnectionAssumption
  <2> HIDE DEF c, s, n, l, m
  <2>7. /\ got' \in [Clients -> Seq(Messages)]
        /\ \A d \in Clients : d # c => got'[d] = got[d]
        /\ Below(got'[c], n + 1)
        /\ Fresh' /\ InOrder'
    BY <1>2, <1>4, <2>2, <2>4, <2>6, SentOrder
  <2>8. Reached(got', s, l.at + 1, n)
    BY <1>1, <2>2, <2>3, <2>7, ReachedSend DEF s, c
  <2>9. \A w \in Watchers : Below(got'[w], n)
    BY <1>1, <2>3, <2>6, <2>7
  <2>10. m.pc = "track" /\ m.next = n /\ m.at = l.at + 1
         /\ \A h \in Lists : h # g => listener'[h] = listener[h]
    BY <2>1, <2>2 DEF Becomes, m
  <2>11. Heard(g)'
    BY <1>2, <2>8, <2>9, <2>10 DEF Heard, m, s
  <2> QED BY <1>5, <2>7, <2>10, <2>11 DEF OrderInv
<1>7. CASE SendFleet(g)
  <2> DEFINE c == fleet[l.at]
  <2>1. l.pc = "fleet" /\ SendTo(g, fleet)
    BY <1>7 DEF SendFleet, Active
  <2>2. /\ l.at \in 1 .. Len(fleet) /\ c \in Clients
        /\ Becomes(g, l.pc, l.cancelled, n, l.at + 1, m.stale, l.left)
        /\ got' = got \/ got' = [got EXCEPT ![c] = Append(@, n)]
    BY <1>1, <1>2, <2>1, SendSteps
  <2>3. /\ \A d \in Elements(lists[g]) : Below(got[d], n + 1)
        /\ \A w \in Watchers : Below(got[w], n + 1)
        /\ Reached(got, fleet, l.at, n)
    BY <1>3, <2>1 DEF Heard
  <2>4. Below(got[c], n)
    BY <1>1, <2>2, <2>3, ReachedHere
  <2>5. c \in Watchers /\ c \in Elements(fleet)
    BY <1>1, <2>2 DEF Elements
  <2>6. client[c].pc = "open" /\ c \notin Trackers
    BY <2>5, ConnectionAssumption DEF Ordered, Members, MemberInv, Holds
  <2>7. \A d \in Elements(lists[g]) : d \in Trackers /\ d \in Clients
    BY <1>1, ElementsType
  <2> HIDE DEF c, n, l, m
  <2>8. /\ got' \in [Clients -> Seq(Messages)]
        /\ \A d \in Clients : d # c => got'[d] = got[d]
        /\ Below(got'[c], n + 1)
        /\ Fresh' /\ InOrder'
    BY <1>2, <1>4, <2>2, <2>4, <2>6, SentOrder
  <2>9. Reached(got', fleet, l.at + 1, n)
    BY <1>1, <2>2, <2>3, <2>8, ReachedSend DEF c
  <2>10. \A w \in Watchers : Below(got'[w], n + 1)
    BY <1>1, <2>3, <2>8
  <2>11. \A d \in Elements(lists[g]) : Below(got'[d], n + 1)
    BY <2>3, <2>6, <2>7, <2>8
  <2>12. m.pc = "fleet" /\ m.next = n /\ m.at = l.at + 1
         /\ \A h \in Lists : h # g => listener'[h] = listener[h]
    BY <2>1, <2>2 DEF Becomes, m
  <2>13. Heard(g)'
    BY <1>2, <2>9, <2>10, <2>11, <2>12 DEF Heard, m, Elements
  <2> QED BY <1>5, <2>8, <2>12, <2>13 DEF OrderInv
<1> QED BY <1>6, <1>7

LEMMA EndTrackOrder ==
  ASSUME Ordered, NEW g \in Lists, EndTrack(g)
  PROVE  OrderInv'
<1> DEFINE l    == listener[g]
           n    == l.next
           rest == Without(lists[g], l.stale)
<1>1. /\ BaseInv /\ got \in [Clients -> Seq(Messages)] /\ n \in Nat /\ published \in Nat
      /\ lists \in [Lists -> Seq(Trackers)] /\ lists[g] \in Seq(Trackers)
      /\ fleet \in Seq(Watchers)
      /\ Watchers \in SUBSET Clients /\ Trackers \in SUBSET Clients
  BY OrderTypes
<1>2. /\ l.pc = "track" /\ ~ l.cancelled /\ n \in 1 .. published /\ lists'[g] = rest
      /\ rest # <<>> =>
           /\ got' = got /\ fleet' = fleet
           /\ Becomes(g, "fleet", l.cancelled, n, 1, {}, l.left)
      /\ rest = <<>> =>
           /\ Becomes(g, "closing", TRUE, n, l.at, l.stale, l.left)
           /\ \A c \in Clients :
                \/ got'[c] = got[c]
                \/ c \in Elements(fleet)
                   /\ \E m \in n - 1 .. published : got'[c] = got[c] \o Span(n, m)
      /\ UNCHANGED <<client, published, failures>>
  BY <1>1, EndTrackSteps
<1>3. Heard(g) /\ \A h \in Lists : h # g => listener[h].pc \notin Serving \/ listener[h].cancelled
  <2>1. l.pc \in Serving
    BY <1>2 DEF Serving
  <2> QED BY <1>2, <2>1, OneServes DEF Ordered, OrderInv
<1>4. Reached(got, lists[g], l.at, n) /\ \A w \in Watchers : Below(got[w], n)
  BY <1>2, <1>3 DEF Heard
<1>5. \A h \in Lists : h # g => listener'[h] = listener[h]
  BY <1>2 DEF Becomes
<1>6. \A w \in Watchers : Below(got[w], n + 1)
  BY <1>1, <1>4, BelowMore
<1>7. CASE rest # <<>>
  <2>1. Fresh' /\ InOrder'
    BY <1>2, <1>7 DEF Ordered, OrderInv, Fresh, InOrder
  <2>2. \A c \in Elements(lists[g]) : Below(got[c], n + 1)
    <3>1. \A c \in Elements(lists[g]) : \E i \in 1 .. Len(lists[g]) : lists[g][i] = c
      BY <1>1, ElementsType
    <3>2. \A i \in 1 .. Len(lists[g]) : Below(got[lists[g][i]], n + 1)
      BY <1>4 DEF Reached
    <3> HIDE DEF n
    <3> QED BY <3>1, <3>2
  <2>3. Elements(rest) \in SUBSET Elements(lists[g])
    BY <1>1, WithoutFacts
  <2>4. Reached(got, fleet, 1, n)
    <3>1. \A i \in 1 .. Len(fleet) : fleet[i] \in Watchers
      BY <1>1
    <3> QED BY <1>4, <1>6, <3>1 DEF Reached
  <2>5. listener'[g].pc = "fleet" /\ listener'[g].next = n /\ listener'[g].at = 1
    BY <1>2, <1>7 DEF Becomes
  <2> HIDE DEF rest
  <2>6. Heard(g)'
    BY <1>2, <1>6, <1>7, <2>2, <2>3, <2>4, <2>5 DEF Heard, Elements
  <2> QED BY <1>3, <1>5, <2>1, <2>6 DEF OrderInv
<1>8. CASE rest = <<>>
  <2>1. listener'[g].cancelled
    BY <1>2, <1>8 DEF Becomes
  <2>2. \A c \in Clients :
          \/ got'[c] = got[c]
          \/ c \in Elements(fleet)
             /\ \E m \in n - 1 .. published : got'[c] = got[c] \o Span(n, m)
    BY <1>2, <1>8
  <2>3. \A c \in Elements(fleet) : c \in Watchers /\ c \in Clients /\ client[c].pc = "open"
    BY <1>1, ElementsType DEF Ordered, Members, MemberInv, Holds
  <2> HIDE DEF n
  <2>4. Fresh'
    BY <1>2, <2>2, <2>3 DEF Ordered, OrderInv, Fresh
  <2>5. ASSUME NEW c \in Clients PROVE Rising(got'[c]) /\ Below(got'[c], published + 1)
    <3>1. CASE got'[c] = got[c]
      BY <3>1 DEF Ordered, OrderInv, InOrder
    <3>2. CASE c \in Elements(fleet)
                 /\ \E m \in n - 1 .. published : got'[c] = got[c] \o Span(n, m)
      <4>1. got[c] \in Seq(Nat) /\ Rising(got[c]) /\ Below(got[c], n)
        BY <1>1, <1>4, <2>3, <3>2, MessagesAreNat DEF Ordered, OrderInv, InOrder
      <4>2. n \in Nat \ {0} /\ published \in 0 .. MaxMessages
        BY <1>1, <1>2, BaseFacts
      <4> QED BY <3>2, <4>1, <4>2, RisingSpan
    <3> QED BY <2>2, <3>1, <3>2
  <2> QED BY <1>2, <1>3, <1>5, <2>1, <2>4, <2>5 DEF OrderInv, InOrder
<1> QED BY <1>7, <1>8

LEMMA PublishOrder == Ordered /\ Publish => OrderInv'
<1> SUFFICES ASSUME Ordered, Publish PROVE OrderInv'
  OBVIOUS
<1>1. published' = published + 1 /\ UNCHANGED <<client, lists, listener, fleet, got>>
  BY DEF Publish
<1>2. got \in [Clients -> Seq(Messages)] /\ published \in Nat
  BY OrderTypes
<1>3. Fresh' /\ \A g \in Lists : Heard(g)' <=> Heard(g)
  BY <1>1 DEF Ordered, OrderInv, Fresh, Heard
<1>4. InOrder'
  <2>1. ASSUME NEW c \in Clients PROVE Below(got[c], published' + 1)
    <3>1. Below(got[c], published + 1)
      BY DEF Ordered, OrderInv, InOrder
    <3>2. published + 1 \in Nat /\ published' + 1 \in Nat /\ published + 1 <= published' + 1
      BY <1>1, <1>2
    <3> QED BY <1>2, <3>1, <3>2, BelowMore
  <2> QED BY <1>1, <2>1 DEF Ordered, OrderInv, InOrder
<1> QED BY <1>1, <1>3, <1>4 DEF Ordered, OrderInv

LEMMA NextOrder == Ordered /\ [Next]_vars => OrderInv'
<1> SUFFICES ASSUME Ordered, [Next]_vars PROVE OrderInv'
  OBVIOUS
<1>1. CASE \E c \in Clients : Connect(c) \/ AcceptFails(c) \/ Drop(c) \/ Handle(c)
  BY <1>1, ConnectOrder, FleetOrder, TrackOrder DEF Handle
<1>2. CASE \E g \in Lists : Listen(g) \/ ListenerFails(g)
  BY <1>2, LoopOrder, StopOrder, SendOrder, EndTrackOrder DEF Listen
<1>3. CASE Publish
  BY <1>3, PublishOrder
<1>4. CASE UNCHANGED vars
  BY <1>4, QuietOrder DEF vars
<1> QED BY <1>1, <1>2, <1>3, <1>4 DEF Next

LEMMA OrderHolds == Spec => []Ordered
<1>1. Init => Ordered
  BY InitBase, InitMembers, InitOrder DEF Ordered, Members
<1>2. Ordered /\ [Next]_vars => Ordered'
  BY NextBase, NextMembers, NextOrder DEF Ordered, Members
<1> QED BY <1>1, <1>2, PTL DEF Spec

\* No client is sent an update twice, or an older one after a newer one: lists that
\* change under the broadcast that goes through them, and listeners that replace each
\* other, do not repeat or reorder what Redis delivered
\* (services/connection_manager.py:56-97, 99-117).
THEOREM UpdatesInOrderHolds == Spec => []UpdatesInOrder
<1>1. Ordered => UpdatesInOrder
  BY DEF Ordered, OrderInv, InOrder, Rising, UpdatesInOrder
<1> QED BY <1>1, OrderHolds, PTL

-----------------------------------------------------------------------------
(* Whom a broadcast passes over *)

\* The positions before a where a client of P is.
Gaps(s, a, P) == {i \in 1 .. Len(s) : i < a /\ s[i] \in P}

\* A broadcast at position a has passed over as many clients as have left, and as
\* many as left still count when the list has become shorter than a - 1.
Fits(s, a, P, left) ==
  /\ Cardinality(Gaps(s, a, P)) <= left
  /\ Cardinality(Gaps(s, a, P)) + a <= left + Len(s) + 1

LEMMA GapsFinite ==
  ASSUME NEW T, NEW s \in Seq(T), NEW a, NEW P
  PROVE  IsFiniteSet(Gaps(s, a, P)) /\ Cardinality(Gaps(s, a, P)) \in Nat
<1>1. IsFiniteSet(1 .. Len(s))
  <2>1. Len(s) \in Nat
    OBVIOUS
  <2> QED BY <2>1, Segment
<1>2. Gaps(s, a, P) \in SUBSET (1 .. Len(s))
  BY DEF Gaps
<1> QED BY <1>1, <1>2, FS_Subset, FS_CardinalityType

\* Fewer clients wait for the message.
LEMMA FitsFewer ==
  ASSUME NEW T, NEW s \in Seq(T), NEW a \in Nat, NEW P, NEW Q, NEW left \in Nat,
         \A c \in Elements(s) : c \in Q => c \in P,
         Fits(s, a, P, left)
  PROVE  Fits(s, a, Q, left)
<1>1. Gaps(s, a, Q) \in SUBSET Gaps(s, a, P)
  BY ElementsType DEF Gaps
<1>2. Cardinality(Gaps(s, a, Q)) <= Cardinality(Gaps(s, a, P))
  BY <1>1, GapsFinite, FS_Subset
<1>3. /\ Cardinality(Gaps(s, a, Q)) \in Nat /\ Cardinality(Gaps(s, a, P)) \in Nat
      /\ Len(s) \in Nat
  BY GapsFinite
<1> QED BY <1>2, <1>3 DEF Fits

\* A broadcast begins.
LEMMA FitsStart ==
  ASSUME NEW T, NEW s \in Seq(T), NEW P
  PROVE  Fits(s, 1, P, 0)
<1>1. Gaps(s, 1, P) = {} /\ Len(s) \in Nat
  BY DEF Gaps
<1>2. Cardinality(Gaps(s, 1, P)) = 0
  BY <1>1, FS_EmptySet
<1> QED BY <1>1, <1>2 DEF Fits

\* The client at a was sent the message, or has lost its connection.
LEMMA FitsSend ==
  ASSUME NEW T, NEW s \in Seq(T), NEW a \in 1 .. Len(s), NEW P, NEW Q, NEW left \in Nat,
         s[a] \notin Q,
         \A c \in Elements(s) : c \in Q => c \in P,
         Fits(s, a, P, left)
  PROVE  Fits(s, a + 1, Q, left)
<1>1. Len(s) \in Nat /\ a \in Nat
  OBVIOUS
<1>2. ASSUME NEW i \in Gaps(s, a + 1, Q) PROVE i \in Gaps(s, a, P)
  <2>1. i \in 1 .. Len(s) /\ i < a + 1 /\ s[i] \in Q /\ i # a
    BY <1>2 DEF Gaps
  <2>2. i < a
    BY <1>1, <2>1
  <2>3. s[i] \in P
    BY <2>1, ElementsType
  <2> QED BY <2>1, <2>2, <2>3 DEF Gaps
<1>3. Cardinality(Gaps(s, a + 1, Q)) <= Cardinality(Gaps(s, a, P))
  <2>1. Gaps(s, a + 1, Q) \in SUBSET Gaps(s, a, P)
    BY <1>2
  <2> QED BY <2>1, GapsFinite, FS_Subset
<1>4. Cardinality(Gaps(s, a + 1, Q)) \in Nat /\ Cardinality(Gaps(s, a, P)) \in Nat
  BY GapsFinite
<1> QED BY <1>1, <1>3, <1>4 DEF Fits

\* A client joins behind the others.
LEMMA FitsAppend ==
  ASSUME NEW T, NEW s \in Seq(T), NEW c \in T, NEW a \in Nat \ {0}, NEW P, NEW left \in Nat,
         Fits(s, a, P, left)
  PROVE  Fits(Append(s, c), a, P, left)
<1> DEFINE r == Append(s, c)
           N == Len(s)
           G == Gaps(s, a, P)
           H == Gaps(r, a, P)
<1>1. N \in Nat /\ Len(r) = N + 1 /\ r \in Seq(T) /\ \A i \in 1 .. N : r[i] = s[i]
  BY AppendFacts
<1>2. /\ IsFiniteSet(G) /\ Cardinality(G) \in Nat /\ IsFiniteSet(H) /\ Cardinality(H) \in Nat
  BY <1>1, GapsFinite
<1> HIDE DEF r
<1>3. \A i \in H : i \in G \/ (i = N + 1 /\ N + 1 < a)
  BY <1>1 DEF Gaps
<1>4. N + 1 \notin G
  BY <1>1 DEF Gaps
<1>5. Cardinality(G) <= left /\ Cardinality(G) + a <= left + N + 1
  BY DEF Fits
<1> HIDE DEF G, H, N
<1>6. CASE N + 1 < a
  <2>1. H \in SUBSET (G \cup {N + 1})
    BY <1>3
  <2>2. IsFiniteSet(G \cup {N + 1}) /\ Cardinality(G \cup {N + 1}) = Cardinality(G) + 1
    BY <1>2, <1>4, FS_AddElement
  <2>3. Cardinality(H) <= Cardinality(G) + 1
    BY <2>1, <2>2, FS_Subset
  <2>4. Cardinality(H) <= left /\ Cardinality(H) + a <= left + (N + 1) + 1
    BY <1>1, <1>2, <1>5, <1>6, <2>3
  <2> QED BY <1>1, <2>4 DEF Fits, H, r
<1>7. CASE ~ (N + 1 < a)
  <2>1. H \in SUBSET G
    BY <1>3, <1>7
  <2>2. Cardinality(H) <= Cardinality(G)
    BY <1>2, <2>1, FS_Subset
  <2>3. Cardinality(H) <= left /\ Cardinality(H) + a <= left + (N + 1) + 1
    BY <1>1, <1>2, <1>5, <1>7, <2>2
  <2> QED BY <1>1, <2>3 DEF Fits, H, r
<1> QED BY <1>6, <1>7

\* A client leaves: the one that follows the gap may be passed over.
LEMMA FitsWithout ==
  ASSUME NEW T, NEW s \in Seq(T), Distinct(s), NEW k \in 1 .. Len(s),
         NEW a \in Nat \ {0}, NEW P, NEW left \in Nat,
         Fits(s, a, P, left)
  PROVE  Fits(Without(s, {s[k]}), a, P, left + 1)
<1> DEFINE r == Without(s, {s[k]})
           N == Len(s)
           G == Gaps(s, a, P)
           H == Gaps(r, a, P)
           D == H \ {a - 1}
           f == [i \in D |-> IF i < k THEN i ELSE i + 1]
<1>1. /\ N \in Nat /\ k \in 1 .. N /\ Len(r) = N - 1 /\ r \in Seq(T)
      /\ \A n \in 1 .. N - 1 : r[n] = IF n < k THEN s[n] ELSE s[n + 1]
  <2>1. r \in Seq(T)
    BY WithoutFacts
  <2>2. /\ Len(r) = N - 1
        /\ \A n \in 1 .. N - 1 : r[n] = IF n < k THEN s[n] ELSE s[n + 1]
    BY WithoutOne
  <2>3. N \in Nat /\ k \in 1 .. N
    OBVIOUS
  <2> QED BY <2>1, <2>2, <2>3
<1>2. /\ IsFiniteSet(G) /\ Cardinality(G) \in Nat /\ IsFiniteSet(H) /\ Cardinality(H) \in Nat
  BY <1>1, GapsFinite
<1>3. Cardinality(G) <= left /\ Cardinality(G) + a <= left + N + 1
  BY DEF Fits
<1> HIDE DEF r
<1>4. \A i \in H : i \in 1 .. N - 1 /\ i < a /\ r[i] \in P
  BY <1>1 DEF Gaps
<1>5. ASSUME NEW i \in D PROVE i \in Nat /\ f[i] \in G
  <2>1. i \in 1 .. N - 1 /\ i < a - 1 /\ r[i] \in P
    BY <1>1, <1>4, <1>5
  <2>2. CASE i < k
    BY <1>1, <2>1, <2>2 DEF Gaps
  <2>3. CASE ~ (i < k)
    BY <1>1, <2>1, <2>3 DEF Gaps
  <2> QED BY <2>1, <2>2, <2>3
<1>6. \A i, j \in D : f[i] = f[j] => i = j
  <2> SUFFICES ASSUME NEW i \in D, NEW j \in D, f[i] = f[j] PROVE i = j
    OBVIOUS
  <2>1. i \in Nat /\ j \in Nat
    BY <1>5
  <2>2. f[i] = (IF i < k THEN i ELSE i + 1) /\ f[j] = (IF j < k THEN j ELSE j + 1)
    OBVIOUS
  <2> QED BY <1>1, <2>1, <2>2
<1>7. f \in [D -> G]
  BY <1>5
<1> HIDE DEF f, D, G, H, N
<1>8. Cardinality(D) <= Cardinality(G) /\ IsFiniteSet(D) /\ Cardinality(D) \in Nat
  <2>1. f \in Injection(D, G)
    BY <1>6, <1>7 DEF Injection, IsInjective
  <2> QED BY <1>2, <2>1, FS_Injection, FS_CardinalityType
<1>9. Cardinality(H) <= Cardinality(D) + 1
  <2>1. CASE a - 1 \in H
    <3>1. Cardinality(D) = Cardinality(H) - 1
      BY <1>2, <2>1, FS_RemoveElement DEF D
    <3> QED BY <1>2, <1>8, <3>1
  <2>2. CASE a - 1 \notin H
    <3>1. D = H
      BY <2>2 DEF D
    <3> QED BY <1>2, <3>1
  <2> QED BY <2>1, <2>2
<1>10. a > N => D = H
  <2>1. a > N => a - 1 \notin H
    BY <1>1, <1>4
  <2> QED BY <2>1 DEF D
<1>11. Cardinality(H) <= left + 1 /\ Cardinality(H) + a <= (left + 1) + (N - 1) + 1
  <2>1. Cardinality(H) <= left + 1
    BY <1>2, <1>3, <1>8, <1>9
  <2>2. CASE a > N
    <3>1. Cardinality(H) <= Cardinality(G)
      BY <1>8, <1>10, <2>2
    <3> QED BY <1>1, <1>2, <1>3, <2>1, <3>1
  <2>3. CASE ~ (a > N)
    BY <1>1, <1>2, <1>3, <1>8, <1>9, <2>1, <2>3
  <2> QED BY <2>2, <2>3
<1> QED BY <1>1, <1>11 DEF Fits, H, r

\* The clients that are connected and were not sent the listener's message.
Unserved(g) == {c \in Clients : client[c].alive /\ listener[g].next \notin Elements(got[c])}

SkipInv ==
  \A g \in Lists :
    Active(g, "track") => Fits(lists[g], listener[g].at, Unserved(g), listener[g].left)

Bounded == Ordered /\ SkipInv

LEMMA InitSkips == Init => SkipInv
  BY DEF Init, SkipInv, Active

LEMMA SkipTypes ==
  ASSUME Bounded, NEW g \in Lists
  PROVE  /\ Ordered /\ lists[g] \in Seq(Trackers) /\ Distinct(lists[g])
         /\ listener[g].at \in Nat \ {0} /\ listener[g].left \in Nat
         /\ \A c \in Elements(lists[g]) :
              c \in Trackers /\ c \in Clients /\ client[c].pc = "open"
<1>1. /\ Ordered /\ lists[g] \in Seq(Trackers) /\ Distinct(lists[g])
      /\ listener[g].at \in Nat \ {0} /\ listener[g] \in Row
      /\ Trackers \in SUBSET Clients
  BY OrderTypes DEF Bounded
<1>2. listener[g].left \in Nat
  BY <1>1 DEF Row
<1>3. \A c \in Elements(lists[g]) : c \in Trackers /\ client[c].pc = "open"
  BY <1>1, ElementsType DEF Ordered, Members, MemberInv, ListsHold, Holds
<1> QED BY <1>1, <1>2, <1>3

\* A step that leaves the broadcasts where they are, sends or disconnects.
LEMMA QuietSkips ==
  ASSUME Bounded,
         \A g \in Lists : listener'[g].pc = "track" /\ ~ listener'[g].cancelled =>
           /\ listener'[g] = listener[g] /\ lists'[g] = lists[g]
           /\ \A c \in Elements(lists[g]) :
                /\ client'[c].alive => client[c].alive
                /\ got'[c] = got[c]
  PROVE  SkipInv'
<1> SUFFICES ASSUME NEW g \in Lists, listener'[g].pc = "track", ~ listener'[g].cancelled
             PROVE  Fits(lists'[g], listener'[g].at, Unserved(g)', listener'[g].left)
  BY DEF SkipInv, Active
<1>1. /\ listener'[g] = listener[g] /\ lists'[g] = lists[g]
      /\ \A c \in Elements(lists[g]) :
           /\ client'[c].alive => client[c].alive
           /\ got'[c] = got[c]
  OBVIOUS
<1>2. Fits(lists[g], listener[g].at, Unserved(g), listener[g].left)
  BY <1>1 DEF Bounded, SkipInv, Active
<1>3. \A c \in Elements(lists[g]) : c \in Unserved(g)' => c \in Unserved(g)
  BY <1>1 DEF Unserved, Elements
<1>4. Fits(lists[g], listener[g].at, Unserved(g)', listener[g].left)
  BY <1>2, <1>3, SkipTypes, FitsFewer
<1> QED BY <1>1, <1>4

LEMMA ClientSkips ==
  ASSUME Bounded, NEW c \in Clients,
         Connect(c) \/ AcceptFails(c) \/ Drop(c)
           \/ (c \in Watchers /\ (ConnectFleet(c) \/ LeaveFleet(c)))
  PROVE  SkipInv'
<1>1. UNCHANGED <<lists, listener, got>>
  BY DEF Connect, AcceptFails, Drop, ConnectFleet, LeaveFleet
<1>2. client \in [Clients -> ClientRow] /\ BaseInv
  BY OrderTypes DEF Bounded
<1>3. ASSUME NEW d \in Clients, client[d].pc = "open", client'[d].alive
      PROVE  client[d].alive
  <2>1. CASE Connect(c)
    BY <1>2, <1>3, <2>1 DEF Connect
  <2>2. CASE AcceptFails(c)
    BY <1>2, <1>3, <2>2 DEF AcceptFails
  <2>3. CASE Drop(c)
    BY <1>2, <1>3, <2>3 DEF Drop, ClientRow
  <2>4. CASE ConnectFleet(c)
    <3>1. Turns(c, "open")
      BY <1>2, <2>4, TurnsFact DEF ConnectFleet
    <3> QED BY <1>3, <3>1 DEF Turns
  <2>5. CASE LeaveFleet(c)
    <3>1. Turns(c, "closed")
      BY <1>2, <2>5, TurnsFact DEF LeaveFleet
    <3> QED BY <1>3, <3>1 DEF Turns
  <2> QED BY <2>1, <2>2, <2>3, <2>4, <2>5
<1> QED BY <1>1, <1>3, SkipTypes, QuietSkips

LEMMA ConnectTrackSkips ==
  ASSUME Bounded, NEW c \in Trackers, ConnectTrack(c)
  PROVE  SkipInv'
<1>1. /\ BaseInv /\ c \in Clients /\ got' = got
      /\ current \in Lists \cup {0} /\ 0 \notin Lists
  BY OrderTypes DEF Bounded, ConnectTrack
<1>2. Turns(c, "open")
  BY <1>1, ConnectTrackSteps
<1>3. \A d \in Clients : client'[d].alive = client[d].alive
  BY <1>2 DEF Turns
<1>4. CASE current = 0
  <2> SUFFICES ASSUME NEW g \in Lists, listener'[g].pc = "track" /\ ~ listener'[g].cancelled
               PROVE  /\ listener'[g] = listener[g] /\ lists'[g] = lists[g]
                      /\ \A d \in Elements(lists[g]) :
                           /\ client'[d].alive => client[d].alive
                           /\ got'[d] = got[d]
    BY QuietSkips
  <2>1. listener'[current'].pc = "created"
    BY <1>1, <1>4, ConnectTrackSteps DEF Becomes
  <2>2. g # current'
    BY <2>1
  <2>3. listener'[g] = listener[g] /\ lists'[g] = lists[g]
    BY <1>1, <1>4, <2>2, ConnectTrackSteps DEF Becomes
  <2> QED BY <1>1, <1>3, <2>3, SkipTypes
<1>5. CASE current # 0
  <2>1. /\ listener' = listener
        /\ lists'[current] = Append(lists[current], c)
        /\ \A h \in Lists : h # current => lists'[h] = lists[h]
    BY <1>1, <1>5, ConnectTrackSteps
  <2> SUFFICES ASSUME NEW g \in Lists, listener'[g].pc = "track", ~ listener'[g].cancelled
               PROVE  Fits(lists'[g], listener'[g].at, Unserved(g)', listener'[g].left)
    BY DEF SkipInv, Active
  <2>2. Fits(lists[g], listener[g].at, Unserved(g), listener[g].left)
    BY <2>1 DEF Bounded, SkipInv, Active
  <2>3. Unserved(g)' = Unserved(g)
    BY <1>1, <1>3, <2>1 DEF Unserved, Elements
  <2>4. CASE g = current
    BY <2>1, <2>2, <2>3, <2>4, SkipTypes, FitsAppend
  <2>5. CASE g # current
    BY <2>1, <2>2, <2>3, <2>5
  <2> QED BY <2>4, <2>5
<1> QED BY <1>4, <1>5

LEMMA LeaveTrackSkips ==
  ASSUME Bounded, NEW c \in Trackers, LeaveTrack(c)
  PROVE  SkipInv'
<1>1. /\ BaseInv /\ c \in Clients /\ got' = got /\ current \in Lists \cup {0}
      /\ listener \in [Lists -> Row]
  BY OrderTypes DEF Bounded, LeaveTrack
<1>2. Turns(c, "closed")
  BY <1>1, LeaveTrackSteps
<1>3. \A d \in Clients : client'[d].alive = client[d].alive
  BY <1>2 DEF Turns
<1>4. CASE current = 0
  <2>1. UNCHANGED <<lists, listener>>
    BY <1>1, <1>4, LeaveTrackSteps
  <2> QED BY <1>1, <1>3, <2>1, SkipTypes, QuietSkips
<1>5. CASE current # 0
  <2> DEFINE s    == lists[current]
             rest == Without(s, {c})
             l    == listener[current]
             gone == Len(s) - Len(rest)
  <2>1. /\ lists'[current] = rest
        /\ \A h \in Lists : h # current => lists'[h] = lists[h]
        /\ rest = <<>> => Becomes(current, l.pc, TRUE, l.next, l.at, l.stale, l.left)
        /\ rest # <<>> =>
             Becomes(current, l.pc, l.cancelled, l.next, l.at, l.stale, l.left + gone)
    BY <1>1, <1>5, LeaveTrackSteps
  <2>2. current \in Lists /\ s \in Seq(Trackers) /\ Distinct(s) /\ l.at \in Nat \ {0}
        /\ l.left \in Nat /\ ~ l.cancelled
    BY <1>1, <1>5, SkipTypes DEF BaseInv, ListenerOK
  <2>3. \A h \in Lists : h # current => listener'[h] = listener[h]
    BY <2>1 DEF Becomes
  <2>4. ASSUME NEW P, Fits(s, l.at, P, l.left)
        PROVE  Fits(rest, l.at, P, l.left + gone)
    <3>1. CASE c \in Elements(s)
      <4>1. PICK k \in 1 .. Len(s) : c = s[k]
        BY <2>2, <3>1, ElementsType
      <4>2. Len(rest) = Len(s) - 1 /\ Len(s) \in Nat
        <5>1. Len(s) \in Nat
          BY <2>2
        <5>2. Len(Without(s, {s[k]})) = Len(s) - 1
          BY <2>2, WithoutOne
        <5> QED BY <4>1, <5>1, <5>2
      <4>3. gone = 1
        BY <4>2
      <4>4. Fits(rest, l.at, P, l.left + 1)
        BY <2>2, <2>4, <4>1, FitsWithout
      <4> HIDE DEF rest
      <4> QED BY <4>3, <4>4
    <3>2. CASE c \notin Elements(s)
      <4>1. rest = s
        BY <2>2, <3>2, WithoutNone
      <4>2. gone = 0 /\ l.left + 0 = l.left
        BY <2>2, <4>1
      <4> QED BY <2>4, <4>1, <4>2
    <3> QED BY <3>1, <3>2
  <2> HIDE DEF rest, gone
  <2> SUFFICES ASSUME NEW g \in Lists, listener'[g].pc = "track", ~ listener'[g].cancelled
               PROVE  Fits(lists'[g], listener'[g].at, Unserved(g)', listener'[g].left)
    BY DEF SkipInv, Active
  <2>5. CASE g = current
    <3>1. rest # <<>>
      BY <2>1, <2>5 DEF Becomes
    <3>2. /\ listener'[g].pc = l.pc /\ listener'[g].next = l.next
          /\ listener'[g].at = l.at /\ listener'[g].left = l.left + gone
      BY <2>1, <2>5, <3>1 DEF Becomes
    <3>3. Fits(s, l.at, Unserved(g), l.left)
      BY <2>2, <2>5, <3>2 DEF Bounded, SkipInv, Active
    <3>4. Unserved(g)' = Unserved(g)
      BY <1>1, <1>3, <2>5, <3>2 DEF Unserved, Elements
    <3> QED BY <2>1, <2>4, <2>5, <3>2, <3>3, <3>4
  <2>6. CASE g # current
    <3>1. listener'[g] = listener[g] /\ lists'[g] = lists[g]
      BY <2>1, <2>3, <2>6
    <3>2. Fits(lists[g], listener[g].at, Unserved(g), listener[g].left)
      BY <3>1 DEF Bounded, SkipInv, Active
    <3>3. Unserved(g)' = Unserved(g)
      BY <1>1, <1>3, <3>1 DEF Unserved, Elements
    <3> QED BY <3>1, <3>2, <3>3
  <2> QED BY <2>5, <2>6
<1> QED BY <1>4, <1>5

LEMMA ListenSkips ==
  ASSUME Bounded, NEW g \in Lists,
         Subscribe(g) \/ Receive(g) \/ EndFleet(g) \/ Cancelled(g) \/ ListenerFails(g)
           \/ Close(g) \/ EndTrack(g) \/ SendFleet(g) \/ SendTrack(g)
  PROVE  SkipInv'
<1> DEFINE l == listener[g]
           m == listener'[g]
<1>1. /\ Ordered /\ BaseInv /\ got \in [Clients -> Seq(Messages)]
      /\ lists[g] \in Seq(Trackers) /\ lists[g] \in Seq(Clients) /\ fleet \in Seq(Clients)
      /\ l.at \in Nat \ {0} /\ l.left \in Nat /\ l.next \in Nat
  BY OrderTypes, SkipTypes DEF Bounded
<1>2. client' = client
  BY DEF Subscribe, Receive, EndFleet, Cancelled, ListenerFails, Close, EndTrack, SendFleet,
         SendTrack
<1>3. CASE Subscribe(g) \/ EndFleet(g) \/ Cancelled(g) \/ ListenerFails(g) \/ Close(g)
  <2>1. UNCHANGED <<lists, got>>
    BY <1>3 DEF Subscribe, EndFleet, Cancelled, ListenerFails, Close
  <2>2. /\ \A h \in Lists : h # g => listener'[h] = listener[h]
        /\ m.pc \in {"listen", "closing", "ended"}
    BY <1>1, <1>3, ListenerSteps DEF Becomes
  <2> QED BY <1>2, <2>1, <2>2, QuietSkips
<1>4. CASE Receive(g)
  <2>1. UNCHANGED <<lists, got>>
    BY <1>4 DEF Receive
  <2>2. /\ \A h \in Lists : h # g => listener'[h] = listener[h]
        /\ m.at = 1 /\ m.left = 0
    BY <1>1, <1>4, ListenerSteps DEF Becomes
  <2> SUFFICES ASSUME NEW h \in Lists, listener'[h].pc = "track", ~ listener'[h].cancelled
               PROVE  Fits(lists'[h], listener'[h].at, Unserved(h)', listener'[h].left)
    BY DEF SkipInv, Active
  <2>3. CASE h = g
    BY <1>1, <2>1, <2>2, <2>3, FitsStart
  <2>4. CASE h # g
    <3>1. listener'[h] = listener[h]
      BY <2>2, <2>4
    <3>2. Fits(lists[h], listener[h].at, Unserved(h), listener[h].left)
      BY <3>1 DEF Bounded, SkipInv, Active
    <3>3. Unserved(h)' = Unserved(h)
      BY <1>2, <2>1, <3>1 DEF Unserved, Elements
    <3> QED BY <2>1, <3>1, <3>2, <3>3
  <2> QED BY <2>3, <2>4
<1>5. CASE EndTrack(g) \/ SendFleet(g) \/ SendTrack(g)
  <2>1. l.pc \in {"track", "fleet"} /\ l.pc \in Serving /\ ~ l.cancelled
    BY <1>5 DEF EndTrack, SendFleet, SendTrack, Active, Serving
  <2>2. \A h \in Lists : h # g => ~ (listener[h].pc = "track" /\ ~ listener[h].cancelled)
    BY <1>1, <2>1, OneServes DEF Serving
  <2>3. CASE EndTrack(g)
    <3>1. /\ \A h \in Lists : h # g => listener'[h] = listener[h]
          /\ m.pc \in {"fleet", "closing"}
      <4> DEFINE rest == Without(lists[g], l.stale)
      <4>1. CASE rest = <<>>
        BY <1>1, <2>3, <4>1, EndTrackSteps DEF Becomes
      <4>2. CASE rest # <<>>
        BY <1>1, <2>3, <4>2, EndTrackSteps DEF Becomes
      <4> QED BY <4>1, <4>2
    <3>2. \A h \in Lists : ~ (listener'[h].pc = "track" /\ ~ listener'[h].cancelled)
      BY <2>2, <3>1
    <3> QED BY <3>2 DEF SkipInv, Active
  <2>4. CASE SendFleet(g)
    <3>1. l.pc = "fleet" /\ SendTo(g, fleet)
      BY <2>4 DEF SendFleet, Active
    <3>2. /\ \A h \in Lists : h # g => listener'[h] = listener[h]
          /\ m.pc = "fleet"
      BY <1>1, <2>1, <3>1, SendSteps DEF Becomes
    <3>3. \A h \in Lists : ~ (listener'[h].pc = "track" /\ ~ listener'[h].cancelled)
      BY <2>2, <3>2
    <3> QED BY <3>3 DEF SkipInv, Active
  <2>5. CASE SendTrack(g)
    <3> DEFINE s == lists[g]
               c == s[l.at]
    <3>1. l.pc = "track" /\ SendTo(g, s) /\ lists' = lists
      BY <2>5 DEF SendTrack, Active
    <3>2. /\ l.at \in 1 .. Len(s) /\ c \in Clients
          /\ Becomes(g, l.pc, l.cancelled, l.next, l.at + 1, m.stale, l.left)
          /\ \/ client[c].alive /\ got' = [got EXCEPT ![c] = Append(@, l.next)]
             \/ ~ client[c].alive /\ got' = got
      BY <1>1, <2>1, <3>1, SendSteps
    <3>3. /\ \A h \in Lists : h # g => listener'[h] = listener[h]
          /\ m.pc = "track" /\ m.next = l.next /\ m.at = l.at + 1 /\ m.left = l.left
      BY <3>1, <3>2 DEF Becomes
    <3>4. Fits(s, l.at, Unserved(g), l.left)
      BY <2>1, <3>1 DEF Bounded, SkipInv, Active
    <3>5. \A d \in Elements(s) : d \in Clients
      BY SkipTypes
    <3>5a. ASSUME NEW d \in Clients
            PROVE  Elements(Append(got[d], l.next)) = Elements(got[d]) \cup {l.next}
      <4>1. got[d] \in Seq(Nat)
        BY <1>1, MessagesAreNat
      <4> QED BY <1>1, <4>1, AppendFacts
    <3>6. ASSUME NEW d \in Clients PROVE Elements(got[d]) \in SUBSET Elements(got'[d])
      <4>1. CASE got' = got
        BY <4>1
      <4>2. CASE got' = [got EXCEPT ![c] = Append(@, l.next)] /\ d = c
        BY <1>1, <3>5a, <4>2
      <4>3. CASE got' = [got EXCEPT ![c] = Append(@, l.next)] /\ d # c
        BY <1>1, <4>3
      <4> QED BY <3>2, <4>1, <4>2, <4>3
    <3>7. c \notin Unserved(g)'
      <4>1. CASE ~ client[c].alive
        BY <1>2, <4>1 DEF Unserved
      <4>2. CASE client[c].alive
        <5>1. got'[c] = Append(got[c], l.next)
          BY <1>1, <3>2, <4>2
        <5>2. l.next \in Elements(got'[c])
          BY <3>2, <3>5a, <5>1
        <5> QED BY <3>3, <5>2 DEF Unserved, Elements
      <4> QED BY <4>1, <4>2
    <3>8. \A d \in Elements(s) : d \in Unserved(g)' => d \in Unserved(g)
      BY <1>2, <3>3, <3>5, <3>6 DEF Unserved, Elements
    <3>9. Fits(s, l.at + 1, Unserved(g)', l.left)
      BY <1>1, <3>2, <3>4, <3>7, <3>8, FitsSend
    <3> SUFFICES ASSUME NEW h \in Lists, listener'[h].pc = "track", ~ listener'[h].cancelled
                 PROVE  Fits(lists'[h], listener'[h].at, Unserved(h)', listener'[h].left)
      BY DEF SkipInv, Active
    <3>10. h = g
      BY <2>2, <3>3
    <3> QED BY <3>1, <3>3, <3>9, <3>10
  <2> QED BY <1>5, <2>3, <2>4, <2>5
<1> QED BY <1>3, <1>4, <1>5

LEMMA NextSkips == Bounded /\ [Next]_vars => SkipInv'
<1> SUFFICES ASSUME Bounded, [Next]_vars PROVE SkipInv'
  OBVIOUS
<1>1. CASE \E c \in Clients : Connect(c) \/ AcceptFails(c) \/ Drop(c) \/ Handle(c)
  BY <1>1, ClientSkips, ConnectTrackSkips, LeaveTrackSkips DEF Handle
<1>2. CASE \E g \in Lists : Listen(g) \/ ListenerFails(g)
  BY <1>2, ListenSkips DEF Listen
<1>3. CASE Publish \/ UNCHANGED vars
  BY <1>3, QuietSkips DEF Publish, vars
<1> QED BY <1>1, <1>2, <1>3 DEF Next

LEMMA BoundHolds == Spec => []Bounded
<1>1. Init => Bounded
  BY InitBase, InitMembers, InitOrder, InitSkips DEF Bounded, Ordered, Members
<1>2. Bounded /\ [Next]_vars => Bounded'
  BY NextBase, NextMembers, NextOrder, NextSkips DEF Bounded, Ordered, Members
<1> QED BY <1>1, <1>2, PTL DEF Spec

\* The for loop over a list that others change passes over a connected client only
\* if another has left the list since the broadcast began, at most one for each that
\* left (services/connection_manager.py:34-35, 66-72).
THEOREM SkipsBoundedHolds == Spec => []SkipsBounded
<1>1. Bounded => SkipsBounded
  <2> SUFFICES ASSUME Bounded, NEW g \in Lists, Active(g, "track"),
                      listener[g].at > Len(lists[g])
               PROVE  Cardinality({c \in Elements(lists[g]) :
                                     client[c].alive /\ listener[g].next \notin Elements(got[c])})
                        <= listener[g].left
    BY DEF SkipsBounded
  <2> DEFINE s == lists[g]
             a == listener[g].at
             G == Gaps(s, a, Unserved(g))
             M == {c \in Elements(s) :
                     client[c].alive /\ listener[g].next \notin Elements(got[c])}
             f == [i \in G |-> s[i]]
  <2>1. /\ s \in Seq(Trackers) /\ a \in Nat \ {0} /\ listener[g].left \in Nat
        /\ \A c \in Elements(s) : c \in Clients
    BY SkipTypes
  <2>2. IsFiniteSet(G) /\ Cardinality(G) \in Nat /\ Cardinality(G) <= listener[g].left
    BY <2>1, GapsFinite DEF Bounded, SkipInv, Fits
  <2>3. \A c \in M : \E i \in G : s[i] = c
    <3> SUFFICES ASSUME NEW c \in M PROVE \E i \in G : s[i] = c
      OBVIOUS
    <3>1. PICK i \in 1 .. Len(s) : s[i] = c
      BY <2>1, ElementsType
    <3>2. c \in Unserved(g) /\ i < a
      BY <2>1, <3>1 DEF Unserved
    <3> QED BY <3>1, <3>2 DEF Gaps
  <2>4. \A i \in G : s[i] \in M
    BY <2>1, ElementsType DEF Gaps, Unserved
  <2> HIDE DEF G, M
  <2>5. f \in Surjection(G, M)
    BY <2>3, <2>4 DEF Surjection
  <2>6. IsFiniteSet(M) /\ Cardinality(M) <= Cardinality(G)
    BY <2>2, <2>5, FS_Surjection
  <2>7. Cardinality(M) <= listener[g].left
    BY <2>1, <2>2, <2>6, FS_CardinalityType
  <2> QED BY <2>7 DEF M
<1> QED BY <1>1, BoundHolds, PTL

=============================================================================
