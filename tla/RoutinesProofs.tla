----------------------------- MODULE RoutinesProofs ----------------------------
(***************************************************************************)
(* Theorems about the components of Routines, for any values of their      *)
(* constants: daily publishing, the runtime and the deployment helpers of  *)
(* enterprise_maturity, and the scripts that tend the repository.          *)
(***************************************************************************)
EXTENDS Routines, FiniteSetTheorems, FunctionTheorems, WellFoundedInduction, TLAPS

-----------------------------------------------------------------------------
(* Daily publishing of arbitrage-engine.                                  *)

LEMMA PublishingCount ==
    \A S : (Publishing!IsFiniteSet(S) <=> IsFiniteSet(S)) /\ Publishing!Cardinality(S) = Cardinality(S)
BY DEF Publishing!IsFiniteSet, IsFiniteSet, Publishing!Cardinality, Cardinality

LEMMA PublishingMax ==
    ASSUME NEW a \in Int, NEW b \in Int PROVE Publishing!Max({a, b}) = IF a >= b THEN a ELSE b
<1> DEFINE m == IF a >= b THEN a ELSE b
<1>1. m \in {a, b} /\ \A y \in {a, b} : m >= y
  OBVIOUS
<1>2. \A x \in {a, b} : (\A y \in {a, b} : x >= y) => x = m
  OBVIOUS
<1> HIDE DEF m
<1>3. (CHOOSE x \in {a, b} : \A y \in {a, b} : x >= y) = m
  BY <1>1, <1>2
<1> QED
  BY <1>3 DEF Publishing!Max, m

LEMMA PublishingMin ==
    ASSUME NEW a \in Int, NEW b \in Int PROVE Publishing!Min({a, b}) = IF a <= b THEN a ELSE b
<1> DEFINE m == IF a <= b THEN a ELSE b
<1>1. m \in {a, b} /\ \A y \in {a, b} : m <= y
  OBVIOUS
<1>2. \A x \in {a, b} : (\A y \in {a, b} : x <= y) => x = m
  OBVIOUS
<1> HIDE DEF m
<1>3. (CHOOSE x \in {a, b} : \A y \in {a, b} : x <= y) = m
  BY <1>1, <1>2
<1> QED
  BY <1>3 DEF Publishing!Min, m

(* No two places of the sequences of H hold the same job.                  *)
Apart(H) ==
    \A p, q \in DOMAIN H : \A i \in DOMAIN H[p], k \in DOMAIN H[q] : H[p][i].id = H[q][k].id =>
      p = q /\ i = k

(* What the sequences of G hold, those of H do.                            *)
HeldBy(G, H) ==
    \A p \in DOMAIN G : \A i \in DOMAIN G[p] : \E q \in DOMAIN H : \E k \in DOMAIN H[q] : H[q][k].id = G[p][i].id

(* What is left of a sequence without its first n places, and these.       *)
LEMMA RestIs ==
    ASSUME NEW S, NEW s \in Seq(S), NEW n \in 0..Len(s)
    PROVE  /\ SubSeq(s, n + 1, Len(s)) \in Seq(S) /\ DOMAIN SubSeq(s, n + 1, Len(s)) = 1..(Len(s) - n)
           /\ \A i \in 1..(Len(s) - n) : i + n \in DOMAIN s /\ SubSeq(s, n + 1, Len(s))[i] = s[i + n]
<1>1. Len(s) \in Nat /\ DOMAIN s = 1..Len(s) /\ n \in Nat /\ n <= Len(s)
  OBVIOUS
<1>2. \A i \in 1..(Len(s) - n) : (n + 1) + i - 1 = i + n /\ i + n \in 1..Len(s)
  BY <1>1
<1>3. SubSeq(s, n + 1, Len(s)) = [i \in 1..(Len(s) - n) |-> s[(n + 1) + i - 1]]
  BY <1>1
<1>4. Len(s) - n \in Nat /\ \A i \in 1..(Len(s) - n) : s[i + n] \in S
  BY <1>1, <1>2
<1>5. [i \in 1..(Len(s) - n) |-> s[i + n]] \in Seq(S)
  BY <1>4
<1>6. SubSeq(s, n + 1, Len(s)) = [i \in 1..(Len(s) - n) |-> s[i + n]]
  BY <1>2, <1>3
<1> QED
  BY <1>1, <1>2, <1>5, <1>6

LEMMA FirstIs ==
    ASSUME NEW S, NEW s \in Seq(S), NEW n \in 0..Len(s)
    PROVE  /\ SubSeq(s, 1, n) \in Seq(S) /\ DOMAIN SubSeq(s, 1, n) = 1..n /\ Len(SubSeq(s, 1, n)) = n
           /\ \A i \in 1..n : i \in DOMAIN s /\ SubSeq(s, 1, n)[i] = s[i]
OBVIOUS

(* a and b say of every place of G where a place of H with the same job    *)
(* is, never the same one.                                                 *)
Source(a, b, H, G) ==
    /\ \A p \in DOMAIN G : \A i \in DOMAIN G[p] :
          /\ a[<<p, i>>] \in DOMAIN H /\ b[<<p, i>>] \in DOMAIN H[a[<<p, i>>]]
          /\ H[a[<<p, i>>]][b[<<p, i>>]].id = G[p][i].id
    /\ \A p, q \in DOMAIN G : \A i \in DOMAIN G[p], k \in DOMAIN G[q] :
          a[<<p, i>>] = a[<<q, k>>] /\ b[<<p, i>>] = b[<<q, k>>] => p = q /\ i = k

LEMMA Sourced ==
    ASSUME NEW a, NEW b, NEW H, NEW G, Source(a, b, H, G), Apart(H)
    PROVE  Apart(G) /\ HeldBy(G, H)
<1> DEFINE P == DOMAIN G
<1>1. ASSUME NEW p \in P, NEW q \in P, NEW i \in DOMAIN G[p], NEW k \in DOMAIN G[q],
             G[p][i].id = G[q][k].id
      PROVE  p = q /\ i = k
  <2>1. a[<<p, i>>] = a[<<q, k>>] /\ b[<<p, i>>] = b[<<q, k>>]
    BY <1>1 DEF Apart, Source
  <2> QED
    BY <1>1, <2>1 DEF Source
<1>2. ASSUME NEW p \in P, NEW i \in DOMAIN G[p]
      PROVE  \E q \in DOMAIN H : \E k \in DOMAIN H[q] : H[q][k].id = G[p][i].id
  <2>1. /\ a[<<p, i>>] \in DOMAIN H /\ b[<<p, i>>] \in DOMAIN H[a[<<p, i>>]]
        /\ H[a[<<p, i>>]][b[<<p, i>>]].id = G[p][i].id
    BY DEF Source
  <2> QED
    BY <2>1
<1>3. Apart(G)
  BY <1>1 DEF Apart
<1>4. HeldBy(G, H)
  BY <1>2 DEF HeldBy
<1> QED
  BY <1>3, <1>4

(* H holds a sequence at each place of P.                                  *)
Holding(H, P, S) == H \in [P -> Seq(S)]

(* G is H with a job handed from the head of one sequence to the tail of   *)
(* another, the first n jobs taken from one by another, or a new job at    *)
(* the tail of one.                                                        *)
Hands(G, H, x, y, job) ==
    /\ DOMAIN G = DOMAIN H /\ G[x] = Tail(H[x]) /\ G[y] = Append(H[y], job)
    /\ \A p \in DOMAIN H : p # x /\ p # y => G[p] = H[p]

Takes(G, H, x, y, n) ==
    /\ DOMAIN G = DOMAIN H /\ G[x] = SubSeq(H[x], n + 1, Len(H[x])) /\ G[y] = SubSeq(H[x], 1, n)
    /\ \A p \in DOMAIN H : p # x /\ p # y => G[p] = H[p]

Gets(G, H, y, job) ==
    /\ DOMAIN G = DOMAIN H /\ G[y] = Append(H[y], job)
    /\ \A p \in DOMAIN H : p # y => G[p] = H[p]

LEMMA Handed ==
    ASSUME NEW P, NEW S, NEW H, Holding(H, P, S), NEW x \in P, NEW y \in P, x # y,
           H[x] # <<>>, NEW job \in S, job.id = Head(H[x]).id, Apart(H),
           NEW G, Hands(G, H, x, y, job)
    PROVE  /\ Apart(G) /\ HeldBy(G, H) /\ HeldBy(H, G)
           /\ Len(H[y]) + 1 \in DOMAIN G[y] /\ G[y][Len(H[y]) + 1] = job
           /\ \A p \in P : \A i \in DOMAIN G[p] :
                 (p = y /\ i = Len(H[y]) + 1) \/ \E k \in DOMAIN H[p] : G[p][i] = H[p][k]
<1> DEFINE last == Len(H[y]) + 1
           D == UNION {{p} \X DOMAIN G[p] : p \in P}
           a == [s \in D |-> IF s[1] = y /\ s[2] = last THEN x ELSE s[1]]
           b == [s \in D |-> IF s[1] = x THEN s[2] + 1 ELSE IF s[1] = y /\ s[2] = last THEN 1 ELSE s[2]]
<1>00. /\ DOMAIN G = P /\ G[x] = Tail(H[x]) /\ G[y] = Append(H[y], job)
        /\ \A p \in P : p # x /\ p # y => G[p] = H[p]
  BY DEF Hands, Holding
<1>01. H \in [P -> Seq(S)]
  BY DEF Holding
<1> USE <1>00, <1>01
<1>0. /\ DOMAIN H = P
      /\ \A p \in P : H[p] \in Seq(S) /\ DOMAIN H[p] = 1..Len(H[p]) /\ Len(H[p]) \in Nat
  OBVIOUS
<1>2. /\ DOMAIN G[x] = 1..(Len(H[x]) - 1) /\ Len(H[x]) > 0
      /\ \A i \in DOMAIN G[x] : i + 1 \in DOMAIN H[x] /\ G[x][i] = H[x][i + 1]
      /\ Head(H[x]) = H[x][1] /\ 1 \in DOMAIN H[x]
  BY <1>0
<1>3. /\ DOMAIN G[y] = 1..last /\ G[y][last] = job /\ last \in DOMAIN G[y]
      /\ \A i \in DOMAIN G[y] : i # last => i \in DOMAIN H[y] /\ G[y][i] = H[y][i]
      /\ \A i \in DOMAIN H[y] : i \in DOMAIN G[y] /\ i # last /\ G[y][i] = H[y][i]
  BY <1>0
<1>4. ASSUME NEW p \in P, NEW i \in DOMAIN G[p]
      PROVE  /\ a[<<p, i>>] = IF p = y /\ i = last THEN x ELSE p
             /\ b[<<p, i>>] = IF p = x THEN i + 1 ELSE IF p = y /\ i = last THEN 1 ELSE i
  <2>1. <<p, i>> \in D
    OBVIOUS
  <2> QED
    BY <2>1
<1> HIDE DEF a, b, last
<1>5. ASSUME NEW p \in P, NEW i \in DOMAIN G[p]
      PROVE  /\ a[<<p, i>>] \in P /\ b[<<p, i>>] \in DOMAIN H[a[<<p, i>>]]
             /\ H[a[<<p, i>>]][b[<<p, i>>]].id = G[p][i].id
             /\ (p = y /\ i = last) \/ (a[<<p, i>>] = p /\ H[p][b[<<p, i>>]] = G[p][i])
  <2>1. CASE p = x
    BY <1>2, <1>4, <2>1
  <2>2. CASE p = y /\ i = last
    BY <1>2, <1>3, <1>4, <2>2
  <2>3. CASE p = y /\ i # last
    <3>1. a[<<p, i>>] = y /\ b[<<p, i>>] = i
      BY <1>4, <2>3
    <3>2. i \in DOMAIN H[y] /\ G[y][i] = H[y][i]
      BY <1>3, <2>3
    <3> QED
      BY <2>3, <3>1, <3>2
  <2>4. CASE p # x /\ p # y
    BY <1>4, <2>4
  <2> QED
    BY <2>1, <2>2, <2>3, <2>4
<1>6. ASSUME NEW p \in P, NEW q \in P, NEW i \in DOMAIN G[p], NEW k \in DOMAIN G[q],
             a[<<p, i>>] = a[<<q, k>>], b[<<p, i>>] = b[<<q, k>>]
      PROVE  p = q /\ i = k
  <2>1. (p = x => i \in Nat \ {0}) /\ (q = x => k \in Nat \ {0})
    BY <1>0, <1>2, <1>6
  <2>2. /\ a[<<p, i>>] = IF p = y /\ i = last THEN x ELSE p
        /\ b[<<p, i>>] = IF p = x THEN i + 1 ELSE IF p = y /\ i = last THEN 1 ELSE i
        /\ a[<<q, k>>] = IF q = y /\ k = last THEN x ELSE q
        /\ b[<<q, k>>] = IF q = x THEN k + 1 ELSE IF q = y /\ k = last THEN 1 ELSE k
    BY <1>4
  <2>3. CASE p = x
    <3>1. a[<<p, i>>] = x /\ b[<<p, i>>] = i + 1 /\ i \in Nat \ {0} /\ i + 1 # 1
      BY <2>1, <2>2, <2>3
    <3>2. q = x
      BY <1>6, <2>2, <3>1
    <3>3. b[<<q, k>>] = k + 1 /\ k \in Nat
      BY <2>1, <2>2, <3>2
    <3>4. i + 1 = k + 1
      BY <1>6, <3>1, <3>3
    <3> QED
      BY <2>3, <3>1, <3>2, <3>3, <3>4
  <2>4. CASE q = x
    <3>1. a[<<q, k>>] = x /\ b[<<q, k>>] = k + 1 /\ k \in Nat \ {0} /\ k + 1 # 1
      BY <2>1, <2>2, <2>4
    <3>2. p = x
      BY <1>6, <2>2, <3>1
    <3> QED
      BY <2>3, <3>2
  <2>5. CASE p # x /\ q # x
    BY <1>6, <2>2, <2>5
  <2> QED
    BY <2>3, <2>4, <2>5
<1>7. ASSUME NEW q \in P, NEW k \in DOMAIN H[q]
      PROVE  \E p \in P : \E i \in DOMAIN G[p] : G[p][i].id = H[q][k].id
  <2>1. CASE q = x /\ k = 1
    BY <1>2, <1>3, <2>1
  <2>2. CASE q = x /\ k # 1
    <3>1. k - 1 \in DOMAIN G[x] /\ (k - 1) + 1 = k
      BY <1>0, <1>2, <1>7, <2>2
    <3>2. G[x][k - 1] = H[x][k]
      BY <1>2, <3>1
    <3> QED
      BY <2>2, <3>1, <3>2
  <2>3. CASE q = y
    BY <1>3, <1>7, <2>3
  <2>4. CASE q # x /\ q # y
    BY <1>7, <2>4
  <2> QED
    BY <2>1, <2>2, <2>3, <2>4
<1>8. Apart(G) /\ HeldBy(G, H)
  <2>1. ASSUME NEW p \in P, NEW i \in DOMAIN G[p]
        PROVE  /\ a[<<p, i>>] \in DOMAIN H /\ b[<<p, i>>] \in DOMAIN H[a[<<p, i>>]]
               /\ H[a[<<p, i>>]][b[<<p, i>>]].id = G[p][i].id
    BY <1>0, <1>5, <2>1
  <2>2. Source(a, b, H, G)
    BY <1>6, <2>1 DEF Source
  <2> QED
    BY <2>2, Sourced
<1>9. HeldBy(H, G)
  BY <1>0, <1>7 DEF HeldBy
<1>10. ASSUME NEW p \in P, NEW i \in DOMAIN G[p], ~(p = y /\ i = last)
       PROVE  \E k \in DOMAIN H[p] : G[p][i] = H[p][k]
  <2>1. b[<<p, i>>] \in DOMAIN H[p] /\ H[p][b[<<p, i>>]] = G[p][i]
    BY <1>5, <1>10
  <2> QED
    BY <2>1
<1> QED
  BY <1>3, <1>8, <1>9, <1>10 DEF last

(* The first n jobs taken from one sequence by another that was empty.     *)
LEMMA Taken ==
    ASSUME NEW P, NEW S, NEW H, Holding(H, P, S), NEW x \in P, NEW y \in P, x # y,
           H[y] = <<>>, NEW n \in 0..Len(H[x]), Apart(H),
           NEW G, Takes(G, H, x, y, n)
    PROVE  /\ Apart(G) /\ HeldBy(G, H) /\ HeldBy(H, G)
           /\ \A p \in P : \A i \in DOMAIN G[p] :
                 \E q \in {p, x} : \E k \in DOMAIN H[q] : (q = p \/ p = y) /\ G[p][i] = H[q][k]
<1> DEFINE D == UNION {{p} \X DOMAIN G[p] : p \in P}
           a == [s \in D |-> IF s[1] = y THEN x ELSE s[1]]
           b == [s \in D |-> IF s[1] = x THEN s[2] + n ELSE s[2]]
<1>00. /\ DOMAIN G = P /\ G[x] = SubSeq(H[x], n + 1, Len(H[x])) /\ G[y] = SubSeq(H[x], 1, n)
        /\ \A p \in P : p # x /\ p # y => G[p] = H[p]
  BY DEF Takes, Holding
<1>01. H \in [P -> Seq(S)]
  BY DEF Holding
<1> USE <1>00, <1>01
<1>0. /\ DOMAIN H = P
      /\ \A p \in P : H[p] \in Seq(S) /\ DOMAIN H[p] = 1..Len(H[p]) /\ Len(H[p]) \in Nat
  OBVIOUS
<1>1. H[x] \in Seq(S) /\ DOMAIN H[x] = 1..Len(H[x]) /\ Len(H[x]) \in Nat /\ n \in Nat /\ n <= Len(H[x])
  BY <1>0
<1>2. /\ DOMAIN G[x] = 1..(Len(H[x]) - n)
      /\ \A i \in DOMAIN G[x] : i + n \in DOMAIN H[x] /\ G[x][i] = H[x][i + n]
  <2>1. n \in 0..Len(H[x]) /\ H[x] \in Seq(S) /\ G[x] = SubSeq(H[x], n + 1, Len(H[x]))
    BY <1>1
  <2>2. /\ DOMAIN SubSeq(H[x], n + 1, Len(H[x])) = 1..(Len(H[x]) - n)
        /\ \A i \in 1..(Len(H[x]) - n) : i + n \in DOMAIN H[x] /\ SubSeq(H[x], n + 1, Len(H[x]))[i] = H[x][i + n]
    BY ONLY <2>1, RestIs
  <2> QED
    BY ONLY <2>1, <2>2
<1>3. DOMAIN G[y] = 1..n /\ \A i \in DOMAIN G[y] : i \in DOMAIN H[x] /\ G[y][i] = H[x][i]
  <2>1. n \in 0..Len(H[x]) /\ H[x] \in Seq(S) /\ G[y] = SubSeq(H[x], 1, n)
    BY <1>1
  <2>2. DOMAIN SubSeq(H[x], 1, n) = 1..n
          /\ \A i \in 1..n : i \in DOMAIN H[x] /\ SubSeq(H[x], 1, n)[i] = H[x][i]
    BY ONLY <2>1, FirstIs
  <2> QED
    BY ONLY <2>1, <2>2
<1>4. ASSUME NEW p \in P, NEW i \in DOMAIN G[p]
      PROVE  /\ a[<<p, i>>] = IF p = y THEN x ELSE p
             /\ b[<<p, i>>] = IF p = x THEN i + n ELSE i
  <2>1. <<p, i>> \in D
    OBVIOUS
  <2> QED
    BY <2>1
<1> HIDE DEF a, b
<1>5. ASSUME NEW p \in P, NEW i \in DOMAIN G[p]
      PROVE  a[<<p, i>>] \in P /\ b[<<p, i>>] \in DOMAIN H[a[<<p, i>>]]
               /\ H[a[<<p, i>>]][b[<<p, i>>]] = G[p][i]
  <2>1. CASE p = x
    <3>1. a[<<p, i>>] = x /\ b[<<p, i>>] = i + n
      BY <1>4, <2>1
    <3>2. i + n \in DOMAIN H[x] /\ G[x][i] = H[x][i + n]
      BY <1>2, <2>1
    <3> QED
      BY <2>1, <3>1, <3>2
  <2>2. CASE p = y
    <3>1. a[<<p, i>>] = x /\ b[<<p, i>>] = i
      BY <1>4, <2>2
    <3>2. i \in DOMAIN H[x] /\ G[y][i] = H[x][i]
      BY <1>3, <2>2
    <3> QED
      BY <2>2, <3>1, <3>2
  <2>3. CASE p # x /\ p # y
    BY <1>4, <2>3
  <2> QED
    BY <2>1, <2>2, <2>3
<1>6. ASSUME NEW p \in P, NEW q \in P, NEW i \in DOMAIN G[p], NEW k \in DOMAIN G[q],
             a[<<p, i>>] = a[<<q, k>>], b[<<p, i>>] = b[<<q, k>>]
      PROVE  p = q /\ i = k
  <2>1. /\ p = x => i \in Nat \ {0}
        /\ q = x => k \in Nat \ {0}
        /\ p = y => i \in 1..n
        /\ q = y => k \in 1..n
    BY <1>1, <1>2, <1>3, <1>6
  <2>2. /\ a[<<p, i>>] = IF p = y THEN x ELSE p
        /\ b[<<p, i>>] = IF p = x THEN i + n ELSE i
        /\ a[<<q, k>>] = IF q = y THEN x ELSE q
        /\ b[<<q, k>>] = IF q = x THEN k + n ELSE k
    BY <1>4
  <2>3. CASE p = x /\ q = x
    <3>1. b[<<p, i>>] = i + n /\ b[<<q, k>>] = k + n /\ i \in Nat /\ k \in Nat
      BY <2>1, <2>2, <2>3
    <3>2. i + n = k + n
      BY <1>6, <3>1
    <3> QED
      BY <1>1, <2>3, <3>1, <3>2
  <2>4. CASE p = y /\ q = y
    BY <1>6, <2>2, <2>4
  <2>6. ~(p = x /\ q = y)
    <3>1. SUFFICES ASSUME p = x, q = y PROVE FALSE
      OBVIOUS
    <3>2. b[<<p, i>>] = i + n /\ b[<<q, k>>] = k /\ i \in Nat \ {0} /\ k \in 1..n
      BY <2>1, <2>2, <3>1
    <3>3. i + n = k
      BY <1>6, <3>2
    <3> QED
      BY <1>1, <3>2, <3>3
  <2>7. ~(p = y /\ q = x)
    <3>1. SUFFICES ASSUME p = y, q = x PROVE FALSE
      OBVIOUS
    <3>2. b[<<p, i>>] = i /\ b[<<q, k>>] = k + n /\ k \in Nat \ {0} /\ i \in 1..n
      BY <2>1, <2>2, <3>1
    <3>3. i = k + n
      BY <1>6, <3>2
    <3> QED
      BY <1>1, <3>2, <3>3
  <2>5. CASE p # x /\ p # y
    <3>1. q = p
      BY <1>6, <2>2, <2>5
    <3> QED
      BY <1>6, <2>2, <2>5, <3>1
  <2>8. (p = x \/ p = y) => (q = x \/ q = y)
    BY <1>6, <2>2
  <2> QED
    BY <2>3, <2>4, <2>5, <2>6, <2>7, <2>8
<1>7. ASSUME NEW q \in P, NEW k \in DOMAIN H[q]
      PROVE  \E p \in P : \E i \in DOMAIN G[p] : G[p][i].id = H[q][k].id
  <2>1. CASE q = x /\ k <= n
    <3>1. k \in DOMAIN G[y]
      BY <1>1, <1>3, <1>7, <2>1
    <3> QED
      BY <1>3, <2>1, <3>1
  <2>2. CASE q = x /\ ~(k <= n)
    <3>1. k - n \in DOMAIN G[x] /\ (k - n) + n = k
      BY <1>1, <1>2, <1>7, <2>2
    <3>2. G[x][k - n] = H[x][k]
      BY <1>2, <3>1
    <3> QED
      BY <2>2, <3>1, <3>2
  <2>3. CASE q # x /\ q # y
    BY <1>7, <2>3
  <2>4. q # y
    BY <1>7
  <2> QED
    BY <2>1, <2>2, <2>3, <2>4
<1>8. Apart(G) /\ HeldBy(G, H)
  <2>1. ASSUME NEW p \in P, NEW i \in DOMAIN G[p]
        PROVE  /\ a[<<p, i>>] \in DOMAIN H /\ b[<<p, i>>] \in DOMAIN H[a[<<p, i>>]]
               /\ H[a[<<p, i>>]][b[<<p, i>>]].id = G[p][i].id
    BY <1>0, <1>5, <2>1
  <2>2. Source(a, b, H, G)
    BY <1>6, <2>1 DEF Source
  <2> QED
    BY <2>2, Sourced
<1>9. HeldBy(H, G)
  BY <1>0, <1>7 DEF HeldBy
<1>10. ASSUME NEW p \in P, NEW i \in DOMAIN G[p]
       PROVE  \E q \in {p, x} : \E k \in DOMAIN H[q] : (q = p \/ p = y) /\ G[p][i] = H[q][k]
  <2>1. a[<<p, i>>] \in {p, x} /\ (a[<<p, i>>] = p \/ p = y)
    BY <1>4
  <2> QED
    BY <1>5, <2>1
<1> QED
  BY <1>8, <1>9, <1>10

(* A new job at the tail of one of them.                                   *)
LEMMA Joined ==
    ASSUME NEW P, NEW S, NEW H, Holding(H, P, S), NEW y \in P, NEW job \in S, Apart(H),
           \A p \in P : \A i \in DOMAIN H[p] : H[p][i].id # job.id,
           NEW G, Gets(G, H, y, job)
    PROVE  /\ Apart(G) /\ HeldBy(H, G)
           /\ Len(H[y]) + 1 \in DOMAIN G[y] /\ G[y][Len(H[y]) + 1] = job
           /\ \A p \in P : \A i \in DOMAIN G[p] :
                 G[p][i] = job \/ \E k \in DOMAIN H[p] : G[p][i] = H[p][k]
<1> DEFINE last == Len(H[y]) + 1
<1>00. DOMAIN G = P /\ G[y] = Append(H[y], job) /\ \A p \in P : p # y => G[p] = H[p]
  BY DEF Gets, Holding
<1>01. H \in [P -> Seq(S)]
  BY DEF Holding
<1> USE <1>00, <1>01
<1>0. /\ DOMAIN H = P
      /\ \A p \in P : H[p] \in Seq(S) /\ DOMAIN H[p] = 1..Len(H[p]) /\ Len(H[p]) \in Nat
  OBVIOUS
<1>2. /\ DOMAIN G[y] = 1..last /\ G[y][last] = job
      /\ \A i \in DOMAIN G[y] : i # last => i \in DOMAIN H[y] /\ G[y][i] = H[y][i]
      /\ \A i \in DOMAIN H[y] : i \in DOMAIN G[y] /\ G[y][i] = H[y][i]
  BY <1>0
<1>3. ASSUME NEW p \in P, NEW i \in DOMAIN G[p]
      PROVE  (p = y /\ i = last /\ G[p][i] = job) \/ (i \in DOMAIN H[p] /\ G[p][i] = H[p][i])
  BY <1>2, <1>3
<1>4. Apart(G)
  <2> SUFFICES ASSUME NEW p \in P, NEW q \in P, NEW i \in DOMAIN G[p], NEW k \in DOMAIN G[q],
                      G[p][i].id = G[q][k].id
               PROVE  p = q /\ i = k
    BY <1>0 DEF Apart
  <2> HIDE DEF last
  <2>1. \A o \in P : \A m \in DOMAIN H[o] : H[o][m].id # job.id
    OBVIOUS
  <2>2. CASE p = y /\ i = last
    <3>1. G[p][i] = job
      BY <1>2, <2>2
    <3>2. q = y /\ k = last
      BY <1>3, <2>1, <3>1
    <3> QED
      BY <2>2, <3>2
  <2>3. CASE q = y /\ k = last
    <3>1. G[q][k] = job
      BY <1>2, <2>3
    <3>2. p = y /\ i = last
      BY <1>3, <2>1, <3>1
    <3> QED
      BY <2>3, <3>2
  <2>4. CASE ~(p = y /\ i = last) /\ ~(q = y /\ k = last)
    <3>1. i \in DOMAIN H[p] /\ G[p][i] = H[p][i] /\ k \in DOMAIN H[q] /\ G[q][k] = H[q][k]
      BY <1>3, <2>4
    <3> QED
      BY <1>0, <3>1 DEF Apart
  <2> QED
    BY <2>2, <2>3, <2>4
<1>5. HeldBy(H, G)
  BY <1>0, <1>2 DEF HeldBy
<1> QED
  BY <1>2, <1>3, <1>4, <1>5

PublishPlaces == Publishing!Lists \cup PubRuns

RunShapes ==
    \A r \in PubRuns :
       /\ pubRun[r].step = "idle" => pubRun[r] = Publishing!Idle
       /\ pubRun[r].step = "dequeue" => pubRun[r].jobs = <<>>
       /\ pubRun[r].step = "record" => pubRun[r].jobs # <<>>

(* Jobs not yet enqueued are nowhere and were not tried.                   *)
JobsSound ==
    /\ Publishing!JobsAccounted
    /\ \A p \in PublishPlaces : \A i \in DOMAIN Publishing!Held[p] : Publishing!Held[p][i].id <= pubSent
    /\ \A j \in 1..PubNumJobs : j > pubSent => pubFailures[j] = 0

(* What a run may still publish, and the day it does so for.               *)
RunLoad(r) ==
    IF pubRun[r].step = "dequeue" THEN pubRun[r].capacity
    ELSE IF pubRun[r].step = "record" THEN Len(pubRun[r].jobs) - 1 ELSE Len(pubRun[r].jobs)
RunsOn(r, d) == pubRun[r].step # "idle" /\ pubRun[r].day = d

(* A day that is not crowded has one run at most, and what that may still  *)
(* publish fits into the target; what was published since the last restart *)
(* is counted.                                                             *)
TargetsSound ==
    \A d \in (0..PubMaxDay) \ pubCrowded :
       /\ pubCounter[d] <= PubDailyTarget
       /\ pubPosted[d] <= PubDailyTarget * pubRestarts + pubCounter[d]
       /\ \A r \in PubRuns : RunsOn(r, d) =>
             pubCounter[d] + RunLoad(r) <= PubDailyTarget /\ \A o \in PubRuns : RunsOn(o, d) => o = r

CountsSound ==
    /\ IsFiniteSet(Publishing!Counted) /\ IsFiniteSet(Publishing!Report)
    /\ Cardinality(Publishing!Counted) = Cardinality(Publishing!Report) + Cardinality(Publishing!Recording)

PublishingIInv == Publishing!TypeOK /\ RunShapes /\ JobsSound /\ TargetsSound /\ CountsSound

LEMMA HeldPlaces ==
    ASSUME Publishing!PublishingAssumption
    PROVE  /\ DOMAIN Publishing!Held = PublishPlaces /\ DOMAIN Publishing!Held' = PublishPlaces
           /\ Publishing!Held["queue"] = pubQueue /\ Publishing!Held'["queue"] = pubQueue'
           /\ Publishing!Held["results"] = pubResults /\ Publishing!Held'["results"] = pubResults'
           /\ Publishing!Held["dead"] = pubDead /\ Publishing!Held'["dead"] = pubDead'
           /\ \A r \in PubRuns : Publishing!Held[r] = pubRun[r].jobs /\ Publishing!Held'[r] = pubRun'[r].jobs
           /\ \A r \in PubRuns : r # "queue" /\ r # "results" /\ r # "dead"
           /\ "queue" \in PublishPlaces /\ "results" \in PublishPlaces /\ "dead" \in PublishPlaces
<1>1. \A r \in PubRuns : r # "queue" /\ r # "results" /\ r # "dead"
  BY DEF Publishing!PublishingAssumption, Publishing!Lists
<1> QED
  BY <1>1 DEF Publishing!Held, Publishing!Lists, PublishPlaces

LEMMA HeldStays ==
    ASSUME Publishing!PublishingAssumption, NEW p \in PublishPlaces,
           p = "queue" => UNCHANGED pubQueue, p = "results" => UNCHANGED pubResults, p = "dead" =>
             UNCHANGED pubDead,
           p \in PubRuns => pubRun'[p].jobs = pubRun[p].jobs
    PROVE  Publishing!Held'[p] = Publishing!Held[p]
<1>1. p = "queue" \/ p = "results" \/ p = "dead" \/ p \in PubRuns
  BY DEF PublishPlaces, Publishing!Lists
<1> QED
  BY <1>1, HeldPlaces

LEMMA HeldTypes ==
    ASSUME Publishing!PublishingAssumption, Publishing!TypeOK
    PROVE  Publishing!Held \in [PublishPlaces -> Seq(Publishing!Job)]
<1>1. \A r \in PubRuns : pubRun[r].jobs \in Seq(Publishing!Job)
  BY DEF Publishing!TypeOK
<1> QED
  BY <1>1 DEF Publishing!Held, Publishing!Lists, PublishPlaces, Publishing!TypeOK

LEMMA JobFields ==
    \A j \in Publishing!Job : j.id \in 1..PubNumJobs /\ j.id \in Int /\ j.retries \in 0..PubRetryBudget
  BY DEF Publishing!Job

LEMMA PublishingInits ==
    ASSUME Publishing!PublishingAssumption PROVE Publishing!Init => PublishingIInv
<1> SUFFICES ASSUME Publishing!Init PROVE PublishingIInv
  OBVIOUS
<1>0. /\ PubDailyTarget \in Nat /\ PubRetryBudget \in Nat /\ PubNumJobs \in Nat /\ PubMaxDay \in Nat
      /\ PubMaxRestarts \in Nat /\ IsFiniteSet(PubRuns)
  BY PublishingCount DEF Publishing!PublishingAssumption
<1>1. Publishing!TypeOK
  <2>1. \A r \in PubRuns : pubRun[r] = Publishing!Idle
    BY DEF Publishing!Init
  <2>2. Publishing!Idle \in [step : {"idle", "dequeue", "work", "record"}, day : 0..PubMaxDay,
                             capacity : 0..PubDailyTarget, publishes : BOOLEAN, jobs : Seq(Publishing!Job)]
    BY <1>0 DEF Publishing!Idle
  <2> QED
    BY <1>0, <2>1, <2>2 DEF Publishing!Init, Publishing!TypeOK
<1>2. \A r \in PubRuns : pubRun[r].step = "idle" /\ pubRun[r] = Publishing!Idle /\ pubRun[r].jobs = <<>>
  BY DEF Publishing!Init, Publishing!Idle
<1>3. RunShapes
  BY <1>2 DEF RunShapes
<1>4. \A p \in PublishPlaces : Publishing!Held[p] = <<>> /\ DOMAIN Publishing!Held[p] = {}
  <2>1. \A p \in PublishPlaces : Publishing!Held[p] = <<>>
    BY <1>2, HeldPlaces DEF Publishing!Init, PublishPlaces, Publishing!Lists
  <2>2. DOMAIN <<>> = {}
    OBVIOUS
  <2> QED
    BY <2>1, <2>2
<1>5. JobsSound
  <2>1. DOMAIN pubDead = {} /\ pubSent = 0 /\ 1..pubSent = {}
    BY DEF Publishing!Init
  <2>2. Publishing!JobsAccounted
    BY <1>4, <2>1, HeldPlaces DEF Publishing!JobsAccounted
  <2> QED
    BY <1>0, <1>4, <2>2 DEF JobsSound, Publishing!Init
<1>6. TargetsSound
  BY <1>0, <1>2 DEF TargetsSound, RunsOn, Publishing!Init
<1>7. CountsSound
  <2>1. Publishing!Recording = {}
    BY <1>2 DEF Publishing!Recording
  <2>2. Publishing!Report = {}
    BY DEF Publishing!Report, Publishing!Init
  <2>3. Publishing!Counted = {}
    <3>1. \A d \in 0..PubMaxDay : pubCounter[d] = 0 /\ {d} \X (1..pubCounter[d]) = {}
      BY DEF Publishing!Init
    <3> QED
      BY <3>1 DEF Publishing!Counted
  <2> QED
    BY <2>1, <2>2, <2>3, FS_EmptySet DEF CountsSound
<1> QED
  BY <1>1, <1>3, <1>5, <1>6, <1>7 DEF PublishingIInv

(* What the lemmas below take from the invariant.                          *)
LEMMA PublishingBounds ==
    ASSUME Publishing!PublishingAssumption, Publishing!TypeOK
    PROVE  /\ PubDailyTarget \in Nat /\ PubRetryBudget \in Nat /\ PubNumJobs \in Nat
           /\ PubMaxDay \in Nat
           /\ PubMaxRestarts \in Nat /\ IsFiniteSet(PubRuns)
           /\ pubSent \in 0..PubNumJobs /\ pubToday \in 0..PubMaxDay
           /\ pubRestarts \in 0..PubMaxRestarts
           /\ \A d \in 0..PubMaxDay : d \in Int /\ pubCounter[d] \in Nat /\ pubPosted[d] \in Nat
           /\ \A j \in 1..PubNumJobs : pubFailures[j] \in 0..(PubRetryBudget + 1)
           /\ \A r \in PubRuns :
                 /\ pubRun[r] \in [step : {"idle", "dequeue", "work", "record"}, day : 0..PubMaxDay,
                                   capacity : 0..PubDailyTarget, publishes : BOOLEAN, jobs : Seq(Publishing!Job)]
                 /\ pubRun[r].day \in 0..PubMaxDay /\ pubRun[r].capacity \in 0..PubDailyTarget
                 /\ pubRun[r].jobs \in Seq(Publishing!Job) /\ Len(pubRun[r].jobs) \in Nat
                 /\ RunLoad(r) \in Int
<1>1. \A r \in PubRuns :
         /\ pubRun[r] \in [step : {"idle", "dequeue", "work", "record"}, day : 0..PubMaxDay,
                           capacity : 0..PubDailyTarget, publishes : BOOLEAN, jobs : Seq(Publishing!Job)]
         /\ pubRun[r].day \in 0..PubMaxDay /\ pubRun[r].capacity \in 0..PubDailyTarget
         /\ pubRun[r].jobs \in Seq(Publishing!Job)
  BY DEF Publishing!TypeOK
<1>2. \A r \in PubRuns : Len(pubRun[r].jobs) \in Nat
  BY <1>1
<1>3. PubDailyTarget \in Nat /\ IsFiniteSet(PubRuns)
  BY PublishingCount DEF Publishing!PublishingAssumption
<1>4. \A r \in PubRuns : RunLoad(r) \in Int
  BY <1>1, <1>2, <1>3 DEF RunLoad
<1>5. \A d \in 0..PubMaxDay : d \in Int /\ pubCounter[d] \in Nat /\ pubPosted[d] \in Nat
  BY DEF Publishing!TypeOK, Publishing!PublishingAssumption
<1>6. /\ \A j \in 1..PubNumJobs : pubFailures[j] \in 0..(PubRetryBudget + 1)
      /\ pubSent \in 0..PubNumJobs /\ pubToday \in 0..PubMaxDay /\ pubRestarts \in 0..PubMaxRestarts
  BY DEF Publishing!TypeOK
<1> QED
  BY <1>1, <1>2, <1>3, <1>4, <1>5, <1>6 DEF Publishing!PublishingAssumption

(* A step that leaves every job where it is.                               *)
LEMMA HeldSame ==
    ASSUME Publishing!PublishingAssumption, JobsSound,
           \A r \in PubRuns : pubRun'[r].jobs = pubRun[r].jobs,
           UNCHANGED <<pubQueue, pubResults, pubDead, pubSent, pubFailures, pubRestarts>>
    PROVE  JobsSound'
<1>1. Publishing!Held' = Publishing!Held
  BY DEF Publishing!Held, Publishing!Lists
<1>2. Publishing!JobsAccounted'
  BY <1>1 DEF JobsSound, Publishing!JobsAccounted
<1> QED
  BY <1>1, <1>2 DEF JobsSound

(* A step of a run that does not get further than it may.                  *)
LEMMA RunTargets ==
    ASSUME Publishing!PublishingAssumption, Publishing!TypeOK, TargetsSound, NEW r \in PubRuns,
           \A o \in PubRuns : o # r => pubRun'[o] = pubRun[o],
           \/ pubRun'[r].step = "idle"
           \/ pubRun[r].step # "idle" /\ pubRun'[r].day = pubRun[r].day /\ RunLoad(r)' <= RunLoad(r),
           RunLoad(r)' \in Int,
           UNCHANGED <<pubCounter, pubPosted, pubCrowded, pubRestarts>>
    PROVE  TargetsSound'
<1> SUFFICES ASSUME NEW d \in (0..PubMaxDay) \ pubCrowded
             PROVE  /\ pubCounter[d] <= PubDailyTarget
                    /\ pubPosted[d] <= PubDailyTarget * pubRestarts + pubCounter[d]
                    /\ \A s \in PubRuns : RunsOn(s, d)' =>
                          pubCounter[d] + RunLoad(s)' <= PubDailyTarget /\ \A o \in PubRuns : RunsOn(o, d)' => o = s
  BY DEF TargetsSound
<1>1. \A o \in PubRuns : RunsOn(o, d)' => RunsOn(o, d)
  BY DEF RunsOn
<1>2. ASSUME NEW s \in PubRuns, RunsOn(s, d)' PROVE RunLoad(s)' <= RunLoad(s) /\ RunLoad(s)' \in Int
  <2>1. CASE s = r
    BY <1>2, <2>1 DEF RunsOn
  <2>2. CASE s # r
    <3>1. RunLoad(s)' = RunLoad(s) /\ RunLoad(s) \in Int
      BY <2>2, PublishingBounds DEF RunLoad
    <3> QED
      BY <3>1
  <2> QED
    BY <2>1, <2>2
<1>3. ASSUME NEW s \in PubRuns, RunsOn(s, d)'
      PROVE  pubCounter[d] + RunLoad(s)' <= PubDailyTarget /\ \A o \in PubRuns : RunsOn(o, d)' => o = s
  <2>1. pubCounter[d] + RunLoad(s) <= PubDailyTarget /\ \A o \in PubRuns : RunsOn(o, d) => o = s
    BY <1>1, <1>3 DEF TargetsSound
  <2>2. pubCounter[d] \in Nat /\ PubDailyTarget \in Nat /\ RunLoad(s) \in Int
    BY PublishingBounds
  <2> QED
    BY <1>1, <1>2, <1>3, <2>1, <2>2
<1> QED
  BY <1>3 DEF TargetsSound

LEMMA CountsSame ==
    ASSUME CountsSound, Publishing!Recording' = Publishing!Recording,
           UNCHANGED <<pubCounter, pubResults>>
    PROVE  CountsSound'
<1>1. Publishing!Counted' = Publishing!Counted /\ Publishing!Report' = Publishing!Report
  BY DEF Publishing!Counted, Publishing!Report
<1> QED
  BY <1>1 DEF CountsSound

(* A day has passed, or nothing happened.                                  *)
LEMMA MidnightStep ==
    ASSUME Publishing!PublishingAssumption, PublishingIInv,
           Publishing!Midnight \/ UNCHANGED Publishing!vars
    PROVE  PublishingIInv'
<1>1. /\ UNCHANGED <<pubQueue, pubCounter, pubResults, pubDead, pubRun, pubSent, pubFailures, pubPosted,
                     pubCrowded, pubRestarts>>
      /\ pubToday' = pubToday \/ (pubToday < PubMaxDay /\ pubToday' = pubToday + 1)
  BY DEF Publishing!Midnight, Publishing!vars, Publishing!storeVars
<1>2. Publishing!TypeOK'
  <2>1. PubMaxDay \in Nat /\ pubToday \in 0..PubMaxDay /\ Publishing!TypeOK
    BY PublishingBounds DEF PublishingIInv
  <2>2. pubToday' \in 0..PubMaxDay
    BY <1>1, <2>1
  <2> QED
    BY <1>1, <2>1, <2>2 DEF Publishing!TypeOK
<1>3. RunShapes'
  BY <1>1 DEF PublishingIInv, RunShapes
<1>4. JobsSound'
  BY <1>1, HeldSame DEF PublishingIInv
<1>5. TargetsSound'
  BY <1>1 DEF PublishingIInv, TargetsSound, RunsOn, RunLoad
<1>6. CountsSound'
  BY <1>1, CountsSame DEF PublishingIInv, Publishing!Recording
<1> QED
  BY <1>2, <1>3, <1>4, <1>5, <1>6 DEF PublishingIInv

LEMMA EnqueueStep ==
    ASSUME Publishing!PublishingAssumption, PublishingIInv, Publishing!Enqueue PROVE PublishingIInv'
<1> DEFINE H == Publishing!Held
           job == [id |-> pubSent + 1, retries |-> 0]
<1>1. /\ pubSent < PubNumJobs /\ pubSent' = pubSent + 1 /\ pubQueue' = Append(pubQueue, job)
      /\ UNCHANGED <<pubCounter, pubResults, pubDead, pubRun, pubToday, pubFailures, pubPosted, pubCrowded,
                     pubRestarts>>
  BY DEF Publishing!Enqueue
<1>2. pubSent \in Nat /\ PubNumJobs \in Nat /\ PubRetryBudget \in Nat /\ Publishing!TypeOK /\ JobsSound
  BY PublishingBounds DEF PublishingIInv
<1>3. job \in Publishing!Job /\ pubSent + 1 \in 1..PubNumJobs /\ pubSent' \in 0..PubNumJobs
  BY <1>1, <1>2 DEF Publishing!Job
<1>4. Publishing!TypeOK'
  <2>1. pubQueue' \in Seq(Publishing!Job)
    BY <1>1, <1>2, <1>3 DEF Publishing!TypeOK
  <2> QED
    BY <1>1, <1>2, <1>3, <2>1 DEF Publishing!TypeOK
<1>5. RunShapes'
  BY <1>1 DEF PublishingIInv, RunShapes
<1>6. JobsSound'
  <2>1. Holding(H, PublishPlaces, Publishing!Job)
    BY <1>2, HeldTypes DEF Holding
  <2>2. Apart(H) /\ \A p \in PublishPlaces : \A i \in DOMAIN H[p] : H[p][i].id <= pubSent /\ H[p][i].id \in Int
    <3>1. \A p \in PublishPlaces : \A i \in DOMAIN H[p] : H[p][i] \in Publishing!Job
      BY <2>1 DEF Holding
    <3> QED
      BY <1>2, <3>1, JobFields DEF JobsSound, Publishing!JobsAccounted, Apart
  <2>3. /\ DOMAIN H' = PublishPlaces /\ H'["queue"] = Append(H["queue"], job)
        /\ \A p \in PublishPlaces : p # "queue" => H'[p] = H[p]
        /\ "queue" \in PublishPlaces /\ H["dead"] = pubDead /\ DOMAIN H = PublishPlaces
    <3>1. \A p \in PublishPlaces : p # "queue" => H'[p] = H[p]
      BY <1>1 DEF Publishing!Held, PublishPlaces
    <3> QED
      BY <1>1, <3>1, HeldPlaces
  <2>0. job.id = pubSent + 1 /\ job.retries = 0
    OBVIOUS
  <2> DEFINE G == H'
  <2> HIDE DEF H, job, G
  <2>4. \A p \in PublishPlaces : \A i \in DOMAIN H[p] : H[p][i].id # job.id
    BY <1>2, <2>0, <2>2
  <2>41. Gets(G, H, "queue", job)
    BY <2>3 DEF G, Gets
  <2>42. /\ Apart(G) /\ HeldBy(H, G)
         /\ Len(H["queue"]) + 1 \in DOMAIN G["queue"] /\ G["queue"][Len(H["queue"]) + 1] = job
         /\ \A p \in PublishPlaces : \A i \in DOMAIN G[p] :
               G[p][i] = job \/ \E k \in DOMAIN H[p] : G[p][i] = H[p][k]
    BY <1>3, <2>1, <2>2, <2>3, <2>4, <2>41, Joined
  <2>5. /\ Apart(H') /\ HeldBy(H, H')
        /\ Len(H["queue"]) + 1 \in DOMAIN H'["queue"] /\ H'["queue"][Len(H["queue"]) + 1] = job
        /\ \A p \in PublishPlaces : \A i \in DOMAIN H'[p] :
              H'[p][i] = job \/ \E k \in DOMAIN H[p] : H'[p][i] = H[p][k]
    BY <2>42 DEF G
  <2>6. /\ \A p \in PublishPlaces \ {"dead"} : \A i \in DOMAIN H[p] : pubFailures[H[p][i].id] = H[p][i].retries
        /\ \A i \in DOMAIN pubDead : pubFailures[pubDead[i].id] = PubRetryBudget + 1
        /\ pubRestarts = 0 => \A j \in 1..pubSent : \E p \in PublishPlaces : \E i \in DOMAIN H[p] : H[p][i].id = j
        /\ \A j \in 1..PubNumJobs : j > pubSent => pubFailures[j] = 0
    BY <1>2, <2>3 DEF JobsSound, Publishing!JobsAccounted, H
  <2>7. ASSUME NEW p \in PublishPlaces \ {"dead"}, NEW i \in DOMAIN H'[p]
        PROVE  pubFailures'[H'[p][i].id] = H'[p][i].retries
    <3>1. CASE H'[p][i] = job
      <4>1. pubFailures[pubSent + 1] = 0
        BY <1>2, <1>3, <2>6
      <4> QED
        BY <1>1, <2>0, <3>1, <4>1
    <3>2. CASE \E k \in DOMAIN H[p] : H'[p][i] = H[p][k]
      BY <1>1, <2>6, <3>2
    <3> QED
      BY <2>5, <3>1, <3>2
  <2>8. ASSUME pubRestarts' = 0, NEW j \in 1..pubSent'
        PROVE  \E p \in PublishPlaces : \E i \in DOMAIN H'[p] : H'[p][i].id = j
    <3>1. CASE j = pubSent + 1
      BY <2>0, <2>3, <2>5, <3>1
    <3>2. CASE j # pubSent + 1
      <4>1. j \in 1..pubSent
        BY <1>1, <1>2, <3>2
      <4> QED
        BY <1>1, <2>3, <2>5, <2>6, <2>8, <4>1 DEF HeldBy
    <3> QED
      BY <3>1, <3>2
  <2>9. ASSUME NEW p \in PublishPlaces, NEW i \in DOMAIN H'[p] PROVE H'[p][i].id <= pubSent'
    <3>1. CASE H'[p][i] = job
      BY <1>1, <1>2, <2>0, <3>1
    <3>2. CASE \E k \in DOMAIN H[p] : H'[p][i] = H[p][k]
      BY <1>1, <1>2, <2>2, <3>2
    <3> QED
      BY <2>5, <3>1, <3>2
  <2>10. \A j \in 1..PubNumJobs : j > pubSent' => pubFailures'[j] = 0
    BY <1>1, <1>2, <2>6
  <2>11. Publishing!JobsAccounted'
    BY <1>1, <2>3, <2>5, <2>6, <2>7, <2>8 DEF Publishing!JobsAccounted, Apart, H
  <2> QED
    BY <2>9, <2>10, <2>11 DEF JobsSound, H
<1>7. TargetsSound'
  BY <1>1 DEF PublishingIInv, TargetsSound, RunsOn, RunLoad
<1>8. CountsSound'
  BY <1>1, CountsSame DEF PublishingIInv, Publishing!Recording
<1> QED
  BY <1>4, <1>5, <1>6, <1>7, <1>8 DEF PublishingIInv

(* A step that moves jobs but neither makes nor loses one.                 *)
LEMMA JobsMoved ==
    ASSUME Publishing!PublishingAssumption, Publishing!TypeOK, JobsSound,
           Apart(Publishing!Held'), HeldBy(Publishing!Held', Publishing!Held),
           HeldBy(Publishing!Held, Publishing!Held'), UNCHANGED <<pubSent, pubRestarts>>,
           \A p \in PublishPlaces \ {"dead"} : \A i \in DOMAIN Publishing!Held'[p] :
              pubFailures'[Publishing!Held'[p][i].id] = Publishing!Held'[p][i].retries,
           \A i \in DOMAIN Publishing!Held'["dead"] : pubFailures'[Publishing!Held'["dead"][i].id] = PubRetryBudget + 1,
           \A j \in 1..PubNumJobs : j > pubSent => pubFailures'[j] = 0
    PROVE  JobsSound'
<1> DEFINE H == Publishing!Held
<1>1. DOMAIN H = PublishPlaces /\ DOMAIN H' = PublishPlaces /\ H'["dead"] = pubDead'
  BY HeldPlaces
<1>2. ASSUME NEW p \in PublishPlaces, NEW i \in DOMAIN H'[p] PROVE H'[p][i].id <= pubSent'
  BY <1>1 DEF HeldBy, JobsSound
<1>3. ASSUME pubRestarts' = 0, NEW j \in 1..pubSent'
      PROVE  \E p \in PublishPlaces : \E i \in DOMAIN H'[p] : H'[p][i].id = j
  <2>1. PICK p \in PublishPlaces : \E i \in DOMAIN H[p] : H[p][i].id = j
    BY <1>1, <1>3 DEF JobsSound, Publishing!JobsAccounted
  <2> QED
    BY <1>1, <2>1 DEF HeldBy
<1> HIDE DEF H
<1>4. Publishing!JobsAccounted'
  BY <1>1, <1>3 DEF Publishing!JobsAccounted, Apart, H
<1> QED
  BY <1>2, <1>4 DEF JobsSound, H

LEMMA BeginStep ==
    ASSUME Publishing!PublishingAssumption, PublishingIInv, NEW r \in PubRuns,
           NEW publishes \in BOOLEAN,
           Publishing!Begin(r, publishes)
    PROVE  PublishingIInv'
<1> DEFINE began == [step |-> "dequeue", day |-> pubToday, capacity |-> Publishing!Capacity(pubToday),
                     publishes |-> publishes, jobs |-> <<>>]
<1>1. /\ pubRun[r].step = "idle" /\ Publishing!Capacity(pubToday) > 0
      /\ pubRun' = [pubRun EXCEPT ![r] = began]
      /\ UNCHANGED <<pubQueue, pubCounter, pubResults, pubDead, pubToday, pubSent, pubFailures, pubPosted,
                     pubRestarts>>
  BY DEF Publishing!Begin, Publishing!storeVars
<1>2. Publishing!TypeOK /\ RunShapes /\ JobsSound /\ TargetsSound /\ CountsSound
  BY DEF PublishingIInv
<1>3. /\ PubDailyTarget \in Nat /\ PubMaxDay \in Nat /\ pubToday \in 0..PubMaxDay
      /\ pubCounter[pubToday] \in Nat
      /\ \A o \in PubRuns : pubRun[o].day \in 0..PubMaxDay
  BY <1>2, PublishingBounds
<1>4. /\ Publishing!Capacity(pubToday) = PubDailyTarget - pubCounter[pubToday]
      /\ Publishing!Capacity(pubToday) \in 0..PubDailyTarget
  <2>1. Publishing!Max({0, PubDailyTarget - pubCounter[pubToday]})
          = IF 0 >= PubDailyTarget - pubCounter[pubToday] THEN 0 ELSE PubDailyTarget - pubCounter[pubToday]
    <3>1. 0 \in Int /\ PubDailyTarget - pubCounter[pubToday] \in Int
      BY ONLY <1>3
    <3> QED
      BY ONLY <3>1, PublishingMax
  <2> QED
    BY <1>1, <1>3, <2>1 DEF Publishing!Capacity
<1> DEFINE busy == {pubRun[o].day : o \in {p \in PubRuns : pubRun[p].step # "idle" /\ pubRun[p].day = pubToday}}
<1>5. pubCrowded' = pubCrowded \cup busy /\ busy \subseteq 0..PubMaxDay
  BY <1>3 DEF Publishing!Begin
<1>6. \A o \in PubRuns : pubRun'[o] = IF o = r THEN began ELSE pubRun[o]
  BY <1>1, <1>2 DEF Publishing!TypeOK
<1>7. began \in [step : {"idle", "dequeue", "work", "record"}, day : 0..PubMaxDay,
                 capacity : 0..PubDailyTarget, publishes : BOOLEAN, jobs : Seq(Publishing!Job)]
  BY <1>3, <1>4
<1> HIDE DEF busy
<1>8. Publishing!TypeOK'
  <2>1. pubCrowded' \subseteq 0..PubMaxDay
    BY <1>2, <1>5 DEF Publishing!TypeOK
  <2> QED
    BY <1>1, <1>2, <1>7, <2>1 DEF Publishing!TypeOK
<1>9. RunShapes'
  BY <1>2, <1>6 DEF RunShapes
<1>10. JobsSound'
  <2>1. pubRun[r].jobs = <<>>
    BY <1>1, <1>2 DEF RunShapes, Publishing!Idle
  <2>2. \A o \in PubRuns : pubRun'[o].jobs = pubRun[o].jobs
    BY <1>6, <2>1
  <2> QED
    BY <1>1, <1>2, <2>2, HeldSame
<1>11. TargetsSound'
  <2> SUFFICES ASSUME NEW d \in (0..PubMaxDay) \ pubCrowded'
               PROVE  /\ pubCounter[d] <= PubDailyTarget
                      /\ pubPosted[d] <= PubDailyTarget * pubRestarts + pubCounter[d]
                      /\ \A s \in PubRuns : RunsOn(s, d)' =>
                            /\ pubCounter[d] + RunLoad(s)' <= PubDailyTarget
                            /\ \A o \in PubRuns : RunsOn(o, d)' => o = s
    BY <1>1 DEF TargetsSound
  <2>1. d \notin pubCrowded /\ d \notin busy
    BY <1>5
  <2>2. \A o \in PubRuns : o # r => RunsOn(o, d)' = RunsOn(o, d) /\ RunLoad(o)' = RunLoad(o)
    BY <1>6 DEF RunsOn, RunLoad
  <2>3. ~RunsOn(r, d) /\ (RunsOn(r, d)' <=> d = pubToday) /\ RunLoad(r)' = Publishing!Capacity(pubToday)
    BY <1>1, <1>6 DEF RunsOn, RunLoad
  <2>4. ASSUME d = pubToday, NEW o \in PubRuns, RunsOn(o, d)' PROVE o = r
    BY <2>1, <2>2, <2>4 DEF RunsOn, busy
  <2>5. ASSUME NEW s \in PubRuns, RunsOn(s, d)'
        PROVE  /\ pubCounter[d] + RunLoad(s)' <= PubDailyTarget
               /\ \A o \in PubRuns : RunsOn(o, d)' => o = s
    <3>1. CASE s = r
      <4>1. d = pubToday
        BY <2>3, <2>5, <3>1
      <4> QED
        BY <1>3, <1>4, <2>3, <2>4, <3>1, <4>1
    <3>2. CASE s # r
      <4>1. RunsOn(s, d) /\ d # pubToday
        BY <2>2, <2>4, <2>5, <3>2
      <4>2. pubCounter[d] + RunLoad(s) <= PubDailyTarget /\ \A o \in PubRuns : RunsOn(o, d) => o = s
        BY <1>2, <2>1, <4>1 DEF TargetsSound
      <4> QED
        BY <2>2, <2>3, <3>2, <4>1, <4>2
    <3> QED
      BY <3>1, <3>2
  <2> QED
    BY <1>2, <2>1, <2>5 DEF TargetsSound
<1>12. CountsSound'
  <2>1. Publishing!Recording' = Publishing!Recording
    BY <1>1, <1>6 DEF Publishing!Recording
  <2> QED
    BY <1>1, <1>2, <2>1, CountsSame
<1> QED
  BY <1>8, <1>9, <1>10, <1>11, <1>12 DEF PublishingIInv

(* A run has a field or two replaced.                                      *)
LEMMA RunWorks ==
    ASSUME Publishing!TypeOK, NEW r \in PubRuns, NEW s \in {"work", "record"},
           NEW jobs \in Seq(Publishing!Job),
           pubRun' = [pubRun EXCEPT ![r].step = s, ![r].jobs = jobs]
    PROVE  /\ \A o \in PubRuns : o # r => pubRun'[o] = pubRun[o]
           /\ pubRun'[r].step = s /\ pubRun'[r].jobs = jobs
           /\ pubRun'[r].day = pubRun[r].day
           /\ pubRun' \in [PubRuns -> [step : {"idle", "dequeue", "work", "record"}, day : 0..PubMaxDay,
                              capacity : 0..PubDailyTarget, publishes : BOOLEAN, jobs : Seq(Publishing!Job)]]
<1> DEFINE R == [step : {"idle", "dequeue", "work", "record"}, day : 0..PubMaxDay,
                 capacity : 0..PubDailyTarget, publishes : BOOLEAN, jobs : Seq(Publishing!Job)]
<1>1. pubRun \in [PubRuns -> R]
  BY DEF Publishing!TypeOK
<1>2. [pubRun[r] EXCEPT !.step = s, !.jobs = jobs] \in R
  BY <1>1
<1>3. pubRun' = [pubRun EXCEPT ![r] = [pubRun[r] EXCEPT !.step = s, !.jobs = jobs]]
  BY <1>1
<1> QED
  BY <1>1, <1>2, <1>3

LEMMA DequeueStep ==
    ASSUME Publishing!PublishingAssumption, PublishingIInv, NEW r \in PubRuns, Publishing!Dequeue(r)
    PROVE  PublishingIInv'
<1> DEFINE H == Publishing!Held
           n == Publishing!Min({Len(pubQueue), pubRun[r].capacity})
<1>1. /\ pubRun[r].step = "dequeue"
      /\ pubRun' = [pubRun EXCEPT ![r].step = "work", ![r].jobs = SubSeq(pubQueue, 1, n)]
      /\ pubQueue' = SubSeq(pubQueue, n + 1, Len(pubQueue))
      /\ UNCHANGED <<pubCounter, pubResults, pubDead, pubToday, pubSent, pubFailures, pubPosted, pubCrowded,
                     pubRestarts>>
  BY DEF Publishing!Dequeue
<1>2. Publishing!TypeOK /\ RunShapes /\ JobsSound /\ TargetsSound /\ CountsSound
  BY DEF PublishingIInv
<1>3. /\ pubQueue \in Seq(Publishing!Job) /\ Len(pubQueue) \in Nat
      /\ n \in 0..Len(pubQueue) /\ n <= pubRun[r].capacity /\ pubRun[r].capacity \in Nat /\ n \in Nat
  <2>0. pubRun[r].capacity \in 0..PubDailyTarget /\ PubDailyTarget \in Nat
    BY <1>2, PublishingBounds
  <2>1. pubQueue \in Seq(Publishing!Job) /\ Len(pubQueue) \in Nat /\ pubRun[r].capacity \in Nat
    BY <1>2, <2>0 DEF Publishing!TypeOK
  <2>2. n = IF Len(pubQueue) <= pubRun[r].capacity THEN Len(pubQueue) ELSE pubRun[r].capacity
    <3>1. Len(pubQueue) \in Int /\ pubRun[r].capacity \in Int
      BY ONLY <2>1
    <3> QED
      BY ONLY <3>1, PublishingMin
  <2> HIDE DEF n
  <2> QED
    BY <2>1, <2>2
<1> HIDE DEF n
<1>4. /\ SubSeq(pubQueue, 1, n) \in Seq(Publishing!Job) /\ Len(SubSeq(pubQueue, 1, n)) = n
      /\ pubQueue' \in Seq(Publishing!Job)
  BY <1>1, <1>3, FirstIs, RestIs
<1>5. /\ \A o \in PubRuns : o # r => pubRun'[o] = pubRun[o]
      /\ pubRun'[r].step = "work" /\ pubRun'[r].jobs = SubSeq(pubQueue, 1, n)
      /\ pubRun'[r].day = pubRun[r].day
      /\ pubRun' \in [PubRuns -> [step : {"idle", "dequeue", "work", "record"}, day : 0..PubMaxDay,
                         capacity : 0..PubDailyTarget, publishes : BOOLEAN, jobs : Seq(Publishing!Job)]]
  BY <1>1, <1>2, <1>4, RunWorks
<1>6. Publishing!TypeOK'
  BY <1>1, <1>2, <1>4, <1>5 DEF Publishing!TypeOK
<1>7. RunShapes'
  BY <1>2, <1>5 DEF RunShapes
<1>8. JobsSound'
  <2>1. Holding(H, PublishPlaces, Publishing!Job) /\ Apart(H)
    BY <1>2, HeldTypes DEF Holding, JobsSound, Publishing!JobsAccounted, Apart
  <2>2. /\ H["queue"] = pubQueue /\ H[r] = <<>> /\ r # "queue" /\ r # "dead" /\ r \in PublishPlaces
        /\ "queue" \in PublishPlaces /\ DOMAIN H = PublishPlaces /\ DOMAIN H' = PublishPlaces
        /\ "dead" \in PublishPlaces /\ H["dead"] = pubDead
    BY <1>1, <1>2, HeldPlaces DEF RunShapes, PublishPlaces
  <2>3. \A p \in PublishPlaces : p # "queue" /\ p # r => H'[p] = H[p]
    BY <1>1, <1>5, HeldStays
  <2>4. H'["queue"] = SubSeq(H["queue"], n + 1, Len(H["queue"])) /\ H'[r] = SubSeq(H["queue"], 1, n)
    BY <1>1, <1>5, HeldPlaces
  <2> DEFINE G == H'
  <2>5. Takes(G, H, "queue", r, n)
    BY <2>2, <2>3, <2>4 DEF Takes
  <2>6. n \in 0..Len(H["queue"])
    BY <1>3, <2>2
  <2> HIDE DEF H, G
  <2>7. /\ Apart(G) /\ HeldBy(G, H) /\ HeldBy(H, G)
        /\ \A p \in PublishPlaces : \A i \in DOMAIN G[p] :
              \E q \in {p, "queue"} : \E k \in DOMAIN H[q] : (q = p \/ p = r) /\ G[p][i] = H[q][k]
    BY <2>1, <2>2, <2>5, <2>6, Taken
  <2>8. /\ \A p \in PublishPlaces \ {"dead"} : \A i \in DOMAIN H[p] : pubFailures[H[p][i].id] = H[p][i].retries
        /\ \A i \in DOMAIN H["dead"] : pubFailures[H["dead"][i].id] = PubRetryBudget + 1
        /\ \A j \in 1..PubNumJobs : j > pubSent => pubFailures[j] = 0
    BY <1>2, <2>2 DEF JobsSound, Publishing!JobsAccounted, H
  <2>9. ASSUME NEW p \in PublishPlaces \ {"dead"}, NEW i \in DOMAIN G[p]
        PROVE  pubFailures[G[p][i].id] = G[p][i].retries
    <3>1. PICK q \in {p, "queue"} : \E k \in DOMAIN H[q] : G[p][i] = H[q][k]
      BY <2>7
    <3> QED
      BY <2>2, <2>8, <3>1
  <2>10. ASSUME NEW i \in DOMAIN G["dead"] PROVE pubFailures[G["dead"][i].id] = PubRetryBudget + 1
    <3>1. \E k \in DOMAIN H["dead"] : G["dead"][i] = H["dead"][k]
      BY <2>2, <2>7
    <3> QED
      BY <2>8, <3>1
  <2> QED
    BY <1>1, <1>2, <2>7, <2>8, <2>9, <2>10, JobsMoved DEF G, H
<1>9. TargetsSound'
  <2>1. RunLoad(r) = pubRun[r].capacity /\ RunLoad(r)' = n
    BY <1>1, <1>4, <1>5 DEF RunLoad
  <2>2. RunLoad(r)' \in Int /\ RunLoad(r)' <= RunLoad(r)
    BY <1>3, <2>1
  <2>3. pubRun[r].step # "idle" /\ pubRun'[r].day = pubRun[r].day
    BY <1>1, <1>5
  <2>4. UNCHANGED <<pubCounter, pubPosted, pubCrowded, pubRestarts>>
    BY <1>1
  <2>5. \A o \in PubRuns : o # r => pubRun'[o] = pubRun[o]
    BY <1>5
  <2> QED
    BY <1>2, <2>2, <2>3, <2>4, <2>5, RunTargets
<1>10. CountsSound'
  <2>1. Publishing!Recording' = Publishing!Recording
    BY <1>1, <1>5 DEF Publishing!Recording
  <2> QED
    BY <1>1, <1>2, <2>1, CountsSame
<1> QED
  BY <1>6, <1>7, <1>8, <1>9, <1>10 DEF PublishingIInv

LEMMA CountStep ==
    ASSUME Publishing!PublishingAssumption, PublishingIInv, NEW r \in PubRuns, Publishing!Count(r)
    PROVE  PublishingIInv'
<1> DEFINE day == pubRun[r].day
           new == <<day, pubCounter[day] + 1>>
<1>1. /\ pubRun[r].step = "work" /\ pubRun[r].jobs # <<>>
      /\ pubCounter' = [pubCounter EXCEPT ![day] = @ + 1]
      /\ pubPosted' = [pubPosted EXCEPT ![day] = @ + 1]
      /\ pubRun' = [pubRun EXCEPT ![r].step = "record"]
      /\ UNCHANGED <<pubQueue, pubResults,
                     pubDead, pubToday, pubSent, pubFailures, pubCrowded, pubRestarts>>
  BY DEF Publishing!Count
<1>2. Publishing!TypeOK /\ RunShapes /\ JobsSound /\ TargetsSound /\ CountsSound
  BY DEF PublishingIInv
<1>3. /\ day \in 0..PubMaxDay /\ pubCounter[day] \in Nat /\ pubPosted[day] \in Nat
      /\ pubRun[r].jobs \in Seq(Publishing!Job) /\ PubDailyTarget \in Nat /\ PubMaxDay \in Nat
  BY <1>2, PublishingBounds
<1>4. Len(pubRun[r].jobs) \in Nat /\ Len(pubRun[r].jobs) >= 1
  BY <1>1, <1>3
<1>5. /\ \A o \in PubRuns : o # r => pubRun'[o] = pubRun[o]
      /\ pubRun'[r].step = "record" /\ pubRun'[r].jobs = pubRun[r].jobs /\ pubRun'[r].day = day
      /\ pubRun' \in [PubRuns -> [step : {"idle", "dequeue", "work", "record"}, day : 0..PubMaxDay,
                         capacity : 0..PubDailyTarget, publishes : BOOLEAN, jobs : Seq(Publishing!Job)]]
  <2>1. pubRun' = [pubRun EXCEPT ![r].step = "record", ![r].jobs = pubRun[r].jobs]
    BY <1>1, <1>2 DEF Publishing!TypeOK
  <2> QED
    BY <1>2, <1>3, <2>1, RunWorks
<1>6. \A d \in 0..PubMaxDay :
         /\ pubCounter'[d] = IF d = day THEN pubCounter[d] + 1 ELSE pubCounter[d]
         /\ pubPosted'[d] = IF d = day THEN pubPosted[d] + 1 ELSE pubPosted[d]
         /\ pubCounter[d] \in Nat /\ pubPosted[d] \in Nat
  BY <1>1, <1>2, <1>3 DEF Publishing!TypeOK
<1>7. Publishing!TypeOK'
  <2>1. pubCounter' \in [0..PubMaxDay -> Nat] /\ pubPosted' \in [0..PubMaxDay -> Nat]
    <3>1. pubCounter \in [0..PubMaxDay -> Nat] /\ pubPosted \in [0..PubMaxDay -> Nat]
      BY <1>2 DEF Publishing!TypeOK
    <3>2. /\ pubCounter' = [pubCounter EXCEPT ![day] = pubCounter[day] + 1]
          /\ pubPosted' = [pubPosted EXCEPT ![day] = pubPosted[day] + 1]
      BY <1>1, <1>3, <3>1
    <3>3. pubCounter[day] + 1 \in Nat /\ pubPosted[day] + 1 \in Nat
      BY <1>3
    <3> HIDE DEF day
    <3> QED
      BY <3>1, <3>2, <3>3
  <2> QED
    BY <1>1, <1>2, <1>5, <2>1 DEF Publishing!TypeOK
<1>8. RunShapes'
  BY <1>1, <1>2, <1>5 DEF RunShapes
<1>9. JobsSound'
  <2>1. \A o \in PubRuns : pubRun'[o].jobs = pubRun[o].jobs
    BY <1>5
  <2> QED
    BY <1>1, <1>2, <2>1, HeldSame
<1>10. TargetsSound'
  <2> SUFFICES ASSUME NEW d \in (0..PubMaxDay) \ pubCrowded
               PROVE  /\ pubCounter'[d] <= PubDailyTarget
                      /\ pubPosted'[d] <= PubDailyTarget * pubRestarts + pubCounter'[d]
                      /\ \A s \in PubRuns : RunsOn(s, d)' =>
                            /\ pubCounter'[d] + RunLoad(s)' <= PubDailyTarget
                            /\ \A o \in PubRuns : RunsOn(o, d)' => o = s
    BY <1>1 DEF TargetsSound
  <2>1. /\ pubCounter[d] <= PubDailyTarget
        /\ pubPosted[d] <= PubDailyTarget * pubRestarts + pubCounter[d]
        /\ \A s \in PubRuns : RunsOn(s, d) =>
              pubCounter[d] + RunLoad(s) <= PubDailyTarget /\ \A o \in PubRuns : RunsOn(o, d) => o = s
    BY <1>2 DEF TargetsSound
  <2>2. \A o \in PubRuns : o # r => RunsOn(o, d)' = RunsOn(o, d) /\ RunLoad(o)' = RunLoad(o)
    BY <1>5 DEF RunsOn, RunLoad
  <2>3. /\ RunsOn(r, d)' = RunsOn(r, d) /\ (RunsOn(r, d) <=> d = day)
        /\ RunLoad(r) = Len(pubRun[r].jobs) /\ RunLoad(r)' = Len(pubRun[r].jobs) - 1
    BY <1>1, <1>5 DEF RunsOn, RunLoad
  <2>4. PubDailyTarget * pubRestarts \in Int
    BY <1>2, PublishingBounds
  <2> DEFINE lost == PubDailyTarget * pubRestarts
  <2> HIDE DEF day, lost
  <2>5. CASE d = day
    <3>1. pubCounter[d] + Len(pubRun[r].jobs) <= PubDailyTarget /\ \A o \in PubRuns : RunsOn(o, d) =>
            o = r
      BY <2>1, <2>3, <2>5
    <3>2. pubCounter'[d] = pubCounter[d] + 1 /\ pubPosted'[d] = pubPosted[d] + 1
      BY <1>6, <2>5
    <3>3. \A o \in PubRuns : RunsOn(o, d)' => o = r
      BY <2>2, <3>1
    <3>4. pubCounter'[d] + RunLoad(r)' <= PubDailyTarget /\ pubCounter'[d] <= PubDailyTarget
      <4> DEFINE left == Len(pubRun[r].jobs)
                 published == pubCounter[d]
      <4>1. left \in Nat /\ left >= 1 /\ published \in Nat /\ published + left <= PubDailyTarget
        BY <1>4, <1>6, <3>1
      <4>2. pubCounter'[d] = published + 1 /\ RunLoad(r)' = left - 1
        BY <2>3, <3>2
      <4> HIDE DEF left, published
      <4> QED
        BY ONLY <1>3, <4>1, <4>2
    <3>5. pubPosted[d] <= lost + pubCounter[d] /\ lost \in Int /\ pubPosted[d] \in Nat
            /\ pubCounter[d] \in Nat
      BY <1>6, <2>1, <2>4 DEF lost
    <3>6. pubPosted'[d] <= lost + pubCounter'[d]
      BY <3>2, <3>5
    <3> QED
      BY <3>3, <3>4, <3>6 DEF lost
  <2>6. CASE d # day
    <3>1. pubCounter'[d] = pubCounter[d] /\ pubPosted'[d] = pubPosted[d]
      BY <1>6, <2>6
    <3>2. \A o \in PubRuns : RunsOn(o, d)' => RunsOn(o, d) /\ RunLoad(o)' = RunLoad(o)
      BY <2>2, <2>3, <2>6
    <3>3. ASSUME NEW s \in PubRuns, RunsOn(s, d)'
          PROVE  pubCounter'[d] + RunLoad(s)' <= PubDailyTarget /\ \A o \in PubRuns : RunsOn(o, d)' =>
                   o = s
      BY <2>1, <3>1, <3>2, <3>3
    <3> QED
      BY <2>1, <3>1, <3>3
  <2> QED
    BY <2>5, <2>6
<1>11. CountsSound'
  <2>1. \A x : x \in Publishing!Counted <=> \E d \in 0..PubMaxDay : \E n \in 1..pubCounter[d] : x = <<d, n>>
    BY DEF Publishing!Counted
  <2>2. \A x : x \in Publishing!Counted' <=> \E d \in 0..PubMaxDay : \E n \in 1..pubCounter'[d] : x = <<d, n>>
    BY DEF Publishing!Counted
  <2>3. \A d \in 0..PubMaxDay : \A n : n \in 1..pubCounter'[d] <=> n \in 1..pubCounter[d] \/ <<d, n>> = new
    BY <1>3, <1>6
  <2> HIDE DEF day
  <2>4. new \notin Publishing!Counted
    <3>1. \A n \in 1..pubCounter[day] : n # pubCounter[day] + 1
      BY <1>3
    <3> QED
      BY <2>1, <3>1
  <2>5. Publishing!Counted' = Publishing!Counted \cup {new}
    <3>1. ASSUME NEW x, x \in Publishing!Counted' PROVE x \in Publishing!Counted \cup {new}
      <4>1. PICK d \in 0..PubMaxDay : \E n \in 1..pubCounter'[d] : x = <<d, n>>
        BY <2>2, <3>1
      <4>2. PICK n \in 1..pubCounter'[d] : x = <<d, n>>
        BY <4>1
      <4>3. n \in 1..pubCounter[d] \/ x = new
        BY <2>3, <4>2
      <4> QED
        BY <2>1, <4>2, <4>3
    <3>2. ASSUME NEW x, x \in Publishing!Counted PROVE x \in Publishing!Counted'
      <4>1. PICK d \in 0..PubMaxDay : \E n \in 1..pubCounter[d] : x = <<d, n>>
        BY <2>1, <3>2
      <4>2. PICK n \in 1..pubCounter[d] : x = <<d, n>>
        BY <4>1
      <4>3. n \in 1..pubCounter'[d]
        BY <2>3, <4>2
      <4> QED
        BY <2>2, <4>2, <4>3
    <3>3. new \in Publishing!Counted'
      <4>1. pubCounter[day] + 1 \in 1..pubCounter'[day]
        BY <1>3, <1>6
      <4> QED
        BY <1>3, <2>2, <4>1
    <3> QED
      BY <3>1, <3>2, <3>3
  <2>6. Publishing!Recording' = Publishing!Recording \cup {r} /\ r \notin Publishing!Recording
    BY <1>1, <1>5 DEF Publishing!Recording
  <2>7. IsFiniteSet(Publishing!Recording)
    BY <1>2, PublishingBounds, FS_Subset DEF Publishing!Recording
  <2>8. Cardinality(Publishing!Recording') = Cardinality(Publishing!Recording) + 1
    BY <2>6, <2>7, FS_AddElement
  <2>9. /\ IsFiniteSet(Publishing!Counted')
        /\ Cardinality(Publishing!Counted') = Cardinality(Publishing!Counted) + 1
    BY <1>2, <2>4, <2>5, FS_AddElement DEF CountsSound
  <2>10. Publishing!Report' = Publishing!Report
    BY <1>1 DEF Publishing!Report
  <2>11. Cardinality(Publishing!Report) \in Nat /\ Cardinality(Publishing!Recording) \in Nat
    BY <1>2, <2>7, FS_CardinalityType DEF CountsSound
  <2> QED
    BY <1>2, <2>8, <2>9, <2>10, <2>11 DEF CountsSound
<1> QED
  BY <1>7, <1>8, <1>9, <1>10, <1>11 DEF PublishingIInv

LEMMA RecordStep ==
    ASSUME Publishing!PublishingAssumption, PublishingIInv, NEW r \in PubRuns, Publishing!Record(r)
    PROVE  PublishingIInv'
<1> DEFINE H == Publishing!Held
           jobs == pubRun[r].jobs
           job == Head(jobs)
<1>1. /\ pubRun[r].step = "record" /\ pubResults' = Append(pubResults, job)
      /\ pubRun' = [pubRun EXCEPT ![r].step = "work", ![r].jobs = Tail(jobs)]
      /\ UNCHANGED <<pubQueue, pubCounter, pubDead, pubToday, pubSent, pubFailures, pubPosted, pubCrowded,
                     pubRestarts>>
  <2>1. pubRun' = [pubRun EXCEPT ![r].step = "work", ![r].jobs = Tail(@)]
    BY DEF Publishing!Record
  <2>2. pubRun' = [pubRun EXCEPT ![r].step = "work", ![r].jobs = Tail(jobs)]
    BY <2>1 DEF PublishingIInv, Publishing!TypeOK
  <2> QED
    BY <2>2 DEF Publishing!Record
<1>2. Publishing!TypeOK /\ RunShapes /\ JobsSound /\ TargetsSound /\ CountsSound
  BY DEF PublishingIInv
<1>3. jobs \in Seq(Publishing!Job) /\ jobs # <<>> /\ pubResults \in Seq(Publishing!Job)
  BY <1>1, <1>2, PublishingBounds DEF RunShapes, Publishing!TypeOK
<1>4. /\ job \in Publishing!Job /\ Tail(jobs) \in Seq(Publishing!Job) /\ Len(Tail(jobs)) = Len(jobs) - 1
      /\ Len(jobs) \in Nat /\ Len(jobs) >= 1 /\ job = jobs[1] /\ 1 \in DOMAIN jobs
      /\ pubResults' \in Seq(Publishing!Job)
  BY <1>1, <1>3
<1>5. /\ \A o \in PubRuns : o # r => pubRun'[o] = pubRun[o]
      /\ pubRun'[r].step = "work" /\ pubRun'[r].jobs = Tail(jobs) /\ pubRun'[r].day = pubRun[r].day
      /\ pubRun' \in [PubRuns -> [step : {"idle", "dequeue", "work", "record"}, day : 0..PubMaxDay,
                         capacity : 0..PubDailyTarget, publishes : BOOLEAN, jobs : Seq(Publishing!Job)]]
  BY <1>1, <1>2, <1>4, RunWorks
<1>6. Publishing!TypeOK'
  BY <1>1, <1>2, <1>4, <1>5 DEF Publishing!TypeOK
<1>7. RunShapes'
  BY <1>2, <1>5 DEF RunShapes
<1>8. /\ Holding(H, PublishPlaces, Publishing!Job) /\ Apart(H)
      /\ H["results"] = pubResults /\ H[r] = jobs /\ r # "results" /\ r # "dead" /\ r \in PublishPlaces
      /\ "results" \in PublishPlaces /\ DOMAIN H = PublishPlaces /\ DOMAIN H' = PublishPlaces
      /\ "dead" \in PublishPlaces /\ H["dead"] = pubDead
  <2>1. Holding(H, PublishPlaces, Publishing!Job) /\ Apart(H)
    BY <1>2, HeldTypes DEF Holding, JobsSound, Publishing!JobsAccounted, Apart
  <2> QED
    BY <2>1, HeldPlaces DEF PublishPlaces
<1>9. JobsSound'
  <2>1. \A p \in PublishPlaces : p # "results" /\ p # r => H'[p] = H[p]
    BY <1>1, <1>5, HeldStays
  <2>2. H'["results"] = Append(H["results"], job) /\ H'[r] = Tail(H[r])
    BY <1>1, <1>5, <1>8, HeldPlaces
  <2> DEFINE G == H'
  <2>3. Hands(G, H, r, "results", job)
    BY <1>8, <2>1, <2>2 DEF Hands
  <2>4. H[r] # <<>> /\ job.id = Head(H[r]).id
    BY <1>3, <1>8
  <2>5. /\ \A p \in PublishPlaces \ {"dead"} : \A i \in DOMAIN H[p] : pubFailures[H[p][i].id] = H[p][i].retries
        /\ \A i \in DOMAIN H["dead"] : pubFailures[H["dead"][i].id] = PubRetryBudget + 1
        /\ \A j \in 1..PubNumJobs : j > pubSent => pubFailures[j] = 0
    BY <1>2, <1>8 DEF JobsSound, Publishing!JobsAccounted, H
  <2>6. pubFailures[job.id] = job.retries
    BY <1>4, <1>8, <2>5
  <2> HIDE DEF H, G, job, jobs
  <2>7. /\ Apart(G) /\ HeldBy(G, H) /\ HeldBy(H, G)
        /\ \A p \in PublishPlaces : \A i \in DOMAIN G[p] :
              (p = "results" /\ i = Len(H["results"]) + 1) \/ \E k \in DOMAIN H[p] : G[p][i] = H[p][k]
        /\ G["results"][Len(H["results"]) + 1] = job
    BY <1>4, <1>8, <2>3, <2>4, Handed
  <2>8. ASSUME NEW p \in PublishPlaces \ {"dead"}, NEW i \in DOMAIN G[p]
        PROVE  pubFailures[G[p][i].id] = G[p][i].retries
    <3>1. CASE p = "results" /\ i = Len(H["results"]) + 1
      BY <2>6, <2>7, <3>1
    <3>2. CASE \E k \in DOMAIN H[p] : G[p][i] = H[p][k]
      BY <2>5, <3>2
    <3> QED
      BY <2>7, <3>1, <3>2
  <2>9. ASSUME NEW i \in DOMAIN G["dead"] PROVE pubFailures[G["dead"][i].id] = PubRetryBudget + 1
    <3>1. \E k \in DOMAIN H["dead"] : G["dead"][i] = H["dead"][k]
      BY <1>8, <2>7
    <3> QED
      BY <2>5, <3>1
  <2> QED
    BY <1>1, <1>2, <2>5, <2>7, <2>8, <2>9, JobsMoved DEF G, H
<1>10. TargetsSound'
  <2>1. RunLoad(r) = Len(jobs) - 1 /\ RunLoad(r)' = Len(jobs) - 1
    BY <1>1, <1>4, <1>5 DEF RunLoad
  <2>2. RunLoad(r)' \in Int /\ RunLoad(r)' <= RunLoad(r)
    BY <1>4, <2>1
  <2>3. pubRun[r].step # "idle" /\ pubRun'[r].day = pubRun[r].day
    BY <1>1, <1>5
  <2>4. UNCHANGED <<pubCounter, pubPosted, pubCrowded, pubRestarts>>
    BY <1>1
  <2>5. \A o \in PubRuns : o # r => pubRun'[o] = pubRun[o]
    BY <1>5
  <2> QED
    BY <1>2, <2>2, <2>3, <2>4, <2>5, RunTargets
<1>11. CountsSound'
  <2>1. Publishing!Report' = Publishing!Report \cup {job.id}
    <3>1. /\ DOMAIN pubResults' = DOMAIN pubResults \cup {Len(pubResults) + 1}
          /\ pubResults'[Len(pubResults) + 1] = job
          /\ \A i \in DOMAIN pubResults : pubResults'[i] = pubResults[i]
      BY <1>1, <1>3
    <3> HIDE DEF job
    <3> QED
      BY <3>1 DEF Publishing!Report
  <2>2. job.id \notin Publishing!Report
    <3>1. \A i \in DOMAIN H["results"] : H["results"][i].id # H[r][1].id
      BY <1>4, <1>8 DEF Apart
    <3> QED
      BY <1>4, <1>8, <3>1 DEF Publishing!Report
  <2>3. Publishing!Recording' = Publishing!Recording \ {r} /\ r \in Publishing!Recording
    BY <1>1, <1>5 DEF Publishing!Recording
  <2>4. IsFiniteSet(Publishing!Recording)
    BY <1>2, PublishingBounds, FS_Subset DEF Publishing!Recording
  <2>5. Cardinality(Publishing!Recording') = Cardinality(Publishing!Recording) - 1
    BY <2>3, <2>4, FS_RemoveElement
  <2>6. IsFiniteSet(Publishing!Report')
          /\ Cardinality(Publishing!Report') = Cardinality(Publishing!Report) + 1
    BY <1>2, <2>1, <2>2, FS_AddElement DEF CountsSound
  <2>7. Publishing!Counted' = Publishing!Counted
    BY <1>1 DEF Publishing!Counted
  <2>8. Cardinality(Publishing!Report) \in Nat /\ Cardinality(Publishing!Recording) \in Nat
    BY <1>2, <2>4, FS_CardinalityType DEF CountsSound
  <2> QED
    BY <1>2, <2>5, <2>6, <2>7, <2>8 DEF CountsSound
<1> QED
  BY <1>6, <1>7, <1>9, <1>10, <1>11 DEF PublishingIInv

(* A failed job is handed to y as what it is there: a retry to the queue,  *)
(* or the job itself to the dead ones.                                     *)
LEMMA FailedHanded ==
    ASSUME Publishing!PublishingAssumption, PublishingIInv, NEW r \in PubRuns,
           NEW y \in {"queue", "dead"},
           NEW job \in Publishing!Job, NEW failed \in Publishing!Job, failed.id = job.id,
           pubRun[r].jobs # <<>>, job = Head(pubRun[r].jobs),
           Hands(Publishing!Held', Publishing!Held, r, y, failed),
           y = "queue" => failed.retries = job.retries + 1,
           y = "dead" => job.retries = PubRetryBudget,
           pubFailures' = [pubFailures EXCEPT ![job.id] = pubFailures[job.id] + 1],
           UNCHANGED <<pubSent, pubRestarts>>
    PROVE  JobsSound'
<1> DEFINE H == Publishing!Held
           G == H'
           last == Len(H[y]) + 1
<1>1. Publishing!TypeOK /\ JobsSound
  BY DEF PublishingIInv
<1>2. /\ Holding(H, PublishPlaces, Publishing!Job) /\ Apart(H) /\ DOMAIN H = PublishPlaces
      /\ DOMAIN G = PublishPlaces
      /\ H[r] = pubRun[r].jobs /\ r # y /\ r # "dead" /\ r \in PublishPlaces /\ y \in PublishPlaces
      /\ "dead" \in PublishPlaces /\ H["dead"] = pubDead
  <2>1. Holding(H, PublishPlaces, Publishing!Job) /\ Apart(H)
    BY <1>1, HeldTypes DEF Holding, JobsSound, Publishing!JobsAccounted, Apart
  <2>2. /\ DOMAIN H = PublishPlaces /\ DOMAIN H' = PublishPlaces /\ H[r] = pubRun[r].jobs
        /\ r # "queue" /\ r # "dead" /\ "queue" \in PublishPlaces /\ "dead" \in PublishPlaces
        /\ H["dead"] = pubDead
    BY HeldPlaces
  <2>3. r \in PublishPlaces
    BY DEF PublishPlaces
  <2> QED
    BY <2>1, <2>2, <2>3
<1>3. /\ \A p \in PublishPlaces \ {"dead"} : \A i \in DOMAIN H[p] : pubFailures[H[p][i].id] = H[p][i].retries
      /\ \A i \in DOMAIN H["dead"] : pubFailures[H["dead"][i].id] = PubRetryBudget + 1
      /\ \A j \in 1..PubNumJobs : j > pubSent => pubFailures[j] = 0
      /\ \A p \in PublishPlaces : \A i \in DOMAIN H[p] : H[p][i].id <= pubSent
  BY <1>1, <1>2 DEF JobsSound, Publishing!JobsAccounted
<1>4. H[r] \in Seq(Publishing!Job) /\ job = H[r][1] /\ 1 \in DOMAIN H[r] /\ H[r] # <<>>
  BY <1>2 DEF Holding
<1>5. /\ pubFailures[job.id] = job.retries /\ job.id <= pubSent /\ job.id \in 1..PubNumJobs
      /\ job.retries \in 0..PubRetryBudget /\ PubRetryBudget \in Nat /\ pubSent \in Nat
  <2>1. pubFailures[job.id] = job.retries /\ job.id <= pubSent
    BY <1>2, <1>3, <1>4
  <2>2. PubRetryBudget \in Nat /\ PubNumJobs \in Nat /\ pubSent \in 0..PubNumJobs
    BY <1>1, PublishingBounds
  <2> QED
    BY <2>1, <2>2, JobFields
<1>6. /\ \A j \in 1..PubNumJobs : j # job.id => pubFailures'[j] = pubFailures[j]
      /\ pubFailures'[job.id] = job.retries + 1
  <2>1. DOMAIN pubFailures = 1..PubNumJobs
    BY <1>1 DEF Publishing!TypeOK
  <2> QED
    BY <1>5, <2>1
<1>7. Hands(G, H, r, y, failed) /\ failed.id = Head(H[r]).id
  BY <1>2
<1> HIDE DEF H, G, last
<1>8. /\ Apart(G) /\ HeldBy(G, H) /\ HeldBy(H, G)
      /\ last \in DOMAIN G[y] /\ G[y][last] = failed
      /\ \A p \in PublishPlaces : \A i \in DOMAIN G[p] :
            (p = y /\ i = last) \/ \E k \in DOMAIN H[p] : G[p][i] = H[p][k]
  BY <1>2, <1>4, <1>7, Handed DEF last
<1>9. ASSUME NEW p \in PublishPlaces, NEW i \in DOMAIN G[p], ~(p = y /\ i = last)
      PROVE  \E k \in DOMAIN H[p] : G[p][i] = H[p][k] /\ pubFailures'[G[p][i].id] = pubFailures[H[p][k].id]
  <2>1. PICK k \in DOMAIN H[p] : G[p][i] = H[p][k]
    BY <1>8, <1>9
  <2>2. G[p][i].id # G[y][last].id
    BY <1>2, <1>8, <1>9 DEF Apart
  <2>3. G[p][i].id # job.id
    BY <1>8, <2>2
  <2>4. H[p][k].id \in 1..PubNumJobs
    BY <1>2, JobFields DEF Holding
  <2> QED
    BY <1>6, <2>1, <2>3, <2>4
<1>10. ASSUME NEW p \in PublishPlaces \ {"dead"}, NEW i \in DOMAIN G[p]
       PROVE  pubFailures'[G[p][i].id] = G[p][i].retries
  <2>1. CASE p = y /\ i = last
    BY <1>6, <1>8, <2>1
  <2>2. CASE ~(p = y /\ i = last)
    BY <1>3, <1>9, <2>2
  <2> QED
    BY <2>1, <2>2
<1>11. ASSUME NEW i \in DOMAIN G["dead"] PROVE pubFailures'[G["dead"][i].id] = PubRetryBudget + 1
  <2>1. CASE "dead" = y /\ i = last
    BY <1>6, <1>8, <2>1
  <2>2. CASE ~("dead" = y /\ i = last)
    BY <1>2, <1>3, <1>9, <2>2
  <2> QED
    BY <2>1, <2>2
<1>12. ASSUME NEW j \in 1..PubNumJobs, j > pubSent PROVE pubFailures'[j] = 0
  BY <1>3, <1>5, <1>6, <1>12
<1> QED
  BY <1>1, <1>8, <1>10, <1>11, <1>12, JobsMoved DEF G, H

LEMMA FailStep ==
    ASSUME Publishing!PublishingAssumption, PublishingIInv, NEW r \in PubRuns, Publishing!Fail(r)
    PROVE  PublishingIInv'
<1> DEFINE H == Publishing!Held
           jobs == pubRun[r].jobs
           job == Head(jobs)
           retried == job.retries < PubRetryBudget
<1>1. /\ pubRun[r].step = "work" /\ jobs # <<>>
      /\ pubFailures' = [pubFailures EXCEPT ![job.id] = @ + 1]
      /\ retried => pubQueue' = Append(pubQueue, Publishing!Requeued(job)) /\ pubDead' = pubDead
      /\ ~retried => pubQueue' = pubQueue /\ pubDead' = Append(pubDead, job)
      /\ UNCHANGED <<pubCounter, pubResults, pubToday, pubSent, pubPosted, pubCrowded, pubRestarts>>
  BY DEF Publishing!Fail
<1>2. Publishing!TypeOK /\ RunShapes /\ JobsSound /\ TargetsSound /\ CountsSound
  BY DEF PublishingIInv
<1>3. /\ jobs \in Seq(Publishing!Job) /\ pubQueue \in Seq(Publishing!Job)
      /\ pubDead \in Seq(Publishing!Job)
      /\ PubRetryBudget \in Nat /\ PubNumJobs \in Nat
  BY <1>2, PublishingBounds DEF Publishing!TypeOK
<1>4. /\ job \in Publishing!Job /\ Tail(jobs) \in Seq(Publishing!Job) /\ Len(Tail(jobs)) = Len(jobs) - 1
      /\ Len(jobs) \in Nat /\ Len(jobs) >= 1
  BY <1>1, <1>3
<1>5. /\ job.id \in 1..PubNumJobs /\ job.retries \in 0..PubRetryBudget
      /\ Publishing!Requeued(job).id = job.id /\ Publishing!Requeued(job).retries = job.retries + 1
      /\ retried => Publishing!Requeued(job) \in Publishing!Job
      /\ ~retried => job.retries = PubRetryBudget
  <2> HIDE DEF job
  <2>1. job.id \in 1..PubNumJobs /\ job.retries \in 0..PubRetryBudget
          /\ job = [id |-> job.id, retries |-> job.retries]
    BY <1>4 DEF Publishing!Job
  <2>2. Publishing!Requeued(job) = [id |-> job.id, retries |-> job.retries + 1]
    BY <2>1 DEF Publishing!Requeued
  <2>3. retried => job.retries + 1 \in 0..PubRetryBudget
    BY <1>3, <2>1
  <2>4. ~retried => job.retries = PubRetryBudget
    BY <1>3, <2>1
  <2> QED
    BY <2>1, <2>2, <2>3, <2>4 DEF Publishing!Job
<1>6. /\ \A o \in PubRuns : o # r => pubRun'[o] = pubRun[o]
      /\ pubRun'[r].step = "work" /\ pubRun'[r].jobs = Tail(jobs) /\ pubRun'[r].day = pubRun[r].day
      /\ pubRun' \in [PubRuns -> [step : {"idle", "dequeue", "work", "record"}, day : 0..PubMaxDay,
                         capacity : 0..PubDailyTarget, publishes : BOOLEAN, jobs : Seq(Publishing!Job)]]
  <2>1. pubRun' = [pubRun EXCEPT ![r].jobs = Tail(@)]
    BY DEF Publishing!Fail
  <2>2. pubRun' = [pubRun EXCEPT ![r].step = "work", ![r].jobs = Tail(jobs)]
    BY <1>1, <1>2, <2>1 DEF Publishing!TypeOK
  <2> QED
    BY <1>2, <1>4, <2>2, RunWorks
<1>7. /\ pubFailures' = [pubFailures EXCEPT ![job.id] = pubFailures[job.id] + 1]
      /\ pubFailures' \in [1..PubNumJobs -> 0..(PubRetryBudget + 1)]
  <2>1. pubFailures \in [1..PubNumJobs -> 0..(PubRetryBudget + 1)]
    BY <1>2 DEF Publishing!TypeOK
  <2>2. pubFailures' = [pubFailures EXCEPT ![job.id] = pubFailures[job.id] + 1]
    BY <1>1, <1>5, <2>1
  <2>3. pubFailures[job.id] = job.retries
    <3>1. H[r] = jobs /\ r \in DOMAIN H \ {"dead"} /\ 1 \in DOMAIN jobs /\ job = jobs[1]
      BY <1>1, <1>3, HeldPlaces DEF PublishPlaces
    <3> QED
      BY <1>2, <3>1 DEF JobsSound, Publishing!JobsAccounted
  <2> HIDE DEF job
  <2>4. pubFailures[job.id] + 1 \in 0..(PubRetryBudget + 1)
    <3>1. job.retries \in 0..PubRetryBudget /\ PubRetryBudget \in Nat
      BY <1>3, <1>5
    <3>2. job.retries + 1 \in 0..(PubRetryBudget + 1)
      BY ONLY <3>1
    <3> QED
      BY <2>3, <3>2
  <2> QED
    BY <2>1, <2>2, <2>4
<1>8. Publishing!TypeOK'
  <2>1. pubQueue' \in Seq(Publishing!Job) /\ pubDead' \in Seq(Publishing!Job)
    <3> HIDE DEF job, retried
    <3>1. CASE retried
      <4>1. pubQueue' = Append(pubQueue, Publishing!Requeued(job)) /\ pubDead' = pubDead
        BY <1>1, <3>1
      <4>2. Publishing!Requeued(job) \in Publishing!Job
        BY <1>5, <3>1
      <4> QED
        BY <1>3, <4>1, <4>2
    <3>2. CASE ~retried
      <4>1. pubQueue' = pubQueue /\ pubDead' = Append(pubDead, job)
        BY <1>1, <3>2
      <4> QED
        BY <1>3, <1>4, <4>1
    <3> QED
      BY <3>1, <3>2
  <2> QED
    BY <1>1, <1>2, <1>6, <1>7, <2>1 DEF Publishing!TypeOK
<1>9. RunShapes'
  BY <1>2, <1>6 DEF RunShapes
<1>10. JobsSound'
  <2> DEFINE y == IF retried THEN "queue" ELSE "dead"
             failed == IF retried THEN Publishing!Requeued(job) ELSE job
  <2>1. \A p \in PublishPlaces : p # y /\ p # r => H'[p] = H[p]
    BY <1>1, <1>6, HeldStays
  <2>2. H'[y] = Append(H[y], failed) /\ H'[r] = Tail(H[r])
    <3>1. H'[r] = Tail(H[r])
      BY <1>6, HeldPlaces
    <3>2. CASE retried
      <4>1. y = "queue" /\ failed = Publishing!Requeued(job)
        BY <3>2
      <4>2. H["queue"] = pubQueue /\ H'["queue"] = pubQueue'
        BY HeldPlaces
      <4> QED
        BY <1>1, <3>1, <3>2, <4>1, <4>2
    <3>3. CASE ~retried
      <4>1. y = "dead" /\ failed = job
        BY <3>3
      <4>2. H["dead"] = pubDead /\ H'["dead"] = pubDead'
        BY HeldPlaces
      <4> QED
        BY <1>1, <3>1, <3>3, <4>1, <4>2
    <3> QED
      BY <3>2, <3>3
  <2>3. DOMAIN H' = DOMAIN H /\ DOMAIN H = PublishPlaces
    BY HeldPlaces
  <2>4. Hands(H', H, r, y, failed)
    BY <2>1, <2>2, <2>3 DEF Hands
  <2>5. /\ y \in {"queue", "dead"} /\ failed \in Publishing!Job /\ failed.id = job.id
        /\ y = "queue" => failed.retries = job.retries + 1
        /\ y = "dead" => job.retries = PubRetryBudget
    BY <1>4, <1>5
  <2> HIDE DEF y, failed, H
  <2> QED
    BY <1>1, <1>4, <1>7, <2>4, <2>5, FailedHanded DEF H
<1>11. TargetsSound'
  <2>1. RunLoad(r) = Len(jobs) /\ RunLoad(r)' = Len(jobs) - 1
    BY <1>1, <1>4, <1>6 DEF RunLoad
  <2>2. RunLoad(r)' \in Int /\ RunLoad(r)' <= RunLoad(r)
    BY <1>4, <2>1
  <2>3. pubRun[r].step # "idle" /\ pubRun'[r].day = pubRun[r].day
    BY <1>1, <1>6
  <2>4. UNCHANGED <<pubCounter, pubPosted, pubCrowded, pubRestarts>>
    BY <1>1
  <2>5. \A o \in PubRuns : o # r => pubRun'[o] = pubRun[o]
    BY <1>6
  <2> QED
    BY <1>2, <2>2, <2>3, <2>4, <2>5, RunTargets
<1>12. CountsSound'
  <2>1. Publishing!Recording' = Publishing!Recording
    BY <1>1, <1>6 DEF Publishing!Recording
  <2> QED
    BY <1>1, <1>2, <2>1, CountsSame
<1> QED
  BY <1>8, <1>9, <1>10, <1>11, <1>12 DEF PublishingIInv

LEMMA EndStep ==
    ASSUME Publishing!PublishingAssumption, PublishingIInv, NEW r \in PubRuns, Publishing!End(r)
    PROVE  PublishingIInv'
<1>1. /\ pubRun[r].step = "work" /\ pubRun[r].jobs = <<>>
      /\ pubRun' = [pubRun EXCEPT ![r] = Publishing!Idle]
      /\ UNCHANGED <<pubQueue, pubCounter, pubResults, pubDead, pubToday, pubSent, pubFailures, pubPosted,
                     pubCrowded, pubRestarts>>
  BY DEF Publishing!End, Publishing!storeVars
<1>2. Publishing!TypeOK /\ RunShapes /\ JobsSound /\ TargetsSound /\ CountsSound
  BY DEF PublishingIInv
<1>3. /\ \A o \in PubRuns : o # r => pubRun'[o] = pubRun[o]
      /\ pubRun'[r] = Publishing!Idle /\ pubRun'[r].step = "idle" /\ pubRun'[r].jobs = <<>>
  BY <1>1, <1>2 DEF Publishing!TypeOK, Publishing!Idle
<1>4. Publishing!TypeOK'
  <2>1. Publishing!Idle \in [step : {"idle", "dequeue", "work", "record"}, day : 0..PubMaxDay,
                             capacity : 0..PubDailyTarget, publishes : BOOLEAN, jobs : Seq(Publishing!Job)]
    BY <1>2, PublishingBounds DEF Publishing!Idle
  <2> QED
    BY <1>1, <1>2, <2>1 DEF Publishing!TypeOK
<1>5. RunShapes'
  BY <1>2, <1>3 DEF RunShapes
<1>6. JobsSound'
  <2>1. \A o \in PubRuns : pubRun'[o].jobs = pubRun[o].jobs
    BY <1>1, <1>3
  <2> QED
    BY <1>1, <1>2, <2>1, HeldSame
<1>7. TargetsSound'
  <2>1. RunLoad(r)' \in Int
    BY <1>3 DEF RunLoad
  <2>2. UNCHANGED <<pubCounter, pubPosted, pubCrowded, pubRestarts>>
    BY <1>1
  <2> QED
    BY <1>2, <1>3, <2>1, <2>2, RunTargets
<1>8. CountsSound'
  <2>1. Publishing!Recording' = Publishing!Recording
    BY <1>1, <1>3 DEF Publishing!Recording
  <2> QED
    BY <1>1, <1>2, <2>1, CountsSame
<1> QED
  BY <1>4, <1>5, <1>6, <1>7, <1>8 DEF PublishingIInv

(* What a target comes to with a restart more.                             *)
LEMMA OnceMore ==
    ASSUME NEW target \in Nat, NEW k \in Nat
    PROVE  target * (k + 1) = target * k + target /\ target * k \in Nat
OBVIOUS

LEMMA RestartStep ==
    ASSUME Publishing!PublishingAssumption, PublishingIInv, Publishing!Restart PROVE PublishingIInv'
<1>1. /\ pubRestarts < PubMaxRestarts /\ pubRestarts' = pubRestarts + 1
      /\ pubQueue' = <<>> /\ pubCounter' = [d \in 0..PubMaxDay |-> 0] /\ pubResults' = <<>>
      /\ pubDead' = <<>>
      /\ pubRun' = [s \in PubRuns |-> Publishing!Idle]
      /\ UNCHANGED <<pubToday, pubSent, pubFailures, pubPosted, pubCrowded>>
  BY DEF Publishing!Restart
<1>2. Publishing!TypeOK /\ RunShapes /\ JobsSound /\ TargetsSound /\ CountsSound
  BY DEF PublishingIInv
<1>3. /\ \A r \in PubRuns : pubRun'[r] = Publishing!Idle /\ pubRun'[r].step = "idle" /\ pubRun'[r].jobs = <<>>
      /\ PubDailyTarget \in Nat /\ PubMaxRestarts \in Nat /\ pubRestarts \in 0..PubMaxRestarts
  BY <1>1, <1>2, PublishingBounds DEF Publishing!Idle
<1>4. Publishing!TypeOK'
  <2>1. Publishing!Idle \in [step : {"idle", "dequeue", "work", "record"}, day : 0..PubMaxDay,
                             capacity : 0..PubDailyTarget, publishes : BOOLEAN, jobs : Seq(Publishing!Job)]
    BY <1>2, PublishingBounds DEF Publishing!Idle
  <2>2. pubRestarts' \in 0..PubMaxRestarts
    BY <1>1, <1>3
  <2>3. /\ pubRun' \in [PubRuns -> [step : {"idle", "dequeue", "work", "record"}, day : 0..PubMaxDay,
                           capacity : 0..PubDailyTarget, publishes : BOOLEAN, jobs : Seq(Publishing!Job)]]
        /\ pubCounter' \in [0..PubMaxDay -> Nat]
    BY <1>1, <2>1
  <2>4. pubQueue' \in Seq(Publishing!Job) /\ pubResults' \in Seq(Publishing!Job)
          /\ pubDead' \in Seq(Publishing!Job)
    BY <1>1
  <2> QED
    BY <1>1, <1>2, <2>2, <2>3, <2>4 DEF Publishing!TypeOK
<1>5. RunShapes'
  BY <1>3 DEF RunShapes
<1>6. JobsSound'
  <2>1. \A p \in PublishPlaces : Publishing!Held'[p] = <<>> /\ DOMAIN Publishing!Held'[p] = {}
    <3>1. \A p \in PublishPlaces : Publishing!Held'[p] = <<>>
      BY <1>1, <1>3, HeldPlaces DEF PublishPlaces, Publishing!Lists
    <3>2. DOMAIN <<>> = {}
      OBVIOUS
    <3> QED
      BY <3>1, <3>2
  <2>2. pubRestarts' # 0 /\ DOMAIN pubDead' = {}
    BY <1>1, <1>3
  <2>3. Publishing!JobsAccounted'
    BY <2>1, <2>2, HeldPlaces DEF Publishing!JobsAccounted
  <2>4. \A j \in 1..PubNumJobs : j > pubSent' => pubFailures'[j] = 0
    BY <1>1, <1>2 DEF JobsSound
  <2> QED
    BY <2>1, <2>3, <2>4 DEF JobsSound
<1>7. TargetsSound'
  <2> SUFFICES ASSUME NEW d \in (0..PubMaxDay) \ pubCrowded
               PROVE  /\ pubCounter'[d] <= PubDailyTarget
                      /\ pubPosted[d] <= PubDailyTarget * (pubRestarts + 1) + pubCounter'[d]
                      /\ \A s \in PubRuns : ~RunsOn(s, d)'
    BY <1>1 DEF TargetsSound
  <2>1. pubCounter'[d] = 0 /\ \A s \in PubRuns : ~RunsOn(s, d)'
    BY <1>1, <1>3 DEF RunsOn
  <2>2. /\ pubCounter[d] <= PubDailyTarget
        /\ pubPosted[d] <= PubDailyTarget * pubRestarts + pubCounter[d]
        /\ pubCounter[d] \in Nat /\ pubPosted[d] \in Nat
    BY <1>2, PublishingBounds DEF TargetsSound
  <2>3. /\ PubDailyTarget * (pubRestarts + 1) = PubDailyTarget * pubRestarts + PubDailyTarget
        /\ PubDailyTarget * pubRestarts \in Nat
    <3>1. PubDailyTarget \in Nat /\ pubRestarts \in Nat
      BY ONLY <1>3
    <3> QED
      BY ONLY <3>1, OnceMore
  <2> DEFINE lost == PubDailyTarget * pubRestarts
             more == PubDailyTarget * (pubRestarts + 1)
  <2>4. more = lost + PubDailyTarget /\ lost \in Nat /\ pubPosted[d] <= lost + pubCounter[d]
    BY <2>2, <2>3
  <2> HIDE DEF lost, more
  <2>5. pubPosted[d] <= more + pubCounter'[d]
    BY <1>3, <2>1, <2>2, <2>4
  <2> QED
    BY <1>3, <2>1, <2>5 DEF more
<1>8. CountsSound'
  <2>1. Publishing!Recording' = {}
    BY <1>3 DEF Publishing!Recording
  <2>2. Publishing!Report' = {}
    BY <1>1 DEF Publishing!Report
  <2>3. Publishing!Counted' = {}
    <3>1. \A d \in 0..PubMaxDay : {d} \X (1..pubCounter'[d]) = {}
      BY <1>1
    <3> QED
      BY <3>1 DEF Publishing!Counted
  <2> QED
    BY <2>1, <2>2, <2>3, FS_EmptySet DEF CountsSound
<1> QED
  BY <1>4, <1>5, <1>6, <1>7, <1>8 DEF PublishingIInv

LEMMA PublishingSteps ==
    ASSUME Publishing!PublishingAssumption, PublishingIInv, [Publishing!Next]_(Publishing!vars)
    PROVE  PublishingIInv'
<1>1. CASE Publishing!Next
  <2>1. CASE Publishing!Enqueue
    BY <2>1, EnqueueStep
  <2>2. CASE Publishing!Midnight
    BY <2>2, MidnightStep
  <2>3. CASE Publishing!Restart
    BY <2>3, RestartStep
  <2>4. ASSUME NEW r \in PubRuns, Publishing!Dequeue(r) PROVE PublishingIInv'
    BY <2>4, DequeueStep
  <2>5. ASSUME NEW r \in PubRuns, Publishing!Count(r) PROVE PublishingIInv'
    BY <2>5, CountStep
  <2>6. ASSUME NEW r \in PubRuns, Publishing!Record(r) PROVE PublishingIInv'
    BY <2>6, RecordStep
  <2>7. ASSUME NEW r \in PubRuns, Publishing!Fail(r) PROVE PublishingIInv'
    BY <2>7, FailStep
  <2>8. ASSUME NEW r \in PubRuns, Publishing!End(r) PROVE PublishingIInv'
    BY <2>8, EndStep
  <2>9. ASSUME NEW r \in PubRuns, NEW publishes \in BOOLEAN, Publishing!Begin(r, publishes)
        PROVE  PublishingIInv'
    BY <2>9, BeginStep
  <2> QED
    BY <1>1, <2>1, <2>2, <2>3, <2>4, <2>5, <2>6, <2>7, <2>8, <2>9 DEF Publishing!Next
<1>2. CASE UNCHANGED Publishing!vars
  BY <1>2, MidnightStep
<1> QED
  BY <1>1, <1>2

LEMMA PublishingImply ==
    ASSUME Publishing!PublishingAssumption, PublishingIInv PROVE PublishingInv
<1>1. PubDailyTarget \in Nat /\ pubRestarts \in Nat /\ Publishing!JobsAccounted
  <2>1. PubDailyTarget \in Nat /\ PubMaxRestarts \in Nat /\ pubRestarts \in 0..PubMaxRestarts
    BY PublishingBounds DEF PublishingIInv
  <2> QED
    BY <2>1 DEF PublishingIInv, JobsSound
<1>2. ASSUME NEW d \in (0..PubMaxDay) \ pubCrowded
      PROVE  pubCounter[d] <= PubDailyTarget /\ pubPosted[d] <= PubDailyTarget * (pubRestarts + 1)
  <2>1. /\ pubCounter[d] <= PubDailyTarget
        /\ pubPosted[d] <= PubDailyTarget * pubRestarts + pubCounter[d]
        /\ pubCounter[d] \in Nat /\ pubPosted[d] \in Nat
    BY PublishingBounds DEF PublishingIInv, TargetsSound
  <2>2. /\ PubDailyTarget * (pubRestarts + 1) = PubDailyTarget * pubRestarts + PubDailyTarget
        /\ PubDailyTarget * pubRestarts \in Nat
    <3>1. PubDailyTarget \in Nat /\ pubRestarts \in Nat
      BY ONLY <1>1
    <3> QED
      BY ONLY <3>1, OnceMore
  <2> DEFINE lost == PubDailyTarget * pubRestarts
             more == PubDailyTarget * (pubRestarts + 1)
  <2>3. more = lost + PubDailyTarget /\ lost \in Nat /\ pubPosted[d] <= lost + pubCounter[d]
    BY <2>1, <2>2
  <2> HIDE DEF lost, more
  <2>4. pubPosted[d] <= more
    BY <1>1, <2>1, <2>3
  <2> QED
    BY <2>1, <2>4 DEF more
<1>3. Publishing!Cardinality(Publishing!Counted)
        = Publishing!Cardinality(Publishing!Report) + Publishing!Cardinality(Publishing!Recording)
  BY PublishingCount DEF PublishingIInv, CountsSound
<1>4. Publishing!WithinTarget
  BY <1>2, <1>3 DEF Publishing!WithinTarget
<1> QED
  BY <1>1, <1>4 DEF PublishingInv, Publishing!PublishingInv

(* A job is in one place, waiting, with one run, published or dead, and is *)
(* tried once more than the budget before it is dead; a day's target is    *)
(* exceeded only by runs that overlap and once more after each restart,    *)
(* and the report lists what the counters of the days say: for any runs,   *)
(* targets, budgets, jobs, days and restarts.                              *)
THEOREM PublishingKept ==
    ASSUME Publishing!PublishingAssumption PROVE Publishing!Spec => []PublishingInv
<1>1. Publishing!Init => PublishingIInv
  BY PublishingInits
<1>2. PublishingIInv /\ [Publishing!Next]_(Publishing!vars) => PublishingIInv'
  BY PublishingSteps
<1>3. PublishingIInv => PublishingInv
  BY PublishingImply
<1> QED
  BY <1>1, <1>2, <1>3, PTL DEF Publishing!Spec

-----------------------------------------------------------------------------
(* The runtime of enterprise_maturity.                                    *)

LEMMA SameRuntimeFinite ==
    \A S : (Runtime!IsFiniteSet(S) <=> IsFiniteSet(S)) /\ Runtime!Cardinality(S) = Cardinality(S)
BY DEF Runtime!IsFiniteSet, IsFiniteSet, Runtime!Cardinality, Cardinality

LEMMA RuntimeMinMax ==
    ASSUME NEW a \in Int, NEW b \in Int
    PROVE  /\ Runtime!Min({a, b}) = IF a <= b THEN a ELSE b
           /\ Runtime!Max({a, b}) = IF a <= b THEN b ELSE a
<1>1. \E x \in {a, b} : \A y \in {a, b} : x <= y
  OBVIOUS
<1>2. \E x \in {a, b} : \A y \in {a, b} : x >= y
  OBVIOUS
<1>3. Runtime!Min({a, b}) \in {a, b} /\ \A y \in {a, b} : Runtime!Min({a, b}) <= y
  BY <1>1 DEF Runtime!Min
<1>4. Runtime!Max({a, b}) \in {a, b} /\ \A y \in {a, b} : Runtime!Max({a, b}) >= y
  BY <1>2 DEF Runtime!Max
<1> QED
  BY <1>3, <1>4

-----------------------------------------------------------------------------
(* Places in a list: each has a number of its own, and none is left out.   *)
LEMMA BeforeCounts ==
    ASSUME NEW L \in Nat, NEW H \in SUBSET (1..L)
    PROVE  /\ IsFiniteSet(H) /\ Cardinality(H) \in Nat
           /\ \A k \in H : Runtime!Before(k, H) \in 0..(Cardinality(H) - 1)
           /\ \A j, k \in H : Runtime!Before(j, H) = Runtime!Before(k, H) => j = k
           /\ \A idx \in 0..(Cardinality(H) - 1) : \E k \in H : Runtime!Before(k, H) = idx
<1> DEFINE n == Cardinality(H)
           Less(k) == {j \in H : j < k}
<1>1. IsFiniteSet(H) /\ n \in Nat
  <2>1. IsFiniteSet(1..L)
    BY FS_Interval
  <2> QED
    BY <2>1, FS_Subset, FS_CardinalityType
<1>2. ASSUME NEW k \in 1..L
      PROVE  IsFiniteSet(Less(k)) /\ Cardinality(Less(k)) \in Nat /\ Runtime!Before(k, H) = Cardinality(Less(k))
  <2>1. Less(k) \in SUBSET H
    OBVIOUS
  <2>2. Runtime!Before(k, H) = Cardinality(Less(k))
    BY SameRuntimeFinite DEF Runtime!Before
  <2> HIDE DEF Less
  <2> QED
    BY <1>1, <2>1, <2>2, FS_Subset, FS_CardinalityType
<1>3. ASSUME NEW j \in H, NEW k \in H, j < k PROVE Cardinality(Less(j)) < Cardinality(Less(k))
  <2>0. j \in Less(k) /\ j \notin Less(j)
    BY <1>3
  <2>1. Less(j) \in SUBSET Less(k)
    <3>1. \A x \in H : x < j => x < k
      BY <1>3
    <3> QED
      BY <3>1
  <2>2. IsFiniteSet(Less(k)) /\ Cardinality(Less(k)) \in Nat /\ Cardinality(Less(j)) \in Nat
    BY <1>2
  <2> HIDE DEF Less
  <2>3. Cardinality(Less(j)) <= Cardinality(Less(k)) /\ Cardinality(Less(j)) # Cardinality(Less(k))
    BY <2>0, <2>1, <2>2, FS_Subset
  <2> QED
    BY <2>2, <2>3
<1>4. ASSUME NEW k \in H PROVE Cardinality(Less(k)) \in 0..(n - 1)
  <2>1. Less(k) \in SUBSET H /\ k \in H /\ k \notin Less(k)
    OBVIOUS
  <2>2. Cardinality(Less(k)) \in Nat
    BY <1>2
  <2> HIDE DEF Less
  <2>3. Cardinality(Less(k)) <= n /\ Cardinality(Less(k)) # n
    BY <1>1, <2>1, FS_Subset
  <2> QED
    BY <1>1, <2>2, <2>3
<1>5. \A j, k \in H : Cardinality(Less(j)) = Cardinality(Less(k)) => j = k
  <2> SUFFICES ASSUME NEW j \in H, NEW k \in H, j # k PROVE Cardinality(Less(j)) # Cardinality(Less(k))
    OBVIOUS
  <2>1. j < k \/ k < j
    OBVIOUS
  <2>2. Cardinality(Less(j)) \in Nat /\ Cardinality(Less(k)) \in Nat
    BY <1>2
  <2> HIDE DEF Less
  <2> QED
    BY <1>3, <2>1, <2>2
<1>6. \A idx \in 0..(n - 1) : \E k \in H : Cardinality(Less(k)) = idx
  <2> DEFINE f == [k \in H |-> Cardinality(Less(k))]
             T == 0..(n - 1)
  <2> HIDE DEF Less
  <2>1. f \in Injection(H, T)
    <3>1. f \in [H -> T] /\ \A j, k \in H : f[j] = f[k] => j = k
      BY <1>4, <1>5
    <3> HIDE DEF f, T
    <3> QED
      BY <3>1, Fun_IsInj
  <2>2. IsFiniteSet(T) /\ Cardinality(T) = n
    <3>1. 0 \in Int /\ n - 1 \in Int
      BY <1>1
    <3>2. IsFiniteSet(0..(n - 1)) /\ Cardinality(0..(n - 1)) = IF 0 > n - 1 THEN 0 ELSE (n - 1) - 0 + 1
      <4> HIDE DEF n, T
      <4> QED
        BY <3>1, FS_Interval, Zenon
    <3> QED
      BY <1>1, <3>2
  <2>3. f \in Surjection(H, T)
    <3> HIDE DEF f, T
    <3> QED
      BY <2>1, <2>2, FS_Injection
  <2>4. \A t \in T : \E k \in H : f[k] = t
    <3> HIDE DEF f, T
    <3> QED
      BY <2>3 DEF Surjection
  <2> QED
    BY <2>4
<1> QED
  BY <1>1, <1>2, <1>4, <1>5, <1>6

-----------------------------------------------------------------------------
(* The registry and the gateway.                                           *)

(* A list names instances of its service, and no endpoint twice.           *)
Listing(list) ==
    /\ list \in Seq(EntInstances)
    /\ \A j, k \in DOMAIN list : list[j].endpoint = list[k].endpoint => j = k

(* Those whose turn it was since the turn at a, now that it is at b.       *)
HadTurn(r, a, b) == IF a <= b THEN a <= r /\ r < b ELSE a <= r \/ r < b

Turns(list, picks, idx) ==
    LET H == Runtime!Healthy(list)
        n == Cardinality(H)
    IN /\ \A e \in Runtime!Endpoints \ Runtime!HealthyEndpoints(list) : picks[e] = 0
       /\ n # 0 => \E a \in 0..(n - 1), c \in Nat : \A k \in H :
            picks[list[k].endpoint] = IF HadTurn(Runtime!Before(k, H), a, idx % n) THEN c + 1 ELSE c

GatewayIInv ==
    /\ entInstances \in [Runtime!Services -> Seq(EntInstances)]
    /\ entNextIdx \in [Runtime!Services -> Nat]
    /\ entPicks \in [Runtime!Services -> [Runtime!Endpoints -> Nat]]
    /\ entRoutes \in [EntPaths -> Runtime!Services \cup {RtnNone}]
    /\ \A s \in Runtime!Services : Listing(entInstances[s]) /\ Turns(entInstances[s], entPicks[s], entNextIdx[s])

LEMMA ModInside ==
    ASSUME NEW n \in Nat, n # 0, NEW x \in Nat
    PROVE  x % n \in 0..(n - 1) /\ (x < n => x % n = x) /\ n % n = 0
OBVIOUS

LEMMA HealthyPlaces ==
    ASSUME NEW list \in Seq(EntInstances)
    PROVE  /\ Runtime!Healthy(list) \subseteq DOMAIN list /\ DOMAIN list = 1..Len(list) /\ Len(list) \in Nat
           /\ Runtime!Healthy(list) \in SUBSET (1..Len(list))
           /\ \A k \in DOMAIN list : list[k].endpoint \in Runtime!Endpoints
           /\ Runtime!HealthyEndpoints(list) \subseteq Runtime!Endpoints
           /\ IsFiniteSet(Runtime!Healthy(list)) /\ Cardinality(Runtime!Healthy(list)) \in Nat
<1>1. /\ Runtime!Healthy(list) \subseteq DOMAIN list /\ DOMAIN list = 1..Len(list) /\ Len(list) \in Nat
  BY DEF Runtime!Healthy
<1>2. \A k \in DOMAIN list : list[k].endpoint \in Runtime!Endpoints
  BY DEF Runtime!Endpoints
<1>3. Runtime!HealthyEndpoints(list) \subseteq Runtime!Endpoints
  BY <1>1, <1>2 DEF Runtime!HealthyEndpoints
<1> QED
  BY <1>1, <1>2, <1>3, BeforeCounts

(* A list of which nothing was asked yet.                                  *)
LEMMA TurnsBegin ==
    ASSUME NEW list \in Seq(EntInstances), NEW idx \in Nat
    PROVE  Turns(list, [e \in Runtime!Endpoints |-> 0], idx)
<1> DEFINE H == Runtime!Healthy(list)
           n == Cardinality(H)
           zero == [e \in Runtime!Endpoints |-> 0]
<1>1. n # 0 => \E a \in 0..(n - 1), c \in Nat : \A k \in H :
            zero[list[k].endpoint] = IF HadTurn(Runtime!Before(k, H), a, idx % n) THEN c + 1 ELSE c
  <2> SUFFICES ASSUME n # 0
               PROVE  \A k \in H : zero[list[k].endpoint] = IF HadTurn(Runtime!Before(k, H), idx % n, idx % n) THEN 0 + 1 ELSE 0
    BY ModInside, HealthyPlaces
  <2>1. \A k \in H : zero[list[k].endpoint] = 0
    BY HealthyPlaces
  <2>2. \A k \in H : Runtime!Before(k, H) \in 0..(n - 1)
    BY HealthyPlaces, BeforeCounts
  <2>3. idx % n \in 0..(n - 1)
    BY ModInside, HealthyPlaces
  <2> QED
    BY <2>1, <2>2, <2>3 DEF HadTurn
<1> QED
  BY <1>1 DEF Turns

(* One more turn.                                                          *)
LEMMA TurnTaken ==
    ASSUME NEW n \in Nat, n # 0, NEW a \in 0..(n - 1), NEW b \in 0..(n - 1), NEW r \in 0..(n - 1), NEW c \in Nat,
           NEW next, next = IF b + 1 = n THEN 0 ELSE b + 1
    PROVE  (IF HadTurn(r, a, b) THEN c + 1 ELSE c) + (IF r = b THEN 1 ELSE 0)
              = IF a = next THEN c + 1 ELSE IF HadTurn(r, a, next) THEN c + 1 ELSE c
BY DEF HadTurn

LEMMA TurnsGoOn ==
    ASSUME NEW list \in Seq(EntInstances), Listing(list), NEW picks \in [Runtime!Endpoints -> Nat], NEW idx \in Nat,
           Turns(list, picks, idx), Cardinality(Runtime!Healthy(list)) # 0
    PROVE  LET b == idx % Cardinality(Runtime!Healthy(list))
           IN /\ Runtime!Candidate(list, b).endpoint \in Runtime!Endpoints
              /\ Turns(list, [picks EXCEPT ![Runtime!Candidate(list, b).endpoint] = @ + 1], b + 1)
<1> DEFINE H == Runtime!Healthy(list)
           n == Cardinality(H)
           b == idx % n
           e0 == Runtime!Candidate(list, b).endpoint
           new == [picks EXCEPT ![e0] = @ + 1]
           next == IF b + 1 = n THEN 0 ELSE b + 1
<1>1. /\ n \in Nat /\ n # 0 /\ H \subseteq DOMAIN list /\ H \in SUBSET (1..Len(list)) /\ Len(list) \in Nat
      /\ \A k \in H : list[k].endpoint \in Runtime!Endpoints
  BY HealthyPlaces
<1>2. b \in 0..(n - 1) /\ (b + 1) % n = next /\ next \in 0..(n - 1) /\ b + 1 \in Nat
  <2>1. b \in 0..(n - 1)
    BY <1>1, ModInside
  <2>2. (b + 1 < n => (b + 1) % n = b + 1) /\ n % n = 0
    <3>1. b + 1 \in Nat
      BY <1>1, <2>1
    <3>2. \A x \in Nat : x < n => x % n = x
      <4> HIDE DEF b, n
      <4> QED
        BY <1>1, ModInside
    <3>3. n % n = 0
      <4> HIDE DEF b, n
      <4> QED
        BY <1>1, ModInside
    <3> HIDE DEF b, n
    <3> QED
      BY <3>1, <3>2, <3>3
  <2> HIDE DEF b, n
  <2> QED
    BY <1>1, <2>1, <2>2
<1> HIDE DEF b
<1>3. PICK k0 \in H : Runtime!Before(k0, H) = b /\ e0 = list[k0].endpoint
  <2>1. \E k \in H : Runtime!Before(k, H) = b
    BY <1>1, <1>2, BeforeCounts
  <2>2. /\ (CHOOSE k \in H : Runtime!Before(k, H) = b) \in H
        /\ Runtime!Before(CHOOSE k \in H : Runtime!Before(k, H) = b, H) = b
    BY <2>1
  <2>3. Runtime!Candidate(list, b) = list[CHOOSE k \in H : Runtime!Before(k, H) = b]
    BY DEF Runtime!Candidate
  <2> QED
    BY <2>2, <2>3
<1> HIDE DEF e0
<1>4. e0 \in Runtime!HealthyEndpoints(list) /\ e0 \in Runtime!Endpoints
  BY <1>1, <1>3 DEF Runtime!HealthyEndpoints
<1>5. \A k \in H : Runtime!Before(k, H) \in 0..(n - 1) /\ (Runtime!Before(k, H) = b <=> list[k].endpoint = e0)
  <2>1. \A k \in H : list[k].endpoint = e0 => k = k0
    BY <1>1, <1>3 DEF Listing
  <2>2. \A k \in H : Runtime!Before(k, H) = b => k = k0
    BY <1>1, <1>3, BeforeCounts
  <2> QED
    BY <1>1, <1>3, <2>1, <2>2, BeforeCounts
<1>6. \A e \in Runtime!Endpoints \ Runtime!HealthyEndpoints(list) : new[e] = 0
  BY <1>4 DEF Turns
<1>7. PICK a \in 0..(n - 1), c \in Nat : \A k \in H :
        picks[list[k].endpoint] = IF HadTurn(Runtime!Before(k, H), a, b) THEN c + 1 ELSE c
  BY DEF Turns, b
<1>8. \A k \in H : new[list[k].endpoint] =
        (IF HadTurn(Runtime!Before(k, H), a, b) THEN c + 1 ELSE c) + (IF Runtime!Before(k, H) = b THEN 1 ELSE 0)
  <2> SUFFICES ASSUME NEW k \in H
               PROVE  new[list[k].endpoint] =
                        (IF HadTurn(Runtime!Before(k, H), a, b) THEN c + 1 ELSE c)
                          + (IF Runtime!Before(k, H) = b THEN 1 ELSE 0)
    OBVIOUS
  <2>1. list[k].endpoint \in Runtime!Endpoints
    BY <1>1
  <2>2. picks[list[k].endpoint] = IF HadTurn(Runtime!Before(k, H), a, b) THEN c + 1 ELSE c
    BY <1>7
  <2>3. picks[list[k].endpoint] \in Nat
    BY <2>1
  <2>4. CASE list[k].endpoint = e0
    BY <1>5, <2>1, <2>2, <2>3, <2>4
  <2>5. CASE list[k].endpoint # e0
    <3>1. new[list[k].endpoint] = picks[list[k].endpoint] /\ Runtime!Before(k, H) # b
      BY <1>5, <2>1, <2>5
    <3> QED
      BY <2>2, <2>3, <3>1
  <2> QED
    BY <2>4, <2>5
<1> HIDE DEF new
<1>9. \A k \in H : new[list[k].endpoint] =
        IF a = next THEN c + 1 ELSE IF HadTurn(Runtime!Before(k, H), a, next) THEN c + 1 ELSE c
  <2> SUFFICES ASSUME NEW k \in H
               PROVE  new[list[k].endpoint] =
                        IF a = next THEN c + 1 ELSE IF HadTurn(Runtime!Before(k, H), a, next) THEN c + 1 ELSE c
    OBVIOUS
  <2> DEFINE r == Runtime!Before(k, H)
  <2>1. r \in 0..(n - 1)
    BY <1>5
  <2>2. new[list[k].endpoint] = (IF HadTurn(r, a, b) THEN c + 1 ELSE c) + (IF r = b THEN 1 ELSE 0)
    BY <1>8
  <2>3. (IF HadTurn(r, a, b) THEN c + 1 ELSE c) + (IF r = b THEN 1 ELSE 0)
          = IF a = next THEN c + 1 ELSE IF HadTurn(r, a, next) THEN c + 1 ELSE c
    <3> DEFINE nx == next
    <3>1. nx = IF b + 1 = n THEN 0 ELSE b + 1
      OBVIOUS
    <3>2. n \in Nat /\ n # 0 /\ b \in 0..(n - 1) /\ a \in 0..(n - 1) /\ c \in Nat
      BY <1>1, <1>2
    <3> HIDE DEF n, H, r, nx, next
    <3>3. (IF HadTurn(r, a, b) THEN c + 1 ELSE c) + (IF r = b THEN 1 ELSE 0)
            = IF a = nx THEN c + 1 ELSE IF HadTurn(r, a, nx) THEN c + 1 ELSE c
      BY <2>1, <3>1, <3>2 DEF HadTurn
    <3> QED
      BY <3>3 DEF nx
  <2> QED
    BY <2>2, <2>3
<1>10. \E aa \in 0..(n - 1), cc \in Nat : \A k \in H :
         new[list[k].endpoint] = IF HadTurn(Runtime!Before(k, H), aa, (b + 1) % n) THEN cc + 1 ELSE cc
  <2>1. CASE a = next
    <3>1. \A k \in H : new[list[k].endpoint] = IF HadTurn(Runtime!Before(k, H), a, (b + 1) % n) THEN (c + 1) + 1 ELSE c + 1
      <4>1. \A k \in H : ~HadTurn(Runtime!Before(k, H), a, next)
        BY <1>2, <1>5, <2>1 DEF HadTurn
      <4> QED
        BY <1>2, <1>9, <2>1, <4>1
    <3>2. c + 1 \in Nat
      OBVIOUS
    <3> HIDE DEF n, H, next
    <3> QED
      BY <3>1, <3>2, Zenon
  <2>2. CASE a # next
    BY <1>2, <1>9, <2>2
  <2> QED
    BY <2>1, <2>2
<1>11. Turns(list, new, b + 1)
  BY <1>6, <1>10 DEF Turns
<1> QED
  BY <1>4, <1>11 DEF new, e0, b

(* A list without one of its members.                                      *)
LEMMA TakenOut ==
    ASSUME NEW S, NEW list \in Seq(S), NEW i \in 1..Len(list)
    PROVE  LET new == SubSeq(list, 1, i - 1) \o SubSeq(list, i + 1, Len(list))
           IN /\ new \in Seq(S) /\ Len(new) = Len(list) - 1
              /\ \A j \in 1..(Len(list) - 1) : new[j] = IF j < i THEN list[j] ELSE list[j + 1]
<1> DEFINE p == SubSeq(list, 1, i - 1)
           q == SubSeq(list, i + 1, Len(list))
<1>0. Len(list) \in Nat /\ i \in Nat /\ 1 <= i /\ i <= Len(list)
  OBVIOUS
<1>1. p \in Seq(S) /\ Len(p) = i - 1 /\ \A j \in 1..(i - 1) : p[j] = list[j]
  BY <1>0
<1>2. q \in Seq(S) /\ Len(q) = Len(list) - i /\ \A j \in 1..(Len(list) - i) : q[j] = list[j + i]
  BY <1>0
<1> HIDE DEF p, q
<1>3. \A x, y \in Seq(S) :
        /\ x \o y \in Seq(S) /\ Len(x \o y) = Len(x) + Len(y)
        /\ \A j \in 1..(Len(x) + Len(y)) : (x \o y)[j] = IF j <= Len(x) THEN x[j] ELSE y[j - Len(x)]
  OBVIOUS
<1>4. /\ p \o q \in Seq(S) /\ Len(p \o q) = Len(p) + Len(q)
      /\ \A j \in 1..(Len(p) + Len(q)) : (p \o q)[j] = IF j <= Len(p) THEN p[j] ELSE q[j - Len(p)]
  <2>1. p \in Seq(S) /\ q \in Seq(S)
    BY <1>1, <1>2
  <2> QED
    BY <1>3, <2>1
<1>5. \A j \in 1..(Len(list) - 1) : (p \o q)[j] = IF j < i THEN list[j] ELSE list[j + 1]
  BY <1>0, <1>1, <1>2, <1>4
<1>6. Len(p \o q) = Len(list) - 1
  BY <1>0, <1>1, <1>2, <1>4
<1> QED
  BY <1>4, <1>5, <1>6 DEF p, q

(* An instance of the list taken from it, or put at its end.               *)
LEMMA ListWithout ==
    ASSUME NEW s \in Runtime!Services, Listing(entInstances[s]), NEW e
    PROVE  /\ Listing(Runtime!Without(s, e))
           /\ \A k \in DOMAIN Runtime!Without(s, e) : Runtime!Without(s, e)[k].endpoint # e
<1> DEFINE list == entInstances[s]
           I == {i \in 1..Len(list) : list[i].endpoint = e}
<1>0. list \in Seq(EntInstances) /\ Len(list) \in Nat /\ DOMAIN list = 1..Len(list)
  BY DEF Listing
<1>1. CASE I = {}
  <2>1. Runtime!Without(s, e) = list
    BY <1>1 DEF Runtime!Without, Runtime!RemoveFirstMatch
  <2> QED
    BY <1>0, <1>1, <2>1
<1>2. CASE I # {}
  <2>1. PICK i \in I : TRUE
    BY <1>2
  <2>2. I = {i}
    BY <1>0 DEF Listing
  <2>3. Runtime!SelectInSeq(list, LAMBDA x : x.endpoint = e) = i
    BY <2>2 DEF Runtime!SelectInSeq, Runtime!Min
  <2>4. Runtime!Without(s, e) = SubSeq(list, 1, i - 1) \o SubSeq(list, i + 1, Len(list))
    BY <2>2, <2>3 DEF Runtime!Without, Runtime!RemoveFirstMatch, Runtime!RemoveAt
  <2> DEFINE n == Len(list)
             new == SubSeq(list, 1, i - 1) \o SubSeq(list, i + 1, n)
  <2>5. i \in 1..n /\ n \in Nat
    BY <1>0
  <2>6. /\ new \in Seq(EntInstances) /\ Len(new) = n - 1
        /\ \A j \in 1..(n - 1) : new[j] = IF j < i THEN list[j] ELSE list[j + 1]
    <3> HIDE DEF list
    <3> QED
      BY <1>0, <2>5, TakenOut
  <2>8. \A j \in 1..n : list[j].endpoint = e => j = i
    BY <2>2
  <2> HIDE DEF new, n, I
  <2>9. DOMAIN new = 1..(n - 1)
    BY <2>5, <2>6
  <2>10. ASSUME NEW j \in 1..(n - 1), NEW k \in 1..(n - 1), new[j].endpoint = new[k].endpoint PROVE j = k
    <3> DEFINE jj == IF j < i THEN j ELSE j + 1
               kk == IF k < i THEN k ELSE k + 1
    <3>1. jj \in 1..n /\ kk \in 1..n /\ new[j] = list[jj] /\ new[k] = list[kk]
      BY <2>5, <2>6
    <3>2. jj = kk
      BY <1>0, <2>10, <3>1 DEF Listing, n
    <3> QED
      BY <2>5, <3>2
  <2>11. ASSUME NEW j \in 1..(n - 1) PROVE new[j].endpoint # e
    <3> DEFINE jj == IF j < i THEN j ELSE j + 1
    <3>1. jj \in 1..n /\ jj # i /\ new[j] = list[jj]
      BY <2>5, <2>6
    <3> QED
      BY <2>8, <3>1
  <2>12. Runtime!Without(s, e) = new
    BY <2>4 DEF new, n
  <2> QED
    BY <2>6, <2>9, <2>10, <2>11, <2>12 DEF Listing
<1> QED
  BY <1>1, <1>2

LEMMA ListAppended ==
    ASSUME NEW list, Listing(list), NEW i \in EntInstances, \A k \in DOMAIN list : list[k].endpoint # i.endpoint
    PROVE  Listing(Append(list, i))
<1> DEFINE new == Append(list, i)
           n == Len(list)
<1>1. list \in Seq(EntInstances) /\ n \in Nat /\ DOMAIN list = 1..n
  BY DEF Listing
<1>2. new \in Seq(EntInstances) /\ DOMAIN new = 1..(n + 1) /\ new[n + 1] = i /\ \A k \in 1..n : new[k] = list[k]
  <2> HIDE DEF n
  <2>1. new \in Seq(EntInstances) /\ Len(new) = n + 1
    BY <1>1 DEF n
  <2>2. new[n + 1] = i /\ \A k \in 1..n : new[k] = list[k]
    BY <1>1 DEF n
  <2> QED
    BY <1>1, <2>1, <2>2
<1> HIDE DEF new, n
<1>3. ASSUME NEW j \in 1..(n + 1), NEW k \in 1..(n + 1), new[j].endpoint = new[k].endpoint PROVE j = k
  <2>1. (j \in 1..n \/ j = n + 1) /\ (k \in 1..n \/ k = n + 1)
    BY <1>1
  <2> QED
    BY <1>1, <1>2, <1>3, <2>1 DEF Listing
<1> QED
  BY <1>2, <1>3 DEF Listing, new

LEMMA GatewayPrimed ==
    /\ \A s \in Runtime!Services : Listing(entInstances[s])' = Listing(entInstances'[s])
    /\ \A s \in Runtime!Services :
         Turns(entInstances[s], entPicks[s], entNextIdx[s])' = Turns(entInstances'[s], entPicks'[s], entNextIdx'[s])
BY DEF Listing, Turns, Runtime!Healthy, Runtime!HealthyEndpoints, Runtime!Before, Runtime!Cardinality, HadTurn

LEMMA ListChanged ==
    ASSUME GatewayIInv, NEW s \in Runtime!Services, NEW list, Listing(list), Runtime!NewList(s, list)
    PROVE  GatewayIInv'
<1>1. /\ entInstances' = [entInstances EXCEPT ![s] = list]
      /\ entPicks' = [entPicks EXCEPT ![s] = [e \in Runtime!Endpoints |-> 0]]
      /\ entRoutes' = entRoutes /\ entNextIdx' = entNextIdx
  BY DEF Runtime!NewList
<1>2. list \in Seq(EntInstances)
  BY DEF Listing
<1>3. /\ entInstances' \in [Runtime!Services -> Seq(EntInstances)]
      /\ entNextIdx' \in [Runtime!Services -> Nat]
      /\ entPicks' \in [Runtime!Services -> [Runtime!Endpoints -> Nat]]
      /\ entRoutes' \in [EntPaths -> Runtime!Services \cup {RtnNone}]
  BY <1>1, <1>2 DEF GatewayIInv
<1>4. ASSUME NEW t \in Runtime!Services
      PROVE  Listing(entInstances'[t]) /\ Turns(entInstances'[t], entPicks'[t], entNextIdx'[t])
  <2>1. CASE t = s
    <3>1. entInstances'[t] = list /\ entPicks'[t] = [e \in Runtime!Endpoints |-> 0] /\ entNextIdx'[t] \in Nat
      BY <1>1, <2>1 DEF GatewayIInv
    <3> QED
      BY <1>2, <3>1, TurnsBegin
  <2>2. CASE t # s
    <3>1. entInstances'[t] = entInstances[t] /\ entPicks'[t] = entPicks[t] /\ entNextIdx'[t] = entNextIdx[t]
      BY <1>1, <2>2 DEF GatewayIInv
    <3> QED
      BY <3>1 DEF GatewayIInv
  <2> QED
    BY <2>1, <2>2
<1> QED
  BY <1>3, <1>4, GatewayPrimed DEF GatewayIInv

LEMMA RequestRouted ==
    ASSUME GatewayIInv, NEW p \in EntPaths, Runtime!RuntimeAssumption, Runtime!RouteRequest(p)
    PROVE  GatewayIInv'
<1> DEFINE s == entRoutes[p]
           list == entInstances[s]
           n == Cardinality(Runtime!Healthy(list))
           b == entNextIdx[s] % n
           e0 == Runtime!Candidate(list, b).endpoint
<1>1. /\ s # RtnNone /\ n # 0
      /\ entPicks' = [entPicks EXCEPT ![s][e0] = @ + 1]
      /\ entNextIdx' = [entNextIdx EXCEPT ![s] = b + 1]
      /\ entInstances' = entInstances /\ entRoutes' = entRoutes
  BY SameRuntimeFinite DEF Runtime!RouteRequest, Runtime!NextIdx
<1>2. s \in Runtime!Services
  BY <1>1 DEF GatewayIInv
<1>3. /\ list \in Seq(EntInstances) /\ Listing(list) /\ entPicks[s] \in [Runtime!Endpoints -> Nat]
      /\ entNextIdx[s] \in Nat /\ Turns(list, entPicks[s], entNextIdx[s])
  BY <1>2 DEF GatewayIInv
<1>4. /\ e0 \in Runtime!Endpoints
      /\ Turns(list, [entPicks[s] EXCEPT ![e0] = @ + 1], b + 1)
  <2> HIDE DEF list
  <2> QED
    BY <1>1, <1>3, TurnsGoOn
<1>5. b + 1 \in Nat
  <2>1. n \in Nat
    BY <1>3, HealthyPlaces
  <2>2. b \in Nat
    <3> HIDE DEF n
    <3> QED
      BY <1>1, <1>3, <2>1, ModInside
  <2> HIDE DEF b
  <2> QED
    BY <2>2
<1> HIDE DEF b, e0, n
<1>6. entPicks'[s] = [entPicks[s] EXCEPT ![e0] = @ + 1] /\ entNextIdx'[s] = b + 1 /\ entInstances'[s] = list
  BY <1>1, <1>2 DEF GatewayIInv
<1>7. /\ entInstances' \in [Runtime!Services -> Seq(EntInstances)]
      /\ entNextIdx' \in [Runtime!Services -> Nat]
      /\ entPicks' \in [Runtime!Services -> [Runtime!Endpoints -> Nat]]
      /\ entRoutes' \in [EntPaths -> Runtime!Services \cup {RtnNone}]
  <2>1. [entPicks[s] EXCEPT ![e0] = @ + 1] \in [Runtime!Endpoints -> Nat]
    BY <1>3, <1>4
  <2>2. entPicks' = [entPicks EXCEPT ![s] = [entPicks[s] EXCEPT ![e0] = @ + 1]]
    BY <1>1, <1>2 DEF GatewayIInv
  <2> QED
    BY <1>1, <1>2, <1>5, <2>1, <2>2 DEF GatewayIInv
<1>8. ASSUME NEW t \in Runtime!Services
      PROVE  Listing(entInstances'[t]) /\ Turns(entInstances'[t], entPicks'[t], entNextIdx'[t])
  <2>1. CASE t = s
    BY <1>3, <1>4, <1>6, <2>1
  <2>2. CASE t # s
    <3>1. entInstances'[t] = entInstances[t] /\ entPicks'[t] = entPicks[t] /\ entNextIdx'[t] = entNextIdx[t]
      BY <1>1, <2>2 DEF GatewayIInv
    <3> QED
      BY <3>1 DEF GatewayIInv
  <2> QED
    BY <2>1, <2>2
<1> QED
  BY <1>7, <1>8, GatewayPrimed DEF GatewayIInv

LEMMA GatewayNext ==
    ASSUME GatewayIInv, Runtime!RuntimeAssumption, [Runtime!Next]_Runtime!vars
    PROVE  GatewayIInv'
<1>1. ASSUME NEW i \in EntInstances, Runtime!Register(i) PROVE GatewayIInv'
  <2>1. i.service \in Runtime!Services
    BY DEF Runtime!Services
  <2>2. Listing(entInstances[i.service])
    BY <2>1 DEF GatewayIInv
  <2> DEFINE rest == Runtime!Without(i.service, i.endpoint)
  <2>3. Listing(rest) /\ \A k \in DOMAIN rest : rest[k].endpoint # i.endpoint
    BY <2>1, <2>2, ListWithout
  <2>4. Runtime!NewList(i.service, Append(rest, i))
    BY <1>1 DEF Runtime!Register
  <2> HIDE DEF rest
  <2> QED
    BY <2>1, <2>3, <2>4, ListAppended, ListChanged
<1>2. ASSUME NEW i \in EntInstances, Runtime!Deregister(i) PROVE GatewayIInv'
  <2>1. i.service \in Runtime!Services
    BY DEF Runtime!Services
  <2>2. Listing(entInstances[i.service])
    BY <2>1 DEF GatewayIInv
  <2>3. Listing(Runtime!Without(i.service, i.endpoint))
    BY <2>1, <2>2, ListWithout
  <2>4. Runtime!NewList(i.service, Runtime!Without(i.service, i.endpoint))
    BY <1>2 DEF Runtime!Deregister
  <2> QED
    BY <2>1, <2>3, <2>4, ListChanged
<1>3. ASSUME NEW p \in EntPaths, NEW s \in Runtime!Services, Runtime!AddRoute(p, s) PROVE GatewayIInv'
  <2>1. /\ entRoutes' = [entRoutes EXCEPT ![p] = s] /\ entInstances' = entInstances
        /\ entNextIdx' = entNextIdx /\ entPicks' = entPicks
    BY <1>3 DEF Runtime!AddRoute
  <2>2. entRoutes' \in [EntPaths -> Runtime!Services \cup {RtnNone}]
    BY <2>1 DEF GatewayIInv
  <2> QED
    BY <2>1, <2>2, GatewayPrimed DEF GatewayIInv
<1>4. ASSUME entInstances' = entInstances /\ entNextIdx' = entNextIdx /\ entPicks' = entPicks /\ entRoutes' = entRoutes
      PROVE  GatewayIInv'
  BY <1>4, GatewayPrimed DEF GatewayIInv
<1>5. ASSUME UNCHANGED Runtime!gatewayVars PROVE GatewayIInv'
  BY <1>4, <1>5 DEF Runtime!gatewayVars
<1>6. CASE UNCHANGED Runtime!vars
  BY <1>5, <1>6 DEF Runtime!vars
<1>7. CASE Runtime!Submit \/ Runtime!Reconcile \/ \E size \in 1..EntMaxBatch : Runtime!Dispatch(size)
  BY <1>5, <1>7 DEF Runtime!Submit, Runtime!Reconcile, Runtime!Dispatch
<1>8. CASE \E j \in DOMAIN EntRenders : Runtime!Schedule(j) \/ Runtime!Release(j) \/ \E n \in Runtime!GpuNodes : Runtime!ReleaseAgain(n, j)
  BY <1>5, <1>8 DEF Runtime!Schedule, Runtime!Release, Runtime!ReleaseAgain
<1> QED
  BY <1>1, <1>2, <1>3, <1>6, <1>7, <1>8, RequestRouted DEF Runtime!Next

LEMMA GatewayBegins ==
    ASSUME Runtime!RuntimeAssumption, Runtime!Init
    PROVE  GatewayIInv
<1>1. /\ entInstances = [s \in Runtime!Services |-> <<>>] /\ entRoutes = [p \in EntPaths |-> RtnNone]
      /\ entNextIdx = [s \in Runtime!Services |-> 0]
      /\ entPicks = [s \in Runtime!Services |-> [e \in Runtime!Endpoints |-> 0]]
  BY DEF Runtime!Init
<1>2. Listing(<<>>)
  BY DEF Listing
<1>3. <<>> \in Seq(EntInstances)
  OBVIOUS
<1> QED
  BY <1>1, <1>2, <1>3, TurnsBegin DEF GatewayIInv

LEMMA GatewaySuffices ==
    ASSUME GatewayIInv
    PROVE  Runtime!TurnsTaken
<1> SUFFICES ASSUME NEW s \in Runtime!Services
             PROVE  /\ \A e, f \in Runtime!HealthyEndpoints(entInstances[s]) : entPicks[s][e] <= entPicks[s][f] + 1
                    /\ \A e \in Runtime!Endpoints \ Runtime!HealthyEndpoints(entInstances[s]) : entPicks[s][e] = 0
  BY DEF Runtime!TurnsTaken
<1> DEFINE list == entInstances[s]
           H == Runtime!Healthy(list)
           n == Cardinality(H)
<1>1. list \in Seq(EntInstances) /\ Turns(list, entPicks[s], entNextIdx[s])
  BY DEF GatewayIInv
<1>2. IsFiniteSet(H)
  BY <1>1, HealthyPlaces
<1>3. ASSUME NEW j \in H, NEW k \in H PROVE entPicks[s][list[j].endpoint] <= entPicks[s][list[k].endpoint] + 1
  <2>1. n # 0
    BY <1>2, FS_EmptySet
  <2>2. PICK a \in 0..(n - 1), c \in Nat : \A x \in H :
          entPicks[s][list[x].endpoint] = IF HadTurn(Runtime!Before(x, H), a, entNextIdx[s] % n) THEN c + 1 ELSE c
    BY <1>1, <2>1 DEF Turns
  <2> QED
    BY <2>2
<1> QED
  BY <1>1, <1>3 DEF Turns, Runtime!HealthyEndpoints

-----------------------------------------------------------------------------
(* The queue and the pool of crawlers.                                     *)
QueueIInv ==
    /\ entSent \in Nat /\ entQueue \in Seq(Nat) /\ entGot \in Seq(Nat)
    /\ Len(entGot) + Len(entQueue) = entSent
    /\ \A k \in 1..Len(entGot) : entGot[k] = k
    /\ \A k \in 1..Len(entQueue) : entQueue[k] = Len(entGot) + k

LEMMA Linked ==
    ASSUME NEW S, NEW x \in Seq(S), NEW y \in Seq(S)
    PROVE  /\ x \o y \in Seq(S) /\ Len(x \o y) = Len(x) + Len(y)
           /\ \A j \in 1..(Len(x) + Len(y)) : (x \o y)[j] = IF j <= Len(x) THEN x[j] ELSE y[j - Len(x)]
OBVIOUS

LEMMA QueueSuffices ==
    ASSUME QueueIInv
    PROVE  Runtime!InOrderOnce
<1>1. /\ entSent \in Nat /\ entQueue \in Seq(Nat) /\ entGot \in Seq(Nat) /\ Len(entGot) + Len(entQueue) = entSent
      /\ \A k \in 1..Len(entGot) : entGot[k] = k
      /\ \A k \in 1..Len(entQueue) : entQueue[k] = Len(entGot) + k
      /\ Len(entGot) \in Nat /\ Len(entQueue) \in Nat
  BY DEF QueueIInv
<1> DEFINE all == entGot \o entQueue
<1>2. /\ all \in Seq(Nat) /\ Len(all) = entSent
      /\ \A j \in 1..entSent : all[j] = IF j <= Len(entGot) THEN entGot[j] ELSE entQueue[j - Len(entGot)]
  BY <1>1, Linked
<1>3. \A j \in 1..entSent : all[j] = j
  <2> SUFFICES ASSUME NEW j \in 1..entSent PROVE all[j] = j
    OBVIOUS
  <2>1. CASE j <= Len(entGot)
    BY <1>1, <1>2, <2>1
  <2>2. CASE ~(j <= Len(entGot))
    <3>1. j - Len(entGot) \in 1..Len(entQueue)
      BY <1>1, <2>2
    <3>2. entQueue[j - Len(entGot)] = Len(entGot) + (j - Len(entGot))
      BY <1>1, <3>1
    <3> QED
      BY <1>1, <1>2, <2>2, <3>2
  <2> QED
    BY <2>1, <2>2
<1> HIDE DEF all
<1>4. all = [k \in 1..entSent |-> k]
  <2>1. all = [k \in 1..Len(all) |-> all[k]]
    BY <1>2
  <2> QED
    BY <1>2, <1>3, <2>1
<1> QED
  BY <1>4 DEF Runtime!InOrderOnce, all

LEMMA QueueDispatched ==
    ASSUME QueueIInv, NEW size \in Nat, Runtime!Dispatch(size)
    PROVE  QueueIInv'
<1> DEFINE n == Runtime!Min({size, Len(entQueue)})
           head == SubSeq(entQueue, 1, n)
           rest == SubSeq(entQueue, n + 1, Len(entQueue))
<1>1. /\ entSent \in Nat /\ entQueue \in Seq(Nat) /\ entGot \in Seq(Nat) /\ Len(entGot) + Len(entQueue) = entSent
      /\ \A k \in 1..Len(entGot) : entGot[k] = k
      /\ \A k \in 1..Len(entQueue) : entQueue[k] = Len(entGot) + k
      /\ Len(entGot) \in Nat /\ Len(entQueue) \in Nat
  BY DEF QueueIInv
<1>2. n \in 0..Len(entQueue)
  <2>1. size \in Int /\ Len(entQueue) \in Int
    BY <1>1
  <2>2. n = IF size <= Len(entQueue) THEN size ELSE Len(entQueue)
    BY <2>1, RuntimeMinMax, Zenon
  <2> HIDE DEF n
  <2> QED
    BY <1>1, <2>2
<1>3. entGot' = entGot \o head /\ entQueue' = rest /\ entSent' = entSent
  BY DEF Runtime!Dispatch
<1> HIDE DEF n
<1>4. /\ head \in Seq(Nat) /\ Len(head) = n /\ \A j \in 1..n : head[j] = entQueue[j]
  BY <1>1, <1>2
<1>5. /\ rest \in Seq(Nat) /\ Len(rest) = Len(entQueue) - n
      /\ \A j \in 1..(Len(entQueue) - n) : rest[j] = entQueue[j + n]
  BY <1>1, <1>2
<1> HIDE DEF head, rest
<1>6. /\ entGot' \in Seq(Nat) /\ Len(entGot') = Len(entGot) + n
      /\ \A j \in 1..(Len(entGot) + n) : entGot'[j] = IF j <= Len(entGot) THEN entGot[j] ELSE head[j - Len(entGot)]
  BY <1>1, <1>3, <1>4, Linked
<1>7. \A j \in 1..Len(entGot') : entGot'[j] = j
  <2> SUFFICES ASSUME NEW j \in 1..(Len(entGot) + n) PROVE entGot'[j] = j
    BY <1>6
  <2>1. CASE j <= Len(entGot)
    <3>1. j \in 1..Len(entGot)
      BY <1>1, <1>2, <2>1
    <3>2. entGot[j] = j
      BY <1>1, <3>1, Zenon
    <3>3. entGot'[j] = entGot[j]
      BY <1>6, <2>1, Zenon
    <3> QED
      BY <3>2, <3>3
  <2>2. CASE ~(j <= Len(entGot))
    <3>1. j - Len(entGot) \in 1..n /\ j - Len(entGot) \in 1..Len(entQueue)
      BY <1>1, <1>2, <2>2
    <3>2. entQueue[j - Len(entGot)] = Len(entGot) + (j - Len(entGot))
      BY <1>1, <3>1
    <3> QED
      BY <1>1, <1>4, <1>6, <2>2, <3>1, <3>2
  <2> QED
    BY <2>1, <2>2
<1>8. \A j \in 1..Len(entQueue') : entQueue'[j] = Len(entGot') + j
  <2> SUFFICES ASSUME NEW j \in 1..(Len(entQueue) - n) PROVE entQueue'[j] = Len(entGot) + n + j
    BY <1>3, <1>5, <1>6
  <2>1. j + n \in 1..Len(entQueue)
    BY <1>1, <1>2
  <2> QED
    BY <1>1, <1>2, <1>3, <1>5, <2>1
<1>9. /\ entSent' \in Nat /\ entQueue' \in Seq(Nat) /\ entGot' \in Seq(Nat)
  BY <1>1, <1>3, <1>5, <1>6
<1>10. Len(entQueue') = Len(entQueue) - n
  BY <1>3, <1>5
<1>11. Len(entGot') + Len(entQueue') = entSent'
  <2> DEFINE g == Len(entGot)
             q == Len(entQueue)
  <2>1. g \in Nat /\ q \in Nat /\ g + q = entSent /\ n \in 0..q
    BY <1>1, <1>2
  <2>2. Len(entGot') = g + n /\ Len(entQueue') = q - n /\ entSent' = entSent
    BY <1>3, <1>6, <1>10
  <2> HIDE DEF g, q
  <2>3. (g + n) + (q - n) = entSent
    BY <2>1
  <2> QED
    BY <2>2, <2>3
<1> QED
  BY <1>7, <1>8, <1>9, <1>11 DEF QueueIInv

LEMMA JobSubmitted ==
    ASSUME QueueIInv, Runtime!Submit
    PROVE  QueueIInv'
<1>1. /\ entSent \in Nat /\ entQueue \in Seq(Nat) /\ entGot \in Seq(Nat) /\ Len(entGot) + Len(entQueue) = entSent
      /\ \A k \in 1..Len(entGot) : entGot[k] = k
      /\ \A k \in 1..Len(entQueue) : entQueue[k] = Len(entGot) + k
      /\ Len(entGot) \in Nat /\ Len(entQueue) \in Nat
  BY DEF QueueIInv
<1>2. entSent' = entSent + 1 /\ entQueue' = Append(entQueue, entSent + 1) /\ entGot' = entGot
  BY DEF Runtime!Submit
<1>3. entQueue' \in Seq(Nat) /\ Len(entQueue') = Len(entQueue) + 1
  BY <1>1, <1>2
<1>4. \A k \in 1..(Len(entQueue) + 1) : entQueue'[k] = Len(entGot) + k
  <2>1. entQueue'[Len(entQueue) + 1] = entSent + 1 /\ \A k \in 1..Len(entQueue) : entQueue'[k] = entQueue[k]
    BY <1>1, <1>2
  <2>2. \A k \in 1..(Len(entQueue) + 1) : k \in 1..Len(entQueue) \/ k = Len(entQueue) + 1
    BY <1>1
  <2>3. entSent + 1 = Len(entGot) + (Len(entQueue) + 1)
    <3> DEFINE g == Len(entGot)
               q == Len(entQueue)
    <3>1. g \in Nat /\ q \in Nat /\ g + q = entSent
      BY <1>1
    <3> HIDE DEF g, q
    <3>2. entSent + 1 = g + (q + 1)
      BY <3>1
    <3> QED
      BY <3>2 DEF g, q
  <2> QED
    BY <1>1, <2>1, <2>2, <2>3, Zenon
<1> QED
  BY <1>1, <1>2, <1>3, <1>4 DEF QueueIInv

LEMMA QueueNext ==
    ASSUME QueueIInv, Runtime!RuntimeAssumption, [Runtime!Next]_Runtime!vars
    PROVE  QueueIInv'
<1>1. ASSUME entSent' = entSent /\ entQueue' = entQueue /\ entGot' = entGot PROVE QueueIInv'
  BY <1>1 DEF QueueIInv
<1>2. ASSUME UNCHANGED Runtime!queueVars PROVE QueueIInv'
  BY <1>1, <1>2 DEF Runtime!queueVars
<1>3. CASE Runtime!Submit
  BY <1>3, JobSubmitted
<1>4. CASE Runtime!Reconcile
  BY <1>1, <1>4 DEF Runtime!Reconcile
<1>5. CASE \E size \in 1..EntMaxBatch : Runtime!Dispatch(size)
  <2>1. PICK size \in 1..EntMaxBatch : Runtime!Dispatch(size)
    BY <1>5
  <2>2. size \in Nat
    BY DEF Runtime!RuntimeAssumption
  <2> QED
    BY <2>1, <2>2, QueueDispatched
<1>6. CASE UNCHANGED Runtime!vars
  BY <1>2, <1>6 DEF Runtime!vars
<1>7. CASE \E i \in EntInstances : Runtime!Register(i) \/ Runtime!Deregister(i)
  BY <1>2, <1>7 DEF Runtime!Register, Runtime!Deregister, Runtime!NewList
<1>8. CASE \E p \in EntPaths : Runtime!RouteRequest(p) \/ \E s \in Runtime!Services : Runtime!AddRoute(p, s)
  BY <1>2, <1>8 DEF Runtime!RouteRequest, Runtime!AddRoute
<1>9. CASE \E j \in DOMAIN EntRenders : Runtime!Schedule(j) \/ Runtime!Release(j) \/ \E n \in Runtime!GpuNodes : Runtime!ReleaseAgain(n, j)
  BY <1>2, <1>9 DEF Runtime!Schedule, Runtime!Release, Runtime!ReleaseAgain
<1> QED
  BY <1>3, <1>4, <1>5, <1>6, <1>7, <1>8, <1>9 DEF Runtime!Next

(* The pool.                                                               *)
PoolIInv == entWorkers \in Int /\ entBacklog \in Nat /\ Runtime!PoolCoversBacklog

LEMMA Scaled ==
    ASSUME NEW a \in Int, NEW b \in Int, a <= b, NEW c \in Nat
    PROVE  a * c <= b * c
OBVIOUS

LEMMA RoundedUp ==
    ASSUME NEW jobs \in Nat, NEW t \in Nat, t # 0
    PROVE  LET q == (jobs + t - 1) \div t
           IN q \in Nat /\ q * t >= jobs /\ (q - 1) * t < jobs
<1> DEFINE x == jobs + t - 1
           q == x \div t
           m == x % t
<1>1. x \in Nat
  OBVIOUS
<1>2. q \in Nat /\ m \in 0..(t - 1) /\ x = q * t + m
  <2> HIDE DEF x
  <2>1. q \in Nat /\ m \in 0..(t - 1)
    BY <1>1
  <2>2. x = q * t + m
    BY <1>1
  <2> QED
    BY <2>1, <2>2
<1> HIDE DEF q, m
<1>3. (q - 1) * t = q * t - t /\ q * t \in Nat
  BY <1>2
<1> DEFINE y == q * t
           z == (q - 1) * t
<1> HIDE DEF y, z
<1>4. y \in Nat /\ z = y - t /\ x = y + m
  BY <1>2, <1>3 DEF y, z
<1>5. y >= jobs /\ z < jobs
  BY <1>2, <1>4
<1> QED
  BY <1>2, <1>5 DEF y, z, q

LEMMA PoolReconciled ==
    ASSUME Runtime!RuntimeAssumption, NEW jobs \in Nat
    PROVE  LET w == Runtime!Desired(jobs)
           IN /\ w \in Int
              /\ w * EntTarget >= jobs \/ w = EntMaxWorkers
              /\ w > EntMinWorkers => (w - 1) * EntTarget < jobs
<1> DEFINE w == Runtime!Desired(jobs)
           q == (jobs + EntTarget - 1) \div EntTarget
           most == Runtime!Max({EntMinWorkers, q})
<1>0. EntMinWorkers \in Nat /\ EntMaxWorkers \in Nat /\ EntMinWorkers <= EntMaxWorkers /\ EntTarget \in Nat /\ EntTarget # 0
  BY DEF Runtime!RuntimeAssumption
<1>1. q \in Nat /\ q * EntTarget >= jobs /\ (q - 1) * EntTarget < jobs
  BY <1>0, RoundedUp
<1> HIDE DEF q
<1>2. most = (IF EntMinWorkers <= q THEN q ELSE EntMinWorkers) /\ most \in Nat
  <2>1. EntMinWorkers \in Int /\ q \in Int
    BY <1>0, <1>1
  <2>2. most = IF EntMinWorkers <= q THEN q ELSE EntMinWorkers
    BY <2>1, RuntimeMinMax, Zenon
  <2> HIDE DEF most
  <2> QED
    BY <1>0, <1>1, <2>2
<1>3. w = IF most <= EntMaxWorkers THEN most ELSE EntMaxWorkers
  <2>1. w = Runtime!Min({most, EntMaxWorkers})
    BY DEF Runtime!Desired, q
  <2> HIDE DEF most, w
  <2> QED
    BY <1>0, <1>2, <2>1, RuntimeMinMax
<1> HIDE DEF w, most
<1>4. w \in Int /\ (w = EntMaxWorkers \/ q <= w) /\ (w > EntMinWorkers => w <= q)
  BY <1>0, <1>1, <1>2, <1>3
<1>5. q <= w => w * EntTarget >= jobs
  <2> SUFFICES ASSUME q <= w PROVE w * EntTarget >= jobs
    OBVIOUS
  <2>1. q * EntTarget <= w * EntTarget
    BY <1>0, <1>1, <1>4, Scaled
  <2>2. q * EntTarget \in Int /\ w * EntTarget \in Int
    BY <1>0, <1>1, <1>4
  <2> QED
    BY <1>1, <2>1, <2>2
<1>6. w <= q => (w - 1) * EntTarget < jobs
  <2> SUFFICES ASSUME w <= q PROVE (w - 1) * EntTarget < jobs
    OBVIOUS
  <2>1. w - 1 \in Int /\ q - 1 \in Int /\ w - 1 <= q - 1
    BY <1>1, <1>4
  <2>2. (w - 1) * EntTarget <= (q - 1) * EntTarget
    BY <1>0, <2>1, Scaled
  <2>3. (w - 1) * EntTarget \in Int /\ (q - 1) * EntTarget \in Int
    BY <1>0, <2>1
  <2> QED
    BY <1>1, <2>2, <2>3
<1> QED
  BY <1>4, <1>5, <1>6 DEF w

LEMMA PoolNext ==
    ASSUME PoolIInv, QueueIInv, Runtime!RuntimeAssumption, [Runtime!Next]_Runtime!vars
    PROVE  PoolIInv'
<1>1. ASSUME entWorkers' = entWorkers /\ entBacklog' = entBacklog PROVE PoolIInv'
  BY <1>1 DEF PoolIInv, Runtime!PoolCoversBacklog
<1>2. ASSUME UNCHANGED Runtime!queueVars PROVE PoolIInv'
  BY <1>1, <1>2 DEF Runtime!queueVars
<1>3. CASE Runtime!Submit \/ \E size \in 1..EntMaxBatch : Runtime!Dispatch(size)
  BY <1>1, <1>3 DEF Runtime!Submit, Runtime!Dispatch
<1>4. CASE Runtime!Reconcile
  <2>1. entWorkers' = Runtime!Desired(Len(entQueue)) /\ entBacklog' = Len(entQueue)
    BY <1>4 DEF Runtime!Reconcile
  <2>2. Len(entQueue) \in Nat
    BY DEF QueueIInv
  <2> QED
    BY <2>1, <2>2, PoolReconciled DEF PoolIInv, Runtime!PoolCoversBacklog
<1>6. CASE UNCHANGED Runtime!vars
  BY <1>2, <1>6 DEF Runtime!vars
<1>7. CASE \E i \in EntInstances : Runtime!Register(i) \/ Runtime!Deregister(i)
  BY <1>2, <1>7 DEF Runtime!Register, Runtime!Deregister, Runtime!NewList
<1>8. CASE \E p \in EntPaths : Runtime!RouteRequest(p) \/ \E s \in Runtime!Services : Runtime!AddRoute(p, s)
  BY <1>2, <1>8 DEF Runtime!RouteRequest, Runtime!AddRoute
<1>9. CASE \E j \in DOMAIN EntRenders : Runtime!Schedule(j) \/ Runtime!Release(j) \/ \E n \in Runtime!GpuNodes : Runtime!ReleaseAgain(n, j)
  BY <1>2, <1>9 DEF Runtime!Schedule, Runtime!Release, Runtime!ReleaseAgain
<1> QED
  BY <1>3, <1>4, <1>6, <1>7, <1>8, <1>9 DEF Runtime!Next

LEMMA PoolBegins ==
    ASSUME Runtime!RuntimeAssumption, Runtime!Init
    PROVE  PoolIInv /\ QueueIInv
<1>1. entWorkers = EntMinWorkers /\ entBacklog = 0 /\ entQueue = <<>> /\ entGot = <<>> /\ entSent = 0
  BY DEF Runtime!Init
<1>2. EntMinWorkers \in Nat /\ EntTarget \in Nat
  BY DEF Runtime!RuntimeAssumption
<1>3. EntMinWorkers * EntTarget >= 0
  BY <1>2
<1>4. PoolIInv
  BY <1>1, <1>2, <1>3 DEF PoolIInv, Runtime!PoolCoversBacklog
<1>5. QueueIInv
  BY <1>1 DEF QueueIInv
<1> QED
  BY <1>4, <1>5

-----------------------------------------------------------------------------
(* The memory of the GPU nodes.                                            *)
MemoryIInv ==
    /\ entUsed \in [Runtime!GpuNodes -> Nat] /\ entSpurious \in Nat
    /\ entRender \in [DOMAIN EntRenders -> Runtime!GpuNodes \cup {RtnNone}]
    /\ Runtime!MemoryAccounted

JobsOf(render, n) == {j \in DOMAIN EntRenders : render[j] = n}
Amount(jobs) == Cardinality(Runtime!HeldBy(jobs))

LEMMA HeldIsAmount ==
    /\ \A n : Runtime!Held(n) = Amount(JobsOf(entRender, n))
    /\ \A n : Runtime!Held(n)' = Amount(JobsOf(entRender', n))
BY SameRuntimeFinite DEF Runtime!Held, Amount, JobsOf, Runtime!HeldBy

LEMMA UnitsOfJob ==
    ASSUME Runtime!RuntimeAssumption, NEW j \in DOMAIN EntRenders
    PROVE  /\ IsFiniteSet({j} \X (1..EntRenders[j])) /\ EntRenders[j] \in Nat
           /\ Cardinality({j} \X (1..EntRenders[j])) = EntRenders[j]
<1> DEFINE r == EntRenders[j]
<1>1. r \in Nat
  BY DEF Runtime!RuntimeAssumption
<1> HIDE DEF r
<1>2. 1 \in Int /\ r \in Int
  BY <1>1
<1>3. IsFiniteSet(1..r) /\ Cardinality(1..r) = IF 1 > r THEN 0 ELSE r - 1 + 1
  BY <1>2, FS_Interval, Zenon
<1>4. Cardinality(1..r) = r
  BY <1>1, <1>3
<1>5. IsFiniteSet({j}) /\ Cardinality({j}) = 1
  BY FS_Singleton
<1>6. IsFiniteSet({j} \X (1..r)) /\ Cardinality({j} \X (1..r)) = Cardinality({j}) * Cardinality(1..r)
  BY <1>3, <1>5, FS_Product, Zenon
<1>7. 1 * r = r
  BY <1>1
<1> QED
  BY <1>1, <1>4, <1>5, <1>6, <1>7 DEF r

LEMMA UnitsFinite ==
    ASSUME Runtime!RuntimeAssumption, NEW jobs \in SUBSET DOMAIN EntRenders
    PROVE  IsFiniteSet(Runtime!HeldBy(jobs)) /\ Amount(jobs) \in Nat
<1> DEFINE U == {{j} \X (1..EntRenders[j]) : j \in jobs}
<1>1. IsFiniteSet(jobs)
  BY SameRuntimeFinite, FS_Subset DEF Runtime!RuntimeAssumption
<1>2. IsFiniteSet(U)
  <2> DEFINE f == [j \in jobs |-> {j} \X (1..EntRenders[j])]
  <2>1. f \in [jobs -> U] /\ \A T \in U : \E j \in jobs : f[j] = T
    OBVIOUS
  <2> HIDE DEF f, U
  <2>2. f \in Surjection(jobs, U)
    BY <2>1, Fun_IsSurj
  <2> QED
    BY <1>1, <2>2, FS_Surjection
<1>3. \A T \in U : IsFiniteSet(T)
  BY UnitsOfJob
<1>4. IsFiniteSet(UNION U)
  <2> HIDE DEF U
  <2> QED
    BY <1>2, <1>3, FS_UNION
<1>5. IsFiniteSet(Runtime!HeldBy(jobs))
  BY <1>4 DEF Runtime!HeldBy
<1> QED
  BY <1>5, FS_CardinalityType DEF Amount

LEMMA OneMoreJob ==
    ASSUME Runtime!RuntimeAssumption, NEW jobs \in SUBSET DOMAIN EntRenders, NEW j \in DOMAIN EntRenders, j \notin jobs
    PROVE  Amount(jobs \cup {j}) = Amount(jobs) + EntRenders[j]
<1> DEFINE A == Runtime!HeldBy(jobs)
           B == {j} \X (1..EntRenders[j])
<1>1. IsFiniteSet(A) /\ Cardinality(A) \in Nat
  BY UnitsFinite DEF Amount
<1>2. IsFiniteSet(B) /\ Cardinality(B) = EntRenders[j] /\ EntRenders[j] \in Nat
  BY UnitsOfJob
<1>3. A \cap B = {}
  BY DEF Runtime!HeldBy
<1>4. Runtime!HeldBy(jobs \cup {j}) = A \cup B
  BY DEF Runtime!HeldBy
<1> HIDE DEF A, B
<1>5. Cardinality(A \cup B) = Cardinality(A) + Cardinality(B) - Cardinality(A \cap B)
  BY <1>1, <1>2, FS_Union
<1>6. Cardinality(A \cap B) = 0
  BY <1>3, FS_EmptySet
<1>7. Amount(jobs \cup {j}) = Cardinality(A \cup B) /\ Amount(jobs) = Cardinality(A)
  BY <1>4 DEF Amount, A
<1> QED
  BY <1>1, <1>2, <1>5, <1>6, <1>7

LEMMA JobScheduled ==
    ASSUME MemoryIInv, Runtime!RuntimeAssumption, NEW j \in DOMAIN EntRenders, Runtime!Schedule(j)
    PROVE  MemoryIInv'
<1>1. PICK n \in Runtime!Fitting(j) :
        entUsed' = [entUsed EXCEPT ![n] = @ + EntRenders[j]] /\ entRender' = [entRender EXCEPT ![j] = n]
  BY DEF Runtime!Schedule
<1>2. /\ entRender[j] = RtnNone /\ entSpurious' = entSpurious /\ n \in Runtime!GpuNodes
      /\ EntMemory[n] - entUsed[n] >= EntRenders[j]
  BY DEF Runtime!Schedule, Runtime!Fitting, Runtime!Available
<1>3. /\ EntRenders[j] \in Nat /\ RtnNone \notin Runtime!GpuNodes /\ EntMemory \in [Runtime!GpuNodes -> Nat]
      /\ entUsed \in [Runtime!GpuNodes -> Nat] /\ entSpurious \in Nat
      /\ entRender \in [DOMAIN EntRenders -> Runtime!GpuNodes \cup {RtnNone}]
  BY DEF Runtime!RuntimeAssumption, MemoryIInv
<1>4. /\ entUsed' \in [Runtime!GpuNodes -> Nat] /\ entUsed'[n] = entUsed[n] + EntRenders[j]
      /\ entRender' \in [DOMAIN EntRenders -> Runtime!GpuNodes \cup {RtnNone}]
  BY <1>1, <1>2, <1>3
<1>5. ASSUME NEW m \in Runtime!GpuNodes
      PROVE  /\ entUsed'[m] <= Amount(JobsOf(entRender', m)) /\ entUsed'[m] <= EntMemory[m]
             /\ entSpurious' = 0 => entUsed'[m] = Amount(JobsOf(entRender', m))
  <2>1. /\ entUsed[m] <= Amount(JobsOf(entRender, m)) /\ entUsed[m] <= EntMemory[m]
        /\ entSpurious = 0 => entUsed[m] = Amount(JobsOf(entRender, m))
    BY HeldIsAmount DEF MemoryIInv, Runtime!MemoryAccounted
  <2>2. CASE m = n
    <3>1. JobsOf(entRender', m) = JobsOf(entRender, m) \cup {j} /\ j \notin JobsOf(entRender, m)
      BY <1>1, <1>2, <1>3, <2>2 DEF JobsOf
    <3>2. JobsOf(entRender, m) \in SUBSET DOMAIN EntRenders
      BY DEF JobsOf
    <3>3. Amount(JobsOf(entRender', m)) = Amount(JobsOf(entRender, m)) + EntRenders[j]
      BY <3>1, <3>2, OneMoreJob
    <3>4. Amount(JobsOf(entRender, m)) \in Nat
      BY <3>2, UnitsFinite
    <3>5. entUsed[m] \in Nat /\ EntMemory[m] \in Nat
      BY <1>3
    <3> QED
      BY <1>2, <1>3, <1>4, <2>1, <2>2, <3>3, <3>4, <3>5
  <2>3. CASE m # n
    <3>1. JobsOf(entRender', m) = JobsOf(entRender, m)
      BY <1>1, <1>2, <1>3, <2>3 DEF JobsOf
    <3>2. entUsed'[m] = entUsed[m]
      BY <1>1, <1>3, <2>3
    <3> QED
      BY <1>2, <2>1, <3>1, <3>2
  <2> QED
    BY <2>2, <2>3
<1> QED
  BY <1>2, <1>3, <1>4, <1>5, HeldIsAmount DEF MemoryIInv, Runtime!MemoryAccounted

LEMMA FreedKeeps ==
    ASSUME Runtime!RuntimeAssumption, MemoryIInv, NEW n \in Runtime!GpuNodes, NEW r \in Nat
    PROVE  /\ Runtime!Freed(n, r) \in [Runtime!GpuNodes -> Nat]
           /\ Runtime!Freed(n, r)[n] = IF 0 <= entUsed[n] - r THEN entUsed[n] - r ELSE 0
           /\ \A m \in Runtime!GpuNodes : m # n => Runtime!Freed(n, r)[m] = entUsed[m]
<1>1. entUsed \in [Runtime!GpuNodes -> Nat]
  BY DEF MemoryIInv
<1> DEFINE x == Runtime!Max({0, entUsed[n] - r})
<1>2. x = IF 0 <= entUsed[n] - r THEN entUsed[n] - r ELSE 0
  <2>1. 0 \in Int /\ entUsed[n] - r \in Int
    BY <1>1
  <2> QED
    BY <2>1, RuntimeMinMax, Zenon
<1>3. Runtime!Freed(n, r) = [entUsed EXCEPT ![n] = x]
  BY DEF Runtime!Freed
<1> HIDE DEF x
<1>4. x \in Nat
  BY <1>1, <1>2
<1> QED
  BY <1>1, <1>2, <1>3, <1>4

LEMMA JobReleased ==
    ASSUME MemoryIInv, Runtime!RuntimeAssumption, NEW j \in DOMAIN EntRenders, Runtime!Release(j)
    PROVE  MemoryIInv'
<1> DEFINE n == entRender[j]
<1>1. /\ n # RtnNone /\ entUsed' = Runtime!Freed(n, EntRenders[j])
      /\ entRender' = [entRender EXCEPT ![j] = RtnNone] /\ entSpurious' = entSpurious
  BY DEF Runtime!Release
<1>2. /\ EntRenders[j] \in Nat /\ RtnNone \notin Runtime!GpuNodes /\ EntMemory \in [Runtime!GpuNodes -> Nat]
      /\ entUsed \in [Runtime!GpuNodes -> Nat] /\ entSpurious \in Nat
      /\ entRender \in [DOMAIN EntRenders -> Runtime!GpuNodes \cup {RtnNone}]
  BY DEF Runtime!RuntimeAssumption, MemoryIInv
<1>3. n \in Runtime!GpuNodes
  BY <1>1, <1>2
<1>4. /\ entUsed' \in [Runtime!GpuNodes -> Nat]
      /\ entUsed'[n] = (IF 0 <= entUsed[n] - EntRenders[j] THEN entUsed[n] - EntRenders[j] ELSE 0)
      /\ \A m \in Runtime!GpuNodes : m # n => entUsed'[m] = entUsed[m]
  <2> HIDE DEF n
  <2> QED
    BY <1>1, <1>2, <1>3, FreedKeeps
<1>5. entRender' \in [DOMAIN EntRenders -> Runtime!GpuNodes \cup {RtnNone}]
  BY <1>1, <1>2
<1>6. ASSUME NEW m \in Runtime!GpuNodes
      PROVE  /\ entUsed'[m] <= Amount(JobsOf(entRender', m)) /\ entUsed'[m] <= EntMemory[m]
             /\ entSpurious' = 0 => entUsed'[m] = Amount(JobsOf(entRender', m))
  <2>1. /\ entUsed[m] <= Amount(JobsOf(entRender, m)) /\ entUsed[m] <= EntMemory[m]
        /\ entSpurious = 0 => entUsed[m] = Amount(JobsOf(entRender, m))
    BY HeldIsAmount DEF MemoryIInv, Runtime!MemoryAccounted
  <2>2. CASE m = n
    <3>1. JobsOf(entRender, m) = JobsOf(entRender', m) \cup {j} /\ j \notin JobsOf(entRender', m)
      BY <1>1, <1>2, <2>2 DEF JobsOf
    <3>2. JobsOf(entRender', m) \in SUBSET DOMAIN EntRenders
      BY DEF JobsOf
    <3>3. Amount(JobsOf(entRender, m)) = Amount(JobsOf(entRender', m)) + EntRenders[j]
      BY <3>1, <3>2, OneMoreJob
    <3>4. Amount(JobsOf(entRender', m)) \in Nat
      BY <3>2, UnitsFinite
    <3>5. entUsed[m] \in Nat /\ EntMemory[m] \in Nat
      BY <1>2
    <3>6. entUsed'[m] = IF 0 <= entUsed[m] - EntRenders[j] THEN entUsed[m] - EntRenders[j] ELSE 0
      BY <1>4, <2>2
    <3> QED
      BY <1>1, <1>2, <2>1, <3>3, <3>4, <3>5, <3>6
  <2>3. CASE m # n
    <3>1. JobsOf(entRender', m) = JobsOf(entRender, m)
      BY <1>1, <1>2, <2>3 DEF JobsOf
    <3>2. entUsed'[m] = entUsed[m]
      BY <1>4, <2>3
    <3> QED
      BY <1>1, <2>1, <3>1, <3>2
  <2> QED
    BY <2>2, <2>3
<1> QED
  BY <1>1, <1>2, <1>4, <1>5, <1>6, HeldIsAmount DEF MemoryIInv, Runtime!MemoryAccounted

LEMMA ReleasedAgain ==
    ASSUME MemoryIInv, Runtime!RuntimeAssumption, NEW j \in DOMAIN EntRenders, NEW n \in Runtime!GpuNodes,
           Runtime!ReleaseAgain(n, j)
    PROVE  MemoryIInv'
<1>1. entUsed' = Runtime!Freed(n, EntRenders[j]) /\ entRender' = entRender /\ entSpurious' = entSpurious + 1
  BY DEF Runtime!ReleaseAgain
<1>2. /\ EntRenders[j] \in Nat /\ EntMemory \in [Runtime!GpuNodes -> Nat]
      /\ entUsed \in [Runtime!GpuNodes -> Nat] /\ entSpurious \in Nat
      /\ entRender \in [DOMAIN EntRenders -> Runtime!GpuNodes \cup {RtnNone}]
  BY DEF Runtime!RuntimeAssumption, MemoryIInv
<1>3. /\ entUsed' \in [Runtime!GpuNodes -> Nat]
      /\ entUsed'[n] = (IF 0 <= entUsed[n] - EntRenders[j] THEN entUsed[n] - EntRenders[j] ELSE 0)
      /\ \A m \in Runtime!GpuNodes : m # n => entUsed'[m] = entUsed[m]
  BY <1>1, <1>2, FreedKeeps
<1>4. \A m \in Runtime!GpuNodes : entUsed'[m] <= entUsed[m]
  <2> SUFFICES ASSUME NEW m \in Runtime!GpuNodes PROVE entUsed'[m] <= entUsed[m]
    OBVIOUS
  <2>1. entUsed[m] \in Nat
    BY <1>2
  <2> QED
    BY <1>2, <1>3, <2>1
<1>5. ASSUME NEW m \in Runtime!GpuNodes
      PROVE  entUsed'[m] <= Amount(JobsOf(entRender', m)) /\ entUsed'[m] <= EntMemory[m]
  <2>1. entUsed[m] <= Amount(JobsOf(entRender, m)) /\ entUsed[m] <= EntMemory[m]
    BY HeldIsAmount DEF MemoryIInv, Runtime!MemoryAccounted
  <2>2. Amount(JobsOf(entRender, m)) \in Nat
    BY UnitsFinite DEF JobsOf
  <2>3. entUsed[m] \in Nat /\ EntMemory[m] \in Nat /\ entUsed'[m] \in Nat
    BY <1>2, <1>3
  <2> QED
    BY <1>1, <1>4, <2>1, <2>2, <2>3
<1>6. entSpurious' \in Nat /\ entSpurious' # 0
  BY <1>1, <1>2
<1> QED
  BY <1>1, <1>2, <1>3, <1>5, <1>6, HeldIsAmount DEF MemoryIInv, Runtime!MemoryAccounted

LEMMA MemoryNext ==
    ASSUME MemoryIInv, Runtime!RuntimeAssumption, [Runtime!Next]_Runtime!vars
    PROVE  MemoryIInv'
<1>1. ASSUME UNCHANGED Runtime!gpuVars PROVE MemoryIInv'
  BY <1>1, HeldIsAmount DEF MemoryIInv, Runtime!MemoryAccounted, Runtime!gpuVars
<1>2. CASE \E j \in DOMAIN EntRenders : Runtime!Schedule(j) \/ Runtime!Release(j) \/ \E n \in Runtime!GpuNodes : Runtime!ReleaseAgain(n, j)
  BY <1>2, JobScheduled, JobReleased, ReleasedAgain
<1>3. CASE Runtime!Submit \/ Runtime!Reconcile \/ \E size \in 1..EntMaxBatch : Runtime!Dispatch(size)
  BY <1>1, <1>3 DEF Runtime!Submit, Runtime!Reconcile, Runtime!Dispatch
<1>6. CASE UNCHANGED Runtime!vars
  BY <1>1, <1>6 DEF Runtime!vars
<1>7. CASE \E i \in EntInstances : Runtime!Register(i) \/ Runtime!Deregister(i)
  BY <1>1, <1>7 DEF Runtime!Register, Runtime!Deregister, Runtime!NewList
<1>8. CASE \E p \in EntPaths : Runtime!RouteRequest(p) \/ \E s \in Runtime!Services : Runtime!AddRoute(p, s)
  BY <1>1, <1>8 DEF Runtime!RouteRequest, Runtime!AddRoute
<1> QED
  BY <1>2, <1>3, <1>6, <1>7, <1>8 DEF Runtime!Next

LEMMA MemoryBegins ==
    ASSUME Runtime!RuntimeAssumption, Runtime!Init
    PROVE  MemoryIInv
<1>1. /\ entUsed = [n \in Runtime!GpuNodes |-> 0] /\ entSpurious = 0
      /\ entRender = [j \in DOMAIN EntRenders |-> RtnNone]
  BY DEF Runtime!Init
<1>2. ASSUME NEW n \in Runtime!GpuNodes PROVE Amount(JobsOf(entRender, n)) = 0
  <2>1. JobsOf(entRender, n) = {}
    BY <1>1 DEF JobsOf, Runtime!RuntimeAssumption
  <2>2. Runtime!HeldBy({}) = {}
    BY DEF Runtime!HeldBy
  <2> QED
    BY <2>1, <2>2, FS_EmptySet DEF Amount
<1>3. EntMemory \in [Runtime!GpuNodes -> Nat]
  BY DEF Runtime!RuntimeAssumption
<1> QED
  BY <1>1, <1>2, <1>3, HeldIsAmount DEF MemoryIInv, Runtime!MemoryAccounted

-----------------------------------------------------------------------------
(* Whatever the order of the calls, requests are taken in turns, jobs are  *)
(* dispatched once and in order, the pool covers the backlog it was        *)
(* reconciled with and the memory counted as used is what jobs hold.       *)
THEOREM RuntimeKept == Runtime!RuntimeAssumption => (Runtime!Spec => []RuntimeInv)
<1> SUFFICES ASSUME Runtime!RuntimeAssumption PROVE Runtime!Spec => []RuntimeInv
  OBVIOUS
<1> DEFINE IInv == GatewayIInv /\ QueueIInv /\ PoolIInv /\ MemoryIInv
<1>1. Runtime!Init => IInv
  BY GatewayBegins, PoolBegins, MemoryBegins
<1>2. IInv /\ [Runtime!Next]_Runtime!vars => IInv'
  BY GatewayNext, QueueNext, PoolNext, MemoryNext
<1>3. IInv => RuntimeInv
  BY GatewaySuffices, QueueSuffices DEF RuntimeInv, PoolIInv, MemoryIInv, Runtime!RuntimeInv
<1> HIDE DEF IInv
<1> QED
  BY <1>1, <1>2, <1>3, PTL DEF Runtime!Spec

-----------------------------------------------------------------------------
(* The deployment helpers of enterprise_maturity.                         *)

LEMMA SamePipelineFinite ==
    \A S : (Pipeline!IsFiniteSet(S) <=> IsFiniteSet(S)) /\ Pipeline!Cardinality(S) = Cardinality(S)
BY DEF Pipeline!IsFiniteSet, IsFiniteSet, Pipeline!Cardinality, Cardinality

(* Of numbers up to a bound one is the greatest.                           *)
LEMMA BoundedMax ==
    ASSUME NEW D \in Nat, NEW S \in SUBSET (0..D), S # {}
    PROVE  \E x \in S : \A y \in S : y <= x
<1> DEFINE Smaller == {ss \in Nat \X Nat : ss[1] < ss[2]}
           R == {r \in 0..D : D - r \in S}
<1>1. R \subseteq Nat /\ R # {}
  <2>1. PICK x \in S : TRUE
    OBVIOUS
  <2>2. D - x \in 0..D /\ D - (D - x) = x
    OBVIOUS
  <2>3. D - x \in R
    BY <2>1, <2>2
  <2>4. R \subseteq Nat
    OBVIOUS
  <2> HIDE DEF R
  <2> QED
    BY <2>3, <2>4
<1>2. IsWellFoundedOn(Smaller, Nat)
  BY NatLessThanWellFounded, Zenon DEF OpToRel
<1>3. \E r \in R : \A s \in R : ~(<<s, r>> \in Smaller)
  <2> HIDE DEF Smaller, R
  <2> QED
    BY <1>1, <1>2, WFMin, Zenon
<1>4. PICK r \in R : \A s \in R : ~(<<s, r>> \in Smaller)
  BY <1>3
<1>5. PICK x \in S : x = D - r
  BY <1>4
<1>6. ASSUME NEW y \in S PROVE y <= x
  <2>1. r \in Nat /\ D - y \in Nat /\ D - (D - y) = y /\ D - y \in 0..D /\ (D - y < r => <<D - y, r>> \in Smaller)
    BY <1>1
  <2>2. D - y \in R
    BY <2>1
  <2>3. ~(D - y < r)
    BY <1>4, <2>1, <2>2
  <2> QED
    BY <1>5, <2>1, <2>3
<1> QED
  BY <1>6

LEMMA LongestMax ==
    ASSUME Pipeline!PipelineAssumption, NEW T \in SUBSET Pipeline!Timing
    PROVE  /\ Pipeline!Longest(T) \in 0..DepMaxDuration
           /\ \A t \in T : T = {t} => Pipeline!Longest(T) = t.duration
           /\ T = {} => Pipeline!Longest(T) = 0
<1> DEFINE S == {0} \cup {t.duration : t \in T}
<1>1. S \in SUBSET (0..DepMaxDuration) /\ S # {} /\ DepMaxDuration \in Nat
  BY DEF Pipeline!Timing, Pipeline!Durations, Pipeline!PipelineAssumption
<1>2. \E x \in S : \A y \in S : y <= x
  <2> HIDE DEF S
  <2> QED
    BY <1>1, BoundedMax
<1>3. Pipeline!Max(S) \in S /\ \A y \in S : y <= Pipeline!Max(S)
  <2> HIDE DEF S
  <2>1. \E x \in S : \A y \in S : x >= y
    BY <1>1, <1>2
  <2> QED
    BY <1>1, <2>1 DEF Pipeline!Max
<1>4. Pipeline!Longest(T) = Pipeline!Max(S)
  BY DEF Pipeline!Longest
<1>5. T = {} => S = {0}
  OBVIOUS
<1>6. ASSUME NEW t \in T, T = {t} PROVE S = {0, t.duration} /\ t.duration \in 1..DepMaxDuration
  BY <1>6 DEF Pipeline!Timing, Pipeline!Durations
<1> HIDE DEF S
<1>7. Pipeline!Longest(T) \in 0..DepMaxDuration
  BY <1>1, <1>3, <1>4
<1>8. T = {} => Pipeline!Longest(T) = 0
  BY <1>3, <1>4, <1>5
<1>9. ASSUME NEW t \in T, T = {t} PROVE Pipeline!Longest(T) = t.duration
  BY <1>3, <1>4, <1>6, <1>9
<1> QED
  BY <1>7, <1>8, <1>9

(* Stages, of which none may run in parallel with another.                 *)
Alone(serial) ==
    /\ serial \subseteq Pipeline!Timing /\ IsFiniteSet(serial)
    /\ \A t, u \in serial : t.stage = u.stage => t = u

Place(t, serial) == Cardinality({u \in serial : u.stage <= t.stage})

LEMMA PlaceApart ==
    ASSUME Pipeline!PipelineAssumption, NEW serial, Alone(serial)
    PROVE  /\ \A t \in serial : Place(t, serial) \in 1..Cardinality(serial)
           /\ \A t, u \in serial : Place(t, serial) = Place(u, serial) => t = u
<1> DEFINE Upto(t) == {u \in serial : u.stage <= t.stage}
<1>0. \A t \in serial : t.stage \in Nat
  BY DEF Alone, Pipeline!Timing, Pipeline!PipelineAssumption
<1>1. ASSUME NEW t \in serial PROVE Place(t, serial) \in 1..Cardinality(serial)
  <2>1. Upto(t) \in SUBSET serial /\ t \in Upto(t) /\ IsFiniteSet(serial)
    BY <1>0 DEF Alone
  <2>2. IsFiniteSet(Upto(t)) /\ Cardinality(Upto(t)) <= Cardinality(serial)
    <3> HIDE DEF Upto
    <3> QED
      BY <2>1, FS_Subset
  <2>3. Cardinality(Upto(t)) \in Nat /\ Cardinality(serial) \in Nat /\ Cardinality(Upto(t)) # 0
    <3> HIDE DEF Upto
    <3> QED
      BY <2>1, <2>2, FS_CardinalityType, FS_EmptySet
  <2> QED
    BY <2>2, <2>3 DEF Place
<1>2. ASSUME NEW t \in serial, NEW u \in serial, t.stage < u.stage PROVE Place(t, serial) # Place(u, serial)
  <2>1. Upto(t) \in SUBSET Upto(u) /\ u \in Upto(u) /\ u \notin Upto(t) /\ Upto(u) \in SUBSET serial
    BY <1>0, <1>2
  <2>2. IsFiniteSet(Upto(u))
    <3> HIDE DEF Upto
    <3> QED
      BY <2>1, FS_Subset DEF Alone
  <2>3. Cardinality(Upto(u)) # Cardinality(Upto(t))
    <3> HIDE DEF Upto
    <3> QED
      BY <2>1, <2>2, FS_Subset
  <2> QED
    BY <2>3 DEF Place
<1>3. \A t, u \in serial : Place(t, serial) = Place(u, serial) => t = u
  <2> SUFFICES ASSUME NEW t \in serial, NEW u \in serial, t # u PROVE Place(t, serial) # Place(u, serial)
    OBVIOUS
  <2>1. t.stage < u.stage \/ u.stage < t.stage
    BY <1>0 DEF Alone
  <2> QED
    BY <1>2, <2>1
<1> QED
  BY <1>1, <1>3

(* The units of the stages by themselves are those of their groups,        *)
(* wherever among the groups they begin.                                   *)
Units(T) == UNION {{t} \X (1..t.duration) : t \in T}
UnitsFrom(off, serial) ==
    UNION {{k + off} \X (1..Pipeline!Longest(Pipeline!InOrder(serial)[k])) : k \in 1..Cardinality(serial)}

LEMMA InOrderIs ==
    \A serial : Pipeline!InOrder(serial) = [k \in 1..Cardinality(serial) |-> {t \in serial : Place(t, serial) = k}]
BY SamePipelineFinite, Zenon DEF Pipeline!InOrder, Place

LEMMA InOrderGroups ==
    ASSUME Pipeline!PipelineAssumption, NEW serial, Alone(serial), NEW k \in 1..Cardinality(serial)
    PROVE  /\ Pipeline!InOrder(serial)[k] \subseteq serial
           /\ \A t \in serial : t \in Pipeline!InOrder(serial)[k] <=> Place(t, serial) = k
           /\ \A t \in Pipeline!InOrder(serial)[k] : Pipeline!InOrder(serial)[k] = {t}
           /\ Pipeline!Longest(Pipeline!InOrder(serial)[k]) \in 0..DepMaxDuration
           /\ \A t \in Pipeline!InOrder(serial)[k] : Pipeline!Longest(Pipeline!InOrder(serial)[k]) = t.duration
           /\ Pipeline!InOrder(serial)[k] = {} => Pipeline!Longest(Pipeline!InOrder(serial)[k]) = 0
<1> DEFINE g == Pipeline!InOrder(serial)[k]
<1>1. g = {t \in serial : Place(t, serial) = k}
  BY InOrderIs
<1>2. g \in SUBSET Pipeline!Timing
  BY <1>1 DEF Alone
<1>3. \A t \in g : g = {t}
  BY <1>1, PlaceApart
<1>4. /\ Pipeline!Longest(g) \in 0..DepMaxDuration
      /\ \A t \in g : Pipeline!Longest(g) = t.duration
      /\ g = {} => Pipeline!Longest(g) = 0
  <2> HIDE DEF g
  <2> QED
    BY <1>2, <1>3, LongestMax
<1> QED
  BY <1>1, <1>3, <1>4

LEMMA SerialUnits ==
    ASSUME Pipeline!PipelineAssumption, NEW serial, Alone(serial), NEW off \in Nat
    PROVE  /\ IsFiniteSet(Units(serial)) /\ IsFiniteSet(UnitsFrom(off, serial))
           /\ Cardinality(UnitsFrom(off, serial)) = Cardinality(Units(serial))
<1> DEFINE n == Cardinality(serial)
           U == Units(serial)
           V == UnitsFrom(off, serial)
           f == [x \in U |-> <<Place(x[1], serial) + off, x[2]>>]
           g(k) == Pipeline!InOrder(serial)[k]
<1>0. n \in Nat /\ DepMaxDuration \in Nat
  BY FS_CardinalityType DEF Alone, Pipeline!PipelineAssumption
<1>1. \A x \in U : x[1] \in serial /\ x[2] \in 1..x[1].duration /\ x = <<x[1], x[2]>>
  BY DEF Units
<1>2. \A t \in serial : t.duration \in 1..DepMaxDuration
  BY DEF Alone, Pipeline!Timing, Pipeline!Durations
<1>3. IsFiniteSet(U)
  <2>1. U \subseteq serial \X (1..DepMaxDuration)
    <3> SUFFICES ASSUME NEW x \in U PROVE x \in serial \X (1..DepMaxDuration)
      OBVIOUS
    <3>1. x[1] \in serial /\ x[2] \in 1..DepMaxDuration
      BY <1>0, <1>1, <1>2
    <3> QED
      BY <1>1, <3>1
  <2>2. IsFiniteSet(serial \X (1..DepMaxDuration))
    <3>1. IsFiniteSet(1..DepMaxDuration) /\ IsFiniteSet(serial)
      BY <1>0, FS_Interval DEF Alone
    <3> QED
      BY <3>1, FS_Product
  <2> QED
    BY <2>1, <2>2, FS_Subset
<1>4. ASSUME NEW x \in U PROVE f[x] \in V
  <2>1. PICK k \in 1..n : k = Place(x[1], serial)
    BY <1>1, PlaceApart
  <2>2. x[1] \in g(k) /\ Pipeline!Longest(g(k)) = x[1].duration
    BY <1>1, <2>1, InOrderGroups
  <2>3. <<k + off, x[2]>> \in {k + off} \X (1..Pipeline!Longest(g(k)))
    BY <1>1, <2>2
  <2>4. <<k + off, x[2]>> \in V
    BY <2>3, Zenon DEF UnitsFrom
  <2> QED
    BY <2>1, <2>4
<1>5. ASSUME NEW x \in U, NEW y \in U, f[x] = f[y] PROVE x = y
  <2>1. Place(x[1], serial) + off = Place(y[1], serial) + off /\ x[2] = y[2]
    BY <1>5
  <2>2. x[1] \in serial /\ y[1] \in serial /\ Place(x[1], serial) \in 1..n /\ Place(y[1], serial) \in 1..n
    BY <1>1, PlaceApart
  <2>3. x[1] = y[1]
    BY <1>0, <2>1, <2>2, PlaceApart
  <2> QED
    BY <1>1, <2>1, <2>3
<1>6. ASSUME NEW v \in V PROVE \E x \in U : f[x] = v
  <2>1. PICK k \in 1..n : v \in {k + off} \X (1..Pipeline!Longest(g(k)))
    BY DEF UnitsFrom
  <2>2. v = <<k + off, v[2]>> /\ v[2] \in 1..Pipeline!Longest(g(k))
    BY <2>1
  <2>3. g(k) # {}
    BY <2>2, InOrderGroups
  <2>4. PICK t \in g(k) : TRUE
    BY <2>3
  <2>5. t \in serial /\ Place(t, serial) = k /\ Pipeline!Longest(g(k)) = t.duration
    BY InOrderGroups
  <2>6. <<t, v[2]>> \in U
    BY <2>2, <2>5 DEF Units
  <2>7. f[<<t, v[2]>>] = <<k + off, v[2]>>
    BY <2>5, <2>6
  <2> QED
    BY <2>2, <2>6, <2>7
<1>7. f \in Bijection(U, V)
  <2> HIDE DEF f, U, V
  <2>1. f \in [U -> V]
    BY <1>4 DEF f
  <2> QED
    BY <1>5, <1>6, <2>1, Fun_IsBij
<1>8. IsFiniteSet(V) /\ Cardinality(V) = Cardinality(U)
  <2> HIDE DEF f, U, V
  <2>1. ExistsBijection(U, V)
    BY <1>7 DEF ExistsBijection
  <2> QED
    BY <1>3, <2>1, FS_Bijection
<1> QED
  BY <1>3, <1>8

(* Groups that begin with the parallel stages, if there are any, and go on *)
(* with the others one by one.                                             *)
Grouped(groups, off, parallel, serial) ==
    /\ off \in {0, 1} /\ (off = 0 <=> parallel = {})
    /\ DOMAIN groups = 1..(off + Cardinality(serial))
    /\ off = 1 => groups[1] = parallel
    /\ \A k \in 1..Cardinality(serial) : groups[k + off] = Pipeline!InOrder(serial)[k]

LEMMA GroupedConcat ==
    ASSUME NEW parallel, NEW serial, Cardinality(serial) \in Nat
    PROVE  Grouped((IF parallel = {} THEN <<>> ELSE <<parallel>>) \o Pipeline!InOrder(serial),
                   IF parallel = {} THEN 0 ELSE 1, parallel, serial)
<1> DEFINE n == Cardinality(serial)
           rest == Pipeline!InOrder(serial)
<1>1. rest \in Seq(SUBSET serial) /\ Len(rest) = n
  BY InOrderIs
<1>2. CASE parallel = {}
  BY <1>1, <1>2 DEF Grouped
<1>3. CASE parallel # {}
  <2>1. /\ Len(<<parallel>> \o rest) = n + 1 /\ (<<parallel>> \o rest)[1] = parallel
        /\ \A k \in 1..n : (<<parallel>> \o rest)[k + 1] = rest[k]
        /\ DOMAIN (<<parallel>> \o rest) = 1..(1 + n)
    <3> HIDE DEF rest, n
    <3> QED
      BY <1>1
  <2> QED
    BY <1>3, <2>1 DEF Grouped
<1> QED
  BY <1>2, <1>3

LEMMA GroupsCover ==
    ASSUME Pipeline!PipelineAssumption, NEW parallel, NEW serial, Alone(serial), parallel \cap serial = {},
           NEW groups, NEW off, Grouped(groups, off, parallel, serial)
    PROVE  /\ UNION Pipeline!ToSet(groups) = parallel \cup serial
           /\ \A i, k \in DOMAIN groups : i # k => groups[i] \cap groups[k] = {}
           /\ \A g \in Pipeline!ToSet(groups) : Cardinality(g) > 1 => g = parallel
<1> DEFINE n == Cardinality(serial)
           In(k) == Pipeline!InOrder(serial)[k]
<1>0. n \in Nat /\ off \in Nat
  BY FS_CardinalityType DEF Alone, Grouped
<1>1. ASSUME NEW i \in DOMAIN groups
      PROVE  (off = 1 /\ i = 1 /\ groups[i] = parallel) \/ (\E k \in 1..n : i = k + off /\ groups[i] = In(k))
  <2>1. CASE off = 1 /\ i = 1
    BY <2>1 DEF Grouped
  <2>2. CASE ~(off = 1 /\ i = 1)
    <3>1. i - off \in 1..n /\ (i - off) + off = i
      BY <1>0, <2>2 DEF Grouped
    <3> QED
      BY <3>1 DEF Grouped
  <2> QED
    BY <2>1, <2>2
<1>2. ASSUME NEW k \in 1..n PROVE k + off \in DOMAIN groups /\ groups[k + off] = In(k)
  BY <1>0 DEF Grouped
<1>3. UNION Pipeline!ToSet(groups) \subseteq parallel \cup serial
  BY <1>1, InOrderGroups DEF Pipeline!ToSet
<1>4. parallel \cup serial \subseteq UNION Pipeline!ToSet(groups)
  <2>1. ASSUME NEW t \in parallel PROVE t \in UNION Pipeline!ToSet(groups)
    <3>1. 1 \in DOMAIN groups /\ groups[1] = parallel
      BY <1>0, <2>1 DEF Grouped
    <3> QED
      BY <2>1, <3>1 DEF Pipeline!ToSet
  <2>2. ASSUME NEW t \in serial PROVE t \in UNION Pipeline!ToSet(groups)
    <3>1. PICK k \in 1..n : Place(t, serial) = k
      BY PlaceApart
    <3>2. t \in In(k)
      BY <3>1, InOrderGroups
    <3> QED
      BY <1>2, <3>2 DEF Pipeline!ToSet
  <2> QED
    BY <2>1, <2>2
<1>5. ASSUME NEW i \in DOMAIN groups, NEW k \in DOMAIN groups, i # k PROVE groups[i] \cap groups[k] = {}
  <2>1. \A l, m \in 1..n : l # m => In(l) \cap In(m) = {}
    BY InOrderGroups
  <2>2. \A l \in 1..n : In(l) \cap parallel = {}
    BY InOrderGroups
  <2> QED
    BY <1>0, <1>1, <1>5, <2>1, <2>2
<1>6. ASSUME NEW g \in Pipeline!ToSet(groups), Cardinality(g) > 1 PROVE g = parallel
  <2>1. PICK i \in DOMAIN groups : g = groups[i]
    BY DEF Pipeline!ToSet
  <2>2. ASSUME NEW k \in 1..n, g = In(k) PROVE FALSE
    <3>1. g = {} \/ \E t : g = {t}
      BY <2>2, InOrderGroups
    <3>2. Cardinality(g) = 0 \/ Cardinality(g) = 1
      BY <3>1, FS_EmptySet, FS_Singleton
    <3> QED
      BY <1>6, <3>2
  <2> QED
    BY <1>1, <2>1, <2>2
<1> QED
  BY <1>3, <1>4, <1>5, <1>6

LEMMA GroupsTake ==
    ASSUME Pipeline!PipelineAssumption, NEW parallel \in SUBSET Pipeline!Timing, NEW serial, Alone(serial),
           NEW groups, NEW off, Grouped(groups, off, parallel, serial)
    PROVE  Pipeline!TakesOf(groups) = Pipeline!Longest(parallel) + Pipeline!Total(serial)
<1> DEFINE n == Cardinality(serial)
           L == Pipeline!Longest(parallel)
           All == UNION {{i} \X (1..Pipeline!Longest(groups[i])) : i \in DOMAIN groups}
<1>0. n \in Nat /\ off \in Nat /\ L \in Nat /\ DepMaxDuration \in Nat
  BY FS_CardinalityType, LongestMax DEF Alone, Grouped, Pipeline!PipelineAssumption
<1>1. Pipeline!TakesOf(groups) = Cardinality(All) /\ Pipeline!Total(serial) = Cardinality(Units(serial))
  BY SamePipelineFinite, Zenon DEF Pipeline!TakesOf, Pipeline!Total, Units
<1>2. /\ IsFiniteSet(UnitsFrom(off, serial)) /\ IsFiniteSet(Units(serial))
      /\ Cardinality(UnitsFrom(off, serial)) = Cardinality(Units(serial)) /\ Cardinality(Units(serial)) \in Nat
  BY <1>0, SerialUnits, FS_CardinalityType
<1>3. \A k \in 1..n : k + off \in DOMAIN groups /\ groups[k + off] = Pipeline!InOrder(serial)[k]
  BY <1>0 DEF Grouped
<1>4. UnitsFrom(off, serial) \subseteq All
  BY <1>3, Zenon DEF UnitsFrom
<1>5. CASE off = 0
  <2>1. DOMAIN groups = 1..n /\ \A k \in 1..n : k + off = k
    BY <1>0, <1>5 DEF Grouped
  <2>2. All \subseteq UnitsFrom(off, serial)
    <3> SUFFICES ASSUME NEW k \in 1..n, NEW v \in {k} \X (1..Pipeline!Longest(groups[k])) PROVE v \in UnitsFrom(off, serial)
      BY <2>1
    <3>1. v \in {k + off} \X (1..Pipeline!Longest(Pipeline!InOrder(serial)[k]))
      BY <1>3, <2>1
    <3> QED
      BY <3>1 DEF UnitsFrom
  <2>3. L = 0
    BY <1>5, LongestMax DEF Grouped
  <2> QED
    BY <1>0, <1>1, <1>2, <1>4, <2>2, <2>3
<1>6. CASE off = 1
  <2> DEFINE First == {1} \X (1..L)
  <2>1. DOMAIN groups = 1..(1 + n) /\ groups[1] = parallel
    BY <1>6 DEF Grouped
  <2>2. First \subseteq All
    BY <1>0, <2>1
  <2>3. All \subseteq First \cup UnitsFrom(off, serial)
    <3> SUFFICES ASSUME NEW i \in 1..(1 + n), NEW v \in {i} \X (1..Pipeline!Longest(groups[i]))
                 PROVE v \in First \cup UnitsFrom(off, serial)
      BY <2>1
    <3>1. CASE i = 1
      BY <2>1, <3>1
    <3>2. CASE i # 1
      <4>1. PICK k \in 1..n : i = k + off
        <5>1. i - 1 \in 1..n /\ i = (i - 1) + off
          BY <1>0, <1>6, <3>2
        <5> QED
          BY <5>1
      <4>2. v \in {k + off} \X (1..Pipeline!Longest(Pipeline!InOrder(serial)[k]))
        BY <1>3, <4>1
      <4> QED
        BY <4>2 DEF UnitsFrom
    <3> QED
      BY <3>1, <3>2
  <2>4. First \cap UnitsFrom(off, serial) = {}
    <3> SUFFICES ASSUME NEW v \in First, NEW k \in 1..n, v[1] = k + off PROVE FALSE
      BY DEF UnitsFrom
    <3> QED
      BY <1>0, <1>6
  <2>5. IsFiniteSet(First) /\ Cardinality(First) = L
    <3>1. /\ IsFiniteSet({1}) /\ Cardinality({1}) = 1 /\ IsFiniteSet(1..L) /\ Cardinality(1..L) = L
      <4>1. IsFiniteSet({1}) /\ Cardinality({1}) = 1
        BY FS_Singleton
      <4>2. IsFiniteSet(1..L) /\ Cardinality(1..L) = IF 1 > L THEN 0 ELSE L - 1 + 1
        <5> HIDE DEF L
        <5>1. 1 \in Int /\ L \in Int
          BY <1>0
        <5> QED
          BY <5>1, FS_Interval, Zenon
      <4>3. Cardinality(1..L) = L
        <5> HIDE DEF L
        <5> QED
          BY <1>0, <4>2
      <4> QED
        BY <4>1, <4>2, <4>3
    <3>2. IsFiniteSet(First) /\ Cardinality(First) = Cardinality({1}) * Cardinality(1..L)
      BY <3>1, FS_Product
    <3> QED
      BY <1>0, <3>1, <3>2
  <2>6. All = First \cup UnitsFrom(off, serial)
    BY <1>4, <2>2, <2>3
  <2>7. Cardinality(All) = Cardinality(First) + Cardinality(UnitsFrom(off, serial))
                             - Cardinality(First \cap UnitsFrom(off, serial))
    <3> HIDE DEF First, All
    <3> QED
      BY <1>2, <2>5, <2>6, FS_Union
  <2>8. Cardinality(First \cap UnitsFrom(off, serial)) = 0
    <3> HIDE DEF First
    <3> QED
      BY <2>4, FS_EmptySet
  <2> HIDE DEF First, All
  <2> QED
    BY <1>0, <1>1, <1>2, <2>5, <2>7, <2>8
<1> QED
  BY <1>5, <1>6 DEF Grouped

LEMMA PipelinePlan ==
    ASSUME Pipeline!PipelineAssumption, NEW timings, timings \subseteq Pipeline!Timing, IsFiniteSet(timings),
           \A t, u \in timings : t.stage = u.stage => t = u, Pipeline!Optimize(timings)
    PROVE  Pipeline!PlanTakesPredicted'
<1> DEFINE parallel == {t \in timings : t.parallelizable}
           serial == timings \ parallel
           groups == (IF parallel = {} THEN <<>> ELSE <<parallel>>) \o Pipeline!InOrder(serial)
           off == IF parallel = {} THEN 0 ELSE 1
<1>1. depPlan' = [timings |-> timings, groups |-> groups,
                  predicted |-> Pipeline!Longest(parallel) + Pipeline!Total(serial)]
  BY Zenon DEF Pipeline!Optimize
<1>2. /\ Alone(serial) /\ parallel \in SUBSET Pipeline!Timing /\ parallel \cap serial = {}
      /\ parallel \cup serial = timings /\ \A t \in parallel : t.parallelizable
  <2>1. IsFiniteSet(serial)
    BY FS_Subset
  <2> QED
    BY <2>1 DEF Alone
<1> HIDE DEF parallel, serial
<1>3. Cardinality(serial) \in Nat
  BY <1>2, FS_CardinalityType DEF Alone
<1>4. Grouped(groups, off, parallel, serial)
  BY <1>3, GroupedConcat
<1> HIDE DEF groups, off
<1>5. /\ UNION Pipeline!ToSet(groups) = timings
      /\ \A i, k \in DOMAIN groups : i # k => groups[i] \cap groups[k] = {}
      /\ \A g \in Pipeline!ToSet(groups) : Cardinality(g) > 1 => g = parallel
  BY <1>2, <1>4, GroupsCover
<1>6. Pipeline!TakesOf(groups) = Pipeline!Longest(parallel) + Pipeline!Total(serial)
  BY <1>2, <1>4, GroupsTake
<1>7. /\ (Pipeline!ToSet(depPlan.groups))' = Pipeline!ToSet(depPlan'.groups)
      /\ (Pipeline!TakesOf(depPlan.groups))' = Pipeline!TakesOf(depPlan'.groups)
  BY DEF Pipeline!ToSet, Pipeline!TakesOf, Pipeline!Longest
<1>8. depPlan'.timings = timings /\ depPlan'.groups = groups /\ depPlan'.predicted = Pipeline!TakesOf(groups)
  BY <1>1, <1>6
<1>9. \A g \in Pipeline!ToSet(groups) : Pipeline!Cardinality(g) > 1 => \A t \in g : t.parallelizable
  BY <1>2, <1>5, SamePipelineFinite
<1> QED
  BY <1>5, <1>7, <1>8, <1>9 DEF Pipeline!PlanTakesPredicted

LEMMA PipelineVerdict ==
    ASSUME Pipeline!PipelineAssumption, NEW given \in Pipeline!BoundedSeq(DepMetrics, DepMaxMetrics),
           Pipeline!Assess(given)
    PROVE  Pipeline!VerdictCoversRegions'
<1> DEFINE all == {given[i] : i \in DOMAIN given}
           rollback == {m \in all : Pipeline!Bad(m)}
           safe == all \ rollback
<1>1. depAssessment' = [given |-> given, decision |-> IF rollback # {} THEN "rollback" ELSE "promote",
                        safe |-> {m.region : m \in safe}, rollback |-> {m.region : m \in rollback}]
  BY Zenon DEF Pipeline!Assess, Pipeline!ToSet
<1>2. /\ depAssessment'.given = given /\ depAssessment'.safe = {m.region : m \in safe}
      /\ depAssessment'.rollback = {m.region : m \in rollback}
      /\ depAssessment'.decision = "promote" <=> rollback = {}
  BY <1>1
<1>3. rollback = {} <=> \A m \in all : ~Pipeline!Bad(m)
  OBVIOUS
<1> SUFFICES /\ rollback = {} <=> \A m \in all : m.error <= DepMaxError /\ m.latency <= DepMaxLatency
             /\ {m.region : m \in safe} \cup {m.region : m \in rollback} = {m.region : m \in all}
             /\ {m.region : m \in safe} \cap {m.region : m \in rollback} # {} =>
                  \E i, k \in DOMAIN given : i # k /\ given[i].region = given[k].region
  <2> HIDE DEF rollback, safe
  <2>1. (Pipeline!ToSet(depAssessment.given))' = all
    BY <1>2 DEF Pipeline!ToSet
  <2> HIDE DEF all
  <2> QED
    BY <1>2, <2>1 DEF Pipeline!VerdictCoversRegions
<1>4. {m.region : m \in safe} \cup {m.region : m \in rollback} = {m.region : m \in all}
  OBVIOUS
<1>5. ASSUME NEW m \in safe, NEW o \in rollback, m.region = o.region
      PROVE  \E i, k \in DOMAIN given : i # k /\ given[i].region = given[k].region
  <2>1. PICK i \in DOMAIN given : m = given[i]
    OBVIOUS
  <2>2. PICK k \in DOMAIN given : o = given[k]
    OBVIOUS
  <2> QED
    BY <1>5, <2>1, <2>2
<1>6. {m.region : m \in safe} \cap {m.region : m \in rollback} # {} =>
        \E i, k \in DOMAIN given : i # k /\ given[i].region = given[k].region
  <2> HIDE DEF safe, rollback
  <2> QED
    BY <1>5
<1>7. \A m \in all : Pipeline!Bad(m) <=> ~(m.error <= DepMaxError /\ m.latency <= DepMaxLatency)
  <2>1. \A m \in all : m \in DepMetrics
    BY DEF Pipeline!BoundedSeq, Pipeline!SeqOf
  <2> QED
    BY <2>1 DEF Pipeline!Bad, Pipeline!PipelineAssumption
<1> HIDE DEF safe, rollback, all
<1> QED
  BY <1>3, <1>4, <1>6, <1>7

(* What was recorded, and what the one who holds a drift may rely on.      *)
Recorded ==
    /\ depViolations \in Nat /\ depFixes \in Seq(1..depViolations)
    /\ depMemory => depViolations = 0 /\ depFixes = <<>>

DriftHolds ==
    /\ depDesired \in DepManifests
    /\ depDrift # RtnNone /\ ~depEdited => depDrift.desired = depDesired
    /\ depHealed /\ ~depEdited => depCurrent = DepJson[depDesired]

PipelineIInv == Recorded /\ DriftHolds /\ Pipeline!VerdictCoversRegions /\ Pipeline!PlanTakesPredicted

LEMMA PipelineImplies ==
    ASSUME PipelineIInv PROVE Pipeline!DeploymentInv
<1>1. Pipeline!FixesHaveViolations
  <2>1. Pipeline!Snapshot = [violations |-> 1..depViolations, fixes |-> depFixes]
    BY DEF Pipeline!Snapshot
  <2>2. Pipeline!ToSet(depFixes) \subseteq 1..depViolations
    BY DEF PipelineIInv, Recorded, Pipeline!ToSet
  <2>3. depMemory => 1..depViolations = {} /\ depFixes = <<>>
    BY DEF PipelineIInv, Recorded
  <2> QED
    BY <2>1, <2>2, <2>3 DEF Pipeline!FixesHaveViolations
<1>2. Pipeline!HealedIsDesired
  BY DEF PipelineIInv, DriftHolds, Pipeline!HealedIsDesired
<1> QED
  BY <1>1, <1>2 DEF PipelineIInv, Pipeline!DeploymentInv

LEMMA PipelineInit == Pipeline!Init => PipelineIInv
<1> SUFFICES ASSUME Pipeline!Init PROVE PipelineIInv
  OBVIOUS
<1>1. Recorded /\ DriftHolds
  BY DEF Pipeline!Init, Recorded, DriftHolds
<1>2. Pipeline!VerdictCoversRegions /\ Pipeline!PlanTakesPredicted
  BY DEF Pipeline!Init, Pipeline!VerdictCoversRegions, Pipeline!PlanTakesPredicted
<1> QED
  BY <1>1, <1>2 DEF PipelineIInv

(* An answer that was given stays as it is.                                *)
LEMMA AnswerStays ==
    ASSUME UNCHANGED <<depAssessment, depPlan>>, Pipeline!VerdictCoversRegions, Pipeline!PlanTakesPredicted
    PROVE  Pipeline!VerdictCoversRegions' /\ Pipeline!PlanTakesPredicted'
<1>1. Pipeline!VerdictCoversRegions'
  BY DEF Pipeline!VerdictCoversRegions, Pipeline!ToSet
<1>2. Pipeline!PlanTakesPredicted'
  BY Zenon DEF Pipeline!PlanTakesPredicted, Pipeline!ToSet, Pipeline!TakesOf, Pipeline!Longest
<1> QED
  BY <1>1, <1>2

LEMMA PipelineAnswer ==
    ASSUME Pipeline!PipelineAssumption, PipelineIInv, Pipeline!Answer PROVE PipelineIInv'
<1>1. UNCHANGED <<Pipeline!policyVars, Pipeline!manifestVars>>
  BY DEF Pipeline!Answer, Pipeline!Assess, Pipeline!Optimize
<1>2. Recorded' /\ DriftHolds'
  BY <1>1 DEF PipelineIInv, Recorded, DriftHolds, Pipeline!policyVars, Pipeline!manifestVars
<1>3. depAssessment = RtnNone /\ depPlan = RtnNone
  BY DEF Pipeline!Answer
<1>4. CASE \E given \in Pipeline!BoundedSeq(DepMetrics, DepMaxMetrics) : Pipeline!Assess(given)
  <2>1. PICK given \in Pipeline!BoundedSeq(DepMetrics, DepMaxMetrics) : Pipeline!Assess(given)
    BY <1>4
  <2>2. Pipeline!VerdictCoversRegions'
    BY <2>1, PipelineVerdict
  <2>3. depPlan' = depPlan
    BY <2>1 DEF Pipeline!Assess
  <2>4. Pipeline!PlanTakesPredicted'
    BY <1>3, <2>3 DEF Pipeline!PlanTakesPredicted
  <2> QED
    BY <1>2, <2>2, <2>4 DEF PipelineIInv
<1>5. ASSUME NEW stages \in SUBSET DepStages, NEW d \in [stages -> Pipeline!Durations],
             NEW p \in [stages -> BOOLEAN],
             Pipeline!Optimize({[stage |-> s, duration |-> d[s], parallelizable |-> p[s]] : s \in stages})
      PROVE  PipelineIInv'
  <2> DEFINE timings == {[stage |-> s, duration |-> d[s], parallelizable |-> p[s]] : s \in stages}
  <2>1. /\ timings \subseteq Pipeline!Timing
        /\ \A t, u \in timings : t.stage = u.stage => t = u
    BY DEF Pipeline!Timing
  <2>2. IsFiniteSet(timings)
    <3> DEFINE f == [s \in stages |-> [stage |-> s, duration |-> d[s], parallelizable |-> p[s]]]
    <3>1. IsFiniteSet(stages)
      BY SamePipelineFinite, FS_Subset DEF Pipeline!PipelineAssumption
    <3>2. f \in [stages -> timings] /\ \A t \in timings : \E s \in stages : f[s] = t
      OBVIOUS
    <3>3. f \in Surjection(stages, timings)
      <4> HIDE DEF f, timings
      <4> QED
        BY <3>2, Fun_IsSurj
    <3> HIDE DEF f, timings
    <3> QED
      BY <3>1, <3>3, FS_Surjection
  <2>3. Pipeline!PlanTakesPredicted'
    <3> HIDE DEF timings
    <3>1. Pipeline!Optimize(timings)
      BY <1>5 DEF timings
    <3> QED
      BY <2>1, <2>2, <3>1, PipelinePlan
  <2>4. depAssessment' = depAssessment
    BY <1>5 DEF Pipeline!Optimize
  <2>5. Pipeline!VerdictCoversRegions'
    BY <1>3, <2>4 DEF Pipeline!VerdictCoversRegions
  <2> QED
    BY <1>2, <2>3, <2>5 DEF PipelineIInv
<1> QED
  BY <1>4, <1>5 DEF Pipeline!Answer

LEMMA PipelineStep ==
    ASSUME Pipeline!PipelineAssumption PROVE PipelineIInv /\ [Pipeline!Next]_(Pipeline!vars) => PipelineIInv'
<1> SUFFICES ASSUME PipelineIInv, [Pipeline!Next]_(Pipeline!vars), ~Pipeline!Answer PROVE PipelineIInv'
  BY PipelineAnswer
<1>0. Recorded /\ DriftHolds
  BY DEF PipelineIInv
<1>1. UNCHANGED <<depAssessment, depPlan>>
  BY DEF Pipeline!Next, Pipeline!vars, Pipeline!RecordViolation, Pipeline!RecordFix, Pipeline!Edit, Pipeline!Drift,
     Pipeline!DetectDrift, Pipeline!Heal
<1>2. Pipeline!VerdictCoversRegions' /\ Pipeline!PlanTakesPredicted'
  BY <1>1, AnswerStays DEF PipelineIInv
<1>3. Recorded'
  <2>1. CASE Pipeline!RecordViolation
    <3>1. ~depMemory /\ depMemory' = depMemory /\ depViolations' = depViolations + 1 /\ depFixes' = depFixes
      BY <2>1 DEF Pipeline!RecordViolation
    <3>2. 1..depViolations \subseteq 1..(depViolations + 1)
      BY <1>0 DEF Recorded
    <3> QED
      BY <1>0, <3>1, <3>2 DEF Recorded
  <2>2. ASSUME NEW id \in 1..(DepMaxRecords + 1), Pipeline!RecordFix(id) PROVE Recorded'
    BY <1>0, <2>2 DEF Recorded, Pipeline!RecordFix
  <2>3. CASE UNCHANGED Pipeline!policyVars
    BY <1>0, <2>3 DEF Recorded, Pipeline!policyVars
  <2>4. UNCHANGED Pipeline!policyVars \/ Pipeline!RecordViolation
          \/ \E id \in 1..(DepMaxRecords + 1) : Pipeline!RecordFix(id)
    BY DEF Pipeline!Next, Pipeline!vars, Pipeline!Edit, Pipeline!Drift, Pipeline!DetectDrift, Pipeline!Heal
  <2> QED
    BY <2>1, <2>2, <2>3, <2>4
<1>4. DriftHolds'
  <2>1. ASSUME NEW m \in DepManifests, Pipeline!Edit(m) PROVE DriftHolds'
    BY <1>0, <2>1 DEF DriftHolds, Pipeline!Edit
  <2>2. ASSUME NEW m \in DepManifests, Pipeline!Drift(m) PROVE DriftHolds'
    BY <1>0, <2>2 DEF DriftHolds, Pipeline!Drift
  <2>3. CASE Pipeline!DetectDrift
    BY <1>0, <2>3 DEF DriftHolds, Pipeline!DetectDrift
  <2>4. CASE Pipeline!Heal
    BY <1>0, <2>4 DEF DriftHolds, Pipeline!Heal
  <2>5. CASE UNCHANGED Pipeline!manifestVars
    BY <1>0, <2>5 DEF DriftHolds, Pipeline!manifestVars
  <2>6. UNCHANGED Pipeline!manifestVars \/ Pipeline!DetectDrift \/ Pipeline!Heal
          \/ \E m \in DepManifests : Pipeline!Edit(m) \/ Pipeline!Drift(m)
    BY DEF Pipeline!Next, Pipeline!vars, Pipeline!RecordViolation, Pipeline!RecordFix
  <2> QED
    BY <2>1, <2>2, <2>3, <2>4, <2>5, <2>6
<1> QED
  BY <1>2, <1>3, <1>4 DEF PipelineIInv

(* Every region an assessment was given is told safe or to be rolled back, *)
(* a plan takes the time it predicts, fixes are of violations recorded     *)
(* before, and a drift that was healed is gone until somebody edits: for   *)
(* any metrics, stages, durations and manifests.                           *)
THEOREM DeploymentAnswers == Pipeline!PipelineAssumption => (Pipeline!Spec => []DeploymentInv)
<1> SUFFICES ASSUME Pipeline!PipelineAssumption PROVE Pipeline!Spec => []DeploymentInv
  OBVIOUS
<1>1. Pipeline!Init => PipelineIInv
  BY PipelineInit
<1>2. PipelineIInv /\ [Pipeline!Next]_(Pipeline!vars) => PipelineIInv'
  BY PipelineStep
<1>3. PipelineIInv => DeploymentInv
  BY PipelineImplies DEF DeploymentInv
<1> QED
  BY <1>1, <1>2, <1>3, PTL DEF Pipeline!Spec

-----------------------------------------------------------------------------
(* scripts/repo_cleanup_audit.py.                                          *)

(* A graph that leads nowhere but to its own files.                        *)
Whole(graph) == graph \in [DOMAIN graph -> SUBSET DOMAIN graph]
Starts(graph) == (CleanEntrypoints \cup CleanProtected) \cap DOMAIN graph

(* What is needed is the least set that holds the starts and what its      *)
(* members import.                                                         *)
LEMMA NeededLeast ==
    ASSUME NEW graph, Whole(graph)
    PROVE  /\ Cleanup!Needed(graph) \subseteq DOMAIN graph /\ Starts(graph) \subseteq Cleanup!Needed(graph)
           /\ \A f \in Cleanup!Needed(graph) : graph[f] \subseteq Cleanup!Needed(graph)
           /\ \A S \in SUBSET DOMAIN graph :
                Starts(graph) \subseteq S /\ (\A f \in S : graph[f] \subseteq S) => Cleanup!Needed(graph) \subseteq S
<1> DEFINE Closed(S) == Starts(graph) \subseteq S /\ \A f \in S : graph[f] \subseteq S
<1>1. Cleanup!Needed(graph) = {f \in DOMAIN graph : \A S \in SUBSET DOMAIN graph : Closed(S) => f \in S}
  BY DEF Cleanup!Needed, Starts
<1>2. Cleanup!Needed(graph) \subseteq DOMAIN graph /\ Starts(graph) \subseteq Cleanup!Needed(graph)
  BY <1>1 DEF Starts
<1>3. ASSUME NEW f \in Cleanup!Needed(graph), NEW g \in graph[f] PROVE g \in Cleanup!Needed(graph)
  <2>1. f \in DOMAIN graph /\ g \in DOMAIN graph
    BY <1>2, <1>3 DEF Whole
  <2>2. ASSUME NEW S \in SUBSET DOMAIN graph, Closed(S) PROVE g \in S
    BY <1>1, <1>3, <2>2
  <2> QED
    BY <1>1, <2>1, <2>2
<1>4. ASSUME NEW S \in SUBSET DOMAIN graph, Closed(S) PROVE Cleanup!Needed(graph) \subseteq S
  BY <1>1, <1>4
<1> QED
  BY <1>2, <1>3, <1>4

(* Without the files that are not needed all that is left is needed.       *)
LEMMA NeededAgain ==
    ASSUME NEW graph, Whole(graph), NEW rest,
           rest = [f \in Cleanup!Needed(graph) |-> graph[f] \cap Cleanup!Needed(graph)]
    PROVE  Whole(rest) /\ Cleanup!Needed(rest) = Cleanup!Needed(graph)
<1>1. Whole(rest) /\ DOMAIN rest = Cleanup!Needed(graph)
  BY DEF Whole
<1>2. Starts(rest) = Starts(graph)
  BY <1>1, NeededLeast DEF Starts
<1>3. \A f \in DOMAIN rest : rest[f] = graph[f]
  BY <1>1, NeededLeast
<1>4. Cleanup!Needed(graph) \subseteq Cleanup!Needed(rest)
  <2>1. /\ Cleanup!Needed(rest) \subseteq DOMAIN rest /\ Starts(rest) \subseteq Cleanup!Needed(rest)
        /\ \A f \in Cleanup!Needed(rest) : rest[f] \subseteq Cleanup!Needed(rest)
    BY <1>1, NeededLeast
  <2>2. /\ Cleanup!Needed(rest) \in SUBSET DOMAIN graph /\ Starts(graph) \subseteq Cleanup!Needed(rest)
        /\ \A f \in Cleanup!Needed(rest) : graph[f] \subseteq Cleanup!Needed(rest)
    BY <1>1, <1>2, <1>3, <2>1, NeededLeast
  <2> QED
    BY <2>2, NeededLeast
<1>5. Cleanup!Needed(rest) \subseteq Cleanup!Needed(graph)
  BY <1>1, NeededLeast
<1> QED
  BY <1>1, <1>4, <1>5

(* What the walk has visited is needed, and what is needed and was not     *)
(* visited is behind what is on the stack.                                 *)
WalkSound ==
    cleanRun.step # "idle" =>
        /\ Whole(cleanRun.graph)
        /\ cleanRun.visited \cup cleanRun.stack \subseteq Cleanup!Needed(cleanRun.graph)
        /\ Starts(cleanRun.graph) \subseteq cleanRun.visited \cup cleanRun.stack
        /\ \A f \in cleanRun.visited : cleanRun.graph[f] \subseteq cleanRun.visited \cup cleanRun.stack

(* A run that moves has walked to the end, and moves what it did not visit.*)
MovesSound ==
    /\ cleanRun.step = "idle" => cleanRun = Cleanup!Idle
    /\ cleanRun.step = "walk" => cleanRun.moved = {}
    /\ cleanRun.step = "move" =>
         cleanRun.stack = {} /\ cleanRun.left \cup cleanRun.moved = DOMAIN cleanRun.graph \ cleanRun.visited

(* A run beside which nothing was edited knows the tree, ...               *)
FreshKnows ==
    cleanRun.fresh =>
        /\ cleanRun.step # "idle" /\ cleanRun.left \cap cleanRun.moved = {}
        /\ cleanSource = DOMAIN cleanRun.graph \ cleanRun.moved
        /\ cleanRun.graph = [f \in DOMAIN cleanRun.graph |-> cleanImports[f] \cap DOMAIN cleanRun.graph]

(* ... and once it moved what it did, everything left is needed.           *)
SettledNeeds ==
    cleanSettled =>
        /\ cleanSource = Cleanup!Needed(Cleanup!Graph)
        /\ (cleanRun.step = "walk" /\ cleanRun.fresh) \/ cleanRun.step = "idle"

CleanupIInv ==
    Cleanup!TypeOK /\ WalkSound /\ MovesSound /\ FreshKnows /\ SettledNeeds /\ Cleanup!ManifestTells

CleanGraphs == UNION {[S -> SUBSET S] : S \in SUBSET CleanFiles}
CleanRunTypes ==
    [step : {"idle", "walk", "move"}, graph : CleanGraphs, stack : SUBSET CleanFiles, visited : SUBSET CleanFiles,
     left : SUBSET CleanFiles, moved : SUBSET CleanFiles, fresh : BOOLEAN]

LEMMA RunsAre ==
    /\ \A r : Cleanup!IsRun(r) <=> r \in CleanRunTypes
    /\ Cleanup!IsRun(cleanRun)' <=> cleanRun' \in CleanRunTypes
<1>1. ASSUME NEW r, Cleanup!IsRun(r) PROVE r \in CleanRunTypes
  BY <1>1 DEF Cleanup!IsRun, CleanRunTypes, CleanGraphs
<1>2. ASSUME NEW r, r \in CleanRunTypes PROVE Cleanup!IsRun(r)
  <2>1. PICK S \in SUBSET CleanFiles : r.graph \in [S -> SUBSET S]
    BY <1>2 DEF CleanRunTypes, CleanGraphs
  <2> QED
    BY <1>2, <2>1 DEF Cleanup!IsRun, CleanRunTypes
<1>3. Cleanup!IsRun(cleanRun') <=> Cleanup!IsRun(cleanRun)'
  BY DEF Cleanup!IsRun
<1> QED
  BY <1>1, <1>2, <1>3

LEMMA IdleTyped == Cleanup!Idle \in CleanRunTypes
<1>1. [f \in {} |-> {}] \in [{} -> SUBSET {}]
  OBVIOUS
<1>2. [f \in {} |-> {}] \in CleanGraphs
  BY <1>1, Zenon DEF CleanGraphs
<1> QED
  BY <1>2 DEF Cleanup!Idle, CleanRunTypes

LEMMA GraphWhole ==
    ASSUME Cleanup!TypeOK PROVE Whole(Cleanup!Graph) /\ DOMAIN Cleanup!Graph = cleanSource
BY DEF Cleanup!Graph, Whole

(* At its end the walk has visited what is needed.                         *)
LEMMA WalkEnds ==
    ASSUME Cleanup!TypeOK, WalkSound, cleanRun.step # "idle", cleanRun.stack = {}
    PROVE  cleanRun.visited = Cleanup!Needed(cleanRun.graph)
<1>1. /\ Whole(cleanRun.graph) /\ cleanRun.visited \subseteq Cleanup!Needed(cleanRun.graph)
      /\ Starts(cleanRun.graph) \subseteq cleanRun.visited
      /\ \A f \in cleanRun.visited : cleanRun.graph[f] \subseteq cleanRun.visited
  BY DEF WalkSound
<1>2. cleanRun.visited \in SUBSET DOMAIN cleanRun.graph
  BY <1>1, NeededLeast
<1> QED
  BY <1>1, <1>2, NeededLeast

LEMMA CleanupImplies ==
    ASSUME CleanupIInv PROVE Cleanup!CleanupInv
<1>0. Cleanup!TypeOK /\ WalkSound /\ MovesSound /\ FreshKnows /\ SettledNeeds /\ Cleanup!ManifestTells
  BY DEF CleanupIInv
<1>1. Cleanup!WalkExact
  BY <1>0, WalkEnds DEF Cleanup!WalkExact, MovesSound
<1>2. Cleanup!NeededStays
  <2> SUFFICES ASSUME cleanRun.fresh
               PROVE  cleanRun.moved \cap Cleanup!Needed(
                          [f \in DOMAIN cleanRun.graph |-> cleanImports[f] \cap DOMAIN cleanRun.graph]) = {}
    BY DEF Cleanup!NeededStays
  <2>1. cleanRun.graph = [f \in DOMAIN cleanRun.graph |-> cleanImports[f] \cap DOMAIN cleanRun.graph]
    BY <1>0 DEF FreshKnows
  <2>2. cleanRun.moved \cap Cleanup!Needed(cleanRun.graph) = {}
    <3>1. CASE cleanRun.step = "walk"
      BY <1>0, <3>1 DEF MovesSound
    <3>2. CASE cleanRun.step = "move"
      BY <1>0, <3>2, WalkEnds DEF MovesSound
    <3>3. cleanRun.step \in {"idle", "walk", "move"}
      BY <1>0, RunsAre DEF Cleanup!TypeOK, CleanRunTypes
    <3> QED
      BY <1>0, <3>1, <3>2, <3>3 DEF FreshKnows
  <2> QED
    BY <2>1, <2>2
<1>3. Cleanup!OnceIsEnough
  BY <1>0 DEF Cleanup!OnceIsEnough, SettledNeeds
<1> QED
  BY <1>0, <1>1, <1>2, <1>3 DEF Cleanup!CleanupInv

LEMMA CleanupInit ==
    ASSUME Cleanup!CleanupAssumption PROVE Cleanup!Init => CleanupIInv
<1> SUFFICES ASSUME Cleanup!Init PROVE CleanupIInv
  OBVIOUS
<1>1. /\ cleanSource = CleanFiles /\ cleanQuarantine = {} /\ cleanImports \in [CleanFiles -> SUBSET CleanFiles]
      /\ cleanManifest = {} /\ cleanLost = {} /\ cleanSettled = FALSE
      /\ cleanRuns \in 0..CleanMaxRuns /\ cleanEdits \in 0..CleanMaxEdits
      /\ cleanRun = Cleanup!Idle
  BY DEF Cleanup!Init, Cleanup!CleanupAssumption
<1>2. Cleanup!TypeOK
  BY <1>1, IdleTyped, RunsAre DEF Cleanup!TypeOK
<1> QED
  BY <1>1, <1>2 DEF CleanupIInv, WalkSound, MovesSound, FreshKnows, SettledNeeds, Cleanup!ManifestTells, Cleanup!Idle

(* Something is the first to be moved.                                     *)
LEMMA MoveFirst ==
    ASSUME Cleanup!CleanupAssumption, NEW S \in SUBSET CleanFiles, S # {}
    PROVE  Cleanup!Min(S) \in S
<1>1. S \subseteq Nat
  BY DEF Cleanup!CleanupAssumption
<1> DEFINE Smaller == {ss \in Nat \X Nat : ss[1] < ss[2]}
<1>2. IsWellFoundedOn(Smaller, Nat)
  BY NatLessThanWellFounded, Zenon DEF OpToRel
<1>3. \E x \in S : \A y \in S : ~(<<y, x>> \in Smaller)
  <2> HIDE DEF Smaller
  <2> QED
    BY <1>1, <1>2, WFMin, Zenon
<1>4. PICK x \in S : \A y \in S : ~(<<y, x>> \in Smaller)
  BY <1>3
<1>5. ASSUME NEW y \in S PROVE x <= y
  <2>1. x \in Nat /\ y \in Nat /\ (y < x => <<y, x>> \in Smaller)
    BY <1>1
  <2> QED
    BY <1>4, <2>1
<1> QED
  BY <1>5 DEF Cleanup!Min

(* What the graph of a run leads to depends on nothing else.               *)
LEMMA NeededNext ==
    /\ (Cleanup!Needed(cleanRun.graph))' = Cleanup!Needed(cleanRun'.graph)
    /\ (Cleanup!Needed(Cleanup!Graph))' = Cleanup!Needed([f \in cleanSource' |-> cleanImports'[f] \cap cleanSource'])
BY DEF Cleanup!Needed, Cleanup!Graph

LEMMA CleanupAnalyze ==
    ASSUME Cleanup!CleanupAssumption, CleanupIInv, Cleanup!Analyze PROVE CleanupIInv'
<1> DEFINE starts == (CleanEntrypoints \cup CleanProtected) \cap cleanSource
<1>0. Cleanup!TypeOK /\ WalkSound /\ MovesSound /\ FreshKnows /\ SettledNeeds /\ Cleanup!ManifestTells
  BY DEF CleanupIInv
<1>1. /\ cleanRun.step = "idle" /\ cleanRun = Cleanup!Idle
      /\ cleanRuns' \in 0..CleanMaxRuns
      /\ cleanRun' = [Cleanup!Idle EXCEPT !.step = "walk", !.graph = Cleanup!Graph, !.fresh = TRUE, !.stack = starts]
      /\ UNCHANGED <<cleanSource, cleanQuarantine, cleanImports, cleanManifest, cleanEdits, cleanLost, cleanSettled>>
  BY <1>0 DEF Cleanup!Analyze, Cleanup!treeVars, MovesSound, Cleanup!TypeOK, Cleanup!CleanupAssumption
<1>2. Whole(Cleanup!Graph) /\ DOMAIN Cleanup!Graph = cleanSource /\ starts = Starts(Cleanup!Graph)
  BY <1>0, GraphWhole DEF Starts
<1>3. /\ cleanRun'.step = "walk" /\ cleanRun'.graph = Cleanup!Graph /\ cleanRun'.fresh = TRUE
      /\ cleanRun'.stack = starts /\ cleanRun'.visited = {} /\ cleanRun'.left = {} /\ cleanRun'.moved = {}
  BY <1>1 DEF Cleanup!Idle
<1>4. Cleanup!TypeOK'
  <2>1. Cleanup!Graph \in CleanGraphs
    BY <1>0, <1>2, Zenon DEF CleanGraphs, Whole, Cleanup!TypeOK
  <2>2. cleanRun' \in CleanRunTypes
    BY <1>0, <1>1, <2>1 DEF CleanRunTypes, Cleanup!Idle, Cleanup!TypeOK
  <2> QED
    BY <1>0, <1>1, <2>2, RunsAre DEF Cleanup!TypeOK
<1>5. WalkSound'
  BY <1>2, <1>3, NeededLeast, NeededNext DEF WalkSound, Whole, Starts
<1>6. MovesSound'
  BY <1>3 DEF MovesSound
<1>7. FreshKnows'
  BY <1>1, <1>2, <1>3 DEF FreshKnows, Cleanup!Graph
<1>8. SettledNeeds'
  BY <1>0, <1>1, <1>3, NeededNext DEF SettledNeeds, Cleanup!Graph
<1>9. Cleanup!ManifestTells'
  BY <1>0, <1>1, <1>3 DEF Cleanup!ManifestTells, Cleanup!Idle
<1> QED
  BY <1>4, <1>5, <1>6, <1>7, <1>8, <1>9 DEF CleanupIInv

(* What a file on the stack imports is needed when the file is.            *)
LEMMA CleanupWalk ==
    ASSUME Cleanup!CleanupAssumption, CleanupIInv, Cleanup!Walk PROVE CleanupIInv'
<1>0. Cleanup!TypeOK /\ WalkSound /\ MovesSound /\ FreshKnows /\ SettledNeeds /\ Cleanup!ManifestTells
  BY DEF CleanupIInv
<1>1. PICK f \in cleanRun.stack :
        cleanRun' = [cleanRun EXCEPT !.stack = (@ \cup cleanRun.graph[f]) \ (cleanRun.visited \cup {f}),
                                     !.visited = @ \cup {f}]
  BY DEF Cleanup!Walk
<1> DEFINE stack == (cleanRun.stack \cup cleanRun.graph[f]) \ (cleanRun.visited \cup {f})
           visited == cleanRun.visited \cup {f}
<1>2. /\ cleanRun.step = "walk"
      /\ UNCHANGED <<cleanSource, cleanQuarantine, cleanImports, cleanManifest, cleanRuns, cleanEdits, cleanLost,
                     cleanSettled>>
  BY DEF Cleanup!Walk, Cleanup!treeVars
<1>3. cleanRun \in CleanRunTypes
  BY <1>0, RunsAre DEF Cleanup!TypeOK
<1>4. cleanRun' = [cleanRun EXCEPT !.stack = stack, !.visited = visited]
  BY <1>1, <1>3 DEF CleanRunTypes
<1>5. /\ cleanRun'.step = "walk" /\ cleanRun'.graph = cleanRun.graph /\ cleanRun'.fresh = cleanRun.fresh
      /\ cleanRun'.stack = stack /\ cleanRun'.visited = visited
      /\ cleanRun'.left = cleanRun.left /\ cleanRun'.moved = cleanRun.moved
  BY <1>2, <1>3, <1>4 DEF CleanRunTypes
<1>6. /\ Whole(cleanRun.graph) /\ f \in DOMAIN cleanRun.graph
      /\ cleanRun.visited \cup cleanRun.stack \cup cleanRun.graph[f] \subseteq Cleanup!Needed(cleanRun.graph)
      /\ DOMAIN cleanRun.graph \subseteq CleanFiles
  <2>1. Whole(cleanRun.graph) /\ cleanRun.visited \cup cleanRun.stack \subseteq Cleanup!Needed(cleanRun.graph)
    BY <1>0, <1>2 DEF WalkSound
  <2>2. PICK S \in SUBSET CleanFiles : cleanRun.graph \in [S -> SUBSET S]
    BY <1>3 DEF CleanRunTypes, CleanGraphs
  <2> QED
    BY <2>1, <2>2, NeededLeast
<1>7. Cleanup!TypeOK'
  <2>1. stack \subseteq CleanFiles /\ visited \subseteq CleanFiles
    BY <1>3, <1>6 DEF CleanRunTypes, Whole
  <2>2. cleanRun' \in CleanRunTypes
    BY <1>3, <1>4, <2>1 DEF CleanRunTypes
  <2> QED
    BY <1>0, <1>2, <2>2, RunsAre DEF Cleanup!TypeOK
<1>8. WalkSound'
  <2>1. stack \cup visited \subseteq Cleanup!Needed(cleanRun.graph)
    BY <1>6
  <2>2. Starts(cleanRun.graph) \subseteq stack \cup visited
    BY <1>0, <1>2 DEF WalkSound
  <2>3. \A g \in visited : cleanRun.graph[g] \subseteq stack \cup visited
    BY <1>0, <1>2 DEF WalkSound
  <2> QED
    BY <1>5, <1>6, <2>1, <2>2, <2>3, NeededNext DEF WalkSound, Whole, Starts
<1>9. MovesSound'
  BY <1>0, <1>2, <1>5 DEF MovesSound
<1>10. FreshKnows'
  BY <1>0, <1>2, <1>5 DEF FreshKnows
<1>11. SettledNeeds'
  BY <1>0, <1>2, <1>5, NeededNext DEF SettledNeeds, Cleanup!Graph
<1>12. Cleanup!ManifestTells'
  BY <1>0, <1>2, <1>5 DEF Cleanup!ManifestTells
<1> QED
  BY <1>7, <1>8, <1>9, <1>10, <1>11, <1>12 DEF CleanupIInv

(* A run that ends leaves what it moved, and knows the tree no more.       *)
LEMMA CleanupEnds ==
    ASSUME CleanupIInv, cleanRun' = Cleanup!Idle, cleanImports' = cleanImports, cleanRuns' = cleanRuns,
           cleanEdits' = cleanEdits, cleanSource' = cleanSource, cleanQuarantine' = cleanQuarantine,
           cleanManifest' \subseteq CleanFiles, cleanLost' \subseteq CleanFiles, cleanSettled' \in BOOLEAN,
           cleanManifest' \cup cleanLost' = cleanQuarantine,
           cleanSettled' => cleanSource = Cleanup!Needed(Cleanup!Graph)
    PROVE  CleanupIInv'
<1>0. Cleanup!TypeOK
  BY DEF CleanupIInv
<1>1. Cleanup!TypeOK'
  <2>1. cleanRun' \in CleanRunTypes
    BY IdleTyped
  <2> QED
    BY <1>0, <2>1, RunsAre DEF Cleanup!TypeOK
<1>2. cleanRun'.step = "idle" /\ cleanRun'.fresh = FALSE /\ cleanRun'.moved = {}
  BY DEF Cleanup!Idle
<1>3. WalkSound' /\ FreshKnows'
  BY <1>2 DEF WalkSound, FreshKnows
<1>4. MovesSound'
  <2>1. Cleanup!Idle' = Cleanup!Idle
    BY DEF Cleanup!Idle
  <2> QED
    BY <1>2, <2>1 DEF MovesSound
<1>5. SettledNeeds'
  BY <1>2, NeededNext DEF SettledNeeds, Cleanup!Graph
<1>6. Cleanup!ManifestTells'
  BY <1>2 DEF Cleanup!ManifestTells
<1> QED
  BY <1>1, <1>3, <1>4, <1>5, <1>6 DEF CleanupIInv

(* A walk beside which nothing was edited knows what the tree needs.       *)
LEMMA FreshWalk ==
    ASSUME CleanupIInv, cleanRun.step = "walk", cleanRun.fresh, cleanRun.stack = {}
    PROVE  /\ cleanSource = DOMAIN cleanRun.graph /\ cleanRun.visited = Cleanup!Needed(Cleanup!Graph)
           /\ cleanRun.visited \subseteq cleanSource
<1>1. cleanSource = DOMAIN cleanRun.graph /\ cleanRun.graph = Cleanup!Graph
  BY DEF CleanupIInv, FreshKnows, MovesSound, Cleanup!Graph
<1>2. cleanRun.visited = Cleanup!Needed(cleanRun.graph) /\ Whole(cleanRun.graph)
  BY WalkEnds DEF CleanupIInv, WalkSound
<1> QED
  BY <1>1, <1>2, NeededLeast

LEMMA CleanupReport ==
    ASSUME Cleanup!CleanupAssumption, CleanupIInv, Cleanup!Report PROVE CleanupIInv'
<1>0. Cleanup!TypeOK /\ WalkSound /\ MovesSound /\ FreshKnows /\ SettledNeeds /\ Cleanup!ManifestTells
  BY DEF CleanupIInv
<1>1. /\ cleanRun.step = "walk" /\ cleanRun.stack = {}
      /\ cleanSettled' = (cleanSettled \/ (Cleanup!Unreachable = {} /\ cleanRun.fresh))
      /\ UNCHANGED <<cleanSource, cleanQuarantine, cleanImports, cleanManifest, cleanRuns, cleanEdits, cleanLost>>
  BY DEF Cleanup!Report, Cleanup!treeVars
<1>2. CASE Cleanup!Unreachable = {}
  <2>1. cleanRun' = Cleanup!Idle /\ cleanRun.moved = {}
    BY <1>0, <1>1, <1>2 DEF Cleanup!Report, MovesSound
  <2>2. cleanSettled' => cleanSource = Cleanup!Needed(Cleanup!Graph)
    <3>1. cleanRun.fresh => cleanSource = Cleanup!Needed(Cleanup!Graph)
      BY <1>1, <1>2, FreshWalk DEF Cleanup!Unreachable
    <3> QED
      BY <1>0, <1>1, <3>1 DEF SettledNeeds
  <2> QED
    BY <1>0, <1>1, <2>1, <2>2, CleanupEnds DEF Cleanup!TypeOK, Cleanup!ManifestTells
<1>3. CASE Cleanup!Unreachable # {}
  <2>1. cleanRun' = [cleanRun EXCEPT !.step = "move", !.left = Cleanup!Unreachable]
    BY <1>3 DEF Cleanup!Report
  <2>2. cleanRun \in CleanRunTypes
    BY <1>0, RunsAre DEF Cleanup!TypeOK
  <2>3. /\ cleanRun'.step = "move" /\ cleanRun'.graph = cleanRun.graph /\ cleanRun'.fresh = cleanRun.fresh
        /\ cleanRun'.stack = {} /\ cleanRun'.visited = cleanRun.visited
        /\ cleanRun'.left = Cleanup!Unreachable /\ cleanRun'.moved = cleanRun.moved /\ cleanRun.moved = {}
    BY <1>0, <1>1, <2>1, <2>2 DEF CleanRunTypes, MovesSound
  <2>4. ~cleanSettled'
    <3>1. ~cleanSettled
      BY <1>0, <1>1, <1>3, FreshWalk DEF SettledNeeds, Cleanup!Unreachable
    <3> QED
      BY <1>1, <1>3, <3>1
  <2>5. Cleanup!TypeOK'
    <3>1. Cleanup!Unreachable \subseteq CleanFiles
      <4>1. PICK S \in SUBSET CleanFiles : cleanRun.graph \in [S -> SUBSET S]
        BY <2>2 DEF CleanRunTypes, CleanGraphs
      <4> QED
        BY <4>1 DEF Cleanup!Unreachable
    <3>2. cleanRun' \in CleanRunTypes
      BY <2>1, <2>2, <3>1 DEF CleanRunTypes
    <3> QED
      BY <1>0, <1>1, <2>4, <3>2, RunsAre DEF Cleanup!TypeOK
  <2>6. WalkSound'
    BY <1>0, <1>1, <2>3, NeededNext DEF WalkSound, Whole, Starts
  <2>7. MovesSound'
    BY <2>3 DEF MovesSound, Cleanup!Unreachable
  <2>8. FreshKnows'
    BY <1>0, <1>1, <2>3 DEF FreshKnows
  <2>9. SettledNeeds'
    BY <2>4 DEF SettledNeeds
  <2>10. Cleanup!ManifestTells'
    BY <1>0, <1>1, <2>3 DEF Cleanup!ManifestTells
  <2> QED
    BY <2>5, <2>6, <2>7, <2>8, <2>9, <2>10 DEF CleanupIInv
<1> QED
  BY <1>2, <1>3

LEMMA CleanupMove ==
    ASSUME Cleanup!CleanupAssumption, CleanupIInv, Cleanup!Move PROVE CleanupIInv'
<1>0. Cleanup!TypeOK /\ WalkSound /\ MovesSound /\ FreshKnows /\ SettledNeeds /\ Cleanup!ManifestTells
  BY DEF CleanupIInv
<1>1. cleanRun \in CleanRunTypes
  BY <1>0, RunsAre DEF Cleanup!TypeOK
<1>2. /\ cleanRun.step = "move" /\ cleanRun.left # {} /\ cleanRun.stack = {} /\ ~cleanSettled
      /\ UNCHANGED <<cleanImports, cleanManifest, cleanRuns, cleanEdits, cleanSettled>>
  BY <1>0 DEF Cleanup!Move, MovesSound, SettledNeeds
<1>3. PICK f \in cleanRun.left :
        \/ /\ f \in cleanSource
           /\ cleanSource' = cleanSource \ {f} /\ cleanQuarantine' = cleanQuarantine \cup {f}
           /\ cleanRun' = [cleanRun EXCEPT !.left = @ \ {f}, !.moved = @ \cup {f}]
           /\ cleanLost' = cleanLost
        \/ /\ cleanRun' = Cleanup!Idle /\ cleanLost' = cleanLost \cup cleanRun.moved
           /\ cleanSource' = cleanSource /\ cleanQuarantine' = cleanQuarantine
  <2>1. Cleanup!Min(cleanRun.left) \in cleanRun.left
    BY <1>1, <1>2, MoveFirst DEF CleanRunTypes
  <2> QED
    BY <2>1 DEF Cleanup!Move
<1>4. CASE cleanRun' = Cleanup!Idle /\ cleanLost' = cleanLost \cup cleanRun.moved
           /\ cleanSource' = cleanSource /\ cleanQuarantine' = cleanQuarantine
  BY <1>0, <1>1, <1>2, <1>4, CleanupEnds DEF Cleanup!TypeOK, Cleanup!ManifestTells, CleanRunTypes
<1>5. CASE /\ f \in cleanSource
           /\ cleanSource' = cleanSource \ {f} /\ cleanQuarantine' = cleanQuarantine \cup {f}
           /\ cleanRun' = [cleanRun EXCEPT !.left = @ \ {f}, !.moved = @ \cup {f}]
           /\ cleanLost' = cleanLost
  <2>1. cleanRun' = [cleanRun EXCEPT !.left = cleanRun.left \ {f}, !.moved = cleanRun.moved \cup {f}]
    BY <1>1, <1>5 DEF CleanRunTypes
  <2>2. /\ cleanRun'.step = "move" /\ cleanRun'.graph = cleanRun.graph /\ cleanRun'.fresh = cleanRun.fresh
        /\ cleanRun'.stack = {} /\ cleanRun'.visited = cleanRun.visited
        /\ cleanRun'.left = cleanRun.left \ {f} /\ cleanRun'.moved = cleanRun.moved \cup {f}
    BY <1>1, <1>2, <2>1 DEF CleanRunTypes
  <2>3. Cleanup!TypeOK'
    <3>1. cleanRun' \in CleanRunTypes
      BY <1>1, <2>1 DEF CleanRunTypes
    <3> QED
      BY <1>0, <1>1, <1>2, <1>5, <3>1, RunsAre DEF Cleanup!TypeOK
  <2>4. WalkSound'
    BY <1>0, <1>2, <2>2, NeededNext DEF WalkSound, Whole, Starts
  <2>5. MovesSound'
    BY <1>0, <1>2, <2>2 DEF MovesSound
  <2>6. FreshKnows'
    BY <1>0, <1>2, <1>5, <2>2 DEF FreshKnows
  <2>7. SettledNeeds'
    BY <1>2 DEF SettledNeeds
  <2>8. Cleanup!ManifestTells'
    BY <1>0, <1>2, <1>5, <2>2 DEF Cleanup!ManifestTells
  <2> QED
    BY <2>3, <2>4, <2>5, <2>6, <2>7, <2>8 DEF CleanupIInv
<1> QED
  BY <1>3, <1>4, <1>5

(* A run beside which nothing was edited leaves what is needed, and what   *)
(* is left needs no more than it.                                          *)
LEMMA CleanupWriteManifest ==
    ASSUME Cleanup!CleanupAssumption, CleanupIInv, Cleanup!WriteManifest PROVE CleanupIInv'
<1>0. Cleanup!TypeOK /\ WalkSound /\ MovesSound /\ FreshKnows /\ SettledNeeds /\ Cleanup!ManifestTells
  BY DEF CleanupIInv
<1>1. cleanRun \in CleanRunTypes
  BY <1>0, RunsAre DEF Cleanup!TypeOK
<1>2. /\ cleanRun.step = "move" /\ cleanRun.left = {} /\ cleanRun.stack = {}
      /\ cleanRun.moved = DOMAIN cleanRun.graph \ cleanRun.visited
      /\ cleanManifest' = cleanRun.moved /\ cleanLost' = (cleanLost \cup cleanManifest) \ cleanRun.moved
      /\ cleanSettled' = cleanRun.fresh /\ cleanRun' = Cleanup!Idle
      /\ UNCHANGED <<cleanSource, cleanQuarantine, cleanImports, cleanRuns, cleanEdits>>
  BY <1>0 DEF Cleanup!WriteManifest, MovesSound
<1>3. ASSUME cleanRun.fresh PROVE cleanSource = Cleanup!Needed(Cleanup!Graph)
  <2> DEFINE graph == cleanRun.graph
  <2>1. cleanRun.visited = Cleanup!Needed(graph) /\ Whole(graph)
    BY <1>0, <1>2, WalkEnds DEF WalkSound
  <2>2. cleanSource = Cleanup!Needed(graph) /\ Cleanup!Needed(graph) \subseteq DOMAIN graph
    BY <1>0, <1>2, <1>3, <2>1, NeededLeast DEF FreshKnows
  <2>3. Cleanup!Graph = [f \in Cleanup!Needed(graph) |-> graph[f] \cap Cleanup!Needed(graph)]
    <3>1. \A f \in DOMAIN graph : graph[f] = cleanImports[f] \cap DOMAIN graph
      BY <1>0, <1>3 DEF FreshKnows
    <3> QED
      BY <2>2, <3>1 DEF Cleanup!Graph
  <2> HIDE DEF graph
  <2> QED
    BY <2>1, <2>2, <2>3, NeededAgain
<1> QED
  BY <1>0, <1>1, <1>2, <1>3, CleanupEnds DEF Cleanup!TypeOK, Cleanup!ManifestTells, CleanRunTypes

LEMMA CleanupStep ==
    ASSUME Cleanup!CleanupAssumption PROVE CleanupIInv /\ [Cleanup!Next]_Cleanup!vars => CleanupIInv'
<1> SUFFICES ASSUME CleanupIInv, [Cleanup!Next]_Cleanup!vars PROVE CleanupIInv'
  OBVIOUS
<1>0. Cleanup!TypeOK /\ WalkSound /\ MovesSound /\ FreshKnows /\ SettledNeeds /\ Cleanup!ManifestTells
  BY DEF CleanupIInv
<1>1. cleanRun \in CleanRunTypes
  BY <1>0, RunsAre DEF Cleanup!TypeOK
<1>2. CASE Cleanup!DryRun
  <2>1. cleanRun.moved = {} /\ cleanRun' = Cleanup!Idle
        /\ UNCHANGED <<cleanSource, cleanQuarantine, cleanImports, cleanManifest, cleanRuns, cleanEdits, cleanLost,
                       cleanSettled>>
    BY <1>0, <1>2 DEF Cleanup!DryRun, Cleanup!treeVars, MovesSound
  <2> QED
    BY <1>0, <2>1, CleanupEnds DEF Cleanup!TypeOK, Cleanup!ManifestTells, SettledNeeds
<1>3. CASE Cleanup!Crash
  <2>1. cleanRun' = Cleanup!Idle /\ cleanLost' = cleanLost \cup cleanRun.moved
        /\ UNCHANGED <<cleanSource, cleanQuarantine, cleanImports, cleanManifest, cleanRuns, cleanEdits, cleanSettled>>
    BY <1>3 DEF Cleanup!Crash, Cleanup!treeVars
  <2> QED
    BY <1>0, <1>1, <2>1, CleanupEnds DEF Cleanup!TypeOK, Cleanup!ManifestTells, SettledNeeds, CleanRunTypes
<1>4. CASE Cleanup!Edit
  <2>1. /\ cleanRun' = [cleanRun EXCEPT !.fresh = FALSE] /\ cleanSettled' = FALSE
        /\ cleanEdits' \in 0..CleanMaxEdits /\ UNCHANGED <<cleanQuarantine, cleanManifest, cleanRuns, cleanLost>>
    BY <1>0, <1>4 DEF Cleanup!Edit, Cleanup!TypeOK, Cleanup!CleanupAssumption
  <2>2. /\ cleanRun'.step = cleanRun.step /\ cleanRun'.graph = cleanRun.graph /\ cleanRun'.fresh = FALSE
        /\ cleanRun'.stack = cleanRun.stack /\ cleanRun'.visited = cleanRun.visited
        /\ cleanRun'.left = cleanRun.left /\ cleanRun'.moved = cleanRun.moved
    BY <1>1, <2>1 DEF CleanRunTypes
  <2>3. cleanSource' \subseteq CleanFiles /\ cleanImports' \in [CleanFiles -> SUBSET CleanFiles]
    BY <1>0, <1>4 DEF Cleanup!Edit, Cleanup!TypeOK
  <2>4. Cleanup!TypeOK'
    <3>1. cleanRun' \in CleanRunTypes
      BY <1>1, <2>1 DEF CleanRunTypes
    <3> QED
      BY <1>0, <2>1, <2>3, <3>1, RunsAre DEF Cleanup!TypeOK
  <2>5. WalkSound'
    BY <1>0, <2>2, NeededNext DEF WalkSound, Whole, Starts
  <2>6. MovesSound'
    <3>1. cleanRun.step = "idle" => cleanRun' = Cleanup!Idle
      <4>1. cleanRun.fresh = FALSE => [cleanRun EXCEPT !.fresh = FALSE] = cleanRun
        BY <1>1 DEF CleanRunTypes
      <4>2. Cleanup!Idle.fresh = FALSE
        BY DEF Cleanup!Idle
      <4> QED
        BY <1>0, <2>1, <4>1, <4>2 DEF MovesSound
    <3>2. Cleanup!Idle' = Cleanup!Idle
      BY DEF Cleanup!Idle
    <3> QED
      BY <1>0, <2>2, <3>1, <3>2 DEF MovesSound
  <2>7. FreshKnows' /\ SettledNeeds'
    BY <2>1, <2>2 DEF FreshKnows, SettledNeeds
  <2>8. Cleanup!ManifestTells'
    BY <1>0, <2>1, <2>2 DEF Cleanup!ManifestTells
  <2> QED
    BY <2>4, <2>5, <2>6, <2>7, <2>8 DEF CleanupIInv
<1>5. CASE UNCHANGED Cleanup!vars
  <2>1. UNCHANGED <<cleanSource, cleanQuarantine, cleanImports, cleanManifest, cleanRun, cleanRuns, cleanEdits,
                    cleanLost, cleanSettled>>
    BY <1>5 DEF Cleanup!vars, Cleanup!treeVars
  <2>2. Cleanup!TypeOK' /\ FreshKnows' /\ Cleanup!ManifestTells'
    BY <1>0, <2>1 DEF Cleanup!TypeOK, FreshKnows, Cleanup!ManifestTells
  <2>3. WalkSound' /\ MovesSound'
    BY <1>0, <2>1, NeededNext DEF WalkSound, MovesSound, Whole, Starts, Cleanup!Idle
  <2>4. SettledNeeds'
    BY <1>0, <2>1, NeededNext DEF SettledNeeds, Cleanup!Graph
  <2> QED
    BY <2>2, <2>3, <2>4 DEF CleanupIInv
<1> QED
  BY <1>2, <1>3, <1>4, <1>5, CleanupAnalyze, CleanupWalk, CleanupReport, CleanupMove, CleanupWriteManifest
  DEF Cleanup!Next

(* For any files, entry points and imports, with edits beside the runs and *)
(* runs killed anywhere: the audit moves only what nothing needed in the   *)
(* tree it read, and its manifest accounts for the quarantine.             *)
THEOREM CleanupMovesUnneeded == Cleanup!CleanupAssumption => (Cleanup!Spec => []Cleanup!CleanupInv)
<1> SUFFICES ASSUME Cleanup!CleanupAssumption PROVE Cleanup!Spec => []Cleanup!CleanupInv
  OBVIOUS
<1>1. Cleanup!Init => CleanupIInv
  BY CleanupInit
<1>2. CleanupIInv /\ [Cleanup!Next]_Cleanup!vars => CleanupIInv'
  BY CleanupStep
<1>3. CleanupIInv => Cleanup!CleanupInv
  BY CleanupImplies
<1> QED
  BY <1>1, <1>2, <1>3, PTL DEF Cleanup!Spec

-----------------------------------------------------------------------------
(* scripts/full_migration.py and rebrand_zlttbots_to_zlttbots.py.          *)

LEMMA SameMigrationFinite ==
    \A S : (Migration!IsFiniteSet(S) <=> IsFiniteSet(S)) /\ Migration!Cardinality(S) = Cardinality(S)
BY DEF Migration!IsFiniteSet, IsFiniteSet, Migration!Cardinality, Cardinality

Within(e) == {MigUp[e]} \cap MigDirs

(* What lies above a node holds its directory and what lies above that,    *)
(* and is the least set that does.                                         *)
LEMMA AboveLeast ==
    ASSUME NEW n
    PROVE  /\ Migration!Above(n) \subseteq MigDirs /\ Within(n) \subseteq Migration!Above(n)
           /\ \A d \in Migration!Above(n) : Within(d) \subseteq Migration!Above(n)
           /\ \A S \in SUBSET MigDirs :
                Within(n) \subseteq S /\ (\A d \in S : Within(d) \subseteq S) => Migration!Above(n) \subseteq S
<1> DEFINE Closed(S) == Within(n) \subseteq S /\ \A d \in S : Within(d) \subseteq S
<1>1. Migration!Above(n) = {d \in MigDirs : \A S \in SUBSET MigDirs : Closed(S) => d \in S}
  BY DEF Migration!Above, Within
<1>2. Migration!Above(n) \subseteq MigDirs /\ Within(n) \subseteq Migration!Above(n)
  BY <1>1 DEF Within
<1>3. ASSUME NEW d \in Migration!Above(n), NEW e \in Within(d) PROVE e \in Migration!Above(n)
  <2>1. e \in MigDirs
    BY <1>3 DEF Within
  <2>2. ASSUME NEW S \in SUBSET MigDirs, Closed(S) PROVE e \in S
    BY <1>1, <1>3, <2>2
  <2> QED
    BY <1>1, <2>1, <2>2
<1>4. ASSUME NEW S \in SUBSET MigDirs, Closed(S) PROVE Migration!Above(n) \subseteq S
  BY <1>1, <1>4
<1> QED
  BY <1>2, <1>3, <1>4

(* A directory lies less deep than what is in it.                          *)
LEMMA AboveShallower ==
    ASSUME Migration!MigrationAssumption, NEW n, NEW d \in Migration!Above(n)
    PROVE  Migration!Depth(d) \in Nat /\ Migration!Depth(n) \in Nat /\ Migration!Depth(d) < Migration!Depth(n)
<1>1. d \in MigDirs /\ d \notin Migration!Above(d) /\ IsFiniteSet(MigDirs)
  BY AboveLeast, SameMigrationFinite, FS_Subset DEF Migration!MigrationAssumption
<1>2. Migration!Above(d) \subseteq Migration!Above(n) /\ Migration!Above(n) \subseteq MigDirs
  BY AboveLeast
<1>3. IsFiniteSet(Migration!Above(n)) /\ IsFiniteSet(Migration!Above(d))
  BY <1>1, <1>2, FS_Subset
<1>4. /\ Cardinality(Migration!Above(d)) \in Nat /\ Cardinality(Migration!Above(n)) \in Nat
      /\ Cardinality(Migration!Above(d)) <= Cardinality(Migration!Above(n))
      /\ Cardinality(Migration!Above(d)) # Cardinality(Migration!Above(n))
  BY <1>1, <1>2, <1>3, FS_Subset, FS_CardinalityType
<1> QED
  BY <1>4, SameMigrationFinite DEF Migration!Depth

MigRunTypes ==
    [tool : {"none", "migrate", "rebrand", "rename"}, left : SUBSET MigNodes, open : MigNodes \cup {MigRoot},
     plan : SUBSET MigNodes]

Former == {"lower", "upper"}

(* What is open holds a spelling the run replaces.                         *)
OpenHolds ==
    migRun.open # MigRoot =>
        /\ migRun.tool \in {"migrate", "rebrand"} /\ migRun.open \in MigText \ MigSkipped
        /\ migContent[migRun.open].has \cap Migration!Replaced(migRun.tool) # {}

(* What a run is done with is clean, ...                                   *)
DoneClean ==
    /\ migRun.tool \in {"migrate", "rebrand"} => migRun.left \subseteq MigText \ MigSkipped
    /\ migRun.tool \in {"migrate", "rename"} =>
         \A f \in MigText \ MigSkipped :
             \/ migContent[f].has \cap Former = {}
             \/ migRun.tool = "migrate" /\ f \in migRun.left \cup {migRun.open}

(* ... and what it has renamed, or found no place for, is the deepest.     *)
DeepestFirst ==
    migRun.tool = "rename" =>
        /\ migRun.left \subseteq migRun.plan
        /\ \A n \in migRun.left : migNamed[n] = "lower"
        /\ \A n \in migRun.plan \ migRun.left : migNamed[n] = "lower" => Migration!Taken(n)
        /\ \A n \in migRun.left, m \in migRun.plan \ migRun.left : Migration!Depth(n) <= Migration!Depth(m)

MigrationIInv ==
    Migration!TypeOK /\ OpenHolds /\ DoneClean /\ DeepestFirst /\ Migration!NamesApart /\ Migration!LossExplained

LEMMA LeftReached ==
    ASSUME Migration!MigrationAssumption, DeepestFirst, migRun.tool = "rename", NEW n \in migRun.left
    PROVE  Migration!PathHolds(n)
<1> SUFFICES ASSUME NEW d \in Migration!Above(n), d \in migRun.plan PROVE migNamed[d] = "lower"
  BY DEF Migration!PathHolds
<1>1. Migration!Depth(d) < Migration!Depth(n) /\ Migration!Depth(d) \in Nat /\ Migration!Depth(n) \in Nat
  BY AboveShallower
<1>2. d \in migRun.left
  BY <1>1 DEF DeepestFirst
<1> QED
  BY <1>2 DEF DeepestFirst

LEMMA MigrationImplies ==
    ASSUME Migration!MigrationAssumption, MigrationIInv PROVE Migration!MigrationInv
<1>1. Migration!MigratedClean
  <2> SUFFICES ASSUME migRun.tool = "rename"
               PROVE  /\ Migration!Found \cap MigText \subseteq MigSkipped
                      /\ \A n \in migRun.plan \ migRun.left : migNamed[n] = "lower" => Migration!Taken(n)
                      /\ \A n \in migRun.left : Migration!PathHolds(n)
    BY DEF Migration!MigratedClean
  <2>1. Migration!Found \cap MigText \subseteq MigSkipped
    BY DEF MigrationIInv, DoneClean, Former, Migration!Found
  <2> QED
    BY <2>1, LeftReached DEF MigrationIInv, DeepestFirst
<1> QED
  BY <1>1 DEF MigrationIInv, Migration!MigrationInv

LEMMA MigrationInit ==
    ASSUME Migration!MigrationAssumption PROVE Migration!Init => MigrationIInv
<1> SUFFICES ASSUME Migration!Init PROVE MigrationIInv
  OBVIOUS
<1>1. PICK t \in MigTrees : migNamed = t.named /\ migContent = t.content
  BY DEF Migration!Init
<1>2. /\ migNamed \in [MigNodes -> {"lower", "current"}] /\ migContent \in [MigNodes \ MigDirs -> Migration!Content]
      /\ Migration!Apart(migNamed) /\ \A f \in MigNodes \ MigDirs : migContent[f].lost = "nothing"
  BY <1>1 DEF Migration!MigrationAssumption
<1>3. migRun.tool = "none" /\ migRun.open = MigRoot /\ migRun \in MigRunTypes /\ migRuns \in 0..MigMaxRuns
  BY DEF Migration!Init, Migration!Idle, MigRunTypes, Migration!MigrationAssumption
<1>4. Migration!TypeOK /\ Migration!NamesApart
  BY <1>2, <1>3 DEF Migration!TypeOK, MigRunTypes, Migration!NamesApart
<1>5. OpenHolds /\ DoneClean /\ DeepestFirst /\ Migration!LossExplained
  BY <1>2, <1>3 DEF OpenHolds, DoneClean, DeepestFirst, Migration!LossExplained
<1> QED
  BY <1>4, <1>5 DEF MigrationIInv

(* A rename replaces no file and leaves every other name.                  *)
LEMMA RenameKeeps ==
    ASSUME Migration!MigrationAssumption, MigrationIInv, migRun.tool = "rename", NEW n \in migRun.left,
           migNamed' = IF Migration!PathHolds(n) /\ ~Migration!Taken(n) THEN [migNamed EXCEPT ![n] = "current"] ELSE migNamed
    PROVE  /\ migNamed' \in [MigNodes -> {"lower", "current"}]
           /\ Migration!NamesApart'
           /\ \A m \in MigNodes \ {n} : migNamed'[m] = migNamed[m]
           /\ \A m \in MigNodes : Migration!Taken(m) => Migration!Taken(m)'
           /\ migNamed'[n] = "lower" => Migration!Taken(n)'
<1>1. n \in MigNodes /\ migNamed \in [MigNodes -> {"lower", "current"}]
  BY DEF MigrationIInv, Migration!TypeOK
<1>2. Migration!PathHolds(n)
  BY LeftReached DEF MigrationIInv
<1>3. CASE Migration!Taken(n)
  <2>1. migNamed' = migNamed
    BY <1>3
  <2> QED
    BY <1>1, <1>3, <2>1 DEF MigrationIInv, Migration!NamesApart, Migration!Apart, Migration!Taken
<1>4. CASE ~Migration!Taken(n)
  <2>1. migNamed' = [migNamed EXCEPT ![n] = "current"]
    BY <1>2, <1>4
  <2>2. /\ migNamed' \in [MigNodes -> {"lower", "current"}] /\ migNamed'[n] = "current"
        /\ \A m \in MigNodes \ {n} : migNamed'[m] = migNamed[m]
    BY <1>1, <2>1
  <2>3. Migration!NamesApart'
    <3> SUFFICES ASSUME NEW l \in MigNodes, NEW m \in MigNodes, l # m, MigUp[l] = MigUp[m], MigBase[l] = MigBase[m]
                 PROVE  migNamed'[l] # migNamed'[m]
      BY DEF Migration!NamesApart, Migration!Apart
    <3>1. migNamed[l] # migNamed[m]
      BY DEF MigrationIInv, Migration!NamesApart, Migration!Apart
    <3>2. CASE l = n
      BY <1>4, <2>2, <3>2 DEF Migration!Taken
    <3>3. CASE m = n
      BY <1>4, <2>2, <3>3 DEF Migration!Taken
    <3> QED
      BY <2>2, <3>1, <3>2, <3>3
  <2>4. \A m \in MigNodes : Migration!Taken(m) => Migration!Taken(m)'
    BY <1>1, <2>2 DEF Migration!Taken
  <2> QED
    BY <2>2, <2>3, <2>4
<1> QED
  BY <1>3, <1>4

LEMMA MigrationRename ==
    ASSUME Migration!MigrationAssumption, MigrationIInv, Migration!Rename PROVE MigrationIInv'
<1>0. migRun \in MigRunTypes /\ migRun.tool = "rename" /\ migContent' = migContent /\ migRuns' = migRuns
  BY DEF MigrationIInv, Migration!TypeOK, Migration!Rename, MigRunTypes
<1>1. PICK n \in migRun.left :
        /\ Migration!Deepest(n)
        /\ migNamed' = IF Migration!PathHolds(n) /\ ~Migration!Taken(n) THEN [migNamed EXCEPT ![n] = "current"] ELSE migNamed
        /\ migRun' = [migRun EXCEPT !.left = @ \ {n}]
  BY DEF Migration!Rename
<1>2. /\ migRun' \in MigRunTypes /\ migRun'.tool = "rename" /\ migRun'.left = migRun.left \ {n}
      /\ migRun'.open = migRun.open /\ migRun'.plan = migRun.plan
  BY <1>0, <1>1 DEF MigRunTypes
<1>3. /\ migNamed' \in [MigNodes -> {"lower", "current"}]
      /\ Migration!NamesApart'
      /\ \A m \in MigNodes \ {n} : migNamed'[m] = migNamed[m]
      /\ \A m \in MigNodes : Migration!Taken(m) => Migration!Taken(m)'
      /\ migNamed'[n] = "lower" => Migration!Taken(n)'
  BY <1>0, <1>1, RenameKeeps
<1>4. Migration!TypeOK'
  BY <1>0, <1>2, <1>3 DEF MigrationIInv, Migration!TypeOK, MigRunTypes
<1>5. OpenHolds' /\ DoneClean' /\ Migration!LossExplained'
  BY <1>0, <1>2 DEF MigrationIInv, OpenHolds, DoneClean, Migration!LossExplained
<1>6. DeepestFirst'
  <2>1. migRun.left \subseteq migRun.plan /\ migRun.plan \subseteq MigNodes
    BY <1>0 DEF MigrationIInv, DeepestFirst, MigRunTypes
  <2>2. \A m \in migRun'.left : migNamed'[m] = "lower"
    BY <1>0, <1>2, <1>3, <2>1 DEF MigrationIInv, DeepestFirst
  <2>3. \A m \in migRun'.plan \ migRun'.left : migNamed'[m] = "lower" => Migration!Taken(m)'
    BY <1>0, <1>2, <1>3, <2>1 DEF MigrationIInv, DeepestFirst
  <2>4. \A l \in migRun'.left, m \in migRun'.plan \ migRun'.left : Migration!Depth(l) <= Migration!Depth(m)
    BY <1>0, <1>1, <1>2 DEF MigrationIInv, DeepestFirst, Migration!Deepest
  <2>5. migRun'.left \subseteq migRun'.plan
    BY <1>2, <2>1
  <2>6. \A m : Migration!Depth(m)' = Migration!Depth(m)
    BY DEF Migration!Depth, Migration!Above
  <2> QED
    BY <2>2, <2>3, <2>4, <2>5, <2>6 DEF DeepestFirst
<1> QED
  BY <1>3, <1>4, <1>5, <1>6 DEF MigrationIInv

LEMMA MigrationWrite ==
    ASSUME Migration!MigrationAssumption, MigrationIInv, Migration!Write PROVE MigrationIInv'
<1> DEFINE f == migRun.open
           c == migContent[f]
           new == Migration!Rewritten(c, migRun.tool)
<1>0. migRun \in MigRunTypes /\ migContent \in [MigNodes \ MigDirs -> Migration!Content]
  BY DEF MigrationIInv, Migration!TypeOK, MigRunTypes
<1>1. /\ f # MigRoot /\ migContent' = [migContent EXCEPT ![f] = new] /\ migRun' = [migRun EXCEPT !.open = MigRoot]
      /\ migNamed' = migNamed /\ migRuns' = migRuns
  BY <1>0 DEF Migration!Write
<1>2. /\ migRun.tool \in {"migrate", "rebrand"} /\ f \in MigText \ MigSkipped /\ f \in MigNodes \ MigDirs
      /\ c.has \cap Migration!Replaced(migRun.tool) # {} /\ c \in Migration!Content
  BY <1>0, <1>1 DEF MigrationIInv, OpenHolds, Migration!MigrationAssumption
<1>3. /\ new \in Migration!Content /\ new.has = (c.has \ Migration!Replaced(migRun.tool)) \cup {"current"}
      /\ new.lost = IF c.odd THEN "odd" ELSE c.lost
  BY <1>2 DEF Migration!Rewritten, Migration!Content, Migration!Spellings
<1>4. /\ migRun' \in MigRunTypes /\ migRun'.tool = migRun.tool /\ migRun'.left = migRun.left
      /\ migRun'.open = MigRoot /\ migRun'.plan = migRun.plan
  BY <1>0, <1>1 DEF MigRunTypes
<1>5. /\ migContent'[f] = new /\ \A g \in (MigNodes \ MigDirs) \ {f} : migContent'[g] = migContent[g]
      /\ migContent' \in [MigNodes \ MigDirs -> Migration!Content]
  BY <1>0, <1>1, <1>2, <1>3
<1> HIDE DEF new, c, f
<1>6. Migration!TypeOK'
  BY <1>1, <1>4, <1>5 DEF MigrationIInv, Migration!TypeOK, MigRunTypes
<1>7. OpenHolds' /\ DeepestFirst'
  BY <1>2, <1>4 DEF OpenHolds, DeepestFirst
<1>8. DoneClean'
  <2>1. migRun.tool = "migrate" => new.has \cap Former = {}
    BY <1>3 DEF Migration!Replaced, Former
  <2>2. MigText \subseteq MigNodes \ MigDirs
    BY DEF Migration!MigrationAssumption
  <2>3. ASSUME migRun.tool = "migrate", NEW g \in MigText \ MigSkipped
        PROVE  migContent'[g].has \cap Former = {} \/ g \in migRun.left
    <3>1. CASE g = f
      BY <1>5, <2>1, <2>3, <3>1
    <3>2. CASE g # f
      BY <1>5, <2>2, <2>3, <3>2 DEF MigrationIInv, DoneClean, f
    <3> QED
      BY <3>1, <3>2
  <2> QED
    BY <1>2, <1>4, <2>3 DEF MigrationIInv, DoneClean
<1>9. Migration!NamesApart'
  BY <1>1 DEF MigrationIInv, Migration!NamesApart, Migration!Apart
<1>10. Migration!LossExplained'
  <2>1. new.lost # "all"
    BY <1>2, <1>3 DEF MigrationIInv, Migration!LossExplained, c
  <2> QED
    BY <1>2, <1>3, <1>5, <2>1 DEF MigrationIInv, Migration!LossExplained
<1> QED
  BY <1>6, <1>7, <1>8, <1>9, <1>10 DEF MigrationIInv

LEMMA MigrationCrash ==
    ASSUME Migration!MigrationAssumption, MigrationIInv, Migration!Crash PROVE MigrationIInv'
<1> DEFINE empty == [has |-> {}, odd |-> FALSE, lost |-> "all"]
<1>0. migContent \in [MigNodes \ MigDirs -> Migration!Content]
  BY DEF MigrationIInv, Migration!TypeOK
<1>1. /\ migRun'.tool = "none" /\ migRun'.open = MigRoot /\ migRun' \in MigRunTypes
      /\ migNamed' = migNamed /\ migRuns' = migRuns
  BY DEF Migration!Crash, Migration!Idle, MigRunTypes
<1>2. migContent' = migContent
      \/ (migRun.open \in MigText \ MigSkipped /\ migContent' = [migContent EXCEPT ![migRun.open] = empty])
  BY DEF Migration!Crash, MigrationIInv, OpenHolds
<1>3. empty \in Migration!Content
  BY DEF Migration!Content
<1>4. migContent' \in [MigNodes \ MigDirs -> Migration!Content]
  BY <1>0, <1>2, <1>3
<1>5. Migration!TypeOK'
  BY <1>1, <1>4 DEF MigrationIInv, Migration!TypeOK, MigRunTypes
<1>6. OpenHolds' /\ DoneClean' /\ DeepestFirst'
  BY <1>1 DEF OpenHolds, DoneClean, DeepestFirst
<1>7. Migration!NamesApart'
  BY <1>1 DEF MigrationIInv, Migration!NamesApart, Migration!Apart
<1>8. Migration!LossExplained'
  BY <1>0, <1>2 DEF MigrationIInv, Migration!LossExplained
<1> QED
  BY <1>5, <1>6, <1>7, <1>8 DEF MigrationIInv

(* The steps of a run that change nothing in the tree.                     *)
LEMMA MigrationQuiet ==
    ASSUME Migration!MigrationAssumption, MigrationIInv, migNamed' = migNamed, migContent' = migContent,
           migRuns' \in 0..MigMaxRuns, migRun' \in MigRunTypes, OpenHolds', DoneClean', DeepestFirst'
    PROVE  MigrationIInv'
<1>1. Migration!TypeOK'
  BY DEF MigrationIInv, Migration!TypeOK, MigRunTypes
<1>2. Migration!NamesApart' /\ Migration!LossExplained'
  BY DEF MigrationIInv, Migration!NamesApart, Migration!Apart, Migration!LossExplained
<1> QED
  BY <1>1, <1>2 DEF MigrationIInv

LEMMA MigrationStart ==
    ASSUME Migration!MigrationAssumption, MigrationIInv, NEW tool \in {"migrate", "rebrand"}, Migration!Start(tool)
    PROVE  MigrationIInv'
<1>1. /\ migRun = Migration!Idle /\ migNamed' = migNamed /\ migContent' = migContent
      /\ migRuns' \in 0..MigMaxRuns
      /\ migRun' = [Migration!Idle EXCEPT !.tool = tool, !.left = MigText \ MigSkipped]
  BY DEF Migration!Start, MigrationIInv, Migration!TypeOK, Migration!MigrationAssumption
<1>2. /\ migRun' \in MigRunTypes /\ migRun'.tool = tool /\ migRun'.left = MigText \ MigSkipped
      /\ migRun'.open = MigRoot
  BY <1>1 DEF Migration!Idle, MigRunTypes, Migration!MigrationAssumption
<1>3. OpenHolds' /\ DoneClean' /\ DeepestFirst'
  BY <1>2 DEF OpenHolds, DoneClean, DeepestFirst
<1> QED
  BY <1>1, <1>2, <1>3, MigrationQuiet

LEMMA MigrationPass ==
    ASSUME Migration!MigrationAssumption, MigrationIInv, Migration!Pass PROVE MigrationIInv'
<1>0. /\ migRun \in MigRunTypes /\ migRun.tool \in {"migrate", "rebrand"} /\ migRun.open = MigRoot
      /\ migNamed' = migNamed /\ migContent' = migContent /\ migRuns' \in 0..MigMaxRuns
      /\ migRun.left \subseteq MigText \ MigSkipped
  BY DEF Migration!Pass, MigrationIInv, Migration!TypeOK, MigRunTypes, DoneClean
<1>1. PICK f \in migRun.left : /\ migContent[f].has \cap Migration!Replaced(migRun.tool) = {}
                               /\ migRun' = [migRun EXCEPT !.left = @ \ {f}]
  BY DEF Migration!Pass
<1>2. /\ migRun' \in MigRunTypes /\ migRun'.tool = migRun.tool /\ migRun'.left = migRun.left \ {f}
      /\ migRun'.open = MigRoot
  BY <1>0, <1>1 DEF MigRunTypes
<1>3. migRun.tool = "migrate" => migContent[f].has \cap Former = {}
  BY <1>1 DEF Migration!Replaced, Former
<1>4. DoneClean'
  BY <1>0, <1>2, <1>3 DEF MigrationIInv, DoneClean
<1>5. OpenHolds' /\ DeepestFirst'
  BY <1>0, <1>2 DEF OpenHolds, DeepestFirst
<1> QED
  BY <1>0, <1>2, <1>4, <1>5, MigrationQuiet

LEMMA MigrationTruncate ==
    ASSUME Migration!MigrationAssumption, MigrationIInv, Migration!Truncate PROVE MigrationIInv'
<1>0. /\ migRun \in MigRunTypes /\ migRun.tool \in {"migrate", "rebrand"} /\ migRun.open = MigRoot
      /\ migNamed' = migNamed /\ migContent' = migContent /\ migRuns' \in 0..MigMaxRuns
      /\ migRun.left \subseteq MigText \ MigSkipped
  BY DEF Migration!Truncate, MigrationIInv, Migration!TypeOK, MigRunTypes, DoneClean
<1>1. PICK f \in migRun.left : /\ migContent[f].has \cap Migration!Replaced(migRun.tool) # {}
                               /\ migRun' = [migRun EXCEPT !.left = @ \ {f}, !.open = f]
  BY DEF Migration!Truncate
<1>2. migRun' = [migRun EXCEPT !.left = migRun.left \ {f}, !.open = f] /\ f \in MigNodes
  BY <1>0, <1>1 DEF MigRunTypes
<1>3. /\ migRun' \in MigRunTypes /\ migRun'.tool = migRun.tool /\ migRun'.left = migRun.left \ {f}
      /\ migRun'.open = f
  BY <1>0, <1>2 DEF MigRunTypes
<1>4. DoneClean'
  <2>1. MigText \cap {MigRoot} = {}
    BY DEF Migration!MigrationAssumption
  <2> QED
    BY <1>0, <1>3, <2>1 DEF MigrationIInv, DoneClean
<1>5. OpenHolds'
  BY <1>0, <1>1, <1>3 DEF OpenHolds, Migration!Replaced
<1>6. DeepestFirst'
  BY <1>0, <1>3 DEF DeepestFirst
<1> QED
  BY <1>0, <1>3, <1>4, <1>5, <1>6, MigrationQuiet

LEMMA MigrationPlan ==
    ASSUME Migration!MigrationAssumption, MigrationIInv, Migration!Plan PROVE MigrationIInv'
<1> DEFINE plan == {n \in MigNodes \ MigSkipped : migNamed[n] = "lower"}
<1>0. /\ migRun \in MigRunTypes /\ migRun.tool = "migrate" /\ migRun.open = MigRoot /\ migRun.left = {}
      /\ migNamed' = migNamed /\ migContent' = migContent /\ migRuns' \in 0..MigMaxRuns
      /\ migRun' = [migRun EXCEPT !.tool = "rename", !.plan = plan, !.left = plan]
  BY DEF Migration!Plan, MigrationIInv, Migration!TypeOK, MigRunTypes
<1>1. /\ migRun' \in MigRunTypes /\ migRun'.tool = "rename" /\ migRun'.left = plan /\ migRun'.plan = plan
      /\ migRun'.open = MigRoot
  BY <1>0 DEF MigRunTypes
<1>2. MigText \cap {MigRoot} = {}
  BY DEF Migration!MigrationAssumption
<1>3. DoneClean'
  BY <1>0, <1>1, <1>2 DEF MigrationIInv, DoneClean
<1>4. OpenHolds' /\ DeepestFirst'
  BY <1>0, <1>1 DEF OpenHolds, DeepestFirst
<1> QED
  BY <1>0, <1>1, <1>3, <1>4, MigrationQuiet

LEMMA MigrationStep ==
    ASSUME Migration!MigrationAssumption PROVE MigrationIInv /\ [Migration!Next]_(Migration!vars) => MigrationIInv'
<1> SUFFICES ASSUME MigrationIInv, [Migration!Next]_(Migration!vars) PROVE MigrationIInv'
  OBVIOUS
<1>1. CASE Migration!End
  <2>1. /\ migRun'.tool = "none" /\ migRun'.open = MigRoot /\ migRun' \in MigRunTypes
        /\ migNamed' = migNamed /\ migContent' = migContent /\ migRuns' \in 0..MigMaxRuns
    BY <1>1 DEF Migration!End, Migration!Idle, MigRunTypes, MigrationIInv, Migration!TypeOK
  <2>2. OpenHolds' /\ DoneClean' /\ DeepestFirst'
    BY <2>1 DEF OpenHolds, DoneClean, DeepestFirst
  <2> QED
    BY <2>1, <2>2, MigrationQuiet
<1>2. CASE UNCHANGED Migration!vars
  <2>1. migRun' = migRun /\ migNamed' = migNamed /\ migContent' = migContent /\ migRuns' = migRuns
    BY <1>2 DEF Migration!vars
  <2>2. migRuns' \in 0..MigMaxRuns /\ migRun' \in MigRunTypes /\ OpenHolds' /\ DoneClean'
    BY <2>1 DEF MigrationIInv, Migration!TypeOK, MigRunTypes, OpenHolds, DoneClean, Migration!Replaced
  <2>3. DeepestFirst'
    <3>1. \A m : Migration!Depth(m)' = Migration!Depth(m)
      BY DEF Migration!Depth, Migration!Above
    <3> QED
      BY <2>1, <3>1 DEF MigrationIInv, DeepestFirst, Migration!Taken
  <2> QED
    BY <2>1, <2>2, <2>3, MigrationQuiet
<1> QED
  BY <1>1, <1>2, MigrationStart, MigrationPass, MigrationTruncate, MigrationWrite, MigrationPlan, MigrationRename,
     MigrationCrash DEF Migration!Next

(* For any tree, and however often runs are killed and started again: an   *)
(* old name is left only where the scripts cannot reach it, names stay     *)
(* apart and a file loses nothing but by a write of its own.               *)
THEOREM NamesMigrated == Migration!MigrationAssumption => (Migration!Spec => []Migration!MigrationInv)
<1> SUFFICES ASSUME Migration!MigrationAssumption PROVE Migration!Spec => []Migration!MigrationInv
  OBVIOUS
<1>1. Migration!Init => MigrationIInv
  BY MigrationInit
<1>2. MigrationIInv /\ [Migration!Next]_(Migration!vars) => MigrationIInv'
  BY MigrationStep
<1>3. MigrationIInv => Migration!MigrationInv
  BY MigrationImplies
<1> QED
  BY <1>1, <1>2, <1>3, PTL DEF Migration!Spec

-----------------------------------------------------------------------------
(* scripts/feature_impact_dive.py: the surface manifest.                  *)

(* The manifests that are JSON, as a set.                                  *)
JsonManifests ==
    [kind : {"json"}, baseline : SUBSET SurNames, extended : SUBSET SurNames,
     services : UNION {[S -> Surface!Listed] : S \in SUBSET SurNames}]

LEMMA ManifestsAre == \A m : Surface!IsManifest(m) <=> m \in JsonManifests
<1>1. ASSUME NEW m, Surface!IsManifest(m) PROVE m \in JsonManifests
  <2> HIDE DEF Surface!Listed
  <2> QED
    BY <1>1 DEF Surface!IsManifest, JsonManifests
<1>2. ASSUME NEW m, m \in JsonManifests PROVE Surface!IsManifest(m)
  <2>1. PICK S \in SUBSET SurNames : m.services \in [S -> Surface!Listed]
    BY <1>2 DEF JsonManifests
  <2> QED
    BY <1>2, <2>1 DEF Surface!IsManifest, JsonManifests
<1> QED
  BY <1>1, <1>2

(* A service is protected in what the script writes of its tree.           *)
LEMMA SurfaceProtects ==
    ASSUME Surface!SurfaceAssumption, Surface!TypeOK, NEW n \in SurNames,
           NEW e \in Surface!Written(surTree.apps, n) \cup Surface!Written(surTree.services, n)
    PROVE  /\ n \in DOMAIN Surface!Surface.services
           /\ \E p \in Surface!Surface.services[n].policies :
                p.endpoint = e /\ {p.auth, p.tenant, p.schema} = {"required"}
<1>1. /\ e \in Surface!EndpointsOf(surTree.apps, n) \cup Surface!EndpointsOf(surTree.services, n)
      /\ e.method \notin Surface!ReadMethods
  BY DEF Surface!Written
<1>2. n \in Surface!Having(surTree.apps) \cup Surface!Having(surTree.services)
  BY <1>1 DEF Surface!EndpointsOf
<1>3. n \in DOMAIN Surface!Surface.services /\ Surface!Surface.services[n] = Surface!Record(n)
  BY <1>2 DEF Surface!Surface
<1>4. e.method \in Surface!WriteMethods
  <2>1. PICK dirs \in {surTree.apps, surTree.services} : e \in Surface!EndpointsOf(dirs, n)
    BY <1>1
  <2>2. dirs[n] \in SurSources /\ e \in Surface!Endpoints(dirs[n])
    BY <2>1 DEF Surface!EndpointsOf, Surface!Having, Surface!TypeOK, Surface!Dir
  <2>3. PICK f \in dirs[n] : \E r \in f.routes : e = [method |-> r.method, path |-> r.path]
    BY <2>2 DEF Surface!Endpoints
  <2>4. PICK r \in f.routes : e = [method |-> r.method, path |-> r.path]
    BY <2>3
  <2>5. r.method \in Surface!ReadMethods \cup Surface!WriteMethods
    BY <2>2 DEF Surface!SurfaceAssumption
  <2> QED
    BY <1>1, <2>4, <2>5
<1>5. Surface!Policy(e) \in Surface!Record(n).policies
  BY <1>1, <1>4 DEF Surface!Record
<1>6. /\ Surface!Policy(e).endpoint = e
      /\ {Surface!Policy(e).auth, Surface!Policy(e).tenant, Surface!Policy(e).schema} = {"required"}
  BY DEF Surface!Policy
<1> QED
  BY <1>3, <1>5, <1>6

(* It lists every policy with its endpoint and says what each requires.    *)
LEMMA SurfaceSound ==
    ASSUME Surface!SurfaceAssumption
    PROVE  /\ \A n \in DOMAIN Surface!Surface.services : Surface!Malformed(Surface!Surface.services[n]) = {}
           /\ Surface!Surface.kind = "json"
           /\ Surface!Surface.baseline \cup Surface!Surface.extended = surTree.compose
           /\ Surface!Surface.baseline \cap Surface!Surface.extended = {}
<1>1. ASSUME NEW n \in DOMAIN Surface!Surface.services
      PROVE  Surface!Malformed(Surface!Surface.services[n]) = {}
  <2>1. Surface!Surface.services[n] = Surface!Record(n)
    BY DEF Surface!Surface
  <2>2. \A p \in Surface!Record(n).policies : p.auth = "required" /\ p.endpoint \in Surface!Record(n).endpoints
    BY DEF Surface!Record, Surface!Policy
  <2> QED
    BY <2>1, <2>2 DEF Surface!Malformed, Surface!IsText, Surface!SurfaceAssumption
<1> QED
  BY <1>1 DEF Surface!Surface

LEMMA SameAnswers ==
    ASSUME Surface!SurfaceAssumption, Surface!TypeOK PROVE Surface!SameVerdict
<1>1. CASE surManifest.kind = "absent"
  BY <1>1, SurfaceSound DEF Surface!SameVerdict, Surface!Errors
<1>2. CASE surManifest.kind = "broken"
  BY <1>2, SurfaceSound DEF Surface!SameVerdict, Surface!Errors
<1>3. CASE surManifest.kind = "json"
  <2> DEFINE found == UNION {Surface!Malformed(surManifest.services[n]) : n \in DOMAIN surManifest.services}
  <2>1. Surface!Errors =
          IF found # {} THEN found ELSE IF surManifest # Surface!Surface THEN {"drift"} ELSE {}
    BY <1>3 DEF Surface!Errors
  <2>2. surManifest = Surface!Surface => found = {}
    BY SurfaceSound
  <2> QED
    BY <2>1, <2>2 DEF Surface!SameVerdict
<1> QED
  BY <1>1, <1>2, <1>3, ManifestsAre DEF Surface!TypeOK, JsonManifests, Surface!Broken, Surface!Absent

(* What was accepted is the surface of its tree.                           *)
LEMMA AcceptedIsSurface ==
    ASSUME Surface!SurfaceAssumption, Surface!TypeOK,
           surVerdict'.errors = {} => surManifest = Surface!Surface,
           surVerdict'.tree = surTree, surVerdict'.manifest = surManifest
    PROVE  Surface!AcceptedProtects'
<1>1. CASE surVerdict'.errors = {}
  <2>1. /\ surVerdict'.tree = surTree /\ surVerdict'.manifest = Surface!Surface
    BY <1>1
  <2>2. \A dirs, n : Surface!Written(dirs, n)' = Surface!Written(dirs, n)
    BY DEF Surface!Written, Surface!EndpointsOf, Surface!Having, Surface!Endpoints, Surface!ReadMethods
  <2> QED
    BY <2>1, <2>2, SurfaceProtects, SurfaceSound DEF Surface!AcceptedProtects
<1>2. CASE surVerdict'.errors # {}
  BY <1>2 DEF Surface!AcceptedProtects
<1> QED
  BY <1>1, <1>2

SurfaceIInv == Surface!TypeOK /\ Surface!AcceptedProtects

LEMMA SurfaceInit ==
    ASSUME Surface!SurfaceAssumption PROVE Surface!Init => SurfaceIInv
<1> SUFFICES ASSUME Surface!Init PROVE SurfaceIInv
  OBVIOUS
<1>1. Surface!TypeOK
  BY DEF Surface!Init, Surface!TypeOK, Surface!SurfaceAssumption, Surface!Dir
<1>2. Surface!AcceptedProtects
  BY DEF Surface!Init, Surface!AcceptedProtects
<1> QED
  BY <1>1, <1>2 DEF SurfaceIInv

(* What the script writes of a tree is a manifest.                         *)
LEMMA SurfaceJson ==
    ASSUME Surface!SurfaceAssumption, Surface!TypeOK PROVE Surface!Surface \in JsonManifests
<1>1. ASSUME NEW n \in SurNames, NEW dirs \in {surTree.apps, surTree.services}
      PROVE  /\ Surface!EndpointsOf(dirs, n) \subseteq Surface!Endpoint
             /\ n \in Surface!Having(dirs) => dirs[n] \in SurSources
  BY DEF Surface!EndpointsOf, Surface!Having, Surface!TypeOK, Surface!Dir, Surface!Endpoint
<1>2. ASSUME NEW n \in SurNames
      PROVE  Surface!Record(n) \in Surface!Listed
  <2> DEFINE endpoints == Surface!EndpointsOf(surTree.apps, n) \cup Surface!EndpointsOf(surTree.services, n)
             language == IF n \in Surface!Having(surTree.services) THEN Surface!Language(surTree.services[n]) ELSE RtnNone
             policies == {Surface!Policy(e) : e \in {x \in endpoints : x.method \in Surface!WriteMethods}}
  <2>1. endpoints \subseteq Surface!Endpoint
    BY <1>1
  <2>2. language \in {"python", "node", "unknown", RtnNone}
    BY DEF Surface!Language
  <2>3. policies \subseteq [endpoint : Surface!Endpoint, auth : {"required", "none", RtnNone},
                            tenant : {"required"}, schema : {"required"}]
    BY <2>1 DEF Surface!Policy
  <2>4. Surface!Record(n) =
          [compose |-> n \in surTree.compose, runtime |-> n \in Surface!Having(surTree.services),
           app |-> n \in Surface!Having(surTree.apps), docs |-> n \in surTree.docs,
           language |-> language, endpoints |-> endpoints, policies |-> policies]
    BY DEF Surface!Record
  <2> HIDE DEF endpoints, language, policies
  <2> QED
    BY <2>1, <2>2, <2>3, <2>4 DEF Surface!Listed
<1>3. ASSUME NEW S \in SUBSET SurNames
      PROVE  [n \in S |-> Surface!Record(n)] \in UNION {[R -> Surface!Listed] : R \in SUBSET SurNames}
  BY <1>2
<1>4. /\ surTree.compose \subseteq SurNames /\ surTree.docs \subseteq SurNames
      /\ Surface!Having(surTree.apps) \subseteq SurNames /\ Surface!Having(surTree.services) \subseteq SurNames
  BY DEF Surface!TypeOK, Surface!Having
<1> DEFINE S == surTree.compose \cup surTree.docs \cup Surface!Having(surTree.apps)
                  \cup Surface!Having(surTree.services)
<1>5. S \in SUBSET SurNames
  BY <1>4
<1> HIDE DEF S
<1>6. [n \in S |-> Surface!Record(n)] \in UNION {[R -> Surface!Listed] : R \in SUBSET SurNames}
  BY <1>3, <1>5
<1>7. Surface!Surface =
        [kind |-> "json", baseline |-> surTree.compose \cap SurBaselineNames,
         extended |-> surTree.compose \ SurBaselineNames, services |-> [n \in S |-> Surface!Record(n)]]
  BY DEF Surface!Surface, S
<1> QED
  BY <1>4, <1>6, <1>7 DEF JsonManifests, Surface!Listed

(* Developers leave a manifest a manifest.                                 *)
LEMMA EditedJson ==
    ASSUME surManifest \in JsonManifests, Surface!EditManifest PROVE surManifest' \in JsonManifests
<1> DEFINE Services == UNION {[R -> Surface!Listed] : R \in SUBSET SurNames}
<1>1. /\ surManifest \in [kind : {"json"}, baseline : SUBSET SurNames, extended : SUBSET SurNames, services : Services]
      /\ JsonManifests = [kind : {"json"}, baseline : SUBSET SurNames, extended : SUBSET SurNames, services : Services]
  BY DEF JsonManifests, Surface!Listed
<1>2. PICK n \in DOMAIN surManifest.services :
         \/ \E p \in surManifest.services[n].policies :
              \/ surManifest' = [surManifest EXCEPT !.services[n].policies = @ \ {p}]
              \/ \E v \in {"none", RtnNone} :
                   surManifest' = [surManifest EXCEPT !.services[n].policies = (@ \ {p}) \cup {[p EXCEPT !.auth = v]}]
              \/ surManifest' = [surManifest EXCEPT !.services[n].endpoints = @ \ {p.endpoint}]
         \/ surManifest' = [surManifest EXCEPT !.extended = @ \ {n}]
  BY DEF Surface!EditManifest
<1>3. PICK R \in SUBSET SurNames : surManifest.services \in [R -> Surface!Listed]
  BY <1>1
<1>4. n \in R /\ surManifest.services[n] \in Surface!Listed
  BY <1>2, <1>3
<1>5. ASSUME NEW r \in Surface!Listed PROVE [surManifest EXCEPT !.services[n] = r] \in JsonManifests
  <2>1. [surManifest.services EXCEPT ![n] = r] \in [R -> Surface!Listed]
    BY <1>3
  <2>2. [surManifest.services EXCEPT ![n] = r] \in Services
    BY <2>1
  <2> HIDE DEF Services
  <2> QED
    BY <1>1, <2>2
<1>6. ASSUME NEW p \in surManifest.services[n].policies,
             surManifest' = [surManifest EXCEPT !.services[n].policies = @ \ {p}]
      PROVE  surManifest' \in JsonManifests
  <2> DEFINE r == [surManifest.services[n] EXCEPT !.policies = @ \ {p}]
  <2>1. r \in Surface!Listed
    BY <1>4 DEF Surface!Listed
  <2>2. surManifest' = [surManifest EXCEPT !.services[n] = r]
    BY <1>6
  <2> QED
    BY <1>5, <2>1, <2>2
<1>7. ASSUME NEW p \in surManifest.services[n].policies, NEW v \in {"none", RtnNone},
             surManifest' = [surManifest EXCEPT !.services[n].policies = (@ \ {p}) \cup {[p EXCEPT !.auth = v]}]
      PROVE  surManifest' \in JsonManifests
  <2> DEFINE r == [surManifest.services[n] EXCEPT !.policies = (@ \ {p}) \cup {[p EXCEPT !.auth = v]}]
  <2>1. r \in Surface!Listed
    BY <1>4 DEF Surface!Listed
  <2>2. surManifest' = [surManifest EXCEPT !.services[n] = r]
    BY <1>7
  <2> QED
    BY <1>5, <2>1, <2>2
<1>8. ASSUME NEW p \in surManifest.services[n].policies,
             surManifest' = [surManifest EXCEPT !.services[n].endpoints = @ \ {p.endpoint}]
      PROVE  surManifest' \in JsonManifests
  <2> DEFINE r == [surManifest.services[n] EXCEPT !.endpoints = @ \ {p.endpoint}]
  <2>1. r \in Surface!Listed
    BY <1>4 DEF Surface!Listed
  <2>2. surManifest' = [surManifest EXCEPT !.services[n] = r]
    BY <1>8
  <2> QED
    BY <1>5, <2>1, <2>2
<1>9. ASSUME surManifest' = [surManifest EXCEPT !.extended = @ \ {n}]
      PROVE  surManifest' \in JsonManifests
  <2> HIDE DEF Services
  <2> QED
    BY <1>1, <1>9
<1> QED
  BY <1>2, <1>6, <1>7, <1>8, <1>9

LEMMA SurfaceTypes ==
    ASSUME Surface!SurfaceAssumption, Surface!TypeOK, [Surface!Next]_(Surface!vars)
    PROVE  Surface!TypeOK'
<1> USE DEF Surface!SurfaceAssumption
<1>1. CASE UNCHANGED Surface!vars
  BY <1>1 DEF Surface!vars, Surface!TypeOK
<1>2. CASE Surface!Validate
  BY <1>2 DEF Surface!Validate, Surface!TypeOK
<1>3. CASE Surface!Write
  BY <1>3, SurfaceJson, ManifestsAre DEF Surface!Write, Surface!TypeOK
<1>4. CASE Surface!Pipeline
  <2>1. UNCHANGED <<surTree, surManifest, surEdits>>
    BY <1>4, Zenon DEF Surface!Pipeline
  <2>2. surRuns < SurMaxRuns /\ surRuns' = surRuns + 1
    BY <1>4, Zenon DEF Surface!Pipeline
  <2>3. PICK errors : surVerdict' = [by |-> "pipeline", errors |-> errors, tree |-> surTree, manifest |-> surManifest]
    BY <1>4, Zenon DEF Surface!Pipeline
  <2> QED
    BY <2>1, <2>2, <2>3 DEF Surface!TypeOK
<1>5. CASE Surface!EditTree
  <2>1. UNCHANGED <<surManifest, surVerdict, surRuns>> /\ surEdits' \in 0..SurMaxEdits
    BY <1>5 DEF Surface!EditTree, Surface!TypeOK
  <2>2. surTree' \in [compose : SUBSET SurNames, docs : SUBSET SurNames, apps : [SurNames -> Surface!Dir],
                      services : [SurNames -> Surface!Dir]]
    BY <1>5 DEF Surface!EditTree, Surface!TypeOK
  <2> QED
    BY <2>1, <2>2 DEF Surface!TypeOK
<1>6. CASE Surface!EditManifest
  <2>1. UNCHANGED <<surTree, surVerdict, surRuns>> /\ surEdits < SurMaxEdits /\ surEdits' = surEdits + 1
          /\ surManifest.kind = "json"
    BY <1>6, Zenon DEF Surface!EditManifest
  <2>2. surManifest \in JsonManifests
    BY <2>1, ManifestsAre DEF Surface!TypeOK, Surface!Broken, Surface!Absent
  <2>3. surManifest' \in JsonManifests
    BY <1>6, <2>2, EditedJson
  <2> QED
    BY <2>1, <2>3, ManifestsAre DEF Surface!TypeOK
<1> QED
  BY <1>1, <1>2, <1>3, <1>4, <1>5, <1>6 DEF Surface!Next

LEMMA SurfaceStep ==
    ASSUME Surface!SurfaceAssumption, SurfaceIInv, [Surface!Next]_(Surface!vars)
    PROVE  SurfaceIInv'
<1>0. Surface!TypeOK /\ Surface!AcceptedProtects
  BY DEF SurfaceIInv
<1>1. Surface!TypeOK'
  BY <1>0, SurfaceTypes
<1>2. Surface!AcceptedProtects'
  <2>1. CASE Surface!Validate
    <3>1. /\ surVerdict'.errors = Surface!Errors /\ surVerdict'.tree = surTree
          /\ surVerdict'.manifest = surManifest
      BY <2>1 DEF Surface!Validate
    <3>2. Surface!Errors = {} => surManifest = Surface!Surface
      BY <1>0, SameAnswers DEF Surface!SameVerdict
    <3> QED
      BY <1>0, <3>1, <3>2, AcceptedIsSurface
  <2>2. CASE Surface!Pipeline
    <3>1. PICK errors : /\ surVerdict' = [by |-> "pipeline", errors |-> errors, tree |-> surTree, manifest |-> surManifest]
                        /\ errors = IF surManifest = Surface!Surface THEN {} ELSE {"out of date"}
      BY <2>2 DEF Surface!Pipeline
    <3>2. errors = {} => surManifest = Surface!Surface
      BY <3>1
    <3> QED
      BY <1>0, <3>1, <3>2, AcceptedIsSurface
  <2>3. CASE UNCHANGED surVerdict
    <3>1. \A dirs, n : Surface!Written(dirs, n)' = Surface!Written(dirs, n)
      BY DEF Surface!Written, Surface!EndpointsOf, Surface!Having, Surface!Endpoints, Surface!ReadMethods
    <3> QED
      BY <1>0, <2>3, <3>1 DEF Surface!AcceptedProtects
  <2>4. UNCHANGED surVerdict \/ Surface!Validate \/ Surface!Pipeline
    BY DEF Surface!Next, Surface!vars, Surface!Write, Surface!EditTree, Surface!EditManifest
  <2> QED
    BY <2>1, <2>2, <2>3, <2>4
<1> QED
  BY <1>1, <1>2 DEF SurfaceIInv

(* For any services, sources and edits: a manifest that was accepted, by a *)
(* developer's validation or by the pipeline, protects every writing route *)
(* of its tree, and neither of the two accepts what the other refuses.     *)
THEOREM SurfaceProtected ==
    ASSUME Surface!SurfaceAssumption PROVE Surface!Spec => []Surface!SurfaceInv
<1>1. SurfaceIInv => Surface!SurfaceInv
  BY SameAnswers DEF SurfaceIInv, Surface!SurfaceInv
<1> QED
  BY <1>1, SurfaceInit, SurfaceStep, PTL DEF Surface!Spec

-----------------------------------------------------------------------------
(* The scripts that tend the repository, whatever they run over: the       *)
(* cleanup moves only what nothing needed and its manifest accounts for    *)
(* the quarantine; the migration leaves an old name only where it cannot   *)
(* reach and loses nothing but by its own writes; an accepted surface      *)
(* manifest protects every writing route.                                  *)
THEOREM ToolsKept ==
    ASSUME Cleanup!CleanupAssumption, Migration!MigrationAssumption, Surface!SurfaceAssumption
    PROVE  Cleanup!Spec /\ Migration!Spec /\ Surface!Spec => []ToolsInv
<1> QED
  BY CleanupMovesUnneeded, NamesMigrated, SurfaceProtected, PTL DEF ToolsInv
=============================================================================
