-------------------------- MODULE FactPacksProofs --------------------------
(***************************************************************************)
(* Proofs about curated content.  Of the sets of knowledge packs, for any  *)
(* pool of packs, any words and phrases and any number of packs active at  *)
(* once: what a set loads to is told apart by nothing but the packs it     *)
(* holds, since lists put one after the other in two orders are            *)
(* rearrangements of each other; and a pack that is added can only add     *)
(* owners to the spans of a phrase.  Of the replies that are made of a     *)
(* profile, for any table and any turns: a plan about a topic is the plan  *)
(* of the one row of the topic, so the renderer and the debate observer    *)
(* have to agree on it.                                                    *)
(***************************************************************************)
EXTENDS FactPacks, Observers, FiniteSetTheorems, WellFoundedInduction, TLAPS

(* A set of positions that is not empty has a first; a set that holds 0    *)
(* and with every number the next holds them all.                          *)
LEMMA FirstOfPositions ==
  ASSUME NEW S, S \subseteq Nat, S # {}
  PROVE  \E v \in S : \A w \in S : v <= w
<1>1. PICK v \in S : \A w \in S : <<w, v>> \notin OpToRel(<, Nat)
  BY NatLessThanWellFounded, WFMin, Zenon
<1>2. ASSUME NEW w \in S PROVE v <= w
  <2>1. <<w, v>> \notin {e \in Nat \X Nat : e[1] < e[2]}
    BY <1>1 DEF OpToRel
  <2>2. v \in Nat /\ w \in Nat
    OBVIOUS
  <2> QED BY <2>1, <2>2
<1> QED BY <1>2

LEMMA CountingUp ==
  ASSUME NEW S, 0 \in S, \A n \in Nat : n \in S => n + 1 \in S
  PROVE  Nat \subseteq S
<1> DEFINE missing == {n \in Nat : n \notin S}
<1>1. ASSUME missing # {} PROVE FALSE
  <2>1. PICK v \in missing : \A w \in missing : v <= w
    BY <1>1, FirstOfPositions
  <2>2. v - 1 \in Nat /\ v - 1 \notin missing /\ (v - 1) + 1 = v
    BY <2>1
  <2> QED BY <2>1, <2>2
<1> QED BY <1>1

(* A list of checks passes exactly when no check fails.                    *)
LEMMA FirstFaultTells ==
  ASSUME NEW checks, DOMAIN checks \subseteq Nat,
         \A i \in DOMAIN checks : checks[i][1] => checks[i][2] # "ok"
  PROVE  FirstFault(checks) = "ok" <=> \A i \in DOMAIN checks : ~ checks[i][1]
<1> DEFINE failed == {i \in DOMAIN checks : checks[i][1]}
           first == CHOOSE i \in failed : \A j \in failed : i <= j
<1>1. CASE failed # {}
  <2>1. \E i \in failed : \A j \in failed : i <= j
    BY <1>1, FirstOfPositions
  <2>2. first \in failed
    BY <2>1
  <2>3. FirstFault(checks) = checks[first][2]
    BY <1>1 DEF FirstFault
  <2> QED BY <2>2, <2>3
<1>2. CASE failed = {}
  BY <1>2 DEF FirstFault
<1> QED BY <1>1, <1>2

-----------------------------------------------------------------------------
(* Lists one after the other: the recursive function exists, and every     *)
(* element of every list has a place of its own in the whole.              *)
LEMMA GatheringEquations ==
  ASSUME NEW lists, Len(lists) \in Nat
  PROVE  /\ GatheredUpTo(lists)[0] = << >>
         /\ \A n \in 1 .. Len(lists) :
              GatheredUpTo(lists)[n] = GatheredUpTo(lists)[n - 1] \o lists[n]
<1> DEFINE Body(f, n) == [i \in 0 .. n |-> IF i = 0 THEN << >> ELSE f[i - 1] \o lists[i]]
           S == {n \in Nat : \E f : f = Body(f, n)}
<1>1. 0 \in S
  <2>1. [i \in 0 .. 0 |-> << >>] = Body([i \in 0 .. 0 |-> << >>], 0)
    OBVIOUS
  <2> QED BY <2>1
<1>2. ASSUME NEW n \in Nat, n \in S PROVE n + 1 \in S
  <2>1. PICK f : f = Body(f, n)
    BY <1>2
  <2> DEFINE g == [i \in 0 .. n + 1 |-> IF i <= n THEN f[i] ELSE f[n] \o lists[n + 1]]
  <2>2. \A i \in 0 .. n + 1 : i # 0 => g[i - 1] = f[i - 1]
    OBVIOUS
  <2>3. \A i \in 0 .. n + 1 : g[i] = IF i = 0 THEN << >> ELSE g[i - 1] \o lists[i]
    <3> SUFFICES ASSUME NEW i \in 0 .. n + 1
                 PROVE  g[i] = IF i = 0 THEN << >> ELSE g[i - 1] \o lists[i]
      OBVIOUS
    <3>1. CASE i <= n
      BY <2>1, <2>2, <3>1
    <3>2. CASE i = n + 1
      BY <2>2, <3>2
    <3> QED BY <3>1, <3>2
  <2>4. g = Body(g, n + 1)
    BY <2>3
  <2>5. n + 1 \in Nat /\ \E h : h = Body(h, n + 1)
    <3> HIDE DEF g, Body
    <3> QED BY <2>4
  <2> QED BY <2>5
<1>3. Len(lists) \in S
  <2>1. \A n \in Nat : n \in S => n + 1 \in S
    BY <1>2
  <2> HIDE DEF S
  <2> QED BY <1>1, <2>1, CountingUp
<1>4. GatheredUpTo(lists) = Body(GatheredUpTo(lists), Len(lists))
  BY <1>3 DEF GatheredUpTo
<1> HIDE DEF Body
<1>5. \A n \in 0 .. Len(lists) :
        GatheredUpTo(lists)[n] = IF n = 0 THEN << >> ELSE GatheredUpTo(lists)[n - 1] \o lists[n]
  <2>1. \A f, n, i : i \in 0 .. n =>
          Body(f, n)[i] = IF i = 0 THEN << >> ELSE f[i - 1] \o lists[i]
    BY DEF Body
  <2> QED BY <1>4, <2>1
<1>6. 0 \in 0 .. Len(lists) /\ \A n \in 1 .. Len(lists) : n \in 0 .. Len(lists) /\ n # 0
  OBVIOUS
<1> QED BY <1>5, <1>6, Zenon

Places(lists, n) == {x \in (1 .. n) \X Nat : x[2] \in 1 .. Len(lists[x[1]])}

Laid(at, lists, n, whole) ==
  /\ at \in [Places(lists, n) -> 1 .. Len(whole)]
  /\ \A x, y \in Places(lists, n) : at[x] = at[y] => x = y
  /\ \A k \in 1 .. Len(whole) : \E x \in Places(lists, n) : at[x] = k
  /\ \A x \in Places(lists, n) : whole[at[x]] = lists[x[1]][x[2]]

LEMMA OneMoreList ==
  ASSUME NEW lists, NEW S, NEW n \in Nat, NEW whole \in Seq(S), NEW at,
         Laid(at, lists, n, whole), lists[n + 1] \in Seq(S)
  PROVE  \E new : Laid(new, lists, n + 1, whole \o lists[n + 1])
<1> DEFINE P == Places(lists, n + 1)
           next == whole \o lists[n + 1]
           new == [x \in P |-> IF x[1] <= n THEN at[x] ELSE Len(whole) + x[2]]
           old == Places(lists, n)
<1>1. /\ Len(whole) \in Nat /\ Len(lists[n + 1]) \in Nat
      /\ Len(next) = Len(whole) + Len(lists[n + 1])
      /\ \A k \in 1 .. Len(whole) : next[k] = whole[k]
      /\ \A k \in 1 .. Len(lists[n + 1]) : next[Len(whole) + k] = lists[n + 1][k]
  OBVIOUS
<1>2. \A x \in P : \/ x[1] <= n /\ x \in old
                   \/ x[1] = n + 1 /\ x[2] \in 1 .. Len(lists[n + 1]) /\ x = <<n + 1, x[2]>>
  BY DEF Places
<1>3. \A x \in old : x \in P /\ x[1] <= n
  BY DEF Places
<1>4. \A k \in 1 .. Len(lists[n + 1]) : <<n + 1, k>> \in P
  BY <1>1 DEF Places
<1>5. /\ at \in [old -> 1 .. Len(whole)]
      /\ \A x, y \in old : at[x] = at[y] => x = y
      /\ \A k \in 1 .. Len(whole) : \E x \in old : at[x] = k
      /\ \A x \in old : whole[at[x]] = lists[x[1]][x[2]]
  BY DEF Laid
<1> HIDE DEF P, old, next
<1>6. \A x \in P : \/ x \in old /\ x[1] <= n /\ new[x] = at[x] /\ new[x] \in 1 .. Len(whole)
                   \/ /\ x = <<n + 1, x[2]>> /\ x[2] \in 1 .. Len(lists[n + 1])
                      /\ x[1] = n + 1
                      /\ new[x] = Len(whole) + x[2]
  BY <1>1, <1>2, <1>5
<1> HIDE DEF new
<1>7. new \in [P -> 1 .. Len(next)]
  <2>1. \A x \in P : new[x] \in 1 .. Len(next)
    BY <1>1, <1>6
  <2>2. new = [x \in P |-> new[x]]
    BY DEF new
  <2> QED BY <2>1, <2>2
<1>8. \A x, y \in P : new[x] = new[y] => x = y
  <2> SUFFICES ASSUME NEW x \in P, NEW y \in P, new[x] = new[y] PROVE x = y
    OBVIOUS
  <2>1. CASE x \in old /\ y \in old /\ new[x] = at[x] /\ new[y] = at[y]
    BY <1>5, <2>1
  <2>2. CASE /\ x = <<n + 1, x[2]>> /\ y = <<n + 1, y[2]>>
             /\ x[2] \in 1 .. Len(lists[n + 1]) /\ y[2] \in 1 .. Len(lists[n + 1])
             /\ new[x] = Len(whole) + x[2] /\ new[y] = Len(whole) + y[2]
    <3>1. Len(whole) \in Nat /\ x[2] \in Int /\ y[2] \in Int
      BY <1>1, <2>2
    <3>2. Len(whole) + x[2] = Len(whole) + y[2]
      BY <2>2, Zenon
    <3>3. x[2] = y[2]
      BY <3>1, <3>2
    <3> QED BY <2>2, <3>3, Zenon
  <2> QED BY <1>1, <1>6, <2>1, <2>2
<1>9. ASSUME NEW k \in 1 .. Len(next) PROVE \E x \in P : new[x] = k
  <2>1. CASE k <= Len(whole)
    <3>1. PICK x \in old : at[x] = k
      BY <1>1, <1>5, <2>1
    <3>2. x \in P /\ x[1] <= n
      BY <1>3
    <3>3. new[x] = at[x]
      BY <3>2 DEF new
    <3> QED BY <3>1, <3>2, <3>3
  <2>2. CASE k > Len(whole)
    <3> DEFINE m == k - Len(whole)
    <3>1. m \in 1 .. Len(lists[n + 1]) /\ k = Len(whole) + m
      BY <1>1, <2>2
    <3>2. <<n + 1, m>> \in P
      BY <1>4, <3>1
    <3> HIDE DEF m
    <3>3. new[<<n + 1, m>>] = Len(whole) + m
      BY <3>2 DEF new
    <3> QED BY <3>1, <3>2, <3>3
  <2> QED BY <1>1, <2>1, <2>2
<1>10. \A x \in P : next[new[x]] = lists[x[1]][x[2]]
  BY <1>1, <1>5, <1>6
<1>11. Laid(new, lists, n + 1, next)
  BY <1>7, <1>8, <1>9, <1>10 DEF Laid, P
<1> HIDE DEF new
<1> QED BY <1>11 DEF next

LEMMA GatheredIsLaid ==
  ASSUME NEW lists, NEW S, Len(lists) \in Nat, \A i \in 1 .. Len(lists) : lists[i] \in Seq(S)
  PROVE  /\ Gathered(lists) \in Seq(S)
         /\ \E at : Laid(at, lists, Len(lists), Gathered(lists))
<1> DEFINE U == GatheredUpTo(lists)
           T == {n \in Nat : n <= Len(lists) =>
                   U[n] \in Seq(S) /\ \E at : Laid(at, lists, n, U[n])}
<1>1. U[0] = << >> /\ \A n \in 1 .. Len(lists) : U[n] = U[n - 1] \o lists[n]
  BY GatheringEquations
<1> HIDE DEF U
<1>2. 0 \in T
  <2> DEFINE none == [x \in {} |-> 0]
  <2>1. Places(lists, 0) = {}
    BY DEF Places
  <2>2. Laid(none, lists, 0, << >>)
    BY <2>1 DEF Laid
  <2>3. << >> \in Seq(S)
    OBVIOUS
  <2> HIDE DEF none
  <2> QED BY <1>1, <2>2, <2>3
<1>3. ASSUME NEW n \in Nat, n \in T PROVE n + 1 \in T
  <2> SUFFICES ASSUME n + 1 <= Len(lists)
               PROVE  U[n + 1] \in Seq(S) /\ \E at : Laid(at, lists, n + 1, U[n + 1])
    OBVIOUS
  <2>1. U[n] \in Seq(S) /\ \E at : Laid(at, lists, n, U[n])
    BY <1>3
  <2>2. PICK at : Laid(at, lists, n, U[n])
    BY <2>1
  <2>3. n + 1 \in 1 .. Len(lists) /\ (n + 1) - 1 = n
    OBVIOUS
  <2>4. U[n + 1] = U[n] \o lists[n + 1] /\ lists[n + 1] \in Seq(S)
    BY <1>1, <2>3
  <2>5. \E new : Laid(new, lists, n + 1, U[n] \o lists[n + 1])
    BY <2>1, <2>2, <2>4, OneMoreList
  <2> QED BY <2>1, <2>4, <2>5
<1>4. Len(lists) \in T
  <2>1. \A n \in Nat : n \in T => n + 1 \in T
    BY <1>3
  <2> HIDE DEF T
  <2> QED BY <1>2, <2>1, CountingUp
<1>5. U[Len(lists)] \in Seq(S) /\ \E at : Laid(at, lists, Len(lists), U[Len(lists)])
  BY <1>4
<1> QED BY <1>5 DEF U, Gathered

-----------------------------------------------------------------------------
(* Lists in another order, put one after the other, are a rearrangement.    *)
Rearranges(s, t) ==
  \E h \in [DOMAIN s -> DOMAIN t] :
    /\ \A i, j \in DOMAIN s : h[i] = h[j] => i = j
    /\ \A k \in DOMAIN t : \E i \in DOMAIN s : h[i] = k
    /\ \A i \in DOMAIN s : s[i] = t[h[i]]

Reorders(p, D) ==
  /\ p \in [D -> D]
  /\ \A i, j \in D : p[i] = p[j] => i = j
  /\ \A k \in D : \E i \in D : p[i] = k

Reordered(lists, p) == [i \in DOMAIN lists |-> lists[p[i]]]

LEMMA GatheredRearranged ==
  ASSUME NEW S, NEW lists \in Seq(Seq(S)), NEW p, Reorders(p, DOMAIN lists)
  PROVE  Rearranges(Gathered(Reordered(lists, p)), Gathered(lists))
<1> DEFINE n == Len(lists)
           other == Reordered(lists, p)
           W1 == Gathered(other)
           W2 == Gathered(lists)
           D1 == Places(other, n)
           D2 == Places(lists, n)
<1>1. /\ n \in Nat /\ DOMAIN lists = 1 .. n
      /\ \A i \in 1 .. n : lists[i] \in Seq(S)
  OBVIOUS
<1>2. /\ p \in [1 .. n -> 1 .. n]
      /\ \A i, j \in 1 .. n : p[i] = p[j] => i = j
      /\ \A k \in 1 .. n : \E i \in 1 .. n : p[i] = k
  BY <1>1 DEF Reorders
<1>3. /\ other = [i \in 1 .. n |-> lists[p[i]]]
      /\ other \in Seq(Seq(S)) /\ Len(other) = n
      /\ \A i \in 1 .. n : other[i] = lists[p[i]] /\ other[i] \in Seq(S)
  <2>1. other = [i \in 1 .. n |-> lists[p[i]]]
    BY <1>1 DEF Reordered
  <2> HIDE DEF other, n
  <2>2. \A i \in 1 .. n : other[i] = lists[p[i]] /\ other[i] \in Seq(S)
    BY <1>1, <1>2, <2>1
  <2>3. other \in [1 .. n -> Seq(S)]
    BY <2>1, <2>2
  <2>4. other \in Seq(Seq(S)) /\ Len(other) = n
    BY <1>1, <2>3
  <2> QED BY <2>1, <2>2, <2>4
<1> HIDE DEF n, other
<1>4. /\ W1 \in Seq(S) /\ \E at : Laid(at, other, n, W1)
      /\ W2 \in Seq(S) /\ \E at : Laid(at, lists, n, W2)
  BY <1>1, <1>3, GatheredIsLaid DEF n
<1> HIDE DEF W1, W2
<1>5. PICK at1 : Laid(at1, other, n, W1)
  BY <1>4
<1>6. PICK at2 : Laid(at2, lists, n, W2)
  BY <1>4
<1> DEFINE Moved(x) == <<p[x[1]], x[2]>>
<1>7. /\ \A x \in D1 : Moved(x) \in D2
      /\ \A x, y \in D1 : Moved(x) = Moved(y) => x = y
      /\ \A y \in D2 : \E x \in D1 : Moved(x) = y
  <2>1. ASSUME NEW x \in D1 PROVE Moved(x) \in D2
    <3>1. x[1] \in 1 .. n /\ x[2] \in Nat /\ x[2] \in 1 .. Len(other[x[1]])
      BY DEF Places
    <3>2. p[x[1]] \in 1 .. n /\ other[x[1]] = lists[p[x[1]]]
      BY <1>2, <1>3, <3>1
    <3> QED BY <3>1, <3>2 DEF Places
  <2>2. ASSUME NEW x \in D1, NEW y \in D1, Moved(x) = Moved(y) PROVE x = y
    <3>1. /\ x = <<x[1], x[2]>> /\ y = <<y[1], y[2]>>
          /\ x[1] \in 1 .. n /\ y[1] \in 1 .. n
      BY DEF Places
    <3>2. p[x[1]] = p[y[1]] /\ x[2] = y[2]
      BY <2>2
    <3> QED BY <1>2, <3>1, <3>2
  <2>3. ASSUME NEW y \in D2 PROVE \E x \in D1 : Moved(x) = y
    <3>1. /\ y = <<y[1], y[2]>> /\ y[1] \in 1 .. n
          /\ y[2] \in Nat /\ y[2] \in 1 .. Len(lists[y[1]])
      BY DEF Places
    <3>2. PICK i \in 1 .. n : p[i] = y[1]
      BY <1>2, <3>1
    <3>3. <<i, y[2]>> \in D1
      BY <1>3, <3>1, <3>2 DEF Places
    <3>4. Moved(<<i, y[2]>>) = y
      BY <3>1, <3>2
    <3> QED BY <3>3, <3>4
  <2> QED BY <2>1, <2>2, <2>3
<1>8. \A x \in D1 : x[1] \in 1 .. n /\ Moved(x)[1] = p[x[1]] /\ Moved(x)[2] = x[2]
  BY DEF Places
<1> HIDE DEF D1, D2, Moved
<1>9. /\ at1 \in [D1 -> 1 .. Len(W1)]
      /\ \A x, y \in D1 : at1[x] = at1[y] => x = y
      /\ \A k \in 1 .. Len(W1) : \E x \in D1 : at1[x] = k
      /\ \A x \in D1 : W1[at1[x]] = other[x[1]][x[2]]
  BY <1>5 DEF Laid, D1
<1>10. /\ at2 \in [D2 -> 1 .. Len(W2)]
       /\ \A x, y \in D2 : at2[x] = at2[y] => x = y
       /\ \A k \in 1 .. Len(W2) : \E x \in D2 : at2[x] = k
       /\ \A x \in D2 : W2[at2[x]] = lists[x[1]][x[2]]
  BY <1>6 DEF Laid, D2
<1>11. DOMAIN W1 = 1 .. Len(W1) /\ DOMAIN W2 = 1 .. Len(W2)
  BY <1>4
<1> DEFINE from == [k \in 1 .. Len(W1) |-> CHOOSE x \in D1 : at1[x] = k]
           h == [k \in 1 .. Len(W1) |-> at2[Moved(from[k])]]
<1>12. \A k \in 1 .. Len(W1) : from[k] \in D1 /\ at1[from[k]] = k
  BY <1>9
<1>13. \A x \in D1 : from[at1[x]] = x
  BY <1>9, <1>12
<1> HIDE DEF from
<1>14. h \in [1 .. Len(W1) -> 1 .. Len(W2)]
  BY <1>7, <1>10, <1>12
<1>15. \A i, j \in 1 .. Len(W1) : h[i] = h[j] => i = j
  <2> SUFFICES ASSUME NEW i \in 1 .. Len(W1), NEW j \in 1 .. Len(W1), h[i] = h[j]
               PROVE  i = j
    OBVIOUS
  <2>1. at2[Moved(from[i])] = at2[Moved(from[j])]
    OBVIOUS
  <2>2. Moved(from[i]) \in D2 /\ Moved(from[j]) \in D2
    BY <1>7, <1>12
  <2>3. Moved(from[i]) = Moved(from[j])
    BY <1>10, <2>1, <2>2
  <2>4. from[i] = from[j]
    BY <1>7, <1>12, <2>3
  <2> QED BY <1>12, <2>4
<1>16. \A k \in 1 .. Len(W2) : \E i \in 1 .. Len(W1) : h[i] = k
  <2> SUFFICES ASSUME NEW k \in 1 .. Len(W2) PROVE \E i \in 1 .. Len(W1) : h[i] = k
    OBVIOUS
  <2>1. PICK y \in D2 : at2[y] = k
    BY <1>10
  <2>2. PICK x \in D1 : Moved(x) = y
    BY <1>7
  <2>3. at1[x] \in 1 .. Len(W1)
    BY <1>9
  <2>4. h[at1[x]] = k
    BY <1>13, <2>1, <2>2, <2>3
  <2> QED BY <2>3, <2>4
<1>17. \A k \in 1 .. Len(W1) : W1[k] = W2[h[k]]
  <2> SUFFICES ASSUME NEW k \in 1 .. Len(W1) PROVE W1[k] = W2[h[k]]
    OBVIOUS
  <2>1. from[k] \in D1 /\ at1[from[k]] = k /\ Moved(from[k]) \in D2
    BY <1>7, <1>12
  <2>2. W1[k] = other[from[k][1]][from[k][2]]
    BY <1>9, <2>1
  <2>3. W2[h[k]] = lists[Moved(from[k])[1]][Moved(from[k])[2]]
    BY <1>10, <2>1
  <2>4. /\ Moved(from[k])[1] = p[from[k][1]] /\ Moved(from[k])[2] = from[k][2]
        /\ from[k][1] \in 1 .. n
    BY <1>8, <2>1
  <2> QED BY <1>3, <2>2, <2>3, <2>4
<1> HIDE DEF h
<1>18. Rearranges(W1, W2)
  <2>1. /\ h \in [DOMAIN W1 -> DOMAIN W2]
        /\ \A i, j \in DOMAIN W1 : h[i] = h[j] => i = j
        /\ \A k \in DOMAIN W2 : \E i \in DOMAIN W1 : h[i] = k
        /\ \A i \in DOMAIN W1 : W1[i] = W2[h[i]]
    BY <1>11, <1>14, <1>15, <1>16, <1>17, Zenon
  <2> QED BY <2>1 DEF Rearranges
<1> QED BY <1>18 DEF W1, W2, other

(* What is in the whole was in some list, and the other way round.          *)
LEMMA GatheredMembers ==
  ASSUME NEW S, NEW lists \in Seq(Seq(S))
  PROVE  ToSet(Gathered(lists)) = UNION {ToSet(lists[i]) : i \in DOMAIN lists}
<1> DEFINE n == Len(lists)
           W == Gathered(lists)
<1>1. /\ n \in Nat /\ DOMAIN lists = 1 .. n
      /\ \A i \in 1 .. n : lists[i] \in Seq(S) /\ DOMAIN lists[i] = 1 .. Len(lists[i])
  OBVIOUS
<1>2. W \in Seq(S) /\ \E at : Laid(at, lists, n, W)
  BY <1>1, GatheredIsLaid
<1> HIDE DEF n, W
<1>3. PICK at : Laid(at, lists, n, W)
  BY <1>2
<1>4. DOMAIN W = 1 .. Len(W)
  BY <1>2
<1>5. ASSUME NEW k \in DOMAIN W PROVE \E i \in 1 .. n : W[k] \in ToSet(lists[i])
  <2>1. PICK x \in Places(lists, n) : at[x] = k
    BY <1>3, <1>4 DEF Laid
  <2>2. W[k] = lists[x[1]][x[2]]
    BY <1>3, <2>1 DEF Laid
  <2>3. x[1] \in 1 .. n /\ x[2] \in DOMAIN lists[x[1]]
    BY <1>1 DEF Places
  <2> QED BY <2>2, <2>3 DEF ToSet
<1>6. ASSUME NEW i \in 1 .. n, NEW k \in DOMAIN lists[i] PROVE lists[i][k] \in ToSet(W)
  <2>1. k \in 1 .. Len(lists[i]) /\ Len(lists[i]) \in Nat
    BY <1>1
  <2>2. <<i, k>> \in Places(lists, n)
    BY <2>1 DEF Places
  <2>3. at[<<i, k>>] \in DOMAIN W /\ W[at[<<i, k>>]] = lists[i][k]
    BY <1>3, <1>4, <2>2 DEF Laid
  <2> QED BY <2>3 DEF ToSet
<1>7. ToSet(W) = UNION {ToSet(lists[i]) : i \in 1 .. n}
  <2>1. ASSUME NEW x \in ToSet(W) PROVE x \in UNION {ToSet(lists[i]) : i \in 1 .. n}
    BY <1>5 DEF ToSet
  <2>2. ASSUME NEW i \in 1 .. n, NEW x \in ToSet(lists[i]) PROVE x \in ToSet(W)
    <3>1. PICK k \in DOMAIN lists[i] : x = lists[i][k]
      BY DEF ToSet
    <3> QED BY <1>6, <3>1
  <2> QED BY <2>1, <2>2
<1> QED BY <1>1, <1>7 DEF W

-----------------------------------------------------------------------------
(* What has to hold of a set of packs for it to load: the checks of `Load`  *)
(* and of what it calls, without the order they are made in.                *)
ConceptsOf(packs) == Gathered([i \in DOMAIN packs |-> packs[i].concepts])
FactsOf(packs) == Gathered([i \in DOMAIN packs |-> packs[i].facts])
RecordsOf(facts) == [i \in DOMAIN facts |-> facts[i].record]
BindingsOf(facts) ==
  [i \in DOMAIN facts |-> [predicate |-> facts[i].predicate, fact |-> facts[i].record.id]]
IdsOf(concepts) == {concepts[i].id : i \in DOMAIN concepts}

FactClear(records, i, concepts, relations) ==
  /\ ValidateShape(records[i]) = "ok"
  /\ ~ \E j \in 1 .. (i - 1) : records[j].id = records[i].id
  /\ {records[i].subject, records[i].object} \subseteq concepts
  /\ records[i].relation \in relations

RegistryClear(records, bindings, concepts, relations) ==
  /\ \A i \in DOMAIN records : FactClear(records, i, concepts, relations)
  /\ \A i \in DOMAIN bindings :
       /\ \E k \in DOMAIN records : bindings[i].fact = records[k].id
       /\ ~ \E j \in 1 .. (i - 1) : bindings[j].predicate = bindings[i].predicate
  /\ \A i \in DOMAIN records :
       records[i].conditions \subseteq {records[k].id : k \in DOMAIN records}

(* What is asked of a pack by itself, and of two packs.                     *)
Sane(pack) ==
  /\ ManifestFault(pack) = "ok"
  /\ pack.concepts # << >> /\ pack.relations # << >>
  /\ ToSet(pack.relations) \subseteq Relations
  /\ Cardinality(ToSet(pack.relations)) = Len(pack.relations)
  /\ \A k \in DOMAIN pack.concepts :
       /\ pack.concepts[k].pack = pack.id
       /\ ~ \E j \in 1 .. (k - 1) : pack.concepts[j].id = pack.concepts[k].id
  /\ \A k \in DOMAIN pack.facts :
       /\ pack.facts[k].record.pack = pack.id
       /\ pack.facts[k].record.relation \in ToSet(pack.relations)
       /\ ~ \E j \in 1 .. (k - 1) : pack.facts[j].record.id = pack.facts[k].record.id

Apart(p, q) ==
  /\ p.id # q.id
  /\ \A k \in DOMAIN p.concepts, m \in DOMAIN q.concepts : p.concepts[k].id # q.concepts[m].id
  /\ \A k \in DOMAIN p.facts, m \in DOMAIN q.facts : p.facts[k].record.id # q.facts[m].record.id

Loads(packs) ==
  /\ packs # << >>
  /\ \A i \in DOMAIN packs : Sane(packs[i]) /\ \A j \in 1 .. (i - 1) : Apart(packs[j], packs[i])
  /\ ~ InConflict(ToSet(RecordsOf(FactsOf(packs))))
  /\ ~ ConceptFault(ConceptsOf(packs))
  /\ RegistryClear(RecordsOf(FactsOf(packs)), BindingsOf(FactsOf(packs)),
                   IdsOf(ConceptsOf(packs)), Relations)

LEMMA FactFaultTells ==
  ASSUME NEW records, NEW i, NEW concepts, NEW relations
  PROVE  FactFault(records, i, concepts, relations) = "ok"
           <=> FactClear(records, i, concepts, relations)
<1> DEFINE r == records[i]
           shape == ValidateShape(r) # "ok"
           again == \E j \in 1 .. (i - 1) : records[j].id = r.id
           unknown == {r.subject, r.object} \ concepts # {}
           untyped == r.relation \notin relations
           checks == << <<shape, ValidateShape(r)>>, <<again, "duplicate fact">>,
                        <<unknown, "unknown concept">>, <<untyped, "unknown relation">> >>
<1> HIDE DEF shape, again, unknown, untyped
<1>1. /\ DOMAIN checks = 1 .. 4
      /\ checks[1][1] = shape /\ checks[2][1] = again
      /\ checks[3][1] = unknown /\ checks[4][1] = untyped
      /\ checks[1][2] = ValidateShape(r) /\ \A k \in 2 .. 4 : checks[k][2] # "ok"
  OBVIOUS
<1> HIDE DEF checks
<1>2. \A k \in DOMAIN checks : checks[k][1] => checks[k][2] # "ok"
  <2>1. shape => ValidateShape(r) # "ok"
    BY DEF shape
  <2>2. \A k \in 1 .. 4 : k = 1 \/ k \in 2 .. 4
    OBVIOUS
  <2>3. checks[1][1] => checks[1][2] # "ok"
    BY <1>1, <2>1, Zenon
  <2> QED BY <1>1, <2>2, <2>3, Zenon
<1>3. FirstFault(checks) = "ok" <=> ~ shape /\ ~ again /\ ~ unknown /\ ~ untyped
  BY <1>1, <1>2, FirstFaultTells
<1>4. FactFault(records, i, concepts, relations) = FirstFault(checks)
  BY DEF FactFault, checks, shape, again, unknown, untyped
<1> QED BY <1>3, <1>4 DEF FactClear, shape, again, unknown, untyped

LEMMA RegistryFaultTells ==
  ASSUME NEW records, NEW bindings, NEW concepts, NEW relations, DOMAIN records \subseteq Nat
  PROVE  RegistryFault(records, bindings, concepts, relations) = "ok"
           <=> RegistryClear(records, bindings, concepts, relations)
<1> DEFINE faults == [i \in DOMAIN records |-> FactFault(records, i, concepts, relations)]
           list == [i \in DOMAIN records |-> <<faults[i] # "ok", faults[i]>>]
           ofRecords == FirstFault(list)
           ids == {records[i].id : i \in DOMAIN records}
           faulty == ofRecords # "ok"
           bad == \E i \in DOMAIN bindings :
                    \/ bindings[i].fact \notin ids
                    \/ \E j \in 1 .. (i - 1) : bindings[j].predicate = bindings[i].predicate
           loose == \E i \in DOMAIN records : ~ records[i].conditions \subseteq ids
           checks == << <<faulty, ofRecords>>, <<bad, "bad binding">>, <<loose, "unknown fact">> >>
<1>1. ofRecords = "ok" <=> \A i \in DOMAIN records : faults[i] = "ok"
  <2>1. /\ DOMAIN list = DOMAIN records
        /\ \A i \in DOMAIN records : (list[i][1] <=> faults[i] # "ok") /\ list[i][2] = faults[i]
    BY DEF faults
  <2> HIDE DEF list
  <2> QED BY <2>1, FirstFaultTells
<1>2. \A i \in DOMAIN records : faults[i] = "ok" <=> FactClear(records, i, concepts, relations)
  BY FactFaultTells
<1> HIDE DEF faulty, bad, loose, ofRecords, faults
<1>3. /\ DOMAIN checks = 1 .. 3
      /\ checks[1][1] = faulty /\ checks[2][1] = bad /\ checks[3][1] = loose
      /\ checks[1][2] = ofRecords /\ \A k \in 2 .. 3 : checks[k][2] # "ok"
  OBVIOUS
<1> HIDE DEF checks
<1>4. \A k \in DOMAIN checks : checks[k][1] => checks[k][2] # "ok"
  <2>1. faulty => ofRecords # "ok"
    BY DEF faulty
  <2>2. \A k \in 1 .. 3 : k = 1 \/ k \in 2 .. 3
    OBVIOUS
  <2>3. checks[1][1] => checks[1][2] # "ok"
    BY <1>3, <2>1, Zenon
  <2> QED BY <1>3, <2>2, <2>3, Zenon
<1>5. FirstFault(checks) = "ok" <=> ~ faulty /\ ~ bad /\ ~ loose
  BY <1>3, <1>4, FirstFaultTells
<1>6. RegistryFault(records, bindings, concepts, relations) = FirstFault(checks)
  BY DEF RegistryFault, checks, faulty, bad, loose, ofRecords, faults
<1>7. ~ bad <=> \A i \in DOMAIN bindings :
                  /\ \E k \in DOMAIN records : bindings[i].fact = records[k].id
                  /\ ~ \E j \in 1 .. (i - 1) : bindings[j].predicate = bindings[i].predicate
  BY DEF bad
<1>8. ~ loose <=> \A i \in DOMAIN records :
                    records[i].conditions \subseteq {records[k].id : k \in DOMAIN records}
  BY DEF loose
<1> QED BY <1>1, <1>2, <1>5, <1>6, <1>7, <1>8 DEF RegistryClear, faulty

LEMMA PackFaultTells ==
  ASSUME NEW packs, NEW i
  PROVE  PackFault(packs, i) = "ok"
           <=> Sane(packs[i]) /\ \A j \in 1 .. (i - 1) : Apart(packs[j], packs[i])
<1> DEFINE pack == packs[i]
           seen == {packs[j] : j \in 1 .. (i - 1)}
           conceptsSeen == UNION {{c.id : c \in ToSet(p.concepts)} : p \in seen}
           factsSeen == UNION {{f.record.id : f \in ToSet(p.facts)} : p \in seen}
           relationIds == ToSet(pack.relations)
           unmanifest == ManifestFault(pack) # "ok"
           again == \E p \in seen : p.id = pack.id
           empty == pack.concepts = << >> \/ pack.relations = << >>
           unknown == ~ relationIds \subseteq Relations
           repeated == Cardinality(relationIds) # Len(pack.relations)
           concept == \E k \in DOMAIN pack.concepts :
                        LET c == pack.concepts[k] IN
                        \/ c.pack # pack.id
                        \/ c.id \in conceptsSeen
                        \/ \E j \in 1 .. (k - 1) : pack.concepts[j].id = c.id
           fact == \E k \in DOMAIN pack.facts :
                     LET f == pack.facts[k].record IN
                     \/ f.pack # pack.id
                     \/ f.relation \notin relationIds
                     \/ f.id \in factsSeen
                     \/ \E j \in 1 .. (k - 1) : pack.facts[j].record.id = f.id
           checks == << <<unmanifest, "manifest">>, <<again, "duplicate pack">>,
                        <<empty, "empty pack">>, <<unknown, "unknown relation">>,
                        <<repeated, "repeated relation">>, <<concept, "duplicate concept">>,
                        <<fact, "duplicate fact">> >>
<1> HIDE DEF unmanifest, again, empty, unknown, repeated, concept, fact
<1>1. /\ DOMAIN checks = 1 .. 7
      /\ checks[1][1] = unmanifest /\ checks[2][1] = again /\ checks[3][1] = empty
      /\ checks[4][1] = unknown /\ checks[5][1] = repeated /\ checks[6][1] = concept
      /\ checks[7][1] = fact
      /\ \A k \in 1 .. 7 : checks[k][2] # "ok"
  OBVIOUS
<1> HIDE DEF checks
<1>2. FirstFault(checks) = "ok" <=>
        ~ unmanifest /\ ~ again /\ ~ empty /\ ~ unknown /\ ~ repeated /\ ~ concept /\ ~ fact
  BY <1>1, FirstFaultTells
<1>3. PackFault(packs, i) = FirstFault(checks)
  BY DEF PackFault, checks, unmanifest, again, empty, unknown, repeated, concept, fact
<1>4. ~ again <=> \A j \in 1 .. (i - 1) : packs[j].id # pack.id
  BY DEF again
<1>5. \A x : x \in conceptsSeen <=>
        \E j \in 1 .. (i - 1) : \E k \in DOMAIN packs[j].concepts : packs[j].concepts[k].id = x
  BY DEF ToSet
<1>6. \A x : x \in factsSeen <=>
        \E j \in 1 .. (i - 1) : \E k \in DOMAIN packs[j].facts : packs[j].facts[k].record.id = x
  BY DEF ToSet
<1> HIDE DEF conceptsSeen, factsSeen
<1>7. ~ concept <=>
        /\ \A k \in DOMAIN pack.concepts :
             /\ pack.concepts[k].pack = pack.id
             /\ ~ \E j \in 1 .. (k - 1) : pack.concepts[j].id = pack.concepts[k].id
        /\ \A j \in 1 .. (i - 1) : \A m \in DOMAIN packs[j].concepts, k \in DOMAIN pack.concepts :
             packs[j].concepts[m].id # pack.concepts[k].id
  BY <1>5 DEF concept
<1>8. ~ fact <=>
        /\ \A k \in DOMAIN pack.facts :
             /\ pack.facts[k].record.pack = pack.id
             /\ pack.facts[k].record.relation \in ToSet(pack.relations)
             /\ ~ \E j \in 1 .. (k - 1) : pack.facts[j].record.id = pack.facts[k].record.id
        /\ \A j \in 1 .. (i - 1) : \A m \in DOMAIN packs[j].facts, k \in DOMAIN pack.facts :
             packs[j].facts[m].record.id # pack.facts[k].record.id
  BY <1>6 DEF fact
<1> QED BY <1>2, <1>3, <1>4, <1>7, <1>8 DEF Sane, Apart, unmanifest, empty, unknown, repeated

Loaded(packs) ==
  [verdict |-> "ok",
   registry |-> Registered(RecordsOf(FactsOf(packs)), BindingsOf(FactsOf(packs))),
   concepts |-> ConceptsOf(packs), fingerprint |-> Fingerprint(packs)]

LEMMA LoadTells ==
  ASSUME NEW S, NEW T, NEW packs \in Seq(S), FactsOf(packs) \in Seq(T)
  PROVE  \/ Loads(packs) /\ Load(packs) = Loaded(packs)
         \/ ~ Loads(packs) /\ \E why : why # "ok" /\ Load(packs) = RefusedWorld(why)
<1> DEFINE concepts == ConceptsOf(packs)
           facts == FactsOf(packs)
           records == RecordsOf(facts)
           bindings == BindingsOf(facts)
           list == [i \in DOMAIN packs |-> <<PackFault(packs, i) # "ok", PackFault(packs, i)>>]
           ofPack == FirstFault(list)
           ofRegistry == RegistryFault(records, bindings, IdsOf(concepts), Relations)
           none == packs = << >>
           packing == ofPack # "ok"
           conflict == InConflict(ToSet(records))
           odd == ConceptFault(concepts)
           unregistered == ofRegistry # "ok"
           checks == << <<none, "empty set">>, <<packing, ofPack>>, <<conflict, "fact conflict">>,
                        <<odd, "concept">>, <<unregistered, ofRegistry>> >>
           fault == FirstFault(checks)
<1>1. DOMAIN packs \subseteq Nat /\ DOMAIN facts \subseteq Nat
  OBVIOUS
<1>2. ofPack = "ok" <=> \A i \in DOMAIN packs : PackFault(packs, i) = "ok"
  <2>1. /\ DOMAIN list = DOMAIN packs
        /\ \A i \in DOMAIN packs : /\ list[i][1] <=> PackFault(packs, i) # "ok"
                                   /\ list[i][2] = PackFault(packs, i)
    OBVIOUS
  <2> HIDE DEF list
  <2> QED BY <1>1, <2>1, FirstFaultTells
<1>3. ofRegistry = "ok" <=> RegistryClear(records, bindings, IdsOf(concepts), Relations)
  <2>1. DOMAIN records = DOMAIN facts
    BY DEF RecordsOf
  <2> QED BY <1>1, <2>1, RegistryFaultTells
<1> HIDE DEF none, packing, conflict, odd, unregistered, ofPack, ofRegistry
<1>4. /\ DOMAIN checks = 1 .. 5
      /\ checks[1][1] = none /\ checks[2][1] = packing /\ checks[3][1] = conflict
      /\ checks[4][1] = odd /\ checks[5][1] = unregistered
      /\ \A k \in {1, 3, 4} : checks[k][2] # "ok"
      /\ checks[2][2] = ofPack /\ checks[5][2] = ofRegistry
  OBVIOUS
<1> HIDE DEF checks
<1>5. \A k \in DOMAIN checks : checks[k][1] => checks[k][2] # "ok"
  <2>1. (packing => ofPack # "ok") /\ (unregistered => ofRegistry # "ok")
    BY DEF packing, unregistered
  <2>2. \A k \in 1 .. 5 : k = 2 \/ k = 5 \/ k \in {1, 3, 4}
    OBVIOUS
  <2>3. (checks[2][1] => checks[2][2] # "ok") /\ (checks[5][1] => checks[5][2] # "ok")
    BY <1>4, <2>1, Zenon
  <2> QED BY <1>4, <2>2, <2>3, Zenon
<1>6. fault = "ok" <=> ~ none /\ ~ packing /\ ~ conflict /\ ~ odd /\ ~ unregistered
  BY <1>4, <1>5, FirstFaultTells
<1> HIDE DEF fault
<1>7. Load(packs) = IF fault # "ok" THEN RefusedWorld(fault) ELSE Loaded(packs)
  BY DEF Load, Loaded, fault, checks, none, packing, conflict, odd, unregistered, ofPack,
         ofRegistry, list, ConceptsOf, FactsOf, RecordsOf, BindingsOf, IdsOf
<1>8. Loads(packs) <=> ~ none /\ ~ packing /\ ~ conflict /\ ~ odd /\ ~ unregistered
  BY <1>2, <1>3, PackFaultTells DEF Loads, none, packing, conflict, odd, unregistered
<1> QED BY <1>6, <1>7, <1>8

-----------------------------------------------------------------------------
(* A rearrangement holds the same elements, and passes the same checks.     *)
LEMMA RearrangedMembers ==
  ASSUME NEW s, NEW t, Rearranges(s, t)
  PROVE  ToSet(s) = ToSet(t)
<1>1. PICK h \in [DOMAIN s -> DOMAIN t] :
        /\ \A k \in DOMAIN t : \E i \in DOMAIN s : h[i] = k
        /\ \A i \in DOMAIN s : s[i] = t[h[i]]
  BY DEF Rearranges
<1>2. ASSUME NEW i \in DOMAIN s PROVE s[i] \in ToSet(t)
  BY <1>1 DEF ToSet
<1>3. ASSUME NEW k \in DOMAIN t PROVE t[k] \in ToSet(s)
  BY <1>1 DEF ToSet
<1> QED BY <1>2, <1>3 DEF ToSet

LEMMA RearrangedConcepts ==
  ASSUME NEW S, NEW s \in Seq(S), NEW t \in Seq(S), Rearranges(s, t), ~ ConceptFault(t)
  PROVE  ~ ConceptFault(s)
<1>1. PICK h \in [DOMAIN s -> DOMAIN t] :
        /\ \A i, j \in DOMAIN s : h[i] = h[j] => i = j
        /\ \A i \in DOMAIN s : s[i] = t[h[i]]
  BY DEF Rearranges
<1>2. DOMAIN s = 1 .. Len(s) /\ Len(s) \in Nat /\ DOMAIN t = 1 .. Len(t) /\ Len(t) \in Nat
  OBVIOUS
<1>3. \A i \in DOMAIN t :
        /\ \A j \in 1 .. (i - 1) : t[j].id # t[i].id
        /\ t[i].atom \in Atoms /\ t[i].lemma # << >> /\ t[i].pack # "" /\ t[i].version # 0
  BY DEF ConceptFault
<1>4. \A i, j \in DOMAIN t : i # j => t[i].id # t[j].id
  <2>1. \A i, j \in DOMAIN t : i # j => i \in 1 .. (j - 1) \/ j \in 1 .. (i - 1)
    BY <1>2
  <2> QED BY <1>3, <2>1, Zenon
<1>5. ASSUME NEW i \in DOMAIN s
      PROVE  /\ \A j \in 1 .. (i - 1) : s[j].id # s[i].id
             /\ s[i].atom \in Atoms /\ s[i].lemma # << >> /\ s[i].pack # "" /\ s[i].version # 0
  <2>1. ASSUME NEW j \in 1 .. (i - 1) PROVE s[j].id # s[i].id
    <3>1. j \in DOMAIN s /\ j # i
      BY <1>2
    <3>2. h[j] \in DOMAIN t /\ h[i] \in DOMAIN t /\ h[j] # h[i]
      BY <1>1, <3>1
    <3> QED BY <1>1, <1>4, <3>1, <3>2
  <2>2. h[i] \in DOMAIN t /\ s[i] = t[h[i]]
    BY <1>1
  <2> QED BY <1>3, <2>1, <2>2
<1> QED BY <1>5 DEF ConceptFault

LEMMA RearrangedRegistry ==
  ASSUME NEW S, NEW s \in Seq(S), NEW t \in Seq(S), Rearranges(s, t), NEW concepts, NEW relations,
         RegistryClear(RecordsOf(t), BindingsOf(t), concepts, relations)
  PROVE  RegistryClear(RecordsOf(s), BindingsOf(s), concepts, relations)
<1> DEFINE Rs == RecordsOf(s)
           Rt == RecordsOf(t)
           Bs == BindingsOf(s)
           Bt == BindingsOf(t)
<1>1. PICK h \in [DOMAIN s -> DOMAIN t] :
        /\ \A i, j \in DOMAIN s : h[i] = h[j] => i = j
        /\ \A k \in DOMAIN t : \E i \in DOMAIN s : h[i] = k
        /\ \A i \in DOMAIN s : s[i] = t[h[i]]
  BY DEF Rearranges
<1>2. DOMAIN s = 1 .. Len(s) /\ Len(s) \in Nat /\ DOMAIN t = 1 .. Len(t) /\ Len(t) \in Nat
  OBVIOUS
<1>3. /\ DOMAIN Rs = DOMAIN s /\ DOMAIN Bs = DOMAIN s
      /\ DOMAIN Rt = DOMAIN t /\ DOMAIN Bt = DOMAIN t
      /\ \A i \in DOMAIN s : h[i] \in DOMAIN t /\ Rs[i] = Rt[h[i]] /\ Bs[i] = Bt[h[i]]
  BY <1>1 DEF RecordsOf, BindingsOf
<1> HIDE DEF Rs, Rt, Bs, Bt
<1>4. /\ \A i \in DOMAIN t : FactClear(Rt, i, concepts, relations)
      /\ \A i \in DOMAIN t :
           /\ \E k \in DOMAIN t : Bt[i].fact = Rt[k].id
           /\ ~ \E j \in 1 .. (i - 1) : Bt[j].predicate = Bt[i].predicate
      /\ \A i \in DOMAIN t : Rt[i].conditions \subseteq {Rt[k].id : k \in DOMAIN t}
  BY <1>3 DEF RegistryClear, Rt, Bt
<1>5. \A i, j \in DOMAIN t : i # j => Rt[i].id # Rt[j].id /\ Bt[i].predicate # Bt[j].predicate
  <2>1. \A i, j \in DOMAIN t : i # j => i \in 1 .. (j - 1) \/ j \in 1 .. (i - 1)
    BY <1>2
  <2>2. \A i \in DOMAIN t : \A j \in 1 .. (i - 1) :
          Rt[j].id # Rt[i].id /\ Bt[j].predicate # Bt[i].predicate
    BY <1>4 DEF FactClear
  <2> QED BY <2>1, <2>2, Zenon
<1>6. \A i \in DOMAIN s : \A j \in 1 .. (i - 1) :
        /\ j \in DOMAIN s /\ h[j] \in DOMAIN t /\ h[i] \in DOMAIN t /\ h[j] # h[i]
  BY <1>1, <1>2
<1>7. {Rs[k].id : k \in DOMAIN s} = {Rt[k].id : k \in DOMAIN t}
  <2>1. ASSUME NEW k \in DOMAIN s PROVE Rs[k].id \in {Rt[m].id : m \in DOMAIN t}
    BY <1>3
  <2>2. ASSUME NEW m \in DOMAIN t PROVE Rt[m].id \in {Rs[k].id : k \in DOMAIN s}
    BY <1>1, <1>3
  <2> QED BY <2>1, <2>2
<1>8. ASSUME NEW i \in DOMAIN s PROVE FactClear(Rs, i, concepts, relations)
  <2>1. ~ \E j \in 1 .. (i - 1) : Rs[j].id = Rs[i].id
    BY <1>3, <1>5, <1>6
  <2>2. FactClear(Rt, h[i], concepts, relations) /\ Rs[i] = Rt[h[i]]
    BY <1>3, <1>4
  <2> QED BY <2>1, <2>2 DEF FactClear
<1>9. ASSUME NEW i \in DOMAIN s
      PROVE  /\ \E k \in DOMAIN s : Bs[i].fact = Rs[k].id
             /\ ~ \E j \in 1 .. (i - 1) : Bs[j].predicate = Bs[i].predicate
             /\ Rs[i].conditions \subseteq {Rs[k].id : k \in DOMAIN s}
  <2>1. ~ \E j \in 1 .. (i - 1) : Bs[j].predicate = Bs[i].predicate
    BY <1>3, <1>5, <1>6
  <2>2. PICK m \in DOMAIN t : Bt[h[i]].fact = Rt[m].id
    BY <1>3, <1>4
  <2>3. PICK k \in DOMAIN s : h[k] = m
    BY <1>1
  <2>4. Bs[i].fact = Rs[k].id
    BY <1>3, <2>2, <2>3
  <2>5. Rs[i].conditions \subseteq {Rt[k1].id : k1 \in DOMAIN t}
    BY <1>3, <1>4
  <2> QED BY <1>7, <2>1, <2>4, <2>5
<1> QED BY <1>3, <1>8, <1>9 DEF RegistryClear, Rs, Bs

-----------------------------------------------------------------------------
(* The lists of the packs are lists of concepts and of facts.               *)
AllConcepts == UNION {ToSet(pack.concepts) : pack \in PackPool}
AllFacts == UNION {ToSet(pack.facts) : pack \in PackPool}
ConceptLists(packs) == [i \in DOMAIN packs |-> packs[i].concepts]
FactLists(packs) == [i \in DOMAIN packs |-> packs[i].facts]

LEMMA ListsOfPacks ==
  ASSUME PoolAssumption, NEW packs \in Seq(PackPool)
  PROVE  /\ ConceptLists(packs) \in Seq(Seq(AllConcepts)) /\ ConceptsOf(packs) \in Seq(AllConcepts)
         /\ FactLists(packs) \in Seq(Seq(AllFacts)) /\ FactsOf(packs) \in Seq(AllFacts)
<1>1. ASSUME NEW pack \in PackPool
      PROVE  pack.concepts \in Seq(AllConcepts) /\ pack.facts \in Seq(AllFacts)
  <2>1. pack.concepts \in Seq(ToSet(pack.concepts)) /\ pack.facts \in Seq(ToSet(pack.facts))
    BY DEF PoolAssumption
  <2>2. ToSet(pack.concepts) \subseteq AllConcepts /\ ToSet(pack.facts) \subseteq AllFacts
    BY DEF AllConcepts, AllFacts
  <2>3. \A A, B : A \subseteq B => Seq(A) \subseteq Seq(B)
    OBVIOUS
  <2> QED BY <2>1, <2>2, <2>3
<1>2. DOMAIN packs = 1 .. Len(packs) /\ Len(packs) \in Nat /\ \A i \in 1 .. Len(packs) : packs[i] \in PackPool
  OBVIOUS
<1>3. /\ ConceptLists(packs) \in Seq(Seq(AllConcepts))
      /\ FactLists(packs) \in Seq(Seq(AllFacts))
  <2>1. ConceptLists(packs) \in [1 .. Len(packs) -> Seq(AllConcepts)]
    BY <1>1, <1>2 DEF ConceptLists
  <2>2. FactLists(packs) \in [1 .. Len(packs) -> Seq(AllFacts)]
    BY <1>1, <1>2 DEF FactLists
  <2>3. \A X : \A n \in Nat : \A f \in [1 .. n -> X] : f \in Seq(X)
    OBVIOUS
  <2> QED BY <1>2, <2>1, <2>2, <2>3, Zenon
<1>4. \A X : \A lists \in Seq(Seq(X)) : Gathered(lists) \in Seq(X)
  <2> SUFFICES ASSUME NEW X, NEW lists \in Seq(Seq(X)) PROVE Gathered(lists) \in Seq(X)
    OBVIOUS
  <2>1. Len(lists) \in Nat /\ \A i \in 1 .. Len(lists) : lists[i] \in Seq(X)
    OBVIOUS
  <2> QED BY <2>1, GatheredIsLaid
<1>5. ConceptsOf(packs) = Gathered(ConceptLists(packs)) /\ FactsOf(packs) = Gathered(FactLists(packs))
  BY DEF ConceptsOf, FactsOf, ConceptLists, FactLists
<1> QED BY <1>3, <1>4, <1>5

LEMMA PacksReordered ==
  ASSUME PoolAssumption, NEW packs \in Seq(PackPool), NEW p, Reorders(p, DOMAIN packs)
  PROVE  /\ Reordered(packs, p) \in Seq(PackPool)
         /\ DOMAIN Reordered(packs, p) = DOMAIN packs
         /\ ToSet(Reordered(packs, p)) = ToSet(packs)
         /\ Rearranges(ConceptsOf(Reordered(packs, p)), ConceptsOf(packs))
         /\ Rearranges(FactsOf(Reordered(packs, p)), FactsOf(packs))
<1> DEFINE D == DOMAIN packs
           other == Reordered(packs, p)
<1>1. D = 1 .. Len(packs) /\ Len(packs) \in Nat /\ \A i \in D : packs[i] \in PackPool
  OBVIOUS
<1>2. /\ p \in [D -> D] /\ \A i, j \in D : p[i] = p[j] => i = j
      /\ \A k \in D : \E i \in D : p[i] = k
  BY DEF Reorders
<1>3. other = [i \in D |-> packs[p[i]]]
  BY DEF Reordered
<1> HIDE DEF other
<1>4. /\ DOMAIN other = D /\ \A i \in D : other[i] = packs[p[i]] /\ other[i] \in PackPool
      /\ other \in Seq(PackPool)
  <2>1. DOMAIN other = D /\ \A i \in D : other[i] = packs[p[i]] /\ other[i] \in PackPool
    BY <1>1, <1>2, <1>3
  <2>2. other \in [1 .. Len(packs) -> PackPool]
    BY <1>1, <1>3, <2>1
  <2> QED BY <1>1, <2>1, <2>2
<1> HIDE DEF D
<1>5. ToSet(other) = ToSet(packs)
  <2>1. ASSUME NEW i \in D PROVE \E k \in D : other[i] = packs[k]
    BY <1>2, <1>4
  <2>2. ASSUME NEW k \in D PROVE \E i \in D : packs[k] = other[i]
    BY <1>2, <1>4
  <2> QED BY <1>4, <2>1, <2>2 DEF ToSet, D
<1>6. Reordered(ConceptLists(packs), p) = ConceptLists(other)
  <2>1. Reordered(ConceptLists(packs), p) = [i \in D |-> ConceptLists(packs)[p[i]]]
    BY DEF Reordered, ConceptLists, D
  <2>2. \A i \in D : ConceptLists(packs)[p[i]] = other[i].concepts
    BY <1>2, <1>4 DEF ConceptLists, D
  <2>3. ConceptLists(other) = [i \in D |-> other[i].concepts]
    BY <1>4 DEF ConceptLists
  <2> QED BY <2>1, <2>2, <2>3
<1>7. Reordered(FactLists(packs), p) = FactLists(other)
  <2>1. Reordered(FactLists(packs), p) = [i \in D |-> FactLists(packs)[p[i]]]
    BY DEF Reordered, FactLists, D
  <2>2. \A i \in D : FactLists(packs)[p[i]] = other[i].facts
    BY <1>2, <1>4 DEF FactLists, D
  <2>3. FactLists(other) = [i \in D |-> other[i].facts]
    BY <1>4 DEF FactLists
  <2> QED BY <2>1, <2>2, <2>3
<1>8. /\ ConceptLists(packs) \in Seq(Seq(AllConcepts)) /\ FactLists(packs) \in Seq(Seq(AllFacts))
      /\ Reorders(p, DOMAIN ConceptLists(packs)) /\ Reorders(p, DOMAIN FactLists(packs))
  <2>1. DOMAIN ConceptLists(packs) = DOMAIN packs /\ DOMAIN FactLists(packs) = DOMAIN packs
    BY DEF ConceptLists, FactLists
  <2> QED BY <2>1, ListsOfPacks
<1>9. /\ Rearranges(Gathered(ConceptLists(other)), Gathered(ConceptLists(packs)))
      /\ Rearranges(Gathered(FactLists(other)), Gathered(FactLists(packs)))
  <2>1. Rearranges(Gathered(Reordered(ConceptLists(packs), p)), Gathered(ConceptLists(packs)))
    BY <1>8, GatheredRearranged
  <2>2. Rearranges(Gathered(Reordered(FactLists(packs), p)), Gathered(FactLists(packs)))
    BY <1>8, GatheredRearranged
  <2> QED BY <1>6, <1>7, <2>1, <2>2
<1>10. \A l : ConceptsOf(l) = Gathered(ConceptLists(l)) /\ FactsOf(l) = Gathered(FactLists(l))
  BY DEF ConceptsOf, FactsOf, ConceptLists, FactLists
<1> QED BY <1>4, <1>5, <1>9, <1>10 DEF D, other

(* A set of packs that loads in one order loads in any other.               *)
LEMMA ReorderedLoads ==
  ASSUME PoolAssumption, NEW packs \in Seq(PackPool), NEW p, Reorders(p, DOMAIN packs), Loads(packs)
  PROVE  Loads(Reordered(packs, p))
<1> DEFINE D == DOMAIN packs
           other == Reordered(packs, p)
<1>1. /\ other \in Seq(PackPool) /\ DOMAIN other = D /\ ToSet(other) = ToSet(packs)
      /\ Rearranges(ConceptsOf(other), ConceptsOf(packs))
      /\ Rearranges(FactsOf(other), FactsOf(packs))
  BY PacksReordered
<1>2. /\ p \in [D -> D] /\ \A i, j \in D : p[i] = p[j] => i = j
      /\ \A i \in D : other[i] = packs[p[i]]
  BY DEF Reorders, Reordered
<1>3. D = 1 .. Len(packs) /\ Len(packs) \in Nat
  OBVIOUS
<1> HIDE DEF other, D
<1>4. /\ ConceptsOf(other) \in Seq(AllConcepts) /\ FactsOf(other) \in Seq(AllFacts)
      /\ ConceptsOf(packs) \in Seq(AllConcepts) /\ FactsOf(packs) \in Seq(AllFacts)
  BY <1>1, ListsOfPacks
<1>5. other # << >>
  <2>1. packs # << >>
    BY DEF Loads
  <2>2. Len(packs) # 0
    BY <2>1
  <2>3. 1 \in D
    BY <1>3, <2>2
  <2> QED BY <1>1, <2>3
<1>6. \A i \in D : Sane(packs[i]) /\ \A j \in 1 .. (i - 1) : Apart(packs[j], packs[i])
  BY DEF Loads, D
<1>7. \A i, j \in D : i # j => Apart(packs[j], packs[i])
  <2>1. \A i, j \in D : i # j => i \in 1 .. (j - 1) \/ j \in 1 .. (i - 1)
    BY <1>3
  <2>2. \A a, b : Apart(a, b) => Apart(b, a)
    BY DEF Apart
  <2> QED BY <1>6, <2>1, <2>2, Zenon
<1>8. ASSUME NEW i \in D
      PROVE  Sane(other[i]) /\ \A j \in 1 .. (i - 1) : Apart(other[j], other[i])
  <2>1. Sane(other[i])
    BY <1>2, <1>6
  <2>2. ASSUME NEW j \in 1 .. (i - 1) PROVE Apart(other[j], other[i])
    <3>1. j \in D /\ j # i
      BY <1>3
    <3>2. p[j] \in D /\ p[i] \in D /\ p[j] # p[i]
      BY <1>2, <3>1
    <3> QED BY <1>2, <1>7, <3>1, <3>2
  <2> QED BY <2>1, <2>2
<1>9. ~ InConflict(ToSet(RecordsOf(FactsOf(other))))
  <2>1. Rearranges(RecordsOf(FactsOf(other)), RecordsOf(FactsOf(packs)))
    BY <1>1 DEF Rearranges, RecordsOf
  <2>2. ToSet(RecordsOf(FactsOf(other))) = ToSet(RecordsOf(FactsOf(packs)))
    BY <2>1, RearrangedMembers
  <2> QED BY <2>2 DEF Loads
<1>10. ~ ConceptFault(ConceptsOf(other))
  BY <1>1, <1>4, RearrangedConcepts DEF Loads
<1>11. RegistryClear(RecordsOf(FactsOf(other)), BindingsOf(FactsOf(other)),
                     IdsOf(ConceptsOf(other)), Relations)
  <2>1. ToSet(ConceptsOf(other)) = ToSet(ConceptsOf(packs))
    BY <1>1, RearrangedMembers
  <2>2. \A s : IdsOf(s) = {c.id : c \in ToSet(s)}
    BY DEF IdsOf, ToSet
  <2>3. IdsOf(ConceptsOf(other)) = IdsOf(ConceptsOf(packs))
    BY <2>1, <2>2
  <2>4. RegistryClear(RecordsOf(FactsOf(packs)), BindingsOf(FactsOf(packs)),
                      IdsOf(ConceptsOf(packs)), Relations)
    BY DEF Loads
  <2> QED BY <1>1, <1>4, <2>3, <2>4, RearrangedRegistry
<1> QED BY <1>1, <1>5, <1>8, <1>9, <1>10, <1>11 DEF Loads, other

-----------------------------------------------------------------------------
(* A phrase resolves by the set of the concepts, whatever their order.      *)
LEMMA ResolvesBySet ==
  ASSUME NEW s, NEW t, ToSet(s) = ToSet(t), NEW phrase
  PROVE  Resolve(s, phrase) = Resolve(t, phrase)
<1>1. \A alias : Register(s, alias) = Register(t, alias)
  BY DEF Register
<1>2. \A words : Spans(s, words) = Spans(t, words)
  BY <1>1 DEF Spans
<1>3. \A words : SpanOf(s, words) = SpanOf(t, words)
  BY <1>2 DEF SpanOf
<1>4. Matched(s, phrase) = Matched(t, phrase)
  BY <1>1, <1>3 DEF Matched
<1> QED BY <1>4 DEF Resolve

LEMMA ReorderedMeansTheSame ==
  ASSUME PoolAssumption, NEW packs \in Seq(PackPool), NEW p, Reorders(p, DOMAIN packs)
  PROVE  Meaning(Load(Reordered(packs, p))) = Meaning(Load(packs))
<1> DEFINE other == Reordered(packs, p)
           D == DOMAIN packs
<1>1. /\ other \in Seq(PackPool) /\ DOMAIN other = D /\ ToSet(other) = ToSet(packs)
      /\ Rearranges(ConceptsOf(other), ConceptsOf(packs))
      /\ Rearranges(FactsOf(other), FactsOf(packs))
  BY PacksReordered
<1>2. FactsOf(other) \in Seq(AllFacts) /\ FactsOf(packs) \in Seq(AllFacts)
  BY <1>1, ListsOfPacks
<1>3. Loads(other) => Loads(packs)
  <2> DEFINE back == [k \in D |-> CHOOSE i \in D : p[i] = k]
  <2>1. /\ p \in [D -> D] /\ \A i, j \in D : p[i] = p[j] => i = j
        /\ \A k \in D : \E i \in D : p[i] = k
        /\ \A i \in D : other[i] = packs[p[i]]
    BY DEF Reorders, Reordered
  <2>2. \A k \in D : back[k] \in D /\ p[back[k]] = k
    BY <2>1
  <2>3. \A i \in D : back[p[i]] = i
    BY <2>1, <2>2
  <2>4. back \in [D -> D]
    BY <2>2
  <2> HIDE DEF back, other
  <2>5. Reorders(back, DOMAIN other)
    BY <1>1, <2>1, <2>2, <2>3, <2>4 DEF Reorders
  <2>6. Reordered(other, back) = packs
    <3>1. Reordered(other, back) = [k \in D |-> other[back[k]]]
      BY <1>1 DEF Reordered
    <3>2. \A k \in D : other[back[k]] = packs[k]
      BY <2>1, <2>2
    <3>3. packs = [k \in D |-> packs[k]]
      OBVIOUS
    <3> QED BY <3>1, <3>2, <3>3
  <2>7. Loads(other) => Loads(Reordered(other, back))
    BY <1>1, <2>5, ReorderedLoads
  <2> QED BY <2>6, <2>7
<1>4. Loads(packs) => Loads(other)
  BY ReorderedLoads
<1> HIDE DEF other
<1>5. CASE Loads(packs)
  <2>1. Load(packs) = Loaded(packs) /\ Load(other) = Loaded(other)
    BY <1>1, <1>2, <1>4, <1>5, LoadTells
  <2>2. ToSet(ConceptsOf(other)) = ToSet(ConceptsOf(packs))
    BY <1>1, RearrangedMembers
  <2>3. \A phrase : Resolve(ConceptsOf(other), phrase) = Resolve(ConceptsOf(packs), phrase)
    BY <2>2, ResolvesBySet
  <2>4. Registered(RecordsOf(FactsOf(other)), BindingsOf(FactsOf(other)))
          = Registered(RecordsOf(FactsOf(packs)), BindingsOf(FactsOf(packs)))
    <3>1. /\ Rearranges(RecordsOf(FactsOf(other)), RecordsOf(FactsOf(packs)))
          /\ Rearranges(BindingsOf(FactsOf(other)), BindingsOf(FactsOf(packs)))
      BY <1>1 DEF Rearranges, RecordsOf, BindingsOf
    <3> QED BY <3>1, RearrangedMembers DEF Registered
  <2>5. Fingerprint(other) = Fingerprint(packs)
    BY <1>1 DEF Fingerprint
  <2>6. \A l : Meaning(Loaded(l)) =
               [ok |-> TRUE,
                registry |-> Registered(RecordsOf(FactsOf(l)), BindingsOf(FactsOf(l))),
                fingerprint |-> Fingerprint(l),
                resolved |-> [phrase \in Phrases |-> Resolve(ConceptsOf(l), phrase)]]
    BY DEF Loaded, Meaning
  <2>7. [phrase \in Phrases |-> Resolve(ConceptsOf(other), phrase)]
          = [phrase \in Phrases |-> Resolve(ConceptsOf(packs), phrase)]
    BY <2>3
  <2>8. Meaning(Loaded(other)) = Meaning(Loaded(packs))
    BY <2>4, <2>5, <2>6, <2>7, Zenon
  <2> QED BY <2>1, <2>8, Zenon DEF other
<1>6. CASE ~ Loads(packs)
  <2>1. PICK a : a # "ok" /\ Load(packs) = RefusedWorld(a)
    BY <1>2, <1>6, LoadTells
  <2>2. PICK b : b # "ok" /\ Load(other) = RefusedWorld(b)
    BY <1>1, <1>2, <1>3, <1>6, LoadTells
  <2>3. \A why : why # "ok" =>
          Meaning(RefusedWorld(why)) =
            [ok |-> FALSE, registry |-> Registered(<< >>, << >>), fingerprint |-> {},
             resolved |-> [phrase \in Phrases |-> Resolve(<< >>, phrase)]]
    BY DEF RefusedWorld, Meaning
  <2>4. Meaning(RefusedWorld(a)) = Meaning(RefusedWorld(b))
    BY <2>1, <2>2, <2>3, Zenon
  <2> QED BY <2>1, <2>2, <2>4, Zenon DEF other
<1> QED BY <1>5, <1>6 DEF other

-----------------------------------------------------------------------------
PacksInv == active \in Seq(PackPool) /\ world = Load(active)

LEMMA PacksInitially == PacksInit => PacksInv
  BY DEF PacksInit, PacksInv

LEMMA PacksStep == PacksInv /\ [PacksNext]_packVars => PacksInv'
  BY DEF PacksInv, PacksNext, Activate, packVars

(***************************************************************************)
(* In whatever order the packs of a set are listed, it is accepted or      *)
(* refused alike, holds the same facts, is traced by the same fingerprint  *)
(* and resolves every phrase to the same concept.                          *)
(***************************************************************************)
THEOREM OrderDecidesNothing == ASSUME PoolAssumption PROVE PacksSpec => []LoadIsOrderFree
<1>1. PacksInv => LoadIsOrderFree
  <2> SUFFICES ASSUME PacksInv, NEW order \in Orders(active)
               PROVE  Meaning(Load(order)) = Meaning(world)
    BY DEF LoadIsOrderFree
  <2> DEFINE D == DOMAIN active
  <2>1. active \in Seq(PackPool) /\ world = Load(active) /\ D = 1 .. Len(active) /\ Len(active) \in Nat
    BY DEF PacksInv
  <2>2. PICK p \in [D -> D] : ToSet(p) = D /\ order = [i \in D |-> active[p[i]]]
    BY DEF Orders
  <2> HIDE DEF D
  <2>3. \A k \in D : \E i \in D : p[i] = k
    BY <2>2 DEF ToSet
  <2>4. IsFiniteSet(D)
    <3>1. 1 \in Int /\ Len(active) \in Int
      BY <2>1
    <3> QED BY <2>1, <3>1, FS_Interval, Zenon
  <2>5. p \in Surjection(D, D)
    BY <2>2, <2>3 DEF Surjection
  <2>6. p \in Injection(D, D)
    BY <2>4, <2>5, FS_Surjection, Zenon
  <2>7. Reorders(p, D)
    BY <2>2, <2>3, <2>6 DEF Reorders, Injection, IsInjective
  <2>8. order = Reordered(active, p)
    BY <2>2 DEF Reordered, D
  <2> QED BY <2>1, <2>7, <2>8, ReorderedMeansTheSame DEF D
<1>2. QED
  BY <1>1, PacksInitially, PacksStep, PTL DEF PacksSpec

-----------------------------------------------------------------------------
(* The best of a set of spans, and what more concepts do to the spans.      *)
LEMMA LongestIsBest ==
  ASSUME NEW L \in Nat, NEW spans, spans \subseteq (1 .. L) \X (0 .. L), spans # {}
  PROVE  /\ Longest(spans) \in spans
         /\ \A y \in spans : \/ Longest(spans)[1] > y[1]
                             \/ Longest(spans)[1] = y[1] /\ Longest(spans)[2] <= y[2]
<1>1. \A x \in spans : x[1] \in 1 .. L /\ x[2] \in 0 .. L
  OBVIOUS
<1> DEFINE gaps == {L - x[1] : x \in spans}
<1>2. PICK gap \in gaps : \A w \in gaps : gap <= w
  <2>1. gaps \subseteq Nat /\ gaps # {}
    BY <1>1
  <2> HIDE DEF gaps
  <2> QED BY <2>1, FirstOfPositions
<1>3. PICK x0 \in spans : gap = L - x0[1]
  BY <1>2
<1>4. ASSUME NEW y \in spans PROVE y[1] <= x0[1]
  <2>1. L - y[1] \in gaps
    OBVIOUS
  <2>2. gap <= L - y[1]
    BY <1>2, <2>1
  <2> QED BY <1>1, <1>3, <2>2
<1> DEFINE starts == {x[2] : x \in {z \in spans : z[1] = x0[1]}}
<1>5. PICK start \in starts : \A w \in starts : start <= w
  <2>1. starts \subseteq Nat /\ starts # {}
    BY <1>1, <1>3
  <2> HIDE DEF starts
  <2> QED BY <2>1, FirstOfPositions
<1>6. PICK x \in spans : x[1] = x0[1] /\ x[2] = start
  BY <1>5
<1>7. \A y \in spans : x[1] > y[1] \/ (x[1] = y[1] /\ x[2] <= y[2])
  BY <1>1, <1>4, <1>5, <1>6
<1> QED BY <1>7 DEF Longest

LEMMA WordsOfPhrases ==
  ASSUME PoolAssumption, NEW phrase \in Phrases
  PROVE  Normalize(phrase) \in Seq(DOMAIN LemmaOf)
<1> DEFINE lists == [i \in DOMAIN phrase |-> Fold[phrase[i]]]
           known == {w \in DOMAIN Fold : Fold[w] \in Seq(DOMAIN LemmaOf)}
<1>1. phrase \in Seq(known)
  BY DEF PoolAssumption
<1>2. /\ Len(phrase) \in Nat /\ DOMAIN phrase = 1 .. Len(phrase)
      /\ \A i \in 1 .. Len(phrase) : phrase[i] \in known
  BY <1>1
<1>3. lists \in [1 .. Len(phrase) -> Seq(DOMAIN LemmaOf)]
  BY <1>2
<1>4. Len(lists) \in Nat /\ \A i \in 1 .. Len(lists) : lists[i] \in Seq(DOMAIN LemmaOf)
  BY <1>2, <1>3
<1> HIDE DEF lists
<1>5. Gathered(lists) \in Seq(DOMAIN LemmaOf)
  BY <1>4, GatheredIsLaid
<1> QED BY <1>5 DEF Normalize, lists

Owners(concepts, words, span) ==
  Register(concepts, SubSeq(words, span[2] + 1, span[2] + span[1]))

LEMMA MoreConceptsMoreSpans ==
  ASSUME NEW s, NEW t, ToSet(s) \subseteq ToSet(t), NEW words, Len(words) \in Nat, SpanOf(s, words) # << >>
  PROVE  LET x == SpanOf(s, words)
             y == SpanOf(t, words)
         IN  /\ y # << >>
             /\ Owners(s, words, x) \subseteq Owners(t, words, x)
             /\ x = y \/ y[1] > x[1] \/ (y[1] = x[1] /\ y[2] < x[2])
<1> DEFINE x == SpanOf(s, words)
           y == SpanOf(t, words)
           L == Len(words)
           X == Spans(s, words)
           Y == Spans(t, words)
<1>1. \A alias : Register(s, alias) \subseteq Register(t, alias)
  BY DEF Register
<1>2. X \subseteq Y /\ Y \subseteq (1 .. L) \X (0 .. L)
  BY <1>1 DEF Spans
<1>3. X # {} /\ x = Longest(X)
  BY DEF SpanOf
<1>4. Y # {} /\ y = Longest(Y)
  BY <1>2, <1>3 DEF SpanOf
<1> HIDE DEF x, y, X, Y
<1>5. x \in X
  BY <1>2, <1>3, LongestIsBest
<1>6. y \in Y /\ \A z \in Y : y[1] > z[1] \/ (y[1] = z[1] /\ y[2] <= z[2])
  BY <1>2, <1>4, LongestIsBest
<1>7. /\ y # << >>
      /\ y = <<y[1], y[2]>> /\ x = <<x[1], x[2]>>
      /\ x[1] \in 1 .. L /\ x[2] \in 0 .. L /\ y[1] \in 1 .. L /\ y[2] \in 0 .. L
  BY <1>2, <1>5, <1>6
<1>8. y[1] > x[1] \/ (y[1] = x[1] /\ y[2] <= x[2])
  BY <1>2, <1>5, <1>6
<1>9. x = y \/ y[1] > x[1] \/ (y[1] = x[1] /\ y[2] < x[2])
  <2>1. CASE y[1] = x[1] /\ y[2] = x[2]
    BY <1>7, <2>1
  <2>2. CASE y[1] > x[1] \/ (y[1] = x[1] /\ y[2] < x[2])
    BY <2>2
  <2> QED BY <1>7, <1>8, <2>1, <2>2
<1>10. Owners(s, words, x) \subseteq Owners(t, words, x)
  BY <1>1 DEF Owners
<1> QED BY <1>7, <1>9, <1>10 DEF x, y

Lemmas(words) == [i \in DOMAIN words |-> LemmaOf[words[i]]]
Entry(concepts, pass, span, words) ==
  [pass |-> pass, length |-> span[1], start |-> span[2], owners |-> Owners(concepts, words, span)]

LEMMA MatchedIs ==
  ASSUME NEW concepts, NEW phrase
  PROVE  LET words == Normalize(phrase)
             direct == SpanOf(concepts, words)
             viaLemma == SpanOf(concepts, Lemmas(words))
         IN  Matched(concepts, phrase) =
               IF direct # << >> THEN Entry(concepts, 1, direct, words)
               ELSE IF viaLemma # << >> THEN Entry(concepts, 2, viaLemma, Lemmas(words))
               ELSE [pass |-> 3, length |-> 0, start |-> 0, owners |-> {}]
BY DEF Matched, Lemmas, Entry, Owners

LEMMA SingleOwners ==
  ASSUME NEW A, NEW B, Cardinality(A) = 1, Cardinality(B) = 1, A \subseteq B,
         IsFiniteSet(A), IsFiniteSet(B)
  PROVE  A = B
<1>1. (\E a : A = {a}) /\ (\E b : B = {b})
  BY FS_Singleton, Zenon
<1> QED BY <1>1

LEMMA OutrankedByMore ==
  ASSUME PoolAssumption, NEW s, NEW t, ToSet(s) \subseteq ToSet(t), NEW phrase \in Phrases,
         NEW was, was = Matched(s, phrase), NEW now, now = Matched(t, phrase),
         IsFiniteSet(was.owners), IsFiniteSet(now.owners),
         Cardinality(was.owners) = 1, Cardinality(now.owners) = 1, was.owners # now.owners
  PROVE  Outranks(now, was)
<1> DEFINE words == Normalize(phrase)
           lemmas == Lemmas(words)
<1>1. Len(words) \in Nat /\ Len(lemmas) \in Nat
  <2>1. words \in Seq(DOMAIN LemmaOf)
    BY WordsOfPhrases
  <2> HIDE DEF words
  <2>2. lemmas = [i \in 1 .. Len(words) |-> LemmaOf[words[i]]] /\ Len(words) \in Nat
    BY <2>1 DEF Lemmas
  <2> QED BY <2>2
<1>2. was = IF SpanOf(s, words) # << >> THEN Entry(s, 1, SpanOf(s, words), words)
            ELSE IF SpanOf(s, lemmas) # << >> THEN Entry(s, 2, SpanOf(s, lemmas), lemmas)
            ELSE [pass |-> 3, length |-> 0, start |-> 0, owners |-> {}]
  BY MatchedIs, Zenon
<1>3. now = IF SpanOf(t, words) # << >> THEN Entry(t, 1, SpanOf(t, words), words)
            ELSE IF SpanOf(t, lemmas) # << >> THEN Entry(t, 2, SpanOf(t, lemmas), lemmas)
            ELSE [pass |-> 3, length |-> 0, start |-> 0, owners |-> {}]
  BY MatchedIs, Zenon
<1> HIDE DEF words, lemmas
<1>4. ASSUME NEW of, Len(of) \in Nat, SpanOf(s, of) # << >>, NEW pass \in {1, 2},
             was = Entry(s, pass, SpanOf(s, of), of), now = Entry(t, pass, SpanOf(t, of), of)
      PROVE  Outranks(now, was)
  <2> DEFINE x == SpanOf(s, of)
             y == SpanOf(t, of)
  <2>1. /\ Owners(s, of, x) \subseteq Owners(t, of, x)
        /\ x = y \/ y[1] > x[1] \/ (y[1] = x[1] /\ y[2] < x[2])
    BY <1>4, MoreConceptsMoreSpans
  <2>2. /\ was.pass = pass /\ was.length = x[1] /\ was.start = x[2] /\ was.owners = Owners(s, of, x)
        /\ now.pass = pass /\ now.length = y[1] /\ now.start = y[2] /\ now.owners = Owners(t, of, y)
    BY <1>4 DEF Entry
  <2> HIDE DEF x, y
  <2>3. x # y
    <3> SUFFICES ASSUME x = y PROVE FALSE
      OBVIOUS
    <3>1. was.owners \subseteq now.owners
      BY <2>1, <2>2
    <3>2. was.owners = now.owners
      BY <3>1, SingleOwners
    <3> QED BY <3>2
  <2> QED BY <2>1, <2>2, <2>3 DEF Outranks
<1>5. CASE SpanOf(s, words) # << >>
  <2>1. SpanOf(t, words) # << >>
    BY <1>1, <1>5, MoreConceptsMoreSpans
  <2> QED BY <1>1, <1>2, <1>3, <1>4, <1>5, <2>1
<1>6. CASE SpanOf(s, words) = << >> /\ SpanOf(s, lemmas) # << >>
  <2>1. SpanOf(t, lemmas) # << >>
    BY <1>1, <1>6, MoreConceptsMoreSpans
  <2>2. was = Entry(s, 2, SpanOf(s, lemmas), lemmas)
    BY <1>2, <1>6
  <2>3. CASE SpanOf(t, words) # << >>
    <3>1. now = Entry(t, 1, SpanOf(t, words), words)
      BY <1>3, <2>3
    <3>2. now.pass = 1 /\ was.pass = 2
      BY <2>2, <3>1 DEF Entry
    <3> QED BY <3>2 DEF Outranks
  <2>4. CASE SpanOf(t, words) = << >>
    <3>1. now = Entry(t, 2, SpanOf(t, lemmas), lemmas)
      BY <1>3, <2>1, <2>4
    <3> QED BY <1>1, <1>4, <1>6, <2>2, <3>1
  <2> QED BY <2>3, <2>4
<1>7. CASE SpanOf(s, words) = << >> /\ SpanOf(s, lemmas) = << >>
  <2>1. was.owners = {}
    BY <1>2, <1>7
  <2>2. Cardinality({}) = 0
    BY FS_EmptySet
  <2> QED BY <2>1, <2>2
<1> QED BY <1>5, <1>6, <1>7

(* A set of owners is finite: concepts come in lists.                       *)
LEMMA OwnersAreFinite ==
  ASSUME NEW S, NEW concepts \in Seq(S), NEW phrase
  PROVE  IsFiniteSet(Matched(concepts, phrase).owners)
<1>1. ASSUME NEW alias PROVE IsFiniteSet(Register(concepts, alias))
  <2> DEFINE owning == {i \in 1 .. Len(concepts) :
                          alias \in {Normalize(a) : a \in {concepts[i].lemma} \cup concepts[i].aliases}
                                      \ {<< >>}}
             f == [i \in owning |-> concepts[i].id]
  <2>1. Len(concepts) \in Nat /\ DOMAIN concepts = 1 .. Len(concepts)
    OBVIOUS
  <2>2. IsFiniteSet(1 .. Len(concepts))
    <3>1. 1 \in Int /\ Len(concepts) \in Int
      BY <2>1
    <3> QED BY <3>1, FS_Interval, Zenon
  <2>3. IsFiniteSet(owning)
    <3>1. owning \subseteq 1 .. Len(concepts)
      OBVIOUS
    <3> HIDE DEF owning
    <3> QED BY <2>2, <3>1, FS_Subset, Zenon
  <2>4. Register(concepts, alias) = {f[i] : i \in owning}
    BY <2>1 DEF Register, ToSet
  <2> HIDE DEF f
  <2>5. f \in Surjection(owning, Register(concepts, alias))
    <3>1. \A i \in owning : f[i] \in Register(concepts, alias)
      BY <2>4
    <3>2. f = [i \in owning |-> f[i]]
      BY DEF f
    <3>3. \A y \in Register(concepts, alias) : \E i \in owning : f[i] = y
      BY <2>4
    <3> HIDE DEF owning
    <3> QED BY <3>1, <3>2, <3>3 DEF Surjection
  <2> HIDE DEF owning
  <2> QED BY <2>3, <2>5, FS_Surjection, Zenon
<1>2. IsFiniteSet({})
  BY FS_EmptySet
<1> DEFINE words == Normalize(phrase)
           direct == SpanOf(concepts, words)
           viaLemma == SpanOf(concepts, Lemmas(words))
<1>3. Matched(concepts, phrase) =
        IF direct # << >> THEN Entry(concepts, 1, direct, words)
        ELSE IF viaLemma # << >> THEN Entry(concepts, 2, viaLemma, Lemmas(words))
        ELSE [pass |-> 3, length |-> 0, start |-> 0, owners |-> {}]
  BY MatchedIs, Zenon
<1> HIDE DEF words, direct, viaLemma
<1>4. \A pass, span, of : Entry(concepts, pass, span, of).owners = Owners(concepts, of, span)
  BY DEF Entry
<1>5. \A of, span : IsFiniteSet(Owners(concepts, of, span))
  BY <1>1 DEF Owners
<1> QED BY <1>2, <1>3, <1>4, <1>5

(* What an accepted set means by its concepts is what its packs list, and   *)
(* one pack more adds its concepts to theirs.                               *)
LEMMA AcceptedConcepts ==
  ASSUME PoolAssumption, NEW packs \in Seq(PackPool), Load(packs).verdict = "ok"
  PROVE  Load(packs).concepts = ConceptsOf(packs) /\ ConceptsOf(packs) \in Seq(AllConcepts)
<1>1. ConceptsOf(packs) \in Seq(AllConcepts) /\ FactsOf(packs) \in Seq(AllFacts)
  BY ListsOfPacks
<1>2. Load(packs) = Loaded(packs)
  <2>1. \A why : RefusedWorld(why).verdict = why
    BY DEF RefusedWorld
  <2> QED BY <1>1, <2>1, LoadTells
<1>3. Loaded(packs).concepts = ConceptsOf(packs)
  BY DEF Loaded
<1> QED BY <1>1, <1>2, <1>3

LEMMA OnePackMore ==
  ASSUME PoolAssumption, NEW packs \in Seq(PackPool), NEW pack \in PackPool
  PROVE  ToSet(ConceptsOf(packs)) \subseteq ToSet(ConceptsOf(Append(packs, pack)))
<1> DEFINE more == Append(packs, pack)
<1>1. /\ more \in Seq(PackPool) /\ Len(packs) \in Nat /\ Len(more) = Len(packs) + 1
      /\ DOMAIN packs = 1 .. Len(packs) /\ DOMAIN more = 1 .. (Len(packs) + 1)
      /\ \A i \in 1 .. Len(packs) : more[i] = packs[i]
  OBVIOUS
<1> HIDE DEF more
<1>2. ConceptLists(packs) \in Seq(Seq(AllConcepts)) /\ ConceptLists(more) \in Seq(Seq(AllConcepts))
  BY <1>1, ListsOfPacks
<1>3. /\ DOMAIN ConceptLists(packs) \subseteq DOMAIN ConceptLists(more)
      /\ \A i \in DOMAIN ConceptLists(packs) : ConceptLists(packs)[i] = ConceptLists(more)[i]
  BY <1>1 DEF ConceptLists
<1>4. ConceptsOf(packs) = Gathered(ConceptLists(packs)) /\ ConceptsOf(more) = Gathered(ConceptLists(more))
  BY DEF ConceptsOf, ConceptLists
<1>5. ToSet(ConceptsOf(packs)) = UNION {ToSet(ConceptLists(packs)[i]) : i \in DOMAIN ConceptLists(packs)}
  BY <1>2, <1>4, GatheredMembers
<1>6. ToSet(ConceptsOf(more)) = UNION {ToSet(ConceptLists(more)[i]) : i \in DOMAIN ConceptLists(more)}
  BY <1>1, <1>2, <1>4, GatheredMembers
<1> QED BY <1>3, <1>5, <1>6 DEF more

(***************************************************************************)
(* When activating one more pack turns a phrase from one concept to        *)
(* another, the new concept covers a better span of the phrase: the owners *)
(* of a shared alias only ever gain company.                               *)
(***************************************************************************)
THEOREM AliasesOnlyGainOwners ==
  ASSUME PoolAssumption PROVE PacksSpec => AliasesAreNotTakenOver
<1>1. PacksInv /\ [PacksNext]_packVars =>
        [\A p \in Phrases :
           LET was == Matched(world.concepts, p)
               now == Matched(world'.concepts, p)
           IN  /\ world.verdict = "ok" /\ world'.verdict = "ok"
               /\ Cardinality(was.owners) = 1 /\ Cardinality(now.owners) = 1
               /\ was.owners # now.owners
               => Outranks(now, was)]_packVars
  <2> SUFFICES ASSUME PacksInv, PacksNext, NEW p \in Phrases,
                      NEW was, was = Matched(world.concepts, p),
                      NEW now, now = Matched(world'.concepts, p),
                      world.verdict = "ok", world'.verdict = "ok",
                      Cardinality(was.owners) = 1, Cardinality(now.owners) = 1,
                      was.owners # now.owners
               PROVE  Outranks(now, was)
    BY DEF packVars
  <2>1. PICK pack \in PackPool : active' = Append(active, pack) /\ world' = Load(active')
    BY DEF PacksNext, Activate
  <2>2. active \in Seq(PackPool) /\ world = Load(active) /\ active' \in Seq(PackPool)
    BY <2>1 DEF PacksInv
  <2>3. /\ world.concepts = ConceptsOf(active) /\ ConceptsOf(active) \in Seq(AllConcepts)
        /\ world'.concepts = ConceptsOf(active') /\ ConceptsOf(active') \in Seq(AllConcepts)
    BY <2>1, <2>2, AcceptedConcepts
  <2>4. ToSet(ConceptsOf(active)) \subseteq ToSet(ConceptsOf(active'))
    BY <2>1, <2>2, OnePackMore
  <2>5. IsFiniteSet(was.owners) /\ IsFiniteSet(now.owners)
    BY <2>3, OwnersAreFinite
  <2> QED BY <2>3, <2>4, <2>5, OutrankedByMore
<1>2. QED
  BY <1>1, PacksInitially, PacksStep, PTL DEF PacksSpec, AliasesAreNotTakenOver

-----------------------------------------------------------------------------
(* ContentPlan and Observers.  Checks made of checks, and parts of a whole. *)
LEMMA FaultInTells ==
  ASSUME NEW faults, DOMAIN faults \subseteq Nat
  PROVE  FaultIn(faults) = "ok" <=> \A i \in DOMAIN faults : faults[i] = "ok"
<1> DEFINE list == [i \in DOMAIN faults |-> CheckOf(faults[i])]
<1>1. /\ DOMAIN list = DOMAIN faults
      /\ \A i \in DOMAIN faults : list[i][1] = (faults[i] # "ok") /\ list[i][2] = faults[i]
  BY DEF CheckOf
<1>2. FaultIn(faults) = FirstFault(list)
  BY DEF FaultIn
<1> HIDE DEF list
<1>3. FirstFault(list) = "ok" <=> \A i \in DOMAIN list : ~ list[i][1]
  <2>1. \A i \in DOMAIN list : list[i][1] => list[i][2] # "ok"
    BY <1>1
  <2> QED BY <1>1, <2>1, FirstFaultTells
<1> QED BY <1>1, <1>2, <1>3

LEMMA SingleFaultTells ==
  ASSUME NEW fault
  PROVE  /\ CheckOf(fault)[1] <=> fault # "ok"
         /\ CheckOf(fault)[1] => CheckOf(fault)[2] # "ok"
BY DEF CheckOf

-----------------------------------------------------------------------------
(* An audited profile has the facts of its table and one row per topic.     *)
LEMMA PassedRow ==
  ASSUME NEW rows, NEW i, RowFault(rows, i) = "ok"
  PROVE  \A j \in 1 .. i - 1 : rows[j].topic # rows[i].topic
<1> DEFINE row == rows[i]
           odd == row.columns \notin 7..8
           blank == \/ row.topic \in BlankText \/ row.predicate \in BlankWords
                    \/ ToSet(row.slots) \cap BlankText # {}
                    \/ row.thesis \in BlankWords \/ row.counterpoint \in BlankWords
           foreign == row.topic \notin Recognised
           beside == row.thesis[1] # row.topic
           again == \E j \in 1..(i - 1) : Refs(rows[j]) \cap Refs(row) # {}
           twice == \E j \in 1..(i - 1) : rows[j].topic = row.topic
           checks ==
             << <<odd, "columns">>, <<blank, "empty field">>,
                <<foreign, "topic is not recognised">>,
                <<beside, "thesis is not about its topic">>,
                <<again, "duplicate predicate">>, <<twice, "duplicate topic">> >>
<1>1. FirstFault(checks) = "ok"
  BY DEF RowFault
<1> HIDE DEF odd, blank, foreign, beside, again, twice
<1>2. DOMAIN checks = 1 .. 6 /\ (\A k \in 1 .. 6 : checks[k][2] # "ok") /\ checks[6][1] = twice
  OBVIOUS
<1> HIDE DEF checks
<1>3. ~ checks[6][1]
  BY <1>1, <1>2, FirstFaultTells
<1>4. ~ twice
  BY <1>2, <1>3, Zenon
<1> QED BY <1>4 DEF twice

LEMMA AuditedProfile ==
  ASSUME ProfileAssumption, NEW source \in Profiles, ParseProfile(source).fault = "ok"
  PROVE  /\ source.rows \in Seq(ToSet(source.rows))
         /\ ParseProfile(source).facts = source.facts
         /\ ParseProfile(source).entries =
              {ProfileEntry(source.rows[i], i) : i \in DOMAIN source.rows}
         /\ \A i, j \in DOMAIN source.rows : source.rows[i].topic = source.rows[j].topic => i = j
<1> DEFINE rows == source.rows
           n == Len(rows)
           faults == [i \in DOMAIN rows |-> RowFault(rows, i)]
           predicates == UNION {Refs(rows[i]) : i \in DOMAIN rows}
           short == Len(rows) # ProfileSize
           loose == Cardinality(source.facts.records) # Cardinality(predicates)
           bare == \E p \in predicates : SelectByPredicate(source.facts, p) # "ok"
           checks == << CheckOf(FaultIn(faults)), <<short, "number of topics">>,
                        <<loose, "number of facts">>, <<bare, "predicate without fact">> >>
<1>1. rows \in Seq(ToSet(rows)) /\ n \in Nat /\ DOMAIN rows = 1 .. n
  BY DEF ProfileAssumption
<1>2. ProfileFault(rows, source.facts) = FirstFault(checks)
  BY DEF ProfileFault
<1>3. /\ ProfileFault(rows, source.facts) = "ok"
      /\ ParseProfile(source).facts = source.facts
      /\ ParseProfile(source).entries = {ProfileEntry(rows[i], i) : i \in DOMAIN rows}
  BY DEF ParseProfile
<1>4. \A i \in 1 .. n : RowFault(rows, i) = "ok"
  <2> HIDE DEF short, loose, bare
  <2>1. /\ DOMAIN checks = 1 .. 4 /\ checks[1] = CheckOf(FaultIn(faults))
        /\ \A k \in 2 .. 4 : checks[k][2] # "ok"
    OBVIOUS
  <2> HIDE DEF checks
  <2>2. \A k \in 1 .. 4 : checks[k][1] => checks[k][2] # "ok"
    BY <2>1, SingleFaultTells
  <2>3. ~ CheckOf(FaultIn(faults))[1]
    <3>1. FirstFault(checks) = "ok"
      BY <1>2, <1>3
    <3>2. ~ checks[1][1]
      BY <2>1, <2>2, <3>1, FirstFaultTells
    <3> QED BY <2>1, <3>2
  <2>4. FaultIn(faults) = "ok" /\ DOMAIN faults = 1 .. n
    BY <1>1, <2>3, SingleFaultTells
  <2>5. \A i \in 1 .. n : faults[i] = "ok"
    <3> HIDE DEF faults
    <3> QED BY <2>4, FaultInTells
  <2> QED BY <1>1, <2>5
<1>5. \A i \in 1 .. n : \A j \in 1 .. i - 1 : rows[j].topic # rows[i].topic
  BY <1>4, PassedRow
<1>6. \A i, j \in DOMAIN rows : rows[i].topic = rows[j].topic => i = j
  <2> SUFFICES ASSUME NEW i \in 1 .. n, NEW j \in 1 .. n, rows[i].topic = rows[j].topic, i # j
               PROVE  FALSE
    BY <1>1
  <2>1. i \in 1 .. j - 1 \/ j \in 1 .. i - 1
    BY <1>1
  <2> QED BY <1>5, <2>1
<1> QED BY <1>1, <1>3, <1>6

-----------------------------------------------------------------------------
(* A plan that is valid tells its claims apart, and each that is not an act *)
(* of the dialogue has its fact.                                           *)
LEMMA ValidClaim ==
  ASSUME NEW claims, NEW i, ClaimFault(claims, i) = "ok"
  PROVE  /\ claims[i].id # << >>
         /\ Declarative(claims[i]) => claims[i].fact # Missing
         /\ \A j \in 1 .. i - 1 : claims[j].id # claims[i].id
<1> DEFINE c == claims[i]
           unnamed == c.id = << >>
           empty == \E k \in DOMAIN c.refs : c.refs[k] = << >>
           certain == c.confidence > 10000
           bare == Declarative(c) /\ c.fact = Missing
           claiming == ~ Declarative(c) /\ c.fact # Missing
           twice == \E j \in 1..(i - 1) : claims[j].id = c.id
           checks == << <<unnamed, "empty claim id">>, <<empty, "empty predicate">>,
                        <<certain, "confidence">>, <<bare, "no fact">>,
                        <<claiming, "a dialogue act with a fact">>,
                        <<twice, "duplicate claim">> >>
<1>1. FirstFault(checks) = "ok"
  BY DEF ClaimFault
<1> HIDE DEF unnamed, empty, certain, bare, claiming, twice
<1>2. /\ DOMAIN checks = 1 .. 6 /\ \A k \in 1 .. 6 : checks[k][2] # "ok"
      /\ checks[1][1] = unnamed /\ checks[4][1] = bare /\ checks[6][1] = twice
  OBVIOUS
<1> HIDE DEF checks
<1>3. ~ checks[1][1] /\ ~ checks[4][1] /\ ~ checks[6][1]
  BY <1>1, <1>2, FirstFaultTells
<1>4. ~ unnamed /\ ~ bare /\ ~ twice
  BY <1>2, <1>3, Zenon
<1> QED BY <1>4 DEF unnamed, bare, twice

LEMMA ValidPlan ==
  ASSUME NEW p, NEW n \in Nat, DOMAIN p.claims = 1 .. n, Validate(p) = "ok"
  PROVE  \A i \in 1 .. n : /\ p.claims[i].id # << >>
                           /\ Declarative(p.claims[i]) => p.claims[i].fact # Missing
                           /\ \A j \in 1 .. i - 1 : p.claims[j].id # p.claims[i].id
<1> DEFINE ids == {p.claims[i].id : i \in DOMAIN p.claims}
           faults == [i \in DOMAIN p.claims |-> ClaimFault(p.claims, i)]
           many == Len(p.claims) > 3
           long == Len(p.derivation) > 8
           foreign == \E i \in DOMAIN p.derivation : p.derivation[i].claim \notin ids
           owed == p.obligation.act = "check agreement" /\ p.obligation.claim \notin ids
           checks == << <<many, "too many claims">>, CheckOf(FaultIn(faults)),
                        <<long, "too many steps">>, <<foreign, "foreign step">>,
                        <<owed, "foreign obligation">> >>
<1>1. FirstFault(checks) = "ok"
  BY DEF Validate
<1>2. \A i \in 1 .. n : ClaimFault(p.claims, i) = "ok"
  <2> HIDE DEF many, long, foreign, owed
  <2>1. /\ DOMAIN checks = 1 .. 5 /\ checks[2] = CheckOf(FaultIn(faults))
        /\ \A k \in {1, 3, 4, 5} : checks[k][2] # "ok"
    OBVIOUS
  <2> HIDE DEF checks
  <2>2. \A k \in 1 .. 5 : checks[k][1] => checks[k][2] # "ok"
    BY <2>1, SingleFaultTells
  <2>3. ~ checks[2][1]
    BY <1>1, <2>1, <2>2, FirstFaultTells
  <2>4. FaultIn(faults) = "ok" /\ DOMAIN faults = 1 .. n
    BY <2>1, <2>3, SingleFaultTells
  <2>5. \A i \in 1 .. n : faults[i] = "ok"
    <3> HIDE DEF faults
    <3> QED BY <2>4, FaultInTells
  <2> QED BY <2>5
<1> QED BY <1>2, ValidClaim

-----------------------------------------------------------------------------
(* The plan of an admitted topic: its claims are the statements of the      *)
(* topic, each of a role of its own.                                       *)
ArguedClaims(e) == [i \in DOMAIN e.statements |-> ArguedClaim(e, i)]
ArguedPlan(goal, e) ==
  [goal |-> goal, subject |-> [kind |-> "topic", of |-> e.topic],
   claims |-> ArguedClaims(e), relation |-> "counterpoint", sentences |-> Len(ArguedClaims(e)),
   obligation |-> [act |-> "check agreement", claim |-> ArguedClaims(e)[1].id],
   derivation |-> [i \in DOMAIN ArguedClaims(e) |->
                     DerivedStep(ArguedClaims(e)[i], ArguedClaims(e)[i].role)]]
Roles == <<"thesis", "counterpoint", "consequence">>
LEMMA RoleNames ==
  ASSUME NEW n \in {2, 3}, NEW i \in 1 .. n
  PROVE  Roles[i] # "dialogue act" /\ \A k \in 1 .. n : Roles[k] = Roles[i] => k = i
<1>1. Roles[1] = "thesis" /\ Roles[2] = "counterpoint" /\ Roles[3] = "consequence"
  BY DEF Roles
<1>2. \A k \in 1 .. n : k = 1 \/ k = 2 \/ k = 3
  OBVIOUS
<1> QED BY <1>1, <1>2

LEMMA EntryShape ==
  ASSUME NEW row, NEW place
  PROVE  LET e == ProfileEntry(row, place) IN
         \E n \in {2, 3} :
           /\ e.statements = [i \in 1 .. n |-> Statement(row, Roles[i])]
           /\ \A i \in 1 .. n : /\ e.statements[i].role = Roles[i]
                                /\ e.statements[i].says = row[Roles[i]]
                                /\ e.statements[i].fact = FactOf(Ref(row, Roles[i]))
           /\ e.topic = row.topic
<1> DEFINE e == ProfileEntry(row, place)
<1>1. PICK n \in {2, 3} : DOMAIN Kinds(row) = 1 .. n /\ \A i \in 1 .. n : Kinds(row)[i] = Roles[i]
  <2>1. CASE row.columns = 8 /\ row.consequence # << >>
    <3>1. Kinds(row) = Roles
      BY <2>1 DEF Kinds, Roles
    <3> QED BY <3>1 DEF Roles
  <2>2. CASE ~ (row.columns = 8 /\ row.consequence # << >>)
    <3>1. Kinds(row) = <<"thesis", "counterpoint">>
      BY <2>2 DEF Kinds
    <3> QED BY <3>1 DEF Roles
  <2> QED BY <2>1, <2>2
<1>2. e.statements = [k \in 1 .. n |-> Statement(row, Roles[k])] /\ e.topic = row.topic
  BY <1>1 DEF ProfileEntry
<1> QED BY <1>2 DEF Statement

LEMMA FallbackKind ==
  ASSUME NEW goal, NEW subject, NEW cause
  PROVE  FallbackPlan(goal, subject, cause).kind = "fallback"
BY DEF FallbackPlan

LEMMA ContractsHaveNoTopic ==
  ASSUME NEW goal, NEW subject, NEW predicate, NEW evidence, NEW rule, NEW obligation,
         subject.kind # "topic",
         BuildContractPlan(goal, subject, predicate, evidence, rule, obligation).kind = "ready"
  PROVE  BuildContractPlan(goal, subject, predicate, evidence, rule, obligation)
           .plan.subject.kind # "topic"
<1>1. PICK p : p.subject = subject
               /\ BuildContractPlan(goal, subject, predicate, evidence, rule, obligation) = Ready(p)
  BY DEF BuildContractPlan
<1>2. Ready(p) = [kind |-> "ready", plan |-> p]
  BY <1>1 DEF Ready, Failed
<1> QED BY <1>1, <1>2

LEMMA PlannedTopic ==
  ASSUME NEW p, NEW mode, NEW subject, NEW enough,
         BuildOutcome(p, mode, subject, enough).kind = "ready",
         BuildOutcome(p, mode, subject, enough).plan.subject.kind = "topic"
  PROVE  LET e == CHOOSE x \in Admitted(p, subject) : TRUE
             argued == ArguedPlan(GoalForMode(mode), e)
         IN  /\ p.fault = "ok"
             /\ Admitted(p, subject) # {}
             /\ BuildOutcome(p, mode, subject, enough) = [kind |-> "ready", plan |-> argued]
             /\ Validate(argued) = "ok"
             /\ \A i \in DOMAIN e.statements : Select(p.facts, ArguedClaims(e)[i].fact) = "ok"
<1> DEFINE e == CHOOSE x \in Admitted(p, subject) : TRUE
           goal == GoalForMode(mode)
           argued == ArguedPlan(goal, e)
           result == BuildOutcome(p, mode, subject, enough)
<1>1. CASE ~ enough
  <2>1. CASE mode = "greeting"
    <3> DEFINE contact == [kind |-> "dialogue", of |-> "contact"]
    <3>1. contact.kind # "topic"
      OBVIOUS
    <3>2. result = BuildContractPlan(goal, contact, "contact", "system contract",
                                     "applied dialogue contract", "continue contact")
      BY <1>1, <2>1 DEF BuildOutcome
    <3> HIDE DEF contact, goal
    <3> QED BY <3>1, <3>2, ContractsHaveNoTopic
  <2>2. CASE mode # "greeting" /\ mode \in {"purpose", "world cause"} /\ subject \notin BlankText
    <3> DEFINE external == [kind |-> "external", of |-> subject]
    <3>1. external.kind # "topic"
      OBVIOUS
    <3>2. result = BuildContractPlan(goal, external, mode, "user input",
                                     "grounded external reference", "none")
      BY <1>1, <2>2 DEF BuildOutcome
    <3> HIDE DEF external, goal
    <3> QED BY <3>1, <3>2, ContractsHaveNoTopic
  <2>3. CASE /\ mode # "greeting"
             /\ ~ (mode \in {"purpose", "world cause"} /\ subject \notin BlankText)
    <3>1. result.kind = "fallback"
      <4>1. CASE subject \in BlankText
        <5>1. result = FallbackPlan(goal, "no topic", "no topic provided")
          BY <1>1, <2>3, <4>1 DEF BuildOutcome
        <5> QED BY <5>1, FallbackKind
      <4>2. CASE subject \notin BlankText
        <5>1. result = FallbackPlan(goal, "unresolved topic", "unknown topic")
          BY <1>1, <2>3, <4>2 DEF BuildOutcome
        <5> QED BY <5>1, FallbackKind
      <4> QED BY <4>1, <4>2
    <3> QED BY <3>1
  <2> QED BY <2>1, <2>2, <2>3
<1>2. CASE enough
  <2>1. p.fault = "ok"
    BY <1>2 DEF BuildOutcome, Failed
  <2>2. Admitted(p, subject) # {}
    BY <1>2, <2>1 DEF BuildOutcome, FallbackPlan
  <2>3. result = BuildArguedPlan(p, goal, e)
    BY <1>2, <2>1, <2>2 DEF BuildOutcome
  <2> DEFINE unselected == {i \in DOMAIN ArguedClaims(e) : Select(p.facts, ArguedClaims(e)[i].fact) # "ok"}
  <2>4. result = IF unselected # {} THEN Failed("fact")
                 ELSE IF ValidateWithFacts(argued, p.facts) # "ok"
                      THEN Failed(ValidateWithFacts(argued, p.facts)) ELSE Ready(argued)
    BY <2>3 DEF BuildArguedPlan, ArguedPlan, ArguedClaims
  <2> HIDE DEF argued, goal, e
  <2>5. unselected = {} /\ result = Ready(argued)
    BY <2>4 DEF Failed
  <2>6. Validate(argued) = "ok" /\ result = [kind |-> "ready", plan |-> argued]
    BY <2>5 DEF Ready, Failed
  <2>7. DOMAIN ArguedClaims(e) = DOMAIN e.statements
    BY DEF ArguedClaims
  <2> QED BY <2>1, <2>2, <2>5, <2>6, <2>7 DEF argued, goal, e
<1> QED BY <1>1, <1>2

LEMMA ArguedClaimFields ==
  ASSUME NEW e, NEW i
  PROVE  ArguedClaim(e, i).role = e.statements[i].role /\ ArguedClaim(e, i).fact = e.statements[i].fact
BY DEF ArguedClaim, Claim

(* n statements of the row, each with its role and its fact, and n claims   *)
(* that are told apart.                                                     *)
Argues(row, e, n) ==
  /\ e.topic = row.topic
  /\ e.statements = [i \in 1 .. n |-> Statement(row, Roles[i])]
  /\ ArguedClaims(e) = [i \in 1 .. n |-> ArguedClaim(e, i)]
  /\ \A i \in 1 .. n : /\ e.statements[i].role = Roles[i]
                       /\ e.statements[i].says = row[Roles[i]]
                       /\ ArguedClaims(e)[i].role = Roles[i]
                       /\ ArguedClaims(e)[i].fact = FactOf(Ref(row, Roles[i]))
                       /\ ArguedClaims(e)[i].fact # Missing
                       /\ ArguedClaims(e)[i].id # << >>
  /\ \A i, j \in 1 .. n : ArguedClaims(e)[i].id = ArguedClaims(e)[j].id => i = j

LEMMA ArguedShape ==
  ASSUME NEW row, NEW place, NEW goal, Validate(ArguedPlan(goal, ProfileEntry(row, place))) = "ok"
  PROVE  \E n \in {2, 3} : Argues(row, ProfileEntry(row, place), n)
<1> DEFINE e == ProfileEntry(row, place)
           claims == ArguedClaims(e)
           p == ArguedPlan(goal, e)
<1>1. PICK n \in {2, 3} :
        /\ e.statements = [i \in 1 .. n |-> Statement(row, Roles[i])]
        /\ \A i \in 1 .. n : /\ e.statements[i].role = Roles[i]
                             /\ e.statements[i].says = row[Roles[i]]
                             /\ e.statements[i].fact = FactOf(Ref(row, Roles[i]))
        /\ e.topic = row.topic
  BY EntryShape
<1> HIDE DEF e
<1>2. claims = [i \in 1 .. n |-> ArguedClaim(e, i)]
  BY <1>1 DEF ArguedClaims
<1>3. \A i \in 1 .. n : claims[i].role = Roles[i] /\ claims[i].fact = FactOf(Ref(row, Roles[i]))
  BY <1>1, <1>2, ArguedClaimFields
<1>4. p.claims = claims
  BY DEF ArguedPlan
<1>5. \A i \in 1 .. n : /\ claims[i].id # << >>
                        /\ Declarative(claims[i]) => claims[i].fact # Missing
                        /\ \A j \in 1 .. i - 1 : claims[j].id # claims[i].id
  <2>1. DOMAIN p.claims = 1 .. n /\ n \in Nat /\ Validate(p) = "ok"
    BY <1>2, <1>4 DEF e
  <2> HIDE DEF p, claims
  <2> QED BY <1>4, <2>1, ValidPlan
<1>6. \A i \in 1 .. n : Declarative(claims[i])
  <2> HIDE DEF claims, p
  <2>1. \A i \in 1 .. n : Roles[i] # "dialogue act"
    BY RoleNames
  <2> QED BY <1>3, <2>1 DEF Declarative
<1>7. \A i, j \in 1 .. n : claims[i].id = claims[j].id => i = j
  <2> SUFFICES ASSUME NEW i \in 1 .. n, NEW j \in 1 .. n, claims[i].id = claims[j].id, i # j
               PROVE  FALSE
    OBVIOUS
  <2>1. i \in 1 .. j - 1 \/ j \in 1 .. i - 1
    OBVIOUS
  <2> QED BY <1>5, <2>1
<1> HIDE DEF claims
<1>8. Argues(row, e, n)
  BY <1>1, <1>2, <1>3, <1>5, <1>6, <1>7 DEF Argues, claims
<1> QED BY <1>8 DEF e

(* Such a plan passes every check of the renderer.                         *)
LEMMA ArguedRoles ==
  ASSUME NEW row, NEW e, NEW n \in {2, 3}, Argues(row, e, n), NEW goal, NEW i \in 1 .. n
  PROVE  RoleFault(ArguedPlan(goal, e), e, i) = "ok"
<1> DEFINE p == ArguedPlan(goal, e)
           inRole == InRole(p, e.statements[i].role)
           claim == p.claims[CHOOSE k \in inRole : TRUE]
           expected == ArguedClaim(e, i)
           other == claim.proposition # expected.proposition
           refers == claim.refs # expected.refs
           checks == << <<other, "proposition">>, <<refers, "references">> >>
<1>1. p.claims = ArguedClaims(e)
  BY DEF ArguedPlan
<1>2. inRole = {i}
  <2>1. inRole = {k \in 1 .. n : ArguedClaims(e)[k].role = Roles[i]}
    <3>1. DOMAIN ArguedClaims(e) = 1 .. n /\ e.statements[i].role = Roles[i]
      BY DEF Argues
    <3> HIDE DEF p
    <3> QED BY <1>1, <3>1 DEF InRole
  <2>2. \A k \in 1 .. n : Roles[k] = Roles[i] => k = i
    BY RoleNames
  <2> HIDE DEF inRole
  <2> QED BY <2>1, <2>2 DEF Argues
<1>3. Cardinality(inRole) = 1 /\ (CHOOSE k \in inRole : TRUE) = i
  BY <1>2, FS_Singleton
<1>4. claim = expected
  <2>1. ArguedClaims(e)[i] = ArguedClaim(e, i)
    BY DEF Argues
  <2> HIDE DEF p, inRole
  <2> QED BY <1>1, <1>3, <2>1
<1>5. FirstFault(checks) = "ok"
  <2> HIDE DEF claim, expected
  <2>1. ~ other /\ ~ refers
    BY <1>4
  <2> HIDE DEF other, refers
  <2>2. DOMAIN checks = 1 .. 2 /\ checks[1][1] = other /\ checks[2][1] = refers
    OBVIOUS
  <2> HIDE DEF checks
  <2>3. \A k \in DOMAIN checks : ~ checks[k][1]
    BY <2>1, <2>2
  <2> QED BY <2>3 DEF FirstFault
<1>6. RoleFault(p, e, i) = IF Cardinality(inRole) # 1 THEN "not one claim of a role"
                           ELSE FirstFault(checks)
  BY DEF RoleFault
<1> QED BY <1>3, <1>5, <1>6

LEMMA ArguedRenders ==
  ASSUME NEW row, NEW e, NEW n \in {2, 3}, Argues(row, e, n), NEW goal,
         Validate(ArguedPlan(goal, e)) = "ok"
  PROVE  RenderFault(ArguedPlan(goal, e), e) = "ok"
<1> DEFINE p == ArguedPlan(goal, e)
           faults == [i \in DOMAIN e.statements |-> RoleFault(p, e, i)]
           more == Len(p.claims) # Len(e.statements)
           owing == \A i \in InRole(p, "thesis") :
                      p.obligation # [act |-> "check agreement", claim |-> p.claims[i].id]
           checks == << CheckOf(Validate(p)), CheckOf(FaultIn(faults)),
                        <<more, "unsupported role">>, <<owing, "obligation">> >>
<1>1. p.claims = [i \in 1 .. n |-> ArguedClaim(e, i)] /\ DOMAIN e.statements = 1 .. n
  BY DEF Argues, ArguedPlan
<1>2. FaultIn(faults) = "ok"
  <2>1. DOMAIN faults = 1 .. n /\ \A i \in 1 .. n : faults[i] = "ok"
    BY <1>1, ArguedRoles
  <2> HIDE DEF faults
  <2> QED BY <2>1, FaultInTells
<1>3. ~ more
  BY <1>1 DEF Argues
<1>4. ~ owing
  <2>1. p.obligation = [act |-> "check agreement", claim |-> p.claims[1].id]
    <3>1. /\ p.obligation = [act |-> "check agreement", claim |-> ArguedClaims(e)[1].id]
          /\ p.claims = ArguedClaims(e)
      BY DEF ArguedPlan
    <3> HIDE DEF p
    <3> QED BY <3>1
  <2>2. 1 \in InRole(p, "thesis")
    <3>1. p.claims = ArguedClaims(e) /\ DOMAIN p.claims = 1 .. n /\ 1 \in 1 .. n
      <4>1. p.claims = ArguedClaims(e)
        BY DEF ArguedPlan
      <4> HIDE DEF p
      <4> QED BY <1>1, <4>1
    <3>2. p.claims[1].role = "thesis"
      BY <3>1 DEF Argues, Roles
    <3> HIDE DEF p
    <3> QED BY <3>1, <3>2 DEF InRole
  <2> HIDE DEF p
  <2> QED BY <2>1, <2>2
<1> HIDE DEF more, owing, faults
<1>5. /\ DOMAIN checks = 1 .. 4 /\ checks[1] = CheckOf(Validate(p))
      /\ checks[2] = CheckOf(FaultIn(faults)) /\ checks[3][1] = more /\ checks[4][1] = owing
  OBVIOUS
<1> HIDE DEF checks, p
<1>6. \A k \in DOMAIN checks : ~ checks[k][1]
  <2>1. Validate(p) = "ok"
    BY DEF p
  <2>2. ~ checks[1][1] /\ ~ checks[2][1]
    BY <1>2, <1>5, <2>1, SingleFaultTells
  <2>3. ~ checks[3][1] /\ ~ checks[4][1]
    BY <1>3, <1>4, <1>5, Zenon
  <2> QED BY <1>5, <2>2, <2>3
<1>7. RenderFault(p, e) = FirstFault(checks)
  BY DEF RenderFault, checks, more, owing, faults
<1> QED BY <1>6, <1>7 DEF FirstFault, p

RepliesWith(s, row, n) ==
  /\ s.kind = "surface" /\ Len(s.sentences) = n + 1 /\ DOMAIN s.sentences = 1 .. n + 1
  /\ \A i \in 1 .. n : s.sentences[i] = <<Roles[i], row[Roles[i]]>>
  /\ s.sentences[n + 1][1] = "check"
Spoken(e) == [i \in DOMAIN e.statements |-> <<e.statements[i].role, e.statements[i].says>>]
LEMMA ArguedSurface ==
  ASSUME NEW p, NEW row, NEW e, NEW n \in {2, 3}, Argues(row, e, n), NEW goal,
         Validate(ArguedPlan(goal, e)) = "ok", Admitted(p, e.topic) # {},
         e = CHOOSE x \in Admitted(p, e.topic) : TRUE
  PROVE  RepliesWith(RenderAuditedPlan(p, ArguedPlan(goal, e)), row, n)
<1> DEFINE content == ArguedPlan(goal, e)
           last == <<"check", << >>>>
           sentences == Spoken(e) \o <<last>>
<1>1. content.subject.of = e.topic
  BY DEF ArguedPlan
<1>2. RenderFault(content, e) = "ok"
  BY ArguedRenders
<1> HIDE DEF content
<1>3. RenderAuditedPlan(p, content) = [kind |-> "surface", sentences |-> sentences]
  BY <1>1, <1>2 DEF RenderAuditedPlan, Spoken
<1>4. Spoken(e) = [i \in 1 .. n |-> <<Roles[i], row[Roles[i]]>>]
  BY DEF Spoken, Argues
<1>5. sentences = [i \in 1 .. n + 1 |-> IF i = n + 1 THEN last ELSE <<Roles[i], row[Roles[i]]>>]
  BY <1>4
<1>6. DOMAIN sentences = 1 .. n + 1 /\ Len(sentences) = n + 1
  <2> DEFINE body(i) == IF i = n + 1 THEN last ELSE <<Roles[i], row[Roles[i]]>>
  <2>1. sentences = [i \in 1 .. n + 1 |-> body(i)]
    BY <1>5
  <2> HIDE DEF sentences, body
  <2> QED BY <2>1
<1>7. /\ \A i \in 1 .. n : sentences[i] = <<Roles[i], row[Roles[i]]>>
      /\ sentences[n + 1] = last
  <2>1. n + 1 \in 1 .. n + 1 /\ \A i \in 1 .. n : i \in 1 .. n + 1 /\ i # n + 1
    OBVIOUS
  <2> HIDE DEF sentences, last
  <2> QED BY <1>5, <2>1
<1>8. last[1] = "check"
  OBVIOUS
<1> HIDE DEF sentences, last
<1> QED BY <1>3, <1>6, <1>7, <1>8 DEF content, RepliesWith

-----------------------------------------------------------------------------
(* Places that follow each other keep the members that stand there.        *)
LEMMA CountedUpTo ==
  ASSUME NEW a \in Nat \ {0}, NEW b \in Nat, a <= b + 1
  PROVE  Cardinality(a .. b) = b - a + 1
<1>1. a \in Int /\ b \in Int
  OBVIOUS
<1>2. Cardinality(a .. b) = IF a > b THEN 0 ELSE b - a + 1
  BY <1>1, FS_Interval
<1> QED BY <1>2

KeptInOrder(list, a, b) == AtPlaces(list, a .. b) = [k \in 1 .. b - a + 1 |-> list[a + k - 1]]
LEMMA ConsecutivePlaces ==
  ASSUME NEW list, NEW a \in Nat \ {0}, NEW b \in Nat, a <= b + 1
  PROVE  KeptInOrder(list, a, b)
<1> DEFINE places == a .. b
           at(k) == CHOOSE i \in places : Cardinality({j \in places : j < i}) = k - 1
<1>1. Cardinality(places) = b - a + 1
  BY CountedUpTo
<1>2. \A i \in places : Cardinality({j \in places : j < i}) = i - a
  <2> SUFFICES ASSUME NEW i \in places PROVE Cardinality({j \in places : j < i}) = i - a
    OBVIOUS
  <2>1. {j \in places : j < i} = a .. i - 1
    OBVIOUS
  <2>2. i - 1 \in Nat /\ a <= (i - 1) + 1
    OBVIOUS
  <2>3. Cardinality(a .. i - 1) = (i - 1) - a + 1
    BY <2>2, CountedUpTo
  <2>4. (i - 1) - a + 1 = i - a
    OBVIOUS
  <2> HIDE DEF places
  <2> QED BY <2>1, <2>3, <2>4
<1>3. ASSUME NEW k \in 1 .. b - a + 1 PROVE at(k) = a + k - 1
  <2>1. a + k - 1 \in places /\ Cardinality({j \in places : j < a + k - 1}) = k - 1
    <3>1. a + k - 1 \in places /\ (a + k - 1) - a = k - 1
      OBVIOUS
    <3> HIDE DEF places
    <3> QED BY <1>2, <3>1
  <2>2. \A i \in places : Cardinality({j \in places : j < i}) = k - 1 => i = a + k - 1
    <3> SUFFICES ASSUME NEW i \in places, Cardinality({j \in places : j < i}) = k - 1
                 PROVE  i = a + k - 1
      OBVIOUS
    <3>1. i - a = k - 1
      BY <1>2
    <3> QED BY <3>1
  <2> HIDE DEF places
  <2> QED BY <2>1, <2>2
<1>4. AtPlaces(list, places) = [k \in 1 .. b - a + 1 |-> list[at(k)]]
  <2> HIDE DEF places
  <2> QED BY <1>1 DEF AtPlaces
<1> HIDE DEF at
<1> QED BY <1>3, <1>4 DEF KeptInOrder

LEMMA SealedReceipt ==
  ASSUME NEW r, NEW digest, NEW f \in DOMAIN r, f # "digest"
  PROVE  Seal(r, "ok", digest)[f] = r[f]
BY DEF Seal

-----------------------------------------------------------------------------
(* What the debate observer makes of the claims of such a plan: an edge     *)
(* between the thesis and every other claim, and a score for each question. *)
ToldApart(claims, n) ==
  /\ claims = [i \in 1 .. n |-> claims[i]]
  /\ \A i \in 1 .. n : /\ claims[i].role = Roles[i] /\ claims[i].fact # Missing
                       /\ claims[i].id # << >>
  /\ \A i, j \in 1 .. n : claims[i].id = claims[j].id => i = j

LEMMA EdgesOfClaims ==
  ASSUME NEW n \in {2, 3}, NEW claims, ToldApart(claims, n)
  PROVE  EdgesFrom(claims) = [k \in 1 .. n - 1 |-> EdgeBetween(claims[1], claims[k + 1])]
<1> DEFINE theses == {i \in DOMAIN claims : claims[i].role = "thesis"}
           thesis == claims[CHOOSE i \in theses : \A j \in theses : i <= j]
           places == {i \in DOMAIN claims : /\ claims[i].role \in DOMAIN EdgeOf
                                            /\ claims[i].id # thesis.id}
           related == AtPlaces(claims, places)
<1>1. /\ DOMAIN claims = 1 .. n /\ 1 \in 1 .. n
      /\ \A i \in 1 .. n : claims[i].role = Roles[i] /\ (claims[i].id = claims[1].id => i = 1)
  BY DEF ToldApart
<1>2. Roles[1] = "thesis" /\ Roles[2] = "counterpoint" /\ Roles[3] = "consequence"
  BY DEF Roles
<1>3. \A i \in 1 .. n : i = 1 \/ i = 2 \/ i = 3
  OBVIOUS
<1>4. theses = {1}
  BY <1>1, <1>2, <1>3
<1>5. thesis = claims[1]
  <2>1. (CHOOSE i \in theses : \A j \in theses : i <= j) = 1
    BY <1>4
  <2> QED BY <2>1
<1>6. places = 2 .. n
  <2>1. DOMAIN EdgeOf = {"counterpoint", "consequence", "support"}
    BY DEF EdgeOf
  <2> HIDE DEF thesis
  <2>2. ASSUME NEW i PROVE i \in places <=> i \in 2 .. n
    <3>1. i \in places <=> i \in 1 .. n /\ Roles[i] \in DOMAIN EdgeOf /\ claims[i].id # claims[1].id
      BY <1>1, <1>5
    <3>2. CASE i = 1
      BY <3>1, <3>2
    <3>3. CASE i # 1
      <4>1. i \in 1 .. n <=> i \in 2 .. n
        BY <3>3
      <4>2. i \in 1 .. n => Roles[i] \in DOMAIN EdgeOf /\ claims[i].id # claims[1].id
        BY <1>1, <1>2, <1>3, <2>1, <3>3
      <4> HIDE DEF places
      <4> QED BY <3>1, <4>1, <4>2
    <3> QED BY <3>2, <3>3
  <2> HIDE DEF places
  <2> QED BY <2>2
<1>7. related = [k \in 1 .. n - 1 |-> claims[2 + k - 1]]
  <2>1. 2 \in Nat \ {0} /\ n \in Nat /\ 2 <= n + 1 /\ n - 2 + 1 = n - 1
    OBVIOUS
  <2>2. AtPlaces(claims, 2 .. n) = [k \in 1 .. n - 1 |-> claims[2 + k - 1]]
    <3>1. KeptInOrder(claims, 2, n)
      BY <2>1, ConsecutivePlaces
    <3> QED BY <2>1, <3>1 DEF KeptInOrder
  <2> HIDE DEF places
  <2> QED BY <1>6, <2>1, <2>2
<1>8. related = [k \in 1 .. n - 1 |-> claims[k + 1]]
  BY <1>7
<1>9. EdgesFrom(claims) = [i \in DOMAIN related |-> EdgeBetween(thesis, related[i])]
  <2>1. theses # {}
    BY <1>4
  <2> QED BY <2>1 DEF EdgesFrom
<1> HIDE DEF thesis, related
<1> QED BY <1>5, <1>8, <1>9

LEMMA EdgesOfRoles ==
  ASSUME NEW thesis, NEW claim
  PROVE  /\ claim.role = "counterpoint" =>
              EdgeBetween(thesis, claim) = [from |-> claim.id, to |-> thesis.id, kind |-> "counters"]
         /\ claim.role = "consequence" =>
              EdgeBetween(thesis, claim) = [from |-> thesis.id, to |-> claim.id, kind |-> "entails"]
<1>1. EdgeOf["counterpoint"] = "counters" /\ EdgeOf["consequence"] = "entails"
  BY DEF EdgeOf
<1> QED BY <1>1 DEF EdgeBetween

(* The edges of two claims or of three.                                    *)
Against(claims) == [from |-> claims[2].id, to |-> claims[1].id, kind |-> "counters"]
Following(claims) == [from |-> claims[1].id, to |-> claims[3].id, kind |-> "entails"]
LEMMA EdgesAre ==
  ASSUME NEW n \in {2, 3}, NEW claims, ToldApart(claims, n)
  PROVE  EdgesFrom(claims) =
           [k \in 1 .. n - 1 |-> IF k = 1 THEN Against(claims) ELSE Following(claims)]
<1>1. EdgeBetween(claims[1], claims[1 + 1]) = Against(claims)
  <2>1. claims[2].role = "counterpoint"
    BY DEF ToldApart, Roles
  <2> QED BY <2>1, EdgesOfRoles DEF Against
<1>2. ASSUME n = 3 PROVE EdgeBetween(claims[1], claims[2 + 1]) = Following(claims)
  <2>1. claims[3].role = "consequence"
    BY <1>2 DEF ToldApart, Roles
  <2> QED BY <2>1, EdgesOfRoles DEF Following
<1>3. \A k \in 1 .. n - 1 : k = 1 \/ (k = 2 /\ n = 3)
  <2>1. CASE n = 2
    BY <2>1
  <2>2. CASE n = 3
    BY <2>2
  <2> QED BY <2>1, <2>2
<1>4. \A k \in 1 .. n - 1 : EdgeBetween(claims[1], claims[k + 1]) =
                             IF k = 1 THEN Against(claims) ELSE Following(claims)
  BY <1>1, <1>2, <1>3
<1> DEFINE made(k) == EdgeBetween(claims[1], claims[k + 1])
           meant(k) == IF k = 1 THEN Against(claims) ELSE Following(claims)
<1>5. EdgesFrom(claims) = [k \in 1 .. n - 1 |-> made(k)]
  BY EdgesOfClaims
<1>6. \A k \in 1 .. n - 1 : made(k) = meant(k)
  BY <1>4
<1> HIDE DEF made, meant
<1>7. EdgesFrom(claims) = [k \in 1 .. n - 1 |-> meant(k)]
  BY <1>5, <1>6
<1> QED BY <1>7 DEF meant

LEMMA AllPlaces ==
  ASSUME NEW m \in Nat, NEW list
  PROVE  AtPlaces(list, 1 .. m) = [k \in 1 .. m |-> list[k]]
<1>1. 1 \in Nat \ {0} /\ m \in Nat /\ 1 <= m + 1
  OBVIOUS
<1>2. KeptInOrder(list, 1, m)
  BY <1>1, ConsecutivePlaces
<1>3. m - 1 + 1 = m /\ \A k \in 1 .. m : 1 + k - 1 = k
  OBVIOUS
<1> QED BY <1>2, <1>3 DEF KeptInOrder

LEMMA LastPlace ==
  ASSUME NEW list
  PROVE  AtPlaces(list, {2}) = [k \in 1 .. 1 |-> list[2]]
<1>1. 2 \in Nat \ {0} /\ 2 \in Nat /\ 2 <= 2 + 1
  OBVIOUS
<1>2. KeptInOrder(list, 2, 2)
  BY <1>1, ConsecutivePlaces
<1>3. 2 - 2 + 1 = 1 /\ (\A k \in 1 .. 1 : 2 + k - 1 = 2) /\ 2 .. 2 = {2}
  OBVIOUS
<1> QED BY <1>2, <1>3 DEF KeptInOrder

LEMMA NoPlaces ==
  ASSUME NEW list
  PROVE  AtPlaces(list, {}) = << >>
<1>1. Cardinality({}) = 0
  BY FS_EmptySet
<1> QED BY <1>1 DEF AtPlaces

(* A question of the rubric, its score and the m places it is answered on.  *)
Answers(a, question, score, m, v) ==
  a.dimension = question /\ a.score = score /\ a.evidence = [k \in 1 .. m |-> v[k]]

LEMMA EdgesOfKind ==
  ASSUME NEW n \in {2, 3}, NEW claims, ToldApart(claims, n),
         NEW edges, edges = EdgesFrom(claims)
  PROVE  /\ DOMAIN edges = 1 .. n - 1
         /\ {i \in DOMAIN edges : edges[i].kind = "counters"} = {1}
         /\ {i \in DOMAIN edges : edges[i].kind = "entails"} = IF n = 3 THEN {2} ELSE {}
         /\ edges[1] = Against(claims)
         /\ n = 3 => edges[2] = Following(claims)
<1>1. edges = [k \in 1 .. n - 1 |-> IF k = 1 THEN Against(claims) ELSE Following(claims)]
  BY EdgesAre
<1>2. Against(claims).kind = "counters" /\ Following(claims).kind = "entails"
  BY DEF Against, Following
<1>3. CASE n = 2
  <2>1. 1 .. n - 1 = {1}
    BY <1>3
  <2> QED BY <1>1, <1>2, <1>3, <2>1
<1>4. CASE n = 3
  <2>1. 1 .. n - 1 = {1, 2}
    BY <1>4
  <2> QED BY <1>1, <1>2, <1>4, <2>1
<1> QED BY <1>3, <1>4

RubricTells(rubric, claims, n, planned) ==
  /\ DOMAIN rubric = 1 .. 4 /\ Len(rubric) = 4
  /\ Answers(rubric[1], "clarity", 10000, 2, <<NodeRef(claims[1].id), planned>>)
  /\ Answers(rubric[2], "grounding", 10000, n,
             [k \in 1 .. n |-> [kind |-> "fact", of |-> claims[k].fact]])
  /\ Answers(rubric[3], "counterarguments", 10000, 1, <<NodeRef(claims[2].id)>>)
  /\ Answers(rubric[4], "consequences", IF n = 3 THEN 10000 ELSE 0, 1,
             IF n = 3 THEN <<NodeRef(claims[3].id)>> ELSE <<planned>>)

LEMMA RubricOfClaims ==
  ASSUME NEW n \in {2, 3}, NEW claims, ToldApart(claims, n), NEW route, NEW planned
  PROVE  RubricTells(Rubric(claims, EdgesFrom(claims), route, planned), claims, n, planned)
<1> DEFINE edges == EdgesFrom(claims)
           rubric == Rubric(claims, edges, route, planned)
           factual == {i \in DOMAIN claims : claims[i].fact # Missing}
           facts == AtPlaces(claims, factual)
           counters == AtPlaces(edges, {i \in DOMAIN edges : edges[i].kind = "counters"})
           entails == AtPlaces(edges, {i \in DOMAIN edges : edges[i].kind = "entails"})
           Or(evidence, other) == IF evidence = << >> THEN <<other>> ELSE evidence
           clear == [i \in 1 .. (IF claims = << >> THEN 0 ELSE 1) |-> NodeRef(claims[i].id)]
                    \o <<planned>>
           grounds == Or([i \in DOMAIN facts |-> [kind |-> "fact", of |-> facts[i].fact]], planned)
           against == Or([i \in DOMAIN counters |-> NodeRef(counters[i].from)], route)
           follows == Or([i \in DOMAIN entails |-> NodeRef(entails[i].to)], planned)
<1>1. /\ DOMAIN claims = 1 .. n /\ 1 \in 1 .. n /\ claims = [i \in 1 .. n |-> claims[i]]
      /\ \A i \in 1 .. n : claims[i].fact # Missing
  BY DEF ToldApart
<1>2. claims # << >> /\ factual = DOMAIN claims /\ factual = 1 .. n
  BY <1>1
<1>3. /\ DOMAIN edges = 1 .. n - 1
      /\ {i \in DOMAIN edges : edges[i].kind = "counters"} = {1}
      /\ {i \in DOMAIN edges : edges[i].kind = "entails"} = IF n = 3 THEN {2} ELSE {}
      /\ edges[1] = Against(claims)
      /\ n = 3 => edges[2] = Following(claims)
  BY EdgesOfKind
<1>4. facts = [k \in 1 .. n |-> claims[k]]
  <2>1. n \in Nat /\ facts = AtPlaces(claims, factual)
    OBVIOUS
  <2> HIDE DEF facts, factual
  <2> QED BY <1>2, <2>1, AllPlaces
<1> HIDE DEF edges
<1>5. counters = [k \in 1 .. 1 |-> edges[1]]
  <2>1. 1 .. 1 = {1} /\ 1 \in Nat
    OBVIOUS
  <2>2. AtPlaces(edges, 1 .. 1) = [k \in 1 .. 1 |-> edges[k]]
    BY <2>1, AllPlaces
  <2>3. counters = AtPlaces(edges, {1})
    BY <1>3
  <2> HIDE DEF counters
  <2> QED BY <2>1, <2>2, <2>3
<1>6. entails = IF n = 3 THEN [k \in 1 .. 1 |-> edges[2]] ELSE << >>
  <2>1. entails = AtPlaces(edges, IF n = 3 THEN {2} ELSE {})
    BY <1>3
  <2> HIDE DEF entails
  <2> QED BY <2>1, LastPlace, NoPlaces
<1>7. clear = [k \in 1 .. 2 |-> <<NodeRef(claims[1].id), planned>>[k]]
  <2> DEFINE first == [i \in 1 .. 1 |-> NodeRef(claims[i].id)]
  <2>1. clear = first \o <<planned>>
    BY <1>2
  <2>2. first = <<NodeRef(claims[1].id)>>
    OBVIOUS
  <2> HIDE DEF first, clear
  <2> QED BY <2>1, <2>2
<1>8. grounds = [k \in 1 .. n |-> [kind |-> "fact", of |-> claims[k].fact]]
  <2> DEFINE named == [i \in DOMAIN facts |-> [kind |-> "fact", of |-> facts[i].fact]]
  <2>1. named = [k \in 1 .. n |-> [kind |-> "fact", of |-> claims[k].fact]]
    <3> HIDE DEF facts
    <3> QED BY <1>4
  <2>2. DOMAIN named = 1 .. n /\ named # << >>
    <3> HIDE DEF named
    <3> QED BY <2>1
  <2>3. grounds = IF named = << >> THEN <<planned>> ELSE named
    OBVIOUS
  <2> HIDE DEF named, grounds
  <2> QED BY <2>1, <2>2, <2>3
<1>9. against = [k \in 1 .. 1 |-> <<NodeRef(claims[2].id)>>[k]]
  <2> DEFINE named == [i \in DOMAIN counters |-> NodeRef(counters[i].from)]
  <2>1. named = <<NodeRef(claims[2].id)>>
    <3>1. edges[1].from = claims[2].id
      BY <1>3 DEF Against
    <3> HIDE DEF counters
    <3> QED BY <1>5, <3>1
  <2>2. against = IF named = << >> THEN <<route>> ELSE named
    OBVIOUS
  <2> HIDE DEF named, against
  <2> QED BY <2>1, <2>2
<1>10. follows = [k \in 1 .. 1 |-> (IF n = 3 THEN <<NodeRef(claims[3].id)>> ELSE <<planned>>)[k]]
  <2> DEFINE named == [i \in DOMAIN entails |-> NodeRef(entails[i].to)]
  <2>1. n = 3 => named = <<NodeRef(claims[3].id)>>
    <3> SUFFICES ASSUME n = 3 PROVE named = <<NodeRef(claims[3].id)>>
      OBVIOUS
    <3>1. edges[2].to = claims[3].id
      BY <1>3 DEF Following
    <3> HIDE DEF entails
    <3> QED BY <1>6, <3>1
  <2>2. n # 3 => named = << >>
    <3> HIDE DEF entails
    <3> QED BY <1>6
  <2>3. follows = IF named = << >> THEN <<planned>> ELSE named
    OBVIOUS
  <2> HIDE DEF named, follows
  <2> QED BY <2>1, <2>2, <2>3
<1>11. rubric = << Assess("clarity", claims # << >>, clear),
                   Assess("grounding", claims # << >> /\ factual = DOMAIN claims, grounds),
                   Assess("counterarguments", counters # << >>, against),
                   Assess("consequences", entails # << >>, follows) >>
  BY DEF Rubric
<1>12. counters # << >> /\ (entails # << >> <=> n = 3)
  <2> HIDE DEF counters, entails
  <2> QED BY <1>5, <1>6
<1> HIDE DEF rubric, factual, counters, entails, clear, grounds, against, follows
<1>13. /\ DOMAIN rubric = 1 .. 4 /\ Len(rubric) = 4
       /\ rubric[1] = Assess("clarity", claims # << >>, clear)
       /\ rubric[2] = Assess("grounding", claims # << >> /\ factual = DOMAIN claims, grounds)
       /\ rubric[3] = Assess("counterarguments", counters # << >>, against)
       /\ rubric[4] = Assess("consequences", entails # << >>, follows)
  BY <1>11
<1>14. Answers(rubric[1], "clarity", 10000, 2, <<NodeRef(claims[1].id), planned>>)
  BY <1>2, <1>7, <1>13 DEF Assess, Answers
<1>15. Answers(rubric[2], "grounding", 10000, n,
               [k \in 1 .. n |-> [kind |-> "fact", of |-> claims[k].fact]])
  <2> DEFINE v == [k \in 1 .. n |-> [kind |-> "fact", of |-> claims[k].fact]]
  <2>1. grounds = [k \in 1 .. n |-> v[k]]
    BY <1>8
  <2> HIDE DEF v
  <2>2. claims # << >> /\ factual = DOMAIN claims
    BY <1>2
  <2>3. /\ rubric[2].dimension = "grounding" /\ rubric[2].evidence = grounds
        /\ rubric[2].score = 10000
    BY <1>13, <2>2 DEF Assess
  <2>4. Answers(rubric[2], "grounding", 10000, n, v)
    BY <2>1, <2>3 DEF Answers
  <2> QED BY <2>4 DEF v
<1>16. Answers(rubric[3], "counterarguments", 10000, 1, <<NodeRef(claims[2].id)>>)
  BY <1>9, <1>12, <1>13 DEF Assess, Answers
<1>17. Answers(rubric[4], "consequences", IF n = 3 THEN 10000 ELSE 0, 1,
               IF n = 3 THEN <<NodeRef(claims[3].id)>> ELSE <<planned>>)
  BY <1>10, <1>12, <1>13 DEF Assess, Answers
<1>18. RubricTells(rubric, claims, n, planned)
  BY <1>13, <1>14, <1>15, <1>16, <1>17 DEF RubricTells
<1> QED BY <1>18 DEF rubric, edges

-----------------------------------------------------------------------------

(* A score that is answered on something, and on nothing the receipt does   *)
(* not have, passes.                                                       *)
Sound(rubric, i, ids) ==
  LET a == rubric[i] IN
  /\ a.score \in {0, 10000} /\ Len(a.evidence) \in {1, 2, 3}
  /\ \A x \in ToSet(a.evidence) : x.kind = "node" => x.of \in ids
  /\ \A j \in 1 .. i - 1 : rubric[j].dimension # a.dimension

LEMMA ScorePasses ==
  ASSUME NEW rubric, NEW i, NEW ids, Sound(rubric, i, ids)
  PROVE  ScoreFault(rubric, i, ids) = "ok"
<1> DEFINE a == rubric[i]
           much == Len(a.evidence) > 32
           high == a.score > 10000
           bare == a.evidence = << >>
           again == \E j \in 1..(i - 1) : rubric[j].dimension = a.dimension
           unknown == \E x \in ToSet(a.evidence) : x.kind = "node" /\ x.of \notin ids
           checks == << <<much, "evidence">>, <<high, "score">>, <<bare, "no evidence">>,
                        <<again, "dimension">>, <<unknown, "unknown node">> >>
<1>1. Len(a.evidence) \in {1, 2, 3}
  BY DEF Sound
<1>2. a.score \in {0, 10000}
  BY DEF Sound
<1>3. ~ again /\ ~ unknown
  BY DEF Sound
<1>4. ~ much /\ ~ high /\ ~ bare
  <2>1. ~ much
    <3> DEFINE length == Len(a.evidence)
    <3>1. length \in {1, 2, 3}
      BY <1>1
    <3> HIDE DEF length
    <3>2. ~ (length > 32)
      BY <3>1
    <3> QED BY <3>2 DEF length
  <2>2. ~ high
    BY <1>2
  <2>3. ~ bare
    <3>1. Len(<< >>) \notin {1, 2, 3}
      OBVIOUS
    <3> QED BY <1>1, <3>1
  <2> QED BY <2>1, <2>2, <2>3
<1>5. ScoreFault(rubric, i, ids) = FirstFault(checks)
  BY DEF ScoreFault
<1> HIDE DEF much, high, bare, again, unknown
<1>6. /\ DOMAIN checks = 1 .. 5
      /\ checks[1][1] = much /\ checks[2][1] = high /\ checks[3][1] = bare
      /\ checks[4][1] = again /\ checks[5][1] = unknown
  OBVIOUS
<1> HIDE DEF checks, a
<1>7. \A k \in DOMAIN checks : ~ checks[k][1]
  <2>1. ~ checks[1][1] /\ ~ checks[2][1]
    BY <1>4, <1>6, Zenon
  <2>2. ~ checks[3][1]
    BY <1>4, <1>6, Zenon
  <2>3. ~ checks[4][1] /\ ~ checks[5][1]
    BY <1>3, <1>6, Zenon
  <2>4. \A k \in 1 .. 5 : k = 1 \/ k = 2 \/ k = 3 \/ k = 4 \/ k = 5
    OBVIOUS
  <2> QED BY <1>6, <2>1, <2>2, <2>3, <2>4
<1> QED BY <1>5, <1>7 DEF FirstFault

LEMMA RubricPasses ==
  ASSUME NEW n \in {2, 3}, NEW claims, ToldApart(claims, n), NEW rubric, NEW planned,
         RubricTells(rubric, claims, n, planned), planned.kind # "node"
  PROVE  \A i \in 1 .. 4 : ScoreFault(rubric, i, {claims[k].id : k \in 1 .. n}) = "ok"
<1> DEFINE ids == {claims[k].id : k \in 1 .. n}
           facts == [k \in 1 .. n |-> [kind |-> "fact", of |-> claims[k].fact]]
           last == IF n = 3 THEN <<NodeRef(claims[3].id)>> ELSE <<planned>>
           follows == IF n = 3 THEN 10000 ELSE 0
<1>1. /\ Answers(rubric[1], "clarity", 10000, 2, <<NodeRef(claims[1].id), planned>>)
      /\ Answers(rubric[2], "grounding", 10000, n, facts)
      /\ Answers(rubric[3], "counterarguments", 10000, 1, <<NodeRef(claims[2].id)>>)
      /\ Answers(rubric[4], "consequences", follows, 1, last)
  BY DEF RubricTells
<1>2. \A k \in 1 .. n : NodeRef(claims[k].id).of \in ids
  BY DEF NodeRef
<1>3. /\ rubric[1].dimension = "clarity" /\ rubric[2].dimension = "grounding"
      /\ rubric[3].dimension = "counterarguments" /\ rubric[4].dimension = "consequences"
      /\ \A i \in {1, 2, 3} : rubric[i].score = 10000
      /\ rubric[4].score = follows
  BY <1>1 DEF Answers
<1>4. Sound(rubric, 1, ids)
  <2> DEFINE v == <<NodeRef(claims[1].id), planned>>
  <2>1. \A k \in 1 .. 2 : v[k].kind = "node" => v[k].of \in ids
    BY <1>2
  <2>2. Len(rubric[1].evidence) = 2 /\ ToSet(rubric[1].evidence) = {v[k] : k \in 1 .. 2}
    BY <1>1 DEF Answers, ToSet
  <2> HIDE DEF v, ids
  <2> QED BY <1>3, <2>1, <2>2 DEF Sound
<1>5. Sound(rubric, 2, ids)
  <2>1. \A k \in 1 .. n : facts[k].kind # "node"
    OBVIOUS
  <2> HIDE DEF facts
  <2>2. Len(rubric[2].evidence) = n /\ ToSet(rubric[2].evidence) = {facts[k] : k \in 1 .. n}
    BY <1>1 DEF Answers, ToSet
  <2> HIDE DEF ids
  <2> QED BY <1>3, <2>1, <2>2 DEF Sound
<1>6. Sound(rubric, 3, ids)
  <2> DEFINE v == <<NodeRef(claims[2].id)>>
  <2>1. \A k \in 1 .. 1 : v[k].kind = "node" => v[k].of \in ids
    BY <1>2
  <2>2. Len(rubric[3].evidence) = 1 /\ ToSet(rubric[3].evidence) = {v[k] : k \in 1 .. 1}
    BY <1>1 DEF Answers, ToSet
  <2> HIDE DEF v, ids
  <2> QED BY <1>3, <2>1, <2>2 DEF Sound
<1>7. Sound(rubric, 4, ids)
  <2>1. \A k \in 1 .. 1 : last[k].kind = "node" => last[k].of \in ids
    <3>1. CASE n = 3
      BY <1>2, <3>1
    <3>2. CASE n # 3
      BY <3>2
    <3> QED BY <3>1, <3>2
  <2>2. follows \in {0, 10000}
    OBVIOUS
  <2> HIDE DEF last, follows
  <2>3. Len(rubric[4].evidence) = 1 /\ ToSet(rubric[4].evidence) = {last[k] : k \in 1 .. 1}
    BY <1>1 DEF Answers, ToSet
  <2> HIDE DEF ids
  <2> QED BY <1>3, <2>1, <2>2, <2>3 DEF Sound
<1>8. \A i \in 1 .. 4 : i = 1 \/ i = 2 \/ i = 3 \/ i = 4
  OBVIOUS
<1> HIDE DEF ids
<1>9. \A i \in 1 .. 4 : Sound(rubric, i, ids)
  BY <1>4, <1>5, <1>6, <1>7, <1>8
<1>10. \A i \in 1 .. 4 : ScoreFault(rubric, i, ids) = "ok"
  BY <1>9, ScorePasses
<1> QED BY <1>10 DEF ids

-----------------------------------------------------------------------------
(* The debate receipt of such a plan tells of its claims, and holds.        *)
PlannedReady == [kind |-> "outcome", of |-> <<"ready">>]
TellsOf(r, claims, n) ==
  /\ DOMAIN r.nodes = 1 .. n /\ Len(r.nodes) = n
  /\ \A i \in 1 .. n : r.nodes[i].id = claims[i].id /\ r.nodes[i].kind = claims[i].role
  /\ r.edges = EdgesFrom(claims)
  /\ RubricTells(r.rubric, claims, n, PlannedReady)
KeepsOrder(r, claims, n) ==
  /\ r.version = 1 /\ r.topic # << >>
  /\ DOMAIN r.ledger = 1 .. n /\ Len(r.ledger) = n
  /\ \A i \in 1 .. n : r.ledger[i].sequence = i - 1 /\ r.ledger[i].node = claims[i].id

LEMMA ArguedClaimsApart ==
  ASSUME NEW row, NEW e, NEW n \in {2, 3}, Argues(row, e, n)
  PROVE  ToldApart(ArguedClaims(e), n)
<1>1. ArguedClaims(e) = [i \in 1 .. n |-> ArguedClaims(e)[i]]
  BY DEF Argues
<1> QED BY <1>1 DEF Argues, ToldApart

LEMMA ProjectedDebate ==
  ASSUME NEW goal, NEW e, NEW claims, claims = ArguedClaims(e),
         NEW n \in {2, 3}, ToldApart(claims, n),
         NEW result, result = [kind |-> "ready", plan |-> ArguedPlan(goal, e)],
         NEW mode, NEW family, NEW challenged
  PROVE  LET r == ProjectDebate(result, mode, family, challenged) IN
         /\ TellsOf(r, claims, n) /\ KeepsOrder(r, claims, n)
         /\ {"nodes", "edges", "rubric"} \subseteq DOMAIN r /\ "digest" \notin DOMAIN r
<1> DEFINE r == ProjectDebate(result, mode, family, challenged)
           route == [kind |-> "route", of |-> <<family>>]
           nodes == [i \in DOMAIN claims |-> [id |-> claims[i].id, kind |-> claims[i].role,
                                              participant |-> "system", fact |-> claims[i].fact]]
           ledger == [i \in DOMAIN claims |-> [sequence |-> i - 1, participant |-> "system",
                                               node |-> claims[i].id,
                                               polarity |-> PolarityOf(claims[i].role)]]
           rubric == Rubric(claims, EdgesFrom(claims), route, PlannedReady)
           topic == <<TopicLabel(result)>>
           move == DebateMove(mode, family, challenged)
<1>1. result.kind = "ready" /\ result.plan.claims = claims
  BY DEF ArguedPlan
<1>2. r = [version |-> 1, topic |-> topic, move |-> move, nodes |-> nodes,
           edges |-> EdgesFrom(claims), ledger |-> ledger, rubric |-> rubric]
  BY <1>1 DEF ProjectDebate, PlannedReady
<1>3. DOMAIN claims = 1 .. n
  BY DEF ToldApart
<1>4. /\ DOMAIN nodes = 1 .. n /\ Len(nodes) = n
      /\ \A i \in 1 .. n : nodes[i].id = claims[i].id /\ nodes[i].kind = claims[i].role
  BY <1>3
<1>5. /\ DOMAIN ledger = 1 .. n /\ Len(ledger) = n
      /\ \A i \in 1 .. n : ledger[i].sequence = i - 1 /\ ledger[i].node = claims[i].id
  BY <1>3
<1>6. RubricTells(rubric, claims, n, PlannedReady)
  BY RubricOfClaims
<1>7. topic # << >>
  OBVIOUS
<1> HIDE DEF r, nodes, ledger, rubric, topic, move
<1>8. /\ r.version = 1 /\ r.topic = topic /\ r.nodes = nodes /\ r.edges = EdgesFrom(claims)
      /\ r.ledger = ledger /\ r.rubric = rubric
      /\ {"nodes", "edges", "rubric"} \subseteq DOMAIN r /\ "digest" \notin DOMAIN r
  BY <1>2
<1>9. TellsOf(r, claims, n)
  BY <1>4, <1>6, <1>8 DEF TellsOf
<1>10. KeepsOrder(r, claims, n)
  BY <1>5, <1>7, <1>8 DEF KeepsOrder
<1> QED BY <1>8, <1>9, <1>10 DEF r

(* An edge is between the thesis and another claim.                        *)
LEMMA EdgesBetween ==
  ASSUME NEW n \in {2, 3}, NEW claims, ToldApart(claims, n)
  PROVE  /\ Len(EdgesFrom(claims)) = n - 1
         /\ \A edge \in ToSet(EdgesFrom(claims)) :
              \/ edge = Against(claims) \/ (n = 3 /\ edge = Following(claims))
<1> DEFINE told(k) == IF k = 1 THEN Against(claims) ELSE Following(claims)
<1>1. EdgesFrom(claims) = [k \in 1 .. n - 1 |-> told(k)]
  BY EdgesAre
<1>2. ASSUME NEW k \in 1 .. n - 1
      PROVE  \/ told(k) = Against(claims)
             \/ n = 3 /\ told(k) = Following(claims)
  <2>1. CASE k = 1
    BY <2>1
  <2>2. CASE k # 1
    <3>1. n = 3 /\ told(k) = Following(claims)
      BY <2>2
    <3> QED BY <3>1
  <2> QED BY <2>1, <2>2
<1>3. n - 1 \in Nat
  OBVIOUS
<1> HIDE DEF told
<1>4. Len(EdgesFrom(claims)) = n - 1
  BY <1>1, <1>3
<1>5. ASSUME NEW edge \in ToSet(EdgesFrom(claims))
      PROVE  edge = Against(claims) \/ (n = 3 /\ edge = Following(claims))
  <2>1. PICK k \in 1 .. n - 1 : edge = told(k)
    BY <1>1 DEF ToSet
  <2> QED BY <1>2, <2>1
<1> QED BY <1>4, <1>5

LEMMA DebateHolds ==
  ASSUME NEW n \in {2, 3}, NEW claims, ToldApart(claims, n), NEW r,
         TellsOf(r, claims, n), KeepsOrder(r, claims, n)
  PROVE  DebateFault(r) = "ok"
<1> DEFINE ids == {r.nodes[i].id : i \in DOMAIN r.nodes}
           Edges == ToSet(r.edges)
           faults == [i \in DOMAIN r.rubric |-> ScoreFault(r.rubric, i, ids)]
           old == r.version # 1
           untold == r.topic = << >>
           many == Len(r.nodes) > 16 \/ Len(r.edges) > 32 \/ Len(r.ledger) > 16 \/ Len(r.rubric) > 4
           empty == \E i \in DOMAIN r.nodes : r.nodes[i].id = << >>
           twice == Cardinality(ids) # Len(r.nodes)
           foreign == \E edge \in Edges : {edge.from, edge.to} \ ids # {}
           loop == \E edge \in Edges : edge.from = edge.to
           mixed == \E i \in DOMAIN r.ledger : \/ r.ledger[i].sequence # i - 1
                                               \/ r.ledger[i].node \notin ids
           checks == << <<old, "version">>, <<untold, "topic">>, <<many, "bound">>,
                        <<empty, "empty id">>, <<twice, "duplicate node">>,
                        <<foreign, "unknown node">>, <<loop, "self edge">>,
                        <<mixed, "ledger">>, CheckOf(FaultIn(faults)) >>
<1>1. ids = {claims[i].id : i \in 1 .. n}
  BY DEF TellsOf
<1>2. /\ \A i \in 1 .. n : claims[i].id # << >>
      /\ \A i, j \in 1 .. n : claims[i].id = claims[j].id => i = j
  BY DEF ToldApart
<1>3. ~ old /\ ~ untold
  BY DEF KeepsOrder
<1>4. ~ many
  <2>1. Len(r.nodes) = n /\ Len(r.edges) = n - 1 /\ Len(r.ledger) = n /\ Len(r.rubric) = 4
    BY EdgesBetween DEF TellsOf, KeepsOrder, RubricTells
  <2>2. ~ (n > 16) /\ ~ (n - 1 > 32) /\ ~ (4 > 4)
    OBVIOUS
  <2> QED BY <2>1, <2>2
<1>5. ~ empty
  BY <1>2 DEF TellsOf
<1>6. ~ twice
  <2> DEFINE named == [i \in 1 .. n |-> claims[i].id]
  <2>1. ExistsBijection(1 .. n, ids)
    <3>1. named \in [1 .. n -> ids] /\ \A i, j \in 1 .. n : named[i] = named[j] => i = j
      BY <1>1, <1>2
    <3>2. \A x \in ids : \E i \in 1 .. n : named[i] = x
      BY <1>1
    <3> HIDE DEF named, ids
    <3>3. named \in Bijection(1 .. n, ids)
      BY <3>1, <3>2 DEF Bijection, Injection, Surjection, IsInjective
    <3> QED BY <3>3 DEF ExistsBijection
  <2>2. IsFiniteSet(1 .. n) /\ Cardinality(1 .. n) = n
    <3>1. 1 \in Nat \ {0} /\ n \in Nat /\ 1 <= n + 1 /\ n - 1 + 1 = n /\ 1 \in Int /\ n \in Int
      OBVIOUS
    <3> QED BY <3>1, FS_Interval, CountedUpTo
  <2> HIDE DEF named, ids
  <2>3. Cardinality(ids) = n
    BY <2>1, <2>2, FS_Bijection
  <2> QED BY <2>3 DEF TellsOf
<1>7. ~ foreign /\ ~ loop
  <2>1. ASSUME NEW edge \in Edges
        PROVE  {edge.from, edge.to} \subseteq ids /\ edge.from # edge.to
    <3>1. edge = Against(claims) \/ (n = 3 /\ edge = Following(claims))
      BY EdgesBetween DEF TellsOf
    <3>2. CASE edge = Against(claims)
      <4>1. edge.from = claims[2].id /\ edge.to = claims[1].id
        BY <3>2 DEF Against
      <4>2. 1 \in 1 .. n /\ 2 \in 1 .. n /\ 1 # 2
        OBVIOUS
      <4> HIDE DEF ids
      <4> QED BY <1>1, <1>2, <4>1, <4>2
    <3>3. CASE n = 3 /\ edge = Following(claims)
      <4>1. edge.from = claims[1].id /\ edge.to = claims[3].id
        BY <3>3 DEF Following
      <4>2. 1 \in 1 .. n /\ 3 \in 1 .. n /\ 1 # 3
        BY <3>3
      <4> HIDE DEF ids
      <4> QED BY <1>1, <1>2, <4>1, <4>2
    <3> QED BY <3>1, <3>2, <3>3
  <2> HIDE DEF ids, Edges
  <2> QED BY <2>1
<1>8. ~ mixed
  <2>1. \A i \in DOMAIN r.ledger : r.ledger[i].sequence = i - 1 /\ r.ledger[i].node \in ids
    <3> HIDE DEF ids
    <3> QED BY <1>1 DEF KeepsOrder
  <2> HIDE DEF ids
  <2> QED BY <2>1
<1>9. FaultIn(faults) = "ok"
  <2>1. RubricTells(r.rubric, claims, n, PlannedReady) /\ PlannedReady.kind # "node"
    BY DEF TellsOf, PlannedReady
  <2>2. \A i \in 1 .. 4 : ScoreFault(r.rubric, i, ids) = "ok"
    <3>1. \A i \in 1 .. 4 : ScoreFault(r.rubric, i, {claims[k].id : k \in 1 .. n}) = "ok"
      BY <2>1, RubricPasses
    <3> HIDE DEF ids
    <3> QED BY <1>1, <3>1
  <2>3. DOMAIN faults = 1 .. 4 /\ \A i \in 1 .. 4 : faults[i] = "ok"
    <3> HIDE DEF ids
    <3> QED BY <2>1, <2>2 DEF RubricTells
  <2> HIDE DEF faults
  <2> QED BY <2>3, FaultInTells
<1>10. DebateFault(r) = FirstFault(checks)
  BY DEF DebateFault
<1> HIDE DEF old, untold, many, empty, twice, foreign, loop, mixed, faults
<1>11. /\ DOMAIN checks = 1 .. 9 /\ checks[9] = CheckOf(FaultIn(faults))
       /\ checks[1][1] = old /\ checks[2][1] = untold /\ checks[3][1] = many
       /\ checks[4][1] = empty /\ checks[5][1] = twice /\ checks[6][1] = foreign
       /\ checks[7][1] = loop /\ checks[8][1] = mixed
  OBVIOUS
<1> HIDE DEF checks
<1>12. \A k \in DOMAIN checks : ~ checks[k][1]
  <2>1. ~ checks[1][1] /\ ~ checks[2][1]
    BY <1>3, <1>11, Zenon
  <2>2. ~ checks[3][1] /\ ~ checks[4][1]
    BY <1>4, <1>5, <1>11, Zenon
  <2>3. ~ checks[5][1] /\ ~ checks[6][1]
    BY <1>6, <1>7, <1>11, Zenon
  <2>4. ~ checks[7][1] /\ ~ checks[8][1]
    BY <1>7, <1>8, <1>11, Zenon
  <2>5. ~ checks[9][1]
    BY <1>9, <1>11, SingleFaultTells
  <2>6. \A k \in 1 .. 9 : k \in 1 .. 8 \/ k = 9
    OBVIOUS
  <2>7. \A k \in 1 .. 8 : k = 1 \/ k = 2 \/ k = 3 \/ k = 4 \/ k = 5 \/ k = 6 \/ k = 7 \/ k = 8
    OBVIOUS
  <2> QED BY <1>11, <2>1, <2>2, <2>3, <2>4, <2>5, <2>6, <2>7
<1> QED BY <1>10, <1>12 DEF FirstFault

-----------------------------------------------------------------------------
(* A plan about a topic argues for the one row of that topic, with facts    *)
(* that can be selected.                                                   *)
RowFor(source, topic) == CHOOSE r \in ToSet(source.rows) : r.topic = topic
Argued(source, p, topic, result, goal, row, e, n) ==
  /\ row = RowFor(source, topic)
  /\ Argues(row, e, n) /\ Validate(ArguedPlan(goal, e)) = "ok"
  /\ result = [kind |-> "ready", plan |-> ArguedPlan(goal, e)]
  /\ Admitted(p, e.topic) # {} /\ e = CHOOSE x \in Admitted(p, e.topic) : TRUE
  /\ \A i \in 1 .. n : Select(p.facts, FactOf(Ref(row, Roles[i]))) = "ok"

LEMMA RowOfTopic ==
  ASSUME ProfileAssumption, NEW source \in Profiles, ParseProfile(source).fault = "ok",
         NEW topic, NEW e \in Admitted(ParseProfile(source), topic)
  PROVE  \E place : e = ProfileEntry(RowFor(source, topic), place) /\ e.topic = topic
<1> DEFINE rows == source.rows
<1>1. /\ ParseProfile(source).entries = {ProfileEntry(rows[i], i) : i \in DOMAIN rows}
      /\ \A i, j \in DOMAIN rows : rows[i].topic = rows[j].topic => i = j
  BY AuditedProfile
<1>2. PICK i \in DOMAIN rows : e = ProfileEntry(rows[i], i) /\ e.topic = topic
  BY <1>1 DEF Admitted
<1>3. rows[i].topic = topic
  BY <1>2 DEF ProfileEntry
<1>4. RowFor(source, topic) = rows[i]
  <2>1. rows[i] \in ToSet(rows)
    BY DEF ToSet
  <2>2. \A r \in ToSet(rows) : r.topic = topic => r = rows[i]
    BY <1>1, <1>3 DEF ToSet
  <2> QED BY <1>3, <2>1, <2>2 DEF RowFor
<1> QED BY <1>2, <1>4

LEMMA PlansArgue ==
  ASSUME ProfileAssumption, NEW source \in Profiles, NEW p, p = ParseProfile(source),
         NEW mode, NEW topic, NEW enough, NEW result, result = BuildOutcome(p, mode, topic, enough),
         result.kind = "ready", result.plan.subject.kind = "topic"
  PROVE  \E n \in {2, 3} : \E row, e : Argued(source, p, topic, result, GoalForMode(mode), row, e, n)
<1> DEFINE e == CHOOSE x \in Admitted(p, topic) : TRUE
           goal == GoalForMode(mode)
           row == RowFor(source, topic)
<1>1. /\ p.fault = "ok" /\ Admitted(p, topic) # {}
      /\ result = [kind |-> "ready", plan |-> ArguedPlan(goal, e)]
      /\ Validate(ArguedPlan(goal, e)) = "ok"
      /\ \A i \in DOMAIN e.statements : Select(p.facts, ArguedClaims(e)[i].fact) = "ok"
  BY PlannedTopic
<1>2. e \in Admitted(p, topic)
  BY <1>1
<1> HIDE DEF e, goal, row
<1>3. PICK place : e = ProfileEntry(row, place) /\ e.topic = topic
  <2>1. ParseProfile(source).fault = "ok" /\ e \in Admitted(ParseProfile(source), topic)
    BY <1>1, <1>2
  <2> QED BY <2>1, RowOfTopic DEF row
<1>4. PICK n \in {2, 3} : Argues(row, e, n)
  BY <1>1, <1>3, ArguedShape
<1>5. \A i \in 1 .. n : Select(p.facts, FactOf(Ref(row, Roles[i]))) = "ok"
  BY <1>1, <1>4 DEF Argues
<1>6. Argued(source, p, topic, result, goal, row, e, n)
  BY <1>1, <1>3, <1>4, <1>5 DEF Argued, row, e
<1> QED BY <1>6 DEF goal

LEMMA ReceiptTells ==
  ASSUME NEW row, NEW e, NEW n \in {2, 3}, Argues(row, e, n), NEW goal,
         NEW result, result = [kind |-> "ready", plan |-> ArguedPlan(goal, e)],
         NEW mode, NEW family, NEW challenged
  PROVE  TellsOf(DebateReceipt(result, mode, family, challenged), ArguedClaims(e), n)
<1> DEFINE claims == ArguedClaims(e)
           r == ProjectDebate(result, mode, family, challenged)
           s == DebateReceipt(result, mode, family, challenged)
<1>1. ToldApart(claims, n)
  BY ArguedClaimsApart
<1> HIDE DEF claims
<1>2. /\ TellsOf(r, claims, n) /\ KeepsOrder(r, claims, n)
      /\ {"nodes", "edges", "rubric"} \subseteq DOMAIN r
  BY <1>1, ProjectedDebate DEF claims
<1>3. s = Seal(r, DebateFault(r), DebateDigest(r))
  BY DEF DebateReceipt
<1> HIDE DEF r, s
<1>4. DebateFault(r) = "ok"
  BY <1>1, <1>2, DebateHolds
<1>5. \A f \in DOMAIN r : f # "digest" => s[f] = r[f]
  BY <1>3, <1>4, SealedReceipt
<1>6. s.nodes = r.nodes /\ s.edges = r.edges /\ s.rubric = r.rubric
  BY <1>2, <1>5
<1>7. TellsOf(s, claims, n)
  BY <1>2, <1>6 DEF TellsOf
<1> QED BY <1>7 DEF claims, s

(* What such a receipt has met, and what its edges run between.            *)
LEMMA MetByTheClaims ==
  ASSUME NEW n \in {2, 3}, NEW claims, ToldApart(claims, n), NEW r, TellsOf(r, claims, n)
  PROVE  /\ Met(r, "grounding") /\ Met(r, "counterarguments") /\ (Met(r, "consequences") <=> n = 3)
         /\ \A edge \in ToSet(r.edges) :
              <<KindsOf(r, edge.from), KindsOf(r, edge.to)>> =
                CASE edge.kind = "entails" -> <<{"thesis"}, {"consequence"}>>
                  [] edge.kind = "counters" -> <<{"counterpoint"}, {"thesis"}>>
<1> DEFINE rubric == r.rubric
<1>1. /\ DOMAIN rubric = 1 .. 4
      /\ rubric[1].dimension = "clarity"
      /\ rubric[2].dimension = "grounding" /\ rubric[2].score = 10000
      /\ rubric[3].dimension = "counterarguments" /\ rubric[3].score = 10000
      /\ rubric[4].dimension = "consequences"
      /\ rubric[4].score = IF n = 3 THEN 10000 ELSE 0
  BY DEF TellsOf, RubricTells, Answers
<1>2. Met(r, "grounding") /\ Met(r, "counterarguments")
  <2>1. rubric[2] \in ToSet(rubric) /\ rubric[3] \in ToSet(rubric)
    BY <1>1 DEF ToSet
  <2> QED BY <1>1, <2>1 DEF Met
<1>3. Met(r, "consequences") <=> n = 3
  <2>1. rubric[4] \in ToSet(rubric)
    BY <1>1 DEF ToSet
  <2>2. \A a \in ToSet(rubric) : a.dimension = "consequences" => a = rubric[4]
    <3>1. \A i \in 1 .. 4 : i = 1 \/ i = 2 \/ i = 3 \/ i = 4
      OBVIOUS
    <3> QED BY <1>1, <3>1 DEF ToSet
  <2> QED BY <1>1, <2>1, <2>2 DEF Met
<1>4. ASSUME NEW i \in 1 .. n PROVE KindsOf(r, claims[i].id) = {Roles[i]}
  <2> DEFINE named == {x \in ToSet(r.nodes) : x.id = claims[i].id}
  <2>1. /\ DOMAIN r.nodes = 1 .. n
        /\ \A k \in 1 .. n : /\ r.nodes[k].id = claims[k].id /\ r.nodes[k].kind = Roles[k]
                             /\ (claims[k].id = claims[i].id => k = i)
    BY DEF TellsOf, ToldApart
  <2>2. r.nodes[i] \in ToSet(r.nodes)
    BY <2>1 DEF ToSet
  <2>3. named = {r.nodes[i]}
    BY <2>1, <2>2 DEF ToSet
  <2> HIDE DEF named
  <2>4. {node.kind : node \in named} = {Roles[i]}
    BY <2>1, <2>3
  <2> QED BY <2>4 DEF named, KindsOf
<1>5. Roles[1] = "thesis" /\ Roles[2] = "counterpoint" /\ Roles[3] = "consequence"
  BY DEF Roles
<1>6. ASSUME NEW edge \in ToSet(r.edges)
      PROVE  \/ /\ edge.kind = "counters"
                /\ KindsOf(r, edge.from) = {"counterpoint"} /\ KindsOf(r, edge.to) = {"thesis"}
             \/ /\ edge.kind = "entails"
                /\ KindsOf(r, edge.from) = {"thesis"} /\ KindsOf(r, edge.to) = {"consequence"}
  <2>1. edge = Against(claims) \/ (n = 3 /\ edge = Following(claims))
    BY EdgesBetween DEF TellsOf
  <2>2. CASE edge = Against(claims)
    <3>1. edge.kind = "counters" /\ edge.from = claims[2].id /\ edge.to = claims[1].id
      BY <2>2 DEF Against
    <3>2. 1 \in 1 .. n /\ 2 \in 1 .. n
      OBVIOUS
    <3> QED BY <1>4, <1>5, <3>1, <3>2
  <2>3. CASE n = 3 /\ edge = Following(claims)
    <3>1. edge.kind = "entails" /\ edge.from = claims[1].id /\ edge.to = claims[3].id
      BY <2>3 DEF Following
    <3>2. 1 \in 1 .. n /\ 3 \in 1 .. n
      BY <2>3
    <3> QED BY <1>4, <1>5, <3>1, <3>2
  <2> QED BY <2>1, <2>2, <2>3
<1>7. ASSUME NEW edge \in ToSet(r.edges)
      PROVE  <<KindsOf(r, edge.from), KindsOf(r, edge.to)>> =
               CASE edge.kind = "entails" -> <<{"thesis"}, {"consequence"}>>
                 [] edge.kind = "counters" -> <<{"counterpoint"}, {"thesis"}>>
  <2> QED BY <1>6
<1> QED BY <1>2, <1>3, <1>7

-----------------------------------------------------------------------------
(* What a turn has is made of the profile of the table and of the turn, and *)
(* there is nothing of a turn before there is one.                         *)
AboutTopic(result) == result.kind = "ready" /\ result.plan.subject.kind = "topic"
ReplyInv ==
  /\ table \in Profiles
  /\ profile = Missing \/ profile = ParseProfile(table)
  /\ trace = [debate |-> trace.debate, argument |-> trace.argument]
  /\ turn = Missing => outcome = Missing /\ surface = Missing /\ trace.debate = Missing
  /\ outcome # Missing =>
       /\ profile = ParseProfile(table)
       /\ outcome = BuildOutcome(profile, turn.mode, turn.subject, turn.enough)
  /\ surface # Missing =>
       /\ outcome # Missing
       /\ surface = IF AboutTopic(outcome) THEN RenderAuditedPlan(profile, outcome.plan)
                    ELSE [kind |-> "other renderer"]
  /\ trace.debate # Missing =>
       trace.debate = DebateReceipt(outcome, turn.mode, turn.family, turn.challenged)

LEMMA ReplyStep ==
  ASSUME ProfileAssumption
  PROVE  ReplyInv /\ [ObserverNext]_<<contentVars, observerVars>> => ReplyInv'
<1> SUFFICES ASSUME ReplyInv, [ObserverNext]_<<contentVars, observerVars>> PROVE ReplyInv'
  OBVIOUS
<1> USE DEF ReplyInv
<1>1. CASE OpenProfile /\ UNCHANGED observerVars
  BY <1>1 DEF OpenProfile, observerVars
<1>2. ASSUME NEW r \in Turns, PlanShadow(r), UNCHANGED observerVars PROVE ReplyInv'
  <2>1. r # Missing
    BY DEF ProfileAssumption
  <2> QED BY <1>2, <2>1 DEF PlanShadow, observerVars
<1>3. CASE RenderPlan /\ UNCHANGED observerVars
  BY <1>3 DEF RenderPlan, observerVars, AboutTopic
<1>4. CASE NextTurn /\ trace' = NoTrace /\ copy' = Missing /\ verdict' = Missing
  BY <1>4 DEF NextTurn, NoTrace
<1>5. CASE ObserveDebate
  BY <1>5 DEF ObserveDebate, Planned, contentVars
<1>6. CASE ObserveArgument
  BY <1>6 DEF ObserveArgument, Planned, contentVars
<1>7. CASE ReadDebate \/ ReadArgument
  BY <1>7 DEF ReadDebate, ReadArgument, contentVars
<1>8. CASE UNCHANGED <<contentVars, observerVars>>
  BY <1>8 DEF contentVars, observerVars
<1> QED BY <1>1, <1>2, <1>3, <1>4, <1>5, <1>6, <1>7, <1>8 DEF ObserverNext

(* Each sentence of a reply is the row's, and only a row that has a         *)
(* consequence makes the reply say one.                                    *)
SaidIn(s) == {s.sentences[i][1] : i \in DOMAIN s.sentences} \ {"check"}
SpeaksOf(s, row, n) ==
  /\ \A i \in 1 .. (Len(s.sentences) - 1) :
       i \in 1 .. n /\ s.sentences[i][1] = Roles[i] /\ s.sentences[i][2] = row[Roles[i]]
  /\ "counterpoint" \in SaidIn(s) /\ ("consequence" \in SaidIn(s) <=> n = 3)
LEMMA SaidOfTheRow ==
  ASSUME NEW n \in {2, 3}, NEW s, NEW row, RepliesWith(s, row, n)
  PROVE  SpeaksOf(s, row, n)
<1> DEFINE sentences == s.sentences
           said == {sentences[i][1] : i \in DOMAIN sentences} \ {"check"}
<1>1. /\ Len(sentences) = n + 1 /\ DOMAIN sentences = 1 .. n + 1
      /\ \A i \in 1 .. n : sentences[i] = <<Roles[i], row[Roles[i]]>>
      /\ sentences[n + 1][1] = "check"
  BY DEF RepliesWith
<1> HIDE DEF sentences
<1>2. \A i \in 1 .. n : sentences[i][1] = Roles[i] /\ sentences[i][2] = row[Roles[i]]
  BY <1>1
<1>3. Roles[1] = "thesis" /\ Roles[2] = "counterpoint" /\ Roles[3] = "consequence"
  BY DEF Roles
<1>4. Len(sentences) - 1 = n
  BY <1>1
<1>5. "counterpoint" \in said
  <2>1. 2 \in 1 .. n /\ 2 \in DOMAIN sentences
    BY <1>1
  <2> QED BY <1>2, <1>3, <2>1
<1>6. ASSUME n = 3 PROVE "consequence" \in said
  <2>1. 3 \in 1 .. n /\ 3 \in DOMAIN sentences
    BY <1>1, <1>6
  <2> QED BY <1>2, <1>3, <2>1
<1>7. ASSUME "consequence" \in said PROVE n = 3
  <2>1. PICK i \in 1 .. n + 1 : sentences[i][1] = "consequence"
    BY <1>1, <1>7
  <2>2. i # n + 1
    BY <1>1, <2>1
  <2>3. i \in 1 .. n /\ (i = 1 \/ i = 2 \/ (i = 3 /\ n = 3))
    BY <2>2
  <2> QED BY <1>2, <1>3, <2>1, <2>3
<1> QED BY <1>2, <1>4, <1>5, <1>6, <1>7 DEF SpeaksOf, SaidIn, sentences

(* A reply about an admitted topic says what the table has for that topic   *)
(* in that role, each statement with a fact that can be selected today, and *)
(* the debate receipt of the turn tells of the same statements, for any     *)
(* table a program may be built with and any turn: the table that is read,  *)
(* the plan that is made of it, the renderer that checks the plan again and *)
(* the observer that reads it beside them cannot come apart.                *)
THEOREM RepliesKeepTheProfile ==
  ASSUME ProfileAssumption PROVE ObserverSpec => []ReplyKeepsTheProfile
<1>1. ObserverInit => ReplyInv
  BY DEF ObserverInit, ContentInit, ReplyInv, NoTrace
<1>2. ReplyInv /\ [ObserverNext]_<<contentVars, observerVars>> => ReplyInv'
  BY ReplyStep
<1>3. ReplyInv => ReplyKeepsTheProfile
  <2> SUFFICES ASSUME ReplyInv, surface # Missing, surface.kind # "other renderer"
               PROVE  ReplyKeepsTheProfile
    BY DEF ReplyKeepsTheProfile
  <2> DEFINE receipt == trace.debate
             told == DebateReceipt(outcome, turn.mode, turn.family, turn.challenged)
             goal == GoalForMode(turn.mode)
             said == SaidIn(surface)
  <2>1. /\ table \in Profiles /\ profile = ParseProfile(table)
        /\ outcome = BuildOutcome(profile, turn.mode, turn.subject, turn.enough)
        /\ AboutTopic(outcome) /\ surface = RenderAuditedPlan(profile, outcome.plan)
    <3>1. /\ outcome # Missing
          /\ surface = IF AboutTopic(outcome) THEN RenderAuditedPlan(profile, outcome.plan)
                       ELSE [kind |-> "other renderer"]
      BY DEF ReplyInv
    <3>2. AboutTopic(outcome)
      BY <3>1
    <3> QED BY <3>1, <3>2 DEF ReplyInv
  <2>2. receipt # Missing => receipt = told
    BY DEF ReplyInv
  <2>3. PICK n \in {2, 3} : \E row, e :
          Argued(table, profile, turn.subject, outcome, goal, row, e, n)
    BY <2>1, PlansArgue DEF AboutTopic
  <2>4. PICK row, e : Argued(table, profile, turn.subject, outcome, goal, row, e, n)
    BY <2>3
  <2> HIDE DEF receipt, told, goal
  <2>5. /\ row = RowFor(table, turn.subject) /\ Argues(row, e, n)
        /\ outcome = [kind |-> "ready", plan |-> ArguedPlan(goal, e)]
        /\ \A i \in 1 .. n : Select(profile.facts, FactOf(Ref(row, Roles[i]))) = "ok"
    BY <2>4 DEF Argued
  <2>6. RepliesWith(surface, row, n)
    <3>1. surface = RenderAuditedPlan(profile, ArguedPlan(goal, e))
      <4>1. outcome.plan = ArguedPlan(goal, e)
        BY <2>5
      <4> QED BY <2>1, <4>1, Zenon
    <3>2. /\ Validate(ArguedPlan(goal, e)) = "ok" /\ Admitted(profile, e.topic) # {}
          /\ e = CHOOSE x \in Admitted(profile, e.topic) : TRUE
      BY <2>4 DEF Argued
    <3> QED BY <2>5, <3>1, <3>2, ArguedSurface
  <2>7. SpeaksOf(surface, row, n)
    BY <2>6, SaidOfTheRow
  <2>8. \A i \in 1 .. (Len(surface.sentences) - 1) :
          /\ surface.sentences[i][2] = row[surface.sentences[i][1]]
          /\ Select(profile.facts, FactOf(Ref(row, surface.sentences[i][1]))) = "ok"
    BY <2>5, <2>7 DEF SpeaksOf
  <2>9. ASSUME receipt # Missing
        PROVE  /\ Met(receipt, "grounding")
               /\ Met(receipt, "counterarguments") <=> "counterpoint" \in said
               /\ Met(receipt, "consequences") <=> "consequence" \in said
               /\ \A edge \in ToSet(receipt.edges) :
                    <<KindsOf(receipt, edge.from), KindsOf(receipt, edge.to)>> =
                      CASE edge.kind = "entails" -> <<{"thesis"}, {"consequence"}>>
                        [] edge.kind = "counters" -> <<{"counterpoint"}, {"thesis"}>>
    <3>1. ToldApart(ArguedClaims(e), n)
      BY <2>5, ArguedClaimsApart
    <3>2. TellsOf(receipt, ArguedClaims(e), n)
      BY <2>2, <2>5, <2>9, ReceiptTells DEF told
    <3>3. /\ Met(receipt, "grounding") /\ Met(receipt, "counterarguments")
          /\ Met(receipt, "consequences") <=> n = 3
      BY <3>1, <3>2, MetByTheClaims
    <3>4. \A edge \in ToSet(receipt.edges) :
            <<KindsOf(receipt, edge.from), KindsOf(receipt, edge.to)>> =
              CASE edge.kind = "entails" -> <<{"thesis"}, {"consequence"}>>
                [] edge.kind = "counters" -> <<{"counterpoint"}, {"thesis"}>>
      BY <3>1, <3>2, MetByTheClaims
    <3> QED BY <2>7, <3>3, <3>4 DEF SpeaksOf
  <2>10. surface.kind = "surface" /\ row = RowFor(table, turn.subject)
    BY <2>5, <2>6 DEF RepliesWith
  <2> QED BY <2>8, <2>9, <2>10 DEF ReplyKeepsTheProfile, RowFor, receipt, SaidIn
<1> QED BY <1>1, <1>2, <1>3, PTL DEF ObserverSpec
=============================================================================
