----------------------- MODULE PaymentValidatorProofs -----------------------
(***************************************************************************)
(* Theorems about PaymentValidator, for every set of users, auctions,      *)
(* amounts and reservation ids.                                            *)
(***************************************************************************)
EXTENDS PaymentValidator, FiniteSetTheorems, TLAPS

-----------------------------------------------------------------------------
\* Sums over finite sets.  h adds up the numbers v of the members of every set in its
\* domain, one member after the other, as MapThenSumSet does.

Added(v, h, s) == IF s = {} THEN 0 ELSE v[CHOOSE x \in s : TRUE] + h[s \ {CHOOSE x \in s : TRUE}]

Sums(v, h, S) == h \in [SUBSET S -> Int] /\ \A s \in SUBSET S : h[s] = Added(v, h, s)

LEMMA LeastNumber ==
    ASSUME NEW X \in SUBSET Nat, X # {}
    PROVE  \E n \in X : \A m \in X : ~(m < n)
<1>1. PICK R : R = OpToRel(<, Nat)
  OBVIOUS
<1>2. IsWellFoundedOn(R, Nat)
  BY <1>1, NatLessThanWellFounded
<1>3. PICK n \in X : \A m \in X : <<m, n>> \notin R
  BY <1>2, WFMin
<1>4. ASSUME NEW m \in X, m < n PROVE FALSE
  BY <1>1, <1>3, <1>4 DEF OpToRel
<1> QED
  BY <1>4

LEMMA LeastSet ==
    ASSUME NEW S, IsFiniteSet(S), NEW X \in SUBSET SUBSET S, X # {}
    PROVE  \E T \in X : \A U \in X : U \subseteq T => U = T
<1>1. PICK R : R = StrictSubsetOrdering(S)
  OBVIOUS
<1>2. IsWellFoundedOn(R, SUBSET S)
  BY <1>1, FS_StrictSubsetOrderingWellFounded, FS_FiniteSubsetsOfFinite
<1>3. PICK T \in X : \A U \in X : <<U, T>> \notin R
  BY <1>2, WFMin
<1>4. ASSUME NEW U \in X, U \subseteq T PROVE U = T
  BY <1>1, <1>3, <1>4 DEF StrictSubsetOrdering
<1> QED
  BY <1>4

\* There is such an h: by the size of the sets.
LEMMA SumExists ==
    ASSUME NEW S, IsFiniteSet(S), NEW v \in [S -> Int]
    PROVE  \E h : Sums(v, h, S)
<1> DEFINE L(n) == {s \in SUBSET S : Cardinality(s) <= n}
           Good(n) == \E h \in [L(n) -> Int] : \A s \in L(n) : h[s] = Added(v, h, s)
           Bad == {n \in Nat : ~Good(n)}
<1>1. \A s \in SUBSET S : IsFiniteSet(s) /\ Cardinality(s) \in Nat /\ Cardinality(s) <= Cardinality(S)
  BY FS_Subset, FS_CardinalityType
<1>2. Good(0)
  <2>1. L(0) = {{}}
    <3>1. \A s \in SUBSET S : Cardinality(s) <= 0 <=> s = {}
      BY <1>1, FS_EmptySet
    <3> QED
      BY <3>1
  <2>2. PICK h \in [{{}} -> Int] : h[{}] = 0
    <3>1. [s \in {{}} |-> 0] \in [{{}} -> Int] /\ [s \in {{}} |-> 0][{}] = 0
      OBVIOUS
    <3> QED
      BY <3>1
  <2>3. \A s \in {{}} : h[s] = Added(v, h, s)
    BY <2>2 DEF Added
  <2> HIDE DEF L
  <2> QED
    BY <2>1, <2>2, <2>3
<1>3. ASSUME NEW n \in Nat, Good(n) PROVE Good(n + 1)
  <2>1. PICK h \in [L(n) -> Int] : \A s \in L(n) : h[s] = Added(v, h, s)
    BY <1>3
  <2> DEFINE k == [s \in L(n + 1) |-> IF s \in L(n) THEN h[s] ELSE Added(v, h, s)]
  <2>2. ASSUME NEW s \in L(n + 1), s # {}
        PROVE  /\ (CHOOSE x \in s : TRUE) \in s /\ v[CHOOSE x \in s : TRUE] \in Int
               /\ s \ {CHOOSE x \in s : TRUE} \in L(n)
    <3>1. PICK x : x = CHOOSE y \in s : TRUE
      OBVIOUS
    <3>2. x \in s
      BY <2>2, <3>1
    <3>3. Cardinality(s \ {x}) = Cardinality(s) - 1
      BY <1>1, <3>2, FS_RemoveElement
    <3>4. Cardinality(s \ {x}) <= n
      BY <1>1, <3>3
    <3> QED
      BY <3>1, <3>2, <3>4
  <2>3. L(n) \subseteq L(n + 1)
    BY <1>1
  <2>4. \A s \in L(n + 1) : k[s] = Added(v, h, s)
    BY <2>1
  <2>5. \A s \in L(n) : k[s] = h[s]
    BY <2>3
  <2> HIDE DEF k
  <2>6. ASSUME NEW s \in L(n + 1) PROVE k[s] = Added(v, k, s) /\ k[s] \in Int
    <3>1. CASE s = {}
      BY <2>4, <3>1 DEF Added
    <3>2. CASE s # {}
      <4>1. PICK x : x = CHOOSE y \in s : TRUE
        OBVIOUS
      <4>2. s \ {x} \in L(n) /\ v[x] \in Int
        BY <2>2, <3>2, <4>1
      <4>3. k[s \ {x}] = h[s \ {x}] /\ h[s \ {x}] \in Int
        BY <2>1, <2>5, <4>2
      <4>4. Added(v, h, s) = v[x] + h[s \ {x}] /\ Added(v, k, s) = v[x] + k[s \ {x}]
        BY <3>2, <4>1 DEF Added
      <4> HIDE DEF L
      <4> QED
        BY <2>4, <4>2, <4>3, <4>4
    <3> QED
      BY <3>1, <3>2
  <2>7. k \in [L(n + 1) -> Int]
    BY <2>6 DEF k
  <2> HIDE DEF L
  <2> QED
    BY <2>6, <2>7
<1>4. Bad = {}
  <2> SUFFICES ASSUME Bad # {} PROVE FALSE
    OBVIOUS
  <2> HIDE DEF Good
  <2>1. PICK n \in Bad : \A m \in Bad : ~(m < n)
    BY LeastNumber
  <2>2. n # 0 /\ n - 1 \in Nat /\ n - 1 < n
    BY <1>2
  <2>3. Good(n - 1)
    BY <2>1, <2>2
  <2>4. Good((n - 1) + 1) /\ (n - 1) + 1 = n
    BY <1>3, <2>2, <2>3
  <2> QED
    BY <2>4
<1>5. Good(Cardinality(S))
  <2> HIDE DEF Good
  <2> QED
    BY <1>4, FS_CardinalityType
<1>6. L(Cardinality(S)) = SUBSET S
  BY <1>1
<1> HIDE DEF L
<1> QED
  BY <1>5, <1>6 DEF Sums

\* The order does not matter: any member may be the last one added.
LEMMA SumsAnyMember ==
    ASSUME NEW S, IsFiniteSet(S), NEW v \in [S -> Int], NEW h, Sums(v, h, S)
    PROVE  \A s \in SUBSET S : \A x \in s : h[s] = v[x] + h[s \ {x}]
<1> DEFINE Bad == {s \in SUBSET S : \E x \in s : h[s] # v[x] + h[s \ {x}]}
<1>1. ASSUME Bad # {} PROVE FALSE
  <2>1. PICK s \in Bad : \A t \in Bad : t \subseteq s => t = s
    <3>1. Bad \in SUBSET SUBSET S
      OBVIOUS
    <3> HIDE DEF Bad
    <3> QED
      BY <1>1, <3>1, LeastSet
  <2>2. s \in SUBSET S
    OBVIOUS
  <2>3. PICK x \in s : h[s] # v[x] + h[s \ {x}]
    OBVIOUS
  <2>4. PICK y : y = CHOOSE z \in s : TRUE
    OBVIOUS
  <2>5. y \in s /\ h[s] = v[y] + h[s \ {y}]
    BY <2>2, <2>3, <2>4 DEF Sums, Added
  <2>6. x # y
    BY <2>3, <2>5
  <2>7. s \ {y} \notin Bad /\ s \ {x} \notin Bad /\ s \ {x} \in SUBSET S /\ s \ {y} \in SUBSET S
    BY <2>1, <2>2, <2>3, <2>5
  <2>8. PICK u \in SUBSET S : u = (s \ {y}) \ {x} /\ u = (s \ {x}) \ {y}
    BY <2>2
  <2>9. h[s \ {y}] = v[x] + h[u] /\ h[s \ {x}] = v[y] + h[u]
    <3>1. x \in s \ {y} /\ y \in s \ {x}
      BY <2>5, <2>6
    <3>2. h[s \ {y}] = v[x] + h[(s \ {y}) \ {x}] /\ h[s \ {x}] = v[y] + h[(s \ {x}) \ {y}]
      BY <2>7, <3>1
    <3> QED
      BY <2>8, <3>2
  <2>10. v[x] \in Int /\ v[y] \in Int /\ h[u] \in Int
    BY <2>2, <2>5 DEF Sums
  <2> HIDE DEF Bad
  <2> QED
    BY <2>3, <2>5, <2>9, <2>10
<1> QED
  BY <1>1

\* Sums of the same numbers are the same.
LEMMA SumsAgree ==
    ASSUME NEW S, IsFiniteSet(S), NEW T \in SUBSET S,
           NEW v \in [S -> Int], NEW h, Sums(v, h, S),
           NEW w \in [T -> Int], NEW k, Sums(w, k, T),
           \A x \in T : w[x] = v[x]
    PROVE  k[T] = h[T]
<1> DEFINE Bad == {s \in SUBSET T : k[s] # h[s]}
<1>1. ASSUME Bad # {} PROVE FALSE
  <2>1. Bad \in SUBSET SUBSET S
    OBVIOUS
  <2>2. PICK s \in Bad : \A t \in Bad : t \subseteq s => t = s
    <3> HIDE DEF Bad
    <3> QED
      BY <1>1, <2>1, LeastSet
  <2>3. s \in SUBSET T /\ s \in SUBSET S /\ k[s] # h[s]
    OBVIOUS
  <2>4. CASE s = {}
    BY <2>3, <2>4 DEF Sums, Added
  <2>5. CASE s # {}
    <3>1. PICK y : y = CHOOSE z \in s : TRUE
      OBVIOUS
    <3>2. y \in s
      BY <2>5, <3>1
    <3>3. h[s] = v[y] + h[s \ {y}] /\ k[s] = w[y] + k[s \ {y}]
      BY <2>3, <2>5, <3>1 DEF Sums, Added
    <3>4. s \ {y} \notin Bad /\ s \ {y} \in SUBSET T
      BY <2>2, <2>3, <3>2
    <3>5. k[s \ {y}] = h[s \ {y}] /\ w[y] = v[y]
      BY <2>3, <3>2, <3>4
    <3> QED
      BY <2>3, <3>3, <3>5
  <2> QED
    BY <2>4, <2>5
<1> QED
  BY <1>1

-----------------------------------------------------------------------------
\* Amount adds up the amounts of the reservations.

AmountAdds ==
    \A T : IsFiniteSet(T) /\ (\A r \in T : reservations[r].amount \in Int) =>
              \E k : /\ Sums([r \in T |-> reservations[r].amount], k, T)
                     /\ Amount(T) = k[T]

LEMMA AmountSums == AmountAdds
<1> SUFFICES ASSUME NEW S, IsFiniteSet(S), \A r \in S : reservations[r].amount \in Int
             PROVE  \E h : /\ Sums([r \in S |-> reservations[r].amount], h, S)
                           /\ Amount(S) = h[S]
  BY DEF AmountAdds
<1> DEFINE b(h, s) == IF s = {} THEN 0
                      ELSE LET x == CHOOSE x \in s : TRUE
                           IN  reservations[x].amount + h[s \ {x}]
           g == CHOOSE h : h = [s \in SUBSET S |-> b(h, s)]
           v == [r \in S |-> reservations[r].amount]
<1>1. Amount(S) = g[S]
  BY DEF Amount, MapThenSumSet, MapThenFoldSet
<1>2. v \in [S -> Int]
  OBVIOUS
<1>3. \A h : \A s \in SUBSET S : b(h, s) = Added(v, h, s)
  BY DEF Added
<1> HIDE DEF b, v
<1>4. PICK f : Sums(v, f, S)
  BY <1>2, SumExists
<1>5. f = [s \in SUBSET S |-> b(f, s)]
  BY <1>3, <1>4 DEF Sums
<1>6. g = [s \in SUBSET S |-> b(g, s)]
  BY <1>5
<1> HIDE DEF g
<1>7. \A s \in SUBSET S : g[s] = Added(v, g, s)
  BY <1>3, <1>6
<1>8. g = f
  <2> DEFINE Bad == {s \in SUBSET S : g[s] # f[s]}
  <2>1. ASSUME Bad # {} PROVE FALSE
    <3>1. PICK s \in Bad : \A t \in Bad : t \subseteq s => t = s
      <4>1. Bad \in SUBSET SUBSET S
        OBVIOUS
      <4> HIDE DEF Bad
      <4> QED
        BY <2>1, <4>1, LeastSet
    <3>2. s \in SUBSET S /\ g[s] # f[s] /\ g[s] = Added(v, g, s) /\ f[s] = Added(v, f, s)
      BY <1>4, <1>7 DEF Sums
    <3>3. CASE s = {}
      BY <3>2, <3>3 DEF Added
    <3>4. CASE s # {}
      <4>1. PICK y : y = CHOOSE z \in s : TRUE
        OBVIOUS
      <4>2. y \in s
        BY <3>4, <4>1
      <4>3. s \ {y} \notin Bad /\ s \ {y} \in SUBSET S
        BY <3>1, <3>2, <4>2
      <4>4. g[s \ {y}] = f[s \ {y}]
        BY <4>3
      <4>5. Added(v, g, s) = Added(v, f, s)
        BY <3>4, <4>1, <4>4 DEF Added
      <4> QED
        BY <3>2, <4>5
    <3> QED
      BY <3>3, <3>4
  <2>2. \A s \in SUBSET S : g[s] = f[s]
    BY <2>1
  <2>3. g = [s \in SUBSET S |-> g[s]] /\ f = [s \in SUBSET S |-> f[s]]
    BY <1>4, <1>6 DEF Sums
  <2> HIDE DEF Bad
  <2> QED
    BY <2>2, <2>3
<1> QED
  BY <1>1, <1>4, <1>8 DEF v

\* A sum without one of its members, ...
LEMMA AmountAnyMember ==
    \A S : IsFiniteSet(S) /\ (\A r \in S : reservations[r].amount \in Int) =>
              /\ Amount(S) \in Int
              /\ \A x \in S : Amount(S) = reservations[x].amount + Amount(S \ {x})
<1> SUFFICES ASSUME NEW S, IsFiniteSet(S), \A r \in S : reservations[r].amount \in Int
             PROVE  /\ Amount(S) \in Int
                    /\ \A x \in S : Amount(S) = reservations[x].amount + Amount(S \ {x})
  OBVIOUS
<1>1. PICK v : v = [r \in S |-> reservations[r].amount]
  OBVIOUS
<1>2. v \in [S -> Int]
  BY <1>1
<1>3. PICK h : Sums(v, h, S) /\ Amount(S) = h[S]
  BY <1>1, AmountSums DEF AmountAdds
<1>4. Amount(S) \in Int
  BY <1>3 DEF Sums
<1>5. ASSUME NEW x \in S PROVE Amount(S) = reservations[x].amount + Amount(S \ {x})
  <2>1. PICK T \in SUBSET S : T = S \ {x}
    OBVIOUS
  <2>2. IsFiniteSet(T) /\ \A r \in T : reservations[r].amount \in Int
    BY FS_Subset
  <2>3. PICK w : w = [r \in T |-> reservations[r].amount]
    OBVIOUS
  <2>4. w \in [T -> Int] /\ \A r \in T : w[r] = v[r]
    BY <1>1, <2>2, <2>3
  <2>5. PICK k : Sums(w, k, T) /\ Amount(T) = k[T]
    BY <2>2, <2>3, AmountSums DEF AmountAdds
  <2>6. k[T] = h[T]
    BY <1>2, <1>3, <2>4, <2>5, SumsAgree
  <2>7. h[S] = v[x] + h[T]
    BY <1>2, <1>3, <2>1, SumsAnyMember
  <2> QED
    BY <1>1, <1>3, <2>1, <2>5, <2>6, <2>7
<1> QED
  BY <1>4, <1>5

\* ... and one whose members keep their amounts.
LEMMA AmountSame ==
    ASSUME NEW S, IsFiniteSet(S), \A r \in S : reservations[r].amount \in Int,
           \A r \in S : reservations'[r].amount = reservations[r].amount
    PROVE  Amount(S)' = Amount(S)
<1>1. PICK v : v = [r \in S |-> reservations[r].amount]
  OBVIOUS
<1>2. v \in [S -> Int]
  BY <1>1
<1>3. PICK h : Sums(v, h, S) /\ Amount(S) = h[S]
  BY <1>1, AmountSums DEF AmountAdds
<1>4. v = [r \in S |-> reservations'[r].amount] /\ \A r \in S : reservations'[r].amount \in Int
  BY <1>1
<1>5. AmountAdds'
  BY AmountSums, PTL
<1>6. PICK k : Sums(v, k, S) /\ Amount(S)' = k[S]
  BY <1>4, <1>5 DEF AmountAdds
<1>7. k[S] = h[S]
  BY <1>2, <1>3, <1>6, SumsAgree
<1> QED
  BY <1>3, <1>6, <1>7

\* A key never has more to release than one reservation: sums over none and over one.
LEMMA SumOfNone == Amount({}) = 0
<1>1. PICK h : Sums([r \in {} |-> reservations[r].amount], h, {}) /\ Amount({}) = h[{}]
  BY FS_EmptySet, AmountSums DEF AmountAdds
<1> QED
  BY <1>1 DEF Sums, Added

LEMMA SumOfOne == ASSUME NEW r, reservations[r].amount \in Int
                  PROVE  Amount({r}) = reservations[r].amount
<1>1. IsFiniteSet({r}) /\ {r} \ {r} = {}
  BY FS_Singleton
<1>2. Amount({r}) = reservations[r].amount + Amount({})
  BY <1>1, AmountAnyMember
<1> QED
  BY <1>2, SumOfNone

LEMMA KeyTypes ==
    ASSUME TypeOK, NEW r \in DOMAIN reservations
    PROVE  /\ KeyOf(r) \in ReservedKeys /\ reservations[r] \in Reservation
           /\ reservations[r].amount \in Amounts /\ reservations[r].amount \in Nat
           /\ r \in Reservations /\ r \in issued
  BY AmountsAssumption DEF TypeOK, KeyOf, ReservedKeys, Reservation

\* What a key holds: nothing, or its one active reservation.
LEMMA HoldIs ==
    TypeOK /\ OneActivePerKey =>
        \A k \in ReservedKeys : /\ ActiveOf(k) = {} => Hold(k) = 0
                                /\ \A r \in ActiveOf(k) : Hold(k) = reservations[r].amount
                                /\ Hold(k) \in Nat
<1> SUFFICES ASSUME TypeOK, OneActivePerKey, NEW k \in ReservedKeys
             PROVE  /\ ActiveOf(k) = {} => Hold(k) = 0
                    /\ \A r \in ActiveOf(k) : Hold(k) = reservations[r].amount
                    /\ Hold(k) \in Nat
  OBVIOUS
<1>1. CASE ActiveOf(k) = {}
  BY <1>1, SumOfNone DEF Hold
<1>2. ASSUME NEW r \in ActiveOf(k)
      PROVE  Hold(k) = reservations[r].amount /\ Hold(k) \in Nat
  <2>1. ActiveOf(k) = {r} /\ reservations[r].amount \in Nat /\ reservations[r].amount \in Int
    BY <1>2, KeyTypes DEF OneActivePerKey, ActiveOf, Active
  <2> QED
    BY <2>1, SumOfOne DEF Hold
<1> QED
  BY <1>1, <1>2

\* What a key has left when active reservations are subtracted.
LEMMA LessIs ==
    ASSUME TypeOK, OneActivePerKey, NEW S \in SUBSET Active, NEW k \in ReservedKeys
    PROVE  /\ Less(S)[k] = IF \E r \in S : KeyOf(r) = k THEN userReserved[k] - Hold(k)
                                                      ELSE userReserved[k]
           /\ Less(S)[k] \in Int
<1> DEFINE T == {r \in S : KeyOf(r) = k}
<1>1. Less(S)[k] = userReserved[k] - Amount(T) /\ userReserved[k] \in Int
  BY DEF Less, TypeOK
<1>2. CASE T = {}
  BY <1>1, <1>2, SumOfNone
<1>3. CASE T # {}
  <2>1. T = ActiveOf(k)
    BY <1>3 DEF OneActivePerKey, ActiveOf
  <2>2. Amount(T) = Hold(k) /\ Hold(k) \in Nat
    BY <2>1, HoldIs DEF Hold
  <2> QED
    BY <1>1, <1>3, <2>2
<1> QED
  BY <1>2, <1>3

-----------------------------------------------------------------------------
\* The effect of each kind of step on a key's active reservations.

LEMMA ReserveEffect ==
    ASSUME TypeOK, OneActivePerKey, NEW r \in Reservations, NEW u \in Users,
           NEW a \in Auctions, NEW m \in Amounts, handleReserve(r, u, a, m)
    PROVE  /\ TypeOK'
           /\ ActiveOf(<<u, a>>)' = {r} /\ reservations'[r].amount = m
           /\ userReserved'[<<u, a>>] = userReserved[<<u, a>>] - Hold(<<u, a>>) + m
           /\ \A k \in ReservedKeys \ {<<u, a>>} :
                 /\ ActiveOf(k)' = ActiveOf(k) /\ userReserved'[k] = userReserved[k]
                 /\ \A s \in ActiveOf(k) : reservations'[s] = reservations[s]
<1> DEFINE key == <<u, a>>
           old == ActiveOf(key)
           new == [user |-> u, auction |-> a, amount |-> m, status |-> "active"]
<1>1. /\ r \notin issued /\ issued' = issued \cup {r}
      /\ r \notin DOMAIN reservations /\ old \subseteq Active /\ key \in ReservedKeys
      /\ new \in Reservation /\ m \in Int
  BY AmountsAssumption DEF handleReserve, TypeOK, ActiveOf, ReservedKeys, Reservation
<1>2. /\ DOMAIN reservations' = DOMAIN reservations \cup {r}
      /\ reservations'[r] = new
      /\ \A i \in DOMAIN reservations :
            reservations'[i] = IF i \in old THEN [reservations[i] EXCEPT !.status = "released"]
                                            ELSE reservations[i]
  BY <1>1 DEF handleReserve, WithStatus
<1>3. \A i \in DOMAIN reservations :
         /\ reservations'[i] \in Reservation
         /\ KeyOf(i)' = KeyOf(i) /\ KeyOf(i) \in ReservedKeys
         /\ i \in old => reservations'[i].status = "released"
         /\ i \notin old => reservations'[i] = reservations[i]
  BY <1>2, KeyTypes DEF Reservation, KeyOf
<1>4. userReserved' = [Less(old) EXCEPT ![key] = @ + m]
  BY DEF handleReserve
<1> HIDE DEF new
<1>5. \A k \in ReservedKeys : userReserved'[k] = IF k = key THEN Less(old)[k] + m ELSE Less(old)[k]
  BY <1>4 DEF Less
<1>6. \A k \in ReservedKeys : Less(old)[k] = (IF k = key THEN userReserved[k] - Hold(k) ELSE userReserved[k])
                              /\ Less(old)[k] \in Int
  <2>1. ASSUME NEW k \in ReservedKeys
        PROVE  /\ Less(old)[k] = IF k = key THEN userReserved[k] - Hold(k) ELSE userReserved[k]
               /\ Less(old)[k] \in Int
    <3>1. /\ Less(old)[k] = IF \E s \in old : KeyOf(s) = k THEN userReserved[k] - Hold(k)
                                                          ELSE userReserved[k]
          /\ Less(old)[k] \in Int
      BY <1>1, LessIs
    <3>2. CASE k = key /\ old = {}
      BY <3>1, <3>2, HoldIs DEF TypeOK
    <3>3. CASE k = key /\ old # {}
      BY <3>1, <3>3 DEF ActiveOf
    <3>4. CASE k # key
      BY <3>1, <3>4 DEF ActiveOf
    <3> QED
      BY <3>2, <3>3, <3>4
  <2> QED
    BY <2>1
<1>7. userReserved' \in [ReservedKeys -> Int]
  <2>1. userReserved' = [k \in ReservedKeys |-> IF k = key THEN Less(old)[k] + m ELSE Less(old)[k]]
    BY <1>4 DEF Less
  <2> QED
    BY <1>1, <1>6, <2>1
<1>8. TypeOK'
  BY <1>1, <1>2, <1>3, <1>7 DEF TypeOK
<1>9. KeyOf(r)' = key /\ reservations'[r].status = "active" /\ reservations'[r].amount = m
  BY <1>2 DEF KeyOf, new
<1>10. Active' = (Active \ old) \cup {r}
  BY <1>1, <1>2, <1>3, <1>9 DEF Active
<1>11. \A k \in ReservedKeys : ActiveOf(k)' = IF k = key THEN {r} ELSE ActiveOf(k)
  BY <1>1, <1>3, <1>9, <1>10 DEF ActiveOf, Active
<1>12. \A k \in ReservedKeys \ {key} : \A s \in ActiveOf(k) : reservations'[s] = reservations[s]
  BY <1>3 DEF ActiveOf, Active
<1> QED
  BY <1>1, <1>5, <1>6, <1>8, <1>9, <1>11, <1>12

\* A step that ends some active reservations and subtracts some of them.
LEMMA EndEffect ==
    ASSUME TypeOK, OneActivePerKey, NEW S \in SUBSET Active,
           NEW status \in {"released", "charged"}, reservations' = WithStatus(S, status)
    PROVE  /\ DOMAIN reservations' = DOMAIN reservations
           /\ \A r \in DOMAIN reservations' : reservations'[r] \in Reservation
           /\ Active' = Active \ S
           /\ \A k \in ReservedKeys :
                 ActiveOf(k)' = IF \E r \in S : KeyOf(r) = k THEN {} ELSE ActiveOf(k)
           /\ \A r \in DOMAIN reservations : reservations'[r].amount = reservations[r].amount
<1>1. /\ DOMAIN reservations' = DOMAIN reservations
      /\ \A i \in DOMAIN reservations :
            reservations'[i] = IF i \in S THEN [reservations[i] EXCEPT !.status = status]
                                          ELSE reservations[i]
  BY DEF WithStatus
<1>2. \A i \in DOMAIN reservations :
         /\ reservations'[i] \in Reservation
         /\ KeyOf(i)' = KeyOf(i) /\ reservations'[i].amount = reservations[i].amount
         /\ i \in S => reservations'[i].status = status
         /\ i \notin S => reservations'[i] = reservations[i]
  BY <1>1, KeyTypes DEF Reservation, KeyOf
<1>3. Active' = Active \ S
  BY <1>1, <1>2 DEF Active
<1>4. ASSUME NEW k \in ReservedKeys
      PROVE  ActiveOf(k)' = IF \E r \in S : KeyOf(r) = k THEN {} ELSE ActiveOf(k)
  <2>1. ActiveOf(k)' = ActiveOf(k) \ S
    BY <1>2, <1>3 DEF ActiveOf, Active
  <2> QED
    BY <2>1 DEF ActiveOf, OneActivePerKey
<1> QED
  BY <1>1, <1>2, <1>3, <1>4

LEMMA ReleaseEffect ==
    ASSUME TypeOK, OneActivePerKey, NEW S \in SUBSET Active, Release(S)
    PROVE  /\ TypeOK'
           /\ \A k \in ReservedKeys :
                 IF \E r \in S : KeyOf(r) = k
                 THEN ActiveOf(k)' = {} /\ userReserved'[k] = userReserved[k] - Hold(k)
                 ELSE ActiveOf(k)' = ActiveOf(k) /\ userReserved'[k] = userReserved[k]
           /\ \A r \in DOMAIN reservations : reservations'[r].amount = reservations[r].amount
<1>1. /\ DOMAIN reservations' = DOMAIN reservations
      /\ \A r \in DOMAIN reservations' : reservations'[r] \in Reservation
      /\ \A k \in ReservedKeys :
            ActiveOf(k)' = IF \E r \in S : KeyOf(r) = k THEN {} ELSE ActiveOf(k)
      /\ \A r \in DOMAIN reservations : reservations'[r].amount = reservations[r].amount
  BY EndEffect DEF Release
<1>2. userReserved' = Less(S) /\ issued' = issued
  BY DEF Release
<1>3. \A k \in ReservedKeys :
         /\ userReserved'[k] = IF \E r \in S : KeyOf(r) = k THEN userReserved[k] - Hold(k)
                                                           ELSE userReserved[k]
         /\ userReserved'[k] \in Int
  BY <1>2, LessIs
<1>4. userReserved' \in [ReservedKeys -> Int]
  BY <1>2, <1>3 DEF Less
<1> QED
  BY <1>1, <1>2, <1>3, <1>4 DEF TypeOK

-----------------------------------------------------------------------------
\* The state keeps its shape, and no key ever has two active reservations.

Inv == TypeOK /\ OneActivePerKey

LEMMA InvInit == Init => Inv
  BY DEF Init, Inv, TypeOK, OneActivePerKey, ActiveOf, Active

LEMMA RestartEffect ==
    ASSUME TypeOK, Restart
    PROVE  TypeOK' /\ \A k \in ReservedKeys : ActiveOf(k)' = {} /\ userReserved'[k] = 0
  BY DEF Restart, TypeOK, ActiveOf, Active

LEMMA ChargeEffect ==
    ASSUME TypeOK, OneActivePerKey, NEW r, handleCharge(r)
    PROVE  /\ TypeOK' /\ KeyOf(r) \in ReservedKeys /\ userReserved' = userReserved
           /\ \A k \in ReservedKeys :
                 ActiveOf(k)' = IF k = KeyOf(r) THEN {} ELSE ActiveOf(k)
           /\ \A s \in DOMAIN reservations : reservations'[s].amount = reservations[s].amount
<1>1. r \in DOMAIN reservations /\ {r} \in SUBSET Active
  BY DEF handleCharge, Active
<1> QED
  BY <1>1, EndEffect, KeyTypes DEF handleCharge, TypeOK

LEMMA InvStep == Inv /\ [Next]_paymentVars => Inv'
<1> SUFFICES ASSUME TypeOK, OneActivePerKey, [Next]_paymentVars PROVE Inv'
  BY DEF Inv
<1>1. ASSUME NEW r \in Reservations, NEW u \in Users, NEW a \in Auctions, NEW m \in Amounts,
             handleReserve(r, u, a, m)
      PROVE  Inv'
  <2>1. TypeOK' /\ \A k \in ReservedKeys : ActiveOf(k)' = {r} \/ ActiveOf(k)' = ActiveOf(k)
    BY <1>1, ReserveEffect
  <2> QED
    BY <2>1 DEF Inv, OneActivePerKey
<1>2. ASSUME NEW S \in SUBSET Active, Release(S) PROVE Inv'
  BY <1>2, ReleaseEffect DEF Inv, OneActivePerKey
<1>3. ASSUME NEW r \in Reservations, handleCharge(r) PROVE Inv'
  BY <1>3, ChargeEffect DEF Inv, OneActivePerKey
<1>4. CASE Restart
  BY <1>4, RestartEffect DEF Inv, OneActivePerKey
<1>5. CASE UNCHANGED paymentVars
  BY <1>5 DEF Inv, TypeOK, OneActivePerKey, ActiveOf, Active, KeyOf, paymentVars
<1>6. ASSUME NEW r \in Reservations, handleRelease(r) PROVE Inv'
  BY <1>2, <1>6 DEF handleRelease
<1>7. ASSUME NEW a \in Auctions, NEW w, handleAuctionEnded(a, w) PROVE Inv'
  BY <1>2, <1>7 DEF handleAuctionEnded
<1> QED
  BY <1>1, <1>3, <1>4, <1>5, <1>6, <1>7 DEF Next

\* The maps and totals of the validator keep their shape.
THEOREM Typing == Spec => []TypeOK
<1>1. Inv => TypeOK
  BY DEF Inv
<1> QED
  BY <1>1, InvInit, InvStep, PTL DEF Spec

\* A user never has two bids holding funds in one auction.
THEOREM OneActive == Spec => []OneActivePerKey
<1>1. Inv => OneActivePerKey
  BY DEF Inv
<1> QED
  BY <1>1, InvInit, InvStep, PTL DEF Spec

-----------------------------------------------------------------------------
\* What a step does to the holds, and that what a key's total has above its hold
\* changes in a charge and a restart only.

LEMMA HoldIsNext ==
    ASSUME Inv'
    PROVE  \A k \in ReservedKeys : /\ ActiveOf(k)' = {} => Hold(k)' = 0
                                   /\ \A r \in ActiveOf(k)' : Hold(k)' = reservations'[r].amount
                                   /\ Hold(k)' \in Nat /\ userReserved'[k] \in Int
<1>1. (\A k \in ReservedKeys : /\ ActiveOf(k) = {} => Hold(k) = 0
                               /\ \A r \in ActiveOf(k) : Hold(k) = reservations[r].amount
                               /\ Hold(k) \in Nat)'
  BY HoldIs, PTL DEF Inv
<1> QED
  BY <1>1 DEF Inv, TypeOK

LEMMA HoldStays ==
    ASSUME Inv, Inv', NEW k \in ReservedKeys, ActiveOf(k)' = ActiveOf(k),
           \A r \in ActiveOf(k) : reservations'[r].amount = reservations[r].amount
    PROVE  Hold(k)' = Hold(k)
BY HoldIs, HoldIsNext DEF Inv

LEMMA ReserveCaptures ==
    ASSUME Inv, Inv', NEW r \in Reservations, NEW u \in Users, NEW a \in Auctions,
           NEW m \in Amounts, handleReserve(r, u, a, m)
    PROVE  /\ \A k \in ReservedKeys : userReserved'[k] - Hold(k)' = userReserved[k] - Hold(k)
           /\ \A k \in ReservedKeys : Hold(k)' = IF k = <<u, a>> THEN m ELSE Hold(k)
<1>1. PICK key \in ReservedKeys : key = <<u, a>>
  BY DEF ReservedKeys
<1>2. /\ ActiveOf(key)' = {r} /\ reservations'[r].amount = m
      /\ userReserved'[key] = userReserved[key] - Hold(key) + m
      /\ \A k \in ReservedKeys \ {key} :
            /\ ActiveOf(k)' = ActiveOf(k) /\ userReserved'[k] = userReserved[k]
            /\ \A s \in ActiveOf(k) : reservations'[s] = reservations[s]
  BY <1>1, ReserveEffect DEF Inv
<1>3. Hold(key)' = m
  BY <1>2, HoldIsNext
<1>4. \A k \in ReservedKeys \ {key} : Hold(k)' = Hold(k)
  BY <1>2, HoldStays
<1>5. userReserved'[key] - Hold(key)' = userReserved[key] - Hold(key)
  <2>1. userReserved[key] \in Int /\ Hold(key) \in Int /\ m \in Int
    BY HoldIs, AmountsAssumption DEF Inv, TypeOK
  <2> QED
    BY <1>2, <1>3, <2>1
<1> QED
  BY <1>1, <1>2, <1>3, <1>4, <1>5

LEMMA ReleaseCaptures ==
    ASSUME Inv, Inv', NEW S \in SUBSET Active, Release(S)
    PROVE  /\ \A k \in ReservedKeys : userReserved'[k] - Hold(k)' = userReserved[k] - Hold(k)
           /\ \A k \in ReservedKeys : Hold(k)' = IF \E r \in S : KeyOf(r) = k THEN 0 ELSE Hold(k)
<1> SUFFICES ASSUME NEW k \in ReservedKeys
             PROVE  /\ userReserved'[k] - Hold(k)' = userReserved[k] - Hold(k)
                    /\ Hold(k)' = IF \E r \in S : KeyOf(r) = k THEN 0 ELSE Hold(k)
  OBVIOUS
<1>1. userReserved[k] \in Int /\ Hold(k) \in Int
  BY HoldIs DEF Inv, TypeOK
<1>2. CASE \E r \in S : KeyOf(r) = k
  <2>1. ActiveOf(k)' = {} /\ userReserved'[k] = userReserved[k] - Hold(k)
    BY <1>2, ReleaseEffect DEF Inv
  <2>2. Hold(k)' = 0
    BY <2>1, HoldIsNext
  <2> QED
    BY <1>1, <1>2, <2>1, <2>2
<1>3. CASE ~ \E r \in S : KeyOf(r) = k
  <2>1. /\ ActiveOf(k)' = ActiveOf(k) /\ userReserved'[k] = userReserved[k]
        /\ \A r \in DOMAIN reservations : reservations'[r].amount = reservations[r].amount
    BY <1>3, ReleaseEffect DEF Inv
  <2>2. Hold(k)' = Hold(k)
    BY <2>1, HoldStays DEF ActiveOf, Active
  <2> QED
    BY <1>3, <2>1, <2>2
<1> QED
  BY <1>2, <1>3

-----------------------------------------------------------------------------
\* The running totals.

Charged(k) == {r \in DOMAIN reservations : KeyOf(r) = k /\ reservations[r].status = "charged"}

\* What a key's total has above its hold is what was charged.
LedgerInv ==
    /\ IsFiniteSet(DOMAIN reservations)
    /\ \A k \in ReservedKeys : userReserved[k] - Hold(k) = Amount(Charged(k))

LEMMA AmountsAreInts ==
    ASSUME TypeOK, LedgerInv, NEW S \in SUBSET DOMAIN reservations
    PROVE  IsFiniteSet(S) /\ \A r \in S : reservations[r].amount \in Int
BY FS_Subset, KeyTypes DEF LedgerInv

LEMMA LedgerBalances ==
    ASSUME TypeOK, OneActivePerKey, LedgerInv
    PROVE  LedgerMatches
<1> SUFFICES ASSUME NEW k \in ReservedKeys
             PROVE  userReserved[k] = Amount({r \in DOMAIN reservations :
                                                /\ KeyOf(r) = k
                                                /\ reservations[r].status \in {"active", "charged"}})
  BY DEF LedgerMatches
<1>1. PICK Live \in SUBSET DOMAIN reservations :
         Live = {r \in DOMAIN reservations : /\ KeyOf(r) = k
                                             /\ reservations[r].status \in {"active", "charged"}}
  OBVIOUS
<1>2. Live = Charged(k) \cup ActiveOf(k) /\ Charged(k) \cap ActiveOf(k) = {}
  BY <1>1 DEF Charged, ActiveOf, Active
<1>3. userReserved[k] - Hold(k) = Amount(Charged(k)) /\ userReserved[k] \in Int /\ Hold(k) \in Int
  BY HoldIs DEF LedgerInv, TypeOK
<1>4. CASE ActiveOf(k) = {}
  <2>1. Live = Charged(k) /\ Hold(k) = 0
    BY <1>2, <1>4, HoldIs
  <2> QED
    BY <1>1, <1>3, <2>1
<1>5. CASE ActiveOf(k) # {}
  <2>1. PICK r : r \in ActiveOf(k)
    BY <1>5
  <2>2. ActiveOf(k) = {r}
    BY <2>1 DEF OneActivePerKey
  <2>3. r \in Live /\ Live \ {r} = Charged(k)
    BY <1>2, <2>1, <2>2
  <2>4. Amount(Live) = reservations[r].amount + Amount(Live \ {r}) /\ reservations[r].amount \in Int
    BY <2>3, AmountsAreInts, AmountAnyMember
  <2>5. Hold(k) = reservations[r].amount
    BY <2>1, HoldIs
  <2>6. Amount(Charged(k)) \in Int
    BY <1>3
  <2>7. Amount(Live) = Hold(k) + Amount(Charged(k))
    BY <2>3, <2>4, <2>5
  <2>8. userReserved[k] = Amount(Live)
    BY <1>3, <2>6, <2>7
  <2> QED
    BY <1>1, <2>8
<1> QED
  BY <1>4, <1>5

\* A step that charges nobody keeps what was charged, ...
LEMMA ChargedStays ==
    ASSUME TypeOK, LedgerInv, NEW k \in ReservedKeys, Charged(k)' = Charged(k),
           \A r \in Charged(k) : reservations'[r] = reservations[r]
    PROVE  Amount(Charged(k))' = Amount(Charged(k))
<1>1. PICK S : S = Charged(k) /\ S \in SUBSET DOMAIN reservations
  BY DEF Charged
<1>2. Amount(S)' = Amount(S)
  BY <1>1, AmountsAreInts, AmountSame
<1>3. Amount(Charged(k))' = Amount(S)'
  BY <1>1
<1> QED
  BY <1>1, <1>2, <1>3

LEMMA ReserveLedger ==
    ASSUME Inv, Inv', LedgerInv, NEW r \in Reservations, NEW u \in Users, NEW a \in Auctions,
           NEW m \in Amounts, handleReserve(r, u, a, m)
    PROVE  LedgerInv'
<1> USE DEF Inv
<1>1. PICK key \in ReservedKeys : key = <<u, a>>
  BY DEF ReservedKeys
<1>2. PICK old : old = ActiveOf(key) /\ r \notin DOMAIN reservations
  BY <1>1 DEF handleReserve, TypeOK
<1>3. /\ DOMAIN reservations' = DOMAIN reservations \cup {r}
      /\ reservations'[r].status = "active"
      /\ \A i \in DOMAIN reservations :
            reservations'[i] = IF i \in old THEN [reservations[i] EXCEPT !.status = "released"]
                                            ELSE reservations[i]
  BY <1>1, <1>2 DEF handleReserve, WithStatus
<1>4. \A i \in DOMAIN reservations :
         /\ KeyOf(i)' = KeyOf(i)
         /\ i \in old => reservations'[i].status = "released" /\ reservations[i].status = "active"
         /\ i \notin old => reservations'[i] = reservations[i]
  BY <1>2, <1>3, KeyTypes DEF Reservation, KeyOf, ActiveOf, Active
<1>5. \A k \in ReservedKeys : /\ Charged(k)' = Charged(k)
                              /\ \A i \in Charged(k) : reservations'[i] = reservations[i]
  BY <1>3, <1>4 DEF Charged
<1>6. \A k \in ReservedKeys : Amount(Charged(k))' = Amount(Charged(k))
  BY <1>5, ChargedStays
<1>7. \A k \in ReservedKeys : userReserved'[k] - Hold(k)' = userReserved[k] - Hold(k)
  BY ReserveCaptures
<1>8. IsFiniteSet(DOMAIN reservations')
  BY <1>3, FS_AddElement DEF LedgerInv
<1> QED
  BY <1>6, <1>7, <1>8 DEF LedgerInv

LEMMA ReleaseLedger ==
    ASSUME Inv, Inv', LedgerInv, NEW S \in SUBSET Active, Release(S)
    PROVE  LedgerInv'
<1> USE DEF Inv
<1>1. /\ DOMAIN reservations' = DOMAIN reservations
      /\ \A i \in DOMAIN reservations :
            reservations'[i] = IF i \in S THEN [reservations[i] EXCEPT !.status = "released"]
                                          ELSE reservations[i]
  BY DEF Release, WithStatus
<1>2. \A i \in DOMAIN reservations :
         /\ KeyOf(i)' = KeyOf(i)
         /\ i \in S => reservations'[i].status = "released" /\ reservations[i].status = "active"
         /\ i \notin S => reservations'[i] = reservations[i]
  BY <1>1, KeyTypes DEF Reservation, KeyOf, Active
<1>3. \A k \in ReservedKeys : /\ Charged(k)' = Charged(k)
                              /\ \A i \in Charged(k) : reservations'[i] = reservations[i]
  BY <1>1, <1>2 DEF Charged
<1>4. \A k \in ReservedKeys : Amount(Charged(k))' = Amount(Charged(k))
  BY <1>3, ChargedStays
<1>5. \A k \in ReservedKeys : userReserved'[k] - Hold(k)' = userReserved[k] - Hold(k)
  BY ReleaseCaptures
<1> QED
  BY <1>1, <1>4, <1>5 DEF LedgerInv

\* ... and one that charges moves the hold to what was charged.
LEMMA ChargeLedger ==
    ASSUME Inv, Inv', LedgerInv, NEW r \in Reservations, handleCharge(r)
    PROVE  LedgerInv'
<1> USE DEF Inv
<1>1. PICK key \in ReservedKeys : key = KeyOf(r) /\ r \in ActiveOf(key)
  BY KeyTypes DEF handleCharge, ActiveOf, Active
<1>2. /\ DOMAIN reservations' = DOMAIN reservations /\ r \in DOMAIN reservations
      /\ reservations[r].status = "active"
      /\ \A i \in DOMAIN reservations :
            reservations'[i] = IF i = r THEN [reservations[i] EXCEPT !.status = "charged"]
                                        ELSE reservations[i]
  BY DEF handleCharge, WithStatus, Active
<1>3. \A i \in DOMAIN reservations :
         /\ KeyOf(i)' = KeyOf(i) /\ reservations'[i].amount = reservations[i].amount
         /\ i = r => reservations'[i].status = "charged"
         /\ i # r => reservations'[i] = reservations[i]
  BY <1>2, KeyTypes DEF Reservation, KeyOf
<1>4. /\ userReserved' = userReserved /\ ActiveOf(key)' = {}
      /\ \A k \in ReservedKeys \ {key} : ActiveOf(k)' = ActiveOf(k)
  BY <1>1, ChargeEffect
<1>5. ASSUME NEW k \in ReservedKeys, k # key
      PROVE  userReserved'[k] - Hold(k)' = Amount(Charged(k))'
  <2>1. Charged(k)' = Charged(k) /\ \A i \in Charged(k) : reservations'[i] = reservations[i]
    BY <1>1, <1>2, <1>3, <1>5 DEF Charged
  <2>2. Amount(Charged(k))' = Amount(Charged(k))
    BY <2>1, ChargedStays
  <2>3. Hold(k)' = Hold(k)
    BY <1>3, <1>4, <1>5, HoldStays DEF ActiveOf, Active
  <2> QED
    BY <1>4, <2>2, <2>3 DEF LedgerInv
<1>6. userReserved'[key] - Hold(key)' = Amount(Charged(key))'
  <2>1. PICK S \in SUBSET DOMAIN reservations : S = Charged(key) /\ r \notin S
    <3>1. Charged(key) \in SUBSET DOMAIN reservations /\ r \notin Charged(key)
      BY <1>2 DEF Charged
    <3> QED
      BY <3>1
  <2>2. Charged(key)' = S \cup {r}
    BY <1>1, <1>2, <1>3, <2>1 DEF Charged
  <2>3. PICK T \in SUBSET DOMAIN reservations : T = S \cup {r}
    BY <1>2
  <2>4. Amount(T)' = Amount(T)
    BY <1>3, <2>3, AmountsAreInts, AmountSame
  <2>5. Amount(T) = reservations[r].amount + Amount(S) /\ Amount(S) \in Int
    <3>1. r \in T /\ T \ {r} = S
      BY <2>1, <2>3
    <3> QED
      BY <2>1, <2>3, <3>1, AmountsAreInts, AmountAnyMember
  <2>6. Amount(Charged(key))' = Amount(T)'
    BY <2>2, <2>3
  <2>7. Hold(key) = reservations[r].amount /\ Hold(key) \in Int
    BY <1>1, HoldIs
  <2>8. Hold(key)' = 0
    BY <1>4, HoldIsNext
  <2>9. userReserved[key] - Hold(key) = Amount(S) /\ userReserved[key] \in Int
    BY <2>1 DEF LedgerInv, TypeOK
  <2> QED
    BY <1>4, <2>4, <2>5, <2>6, <2>7, <2>8, <2>9
<1> QED
  BY <1>2, <1>5, <1>6 DEF LedgerInv

LEMMA LedgerStep == Inv /\ Inv' /\ LedgerInv /\ [Next]_paymentVars => LedgerInv'
<1> SUFFICES ASSUME Inv, Inv', LedgerInv, [Next]_paymentVars PROVE LedgerInv'
  OBVIOUS
<1>1. ASSUME NEW r \in Reservations, handleRelease(r) PROVE LedgerInv'
  BY <1>1, ReleaseLedger DEF handleRelease
<1>2. ASSUME NEW a \in Auctions, NEW w, handleAuctionEnded(a, w) PROVE LedgerInv'
  BY <1>2, ReleaseLedger DEF handleAuctionEnded
<1>3. CASE Restart
  <2>1. DOMAIN reservations' = {} /\ \A k \in ReservedKeys : Charged(k)' = {}
    BY <1>3 DEF Restart, Charged
  <2>2. \A k \in ReservedKeys : userReserved'[k] = 0 /\ Hold(k)' = 0
    BY <1>3, RestartEffect, HoldIsNext DEF Inv
  <2>3. \A k \in ReservedKeys : Amount(Charged(k))' = Hold(k)'
    BY <1>3, <2>1, RestartEffect DEF Hold, Inv
  <2> QED
    BY <2>1, <2>2, <2>3, FS_EmptySet DEF LedgerInv
<1>4. CASE UNCHANGED paymentVars
  <2>1. \A k \in ReservedKeys : /\ Charged(k)' = Charged(k) /\ ActiveOf(k)' = ActiveOf(k)
                                /\ userReserved'[k] = userReserved[k]
    BY <1>4 DEF paymentVars, Charged, ActiveOf, Active, KeyOf
  <2>2. reservations' = reservations
    BY <1>4 DEF paymentVars
  <2>3. \A k \in ReservedKeys : Amount(Charged(k))' = Amount(Charged(k))
    BY <2>1, <2>2, ChargedStays DEF Inv
  <2>4. \A k \in ReservedKeys : Hold(k)' = Hold(k)
    BY <2>1, <2>2, HoldStays
  <2> QED
    BY <2>1, <2>2, <2>3, <2>4 DEF LedgerInv
<1> QED
  BY <1>1, <1>2, <1>3, <1>4, ReserveLedger, ChargeLedger DEF Next

\* The running total of a user in an auction, kept step by step, is the sum of the
\* reservations that are active or charged, for any number of reservations and in
\* any order of the handlers (handleReserve, handleRelease, handleCharge,
\* handleAuctionEnded).
THEOREM LedgerIsExact == Spec => []LedgerMatches
<1>1. Init => LedgerInv
  <2> SUFFICES ASSUME Init PROVE LedgerInv
    OBVIOUS
  <2>1. DOMAIN reservations = {} /\ \A k \in ReservedKeys : Charged(k) = {} /\ ActiveOf(k) = {}
    BY DEF Init, Charged, ActiveOf, Active
  <2>2. \A k \in ReservedKeys : userReserved[k] = 0 /\ Hold(k) = 0 /\ Amount(Charged(k)) = 0
    BY <2>1, SumOfNone DEF Init, Hold
  <2> QED
    BY <2>1, <2>2, FS_EmptySet DEF LedgerInv
<1>2. Inv /\ LedgerInv => LedgerMatches
  BY LedgerBalances DEF Inv
<1> QED
  BY <1>1, <1>2, InvInit, InvStep, LedgerStep, PTL DEF Spec

-----------------------------------------------------------------------------
\* The handlers are steps of the abstract holds.

LEMMA HoldsInit == Init => Holds!Init
<1> SUFFICES ASSUME Init PROVE Holds!Init
  OBVIOUS
<1>1. \A k \in ReservedKeys : Hold(k) = 0 /\ userReserved[k] = 0
  BY SumOfNone DEF Init, Hold, ActiveOf, Active
<1> QED
  BY <1>1 DEF Holds!Init, Holds!Pairs, ReservedKeys

LEMMA HoldsStep == Inv /\ Inv' /\ [Next]_paymentVars => [Holds!Next]_(Holds!vars)
<1> SUFFICES ASSUME TypeOK, OneActivePerKey, TypeOK', OneActivePerKey', [Next]_paymentVars
             PROVE  [Holds!Next]_(Holds!vars)
  BY DEF Inv
<1> DEFINE hold == [k \in ReservedKeys |-> Hold(k)]
           captured == [k \in ReservedKeys |-> userReserved[k] - Hold(k)]
<1>1. \A k \in ReservedKeys : /\ ActiveOf(k) = {} => Hold(k) = 0
                              /\ \A r \in ActiveOf(k) : Hold(k) = reservations[r].amount
                              /\ Hold(k) \in Nat /\ userReserved[k] \in Int
  BY HoldIs DEF TypeOK
<1>2. \A k \in ReservedKeys : /\ ActiveOf(k)' = {} => Hold(k)' = 0
                              /\ \A r \in ActiveOf(k)' : Hold(k)' = reservations'[r].amount
                              /\ Hold(k)' \in Nat /\ userReserved'[k] \in Int
  BY HoldIsNext DEF Inv
<1>3. ASSUME NEW k \in ReservedKeys, ActiveOf(k)' = ActiveOf(k),
             \A r \in ActiveOf(k) : reservations'[r].amount = reservations[r].amount
      PROVE  Hold(k)' = Hold(k)
  BY <1>3, HoldStays DEF Inv
<1>4. \A k \in ReservedKeys : \A r \in ActiveOf(k) : r \in DOMAIN reservations
  BY DEF ActiveOf, Active
<1>5. ASSUME NEW r \in Reservations, NEW u \in Users, NEW a \in Auctions, NEW m \in Amounts,
             handleReserve(r, u, a, m)
      PROVE  Holds!Place(<<u, a>>, m)
  <2>1. /\ \A k \in ReservedKeys : userReserved'[k] - Hold(k)' = userReserved[k] - Hold(k)
        /\ \A k \in ReservedKeys : Hold(k)' = IF k = <<u, a>> THEN m ELSE Hold(k)
    BY <1>5, ReserveCaptures DEF Inv
  <2>2. hold' = [hold EXCEPT ![<<u, a>>] = m]
    BY <2>1 DEF ReservedKeys
  <2> QED
    BY <2>1, <2>2 DEF Holds!Place
<1>6. ASSUME NEW r \in Reservations, handleRelease(r)
      PROVE  \E k \in ReservedKeys : Holds!GiveBack(k)
  <2>1. KeyOf(r) \in ReservedKeys /\ {r} \in SUBSET Active /\ Release({r})
    BY <1>6, KeyTypes DEF handleRelease, Active
  <2>2. PICK key \in ReservedKeys : key = KeyOf(r)
    BY <2>1
  <2>3. /\ \A k \in ReservedKeys : userReserved'[k] - Hold(k)' = userReserved[k] - Hold(k)
        /\ \A k \in ReservedKeys : Hold(k)' = IF k = key THEN 0 ELSE Hold(k)
    BY <2>1, <2>2, ReleaseCaptures DEF Inv
  <2>4. hold' = [hold EXCEPT ![key] = 0]
    BY <2>3
  <2> QED
    BY <2>3, <2>4 DEF Holds!GiveBack, Holds!Place
<1>7. ASSUME NEW r \in Reservations, handleCharge(r)
      PROVE  \E k \in ReservedKeys : Holds!Capture(k)
  <2>1. /\ KeyOf(r) \in ReservedKeys /\ userReserved' = userReserved
        /\ \A k \in ReservedKeys : ActiveOf(k)' = IF k = KeyOf(r) THEN {} ELSE ActiveOf(k)
        /\ \A s \in DOMAIN reservations : reservations'[s].amount = reservations[s].amount
    BY <1>7, ChargeEffect
  <2>2. PICK key \in ReservedKeys : key = KeyOf(r)
    BY <2>1
  <2>3. Hold(key)' = 0 /\ \A k \in ReservedKeys \ {key} : Hold(k)' = Hold(k)
    BY <1>2, <1>3, <1>4, <2>1, <2>2
  <2>4. hold' = [hold EXCEPT ![key] = 0]
    BY <2>3
  <2>5. captured' = [captured EXCEPT ![key] = @ + hold[key]]
    <3>1. \A k \in ReservedKeys : userReserved'[k] - Hold(k)' =
                                     IF k = key THEN (userReserved[k] - Hold(k)) + Hold(k)
                                                ELSE userReserved[k] - Hold(k)
      BY <1>1, <2>1, <2>3
    <3> QED
      BY <3>1
  <2> QED
    BY <2>4, <2>5 DEF Holds!Capture
<1>8. ASSUME NEW a \in Auctions, NEW w, handleAuctionEnded(a, w)
      PROVE  Holds!Settle(a, {w} \cap Users)
  <2> DEFINE losers == {r \in Active : reservations[r].auction = a /\ reservations[r].user # w}
             ends(k) == k[2] = a /\ k[1] # w
  <2>1. losers \in SUBSET Active /\ Release(losers)
    BY <1>8 DEF handleAuctionEnded
  <2>2. \A k \in ReservedKeys : ~ends(k) => ~ \E r \in losers : KeyOf(r) = k
    BY DEF KeyOf
  <2>3. \A k \in ReservedKeys : ends(k) /\ ActiveOf(k) # {} => \E r \in losers : KeyOf(r) = k
    BY DEF ActiveOf, KeyOf, ReservedKeys
  <2> HIDE DEF losers, ends
  <2>4. \A k \in ReservedKeys : Hold(k)' = IF ends(k) THEN 0 ELSE Hold(k)
    BY <1>1, <2>1, <2>2, <2>3, ReleaseCaptures DEF Inv
  <2>5. \A k \in ReservedKeys : userReserved'[k] - Hold(k)' = userReserved[k] - Hold(k)
    BY <2>1, ReleaseCaptures DEF Inv
  <2>6. \A k \in ReservedKeys : ends(k) <=> k[2] = a /\ k[1] \notin {w} \cap Users
    BY DEF ReservedKeys, ends
  <2> QED
    BY <2>4, <2>5, <2>6 DEF Holds!Settle, Holds!Pairs, ReservedKeys
<1>9. CASE Restart
  <2>1. \A k \in ReservedKeys : Hold(k)' = 0 /\ userReserved'[k] = 0
    BY <1>2, <1>9, RestartEffect
  <2> QED
    BY <2>1 DEF Holds!Next, Holds!Forget, Holds!Pairs, ReservedKeys
<1>10. CASE UNCHANGED paymentVars
  <2>1. \A k \in ReservedKeys : ActiveOf(k)' = ActiveOf(k)
    BY <1>10 DEF paymentVars, ActiveOf, Active, KeyOf
  <2>2. \A k \in ReservedKeys : Hold(k)' = Hold(k) /\ userReserved'[k] = userReserved[k]
    BY <1>3, <1>10, <2>1 DEF paymentVars
  <2> QED
    BY <2>2 DEF Holds!vars
<1>11. ASSUME NEW a \in Auctions, NEW w, handleAuctionEnded(a, w) PROVE Holds!Next
  <2>1. {w} \cap Users = {} \/ \E v \in Users : {w} \cap Users = {v}
    OBVIOUS
  <2> QED
    BY <1>8, <1>11, <2>1 DEF Holds!Next
<1>12. ASSUME NEW r \in Reservations, NEW u \in Users, NEW a \in Auctions, NEW m \in Amounts,
              handleReserve(r, u, a, m)
       PROVE  Holds!Next
  <2>1. <<u, a>> \in Users \X Auctions
    OBVIOUS
  <2> QED
    BY <1>5, <1>12, <2>1 DEF Holds!Next, Holds!Pairs
<1>13. ASSUME NEW r \in Reservations, handleRelease(r) \/ handleCharge(r) PROVE Holds!Next
  BY <1>6, <1>7, <1>13 DEF Holds!Next, Holds!Pairs, ReservedKeys
<1> QED
  BY <1>9, <1>10, <1>11, <1>12, <1>13 DEF Next

\* The reservation ids, the statuses and the running totals together are one
\* replaceable hold for each user and auction, whatever the order of reserves,
\* releases, charges, auction ends and restarts.
THEOREM ValidatorImplementsHolds == Spec => HoldsSpec
<1>1. Spec => []Inv
  BY InvInit, InvStep, PTL DEF Spec
<1> QED
  BY <1>1, HoldsInit, HoldsStep, PTL DEF Spec, HoldsSpec, Holds!Spec
=============================================================================
