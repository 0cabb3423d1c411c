-------------------------- MODULE RegistrationProofs --------------------------
(***************************************************************************)
(* Registration proved, for every lexicon, every manifest and every number *)
(* of deployments.  The loops of NormalizeAndValidate and NodeRoutes are   *)
(* put in closed form turn by turn, the closed form is the contract that   *)
(* is stated of the whole manifest, sorting gives each entry once, and a   *)
(* manifest generated again has the content it had.  The invariant says,   *)
(* of every stage of New, what its locals hold of the file.                *)
(***************************************************************************)
EXTENDS Registration, FiniteSetTheorems, SequenceTheorems, WellFoundedInduction,
        TLAPS

(* Induction over the numbers, for a set: what holds of 0 and is kept by   *)
(* one more holds of all of them.                                          *)
LEMMA Induction ==
    ASSUME NEW S, 0 \in S, \A n \in Nat : n \in S => n + 1 \in S
    PROVE  Nat \subseteq S
<1> DEFINE T == Nat \ S
<1>1. SUFFICES ASSUME T # {} PROVE FALSE
  OBVIOUS
<1>2. PICK n \in T : \A m \in T : ~(<<m, n>> \in OpToRel(<, Nat))
  BY <1>1, WFMin, NatLessThanWellFounded
<1>3. \A m \in T : ~(m < n)
  BY <1>2 DEF OpToRel
<1>4. n # 0 /\ n - 1 \in Nat /\ n - 1 < n /\ n = (n - 1) + 1
  OBVIOUS
<1>5. n - 1 \in S
  BY <1>3, <1>4
<1> QED
  BY <1>4, <1>5

-----------------------------------------------------------------------------
(* What sort does.                                                         *)

TotallyOrders(order, S) ==
    /\ \A x \in S : <<x, x>> \notin order
    /\ \A x, y \in S : x = y \/ <<x, y>> \in order \/ <<y, x>> \in order
    /\ \A x, y, z \in S : <<x, y>> \in order /\ <<y, z>> \in order => <<x, z>> \in order

Ascends(s, S, order) ==
    /\ s \in [1..Cardinality(S) -> S]
    /\ \A i, j \in 1..Cardinality(S) : i < j => <<s[i], s[j]>> \in order

(* A finite set that is not empty has a last element. *)
LEMMA LastExists ==
    ASSUME NEW S, NEW order, TotallyOrders(order, S), IsFiniteSet(S), S # {}
    PROVE  \E m \in S : \A x \in S : x = m \/ <<x, m>> \in order
<1> DEFINE HasLast(T) == \E m \in T : \A x \in T : x = m \/ <<x, m>> \in order
           P == {n \in Nat : \A T \in SUBSET S : Cardinality(T) = n /\ T # {} => HasLast(T)}
<1>1. 0 \in P
  <2>1. \A T \in SUBSET S : Cardinality(T) = 0 => T = {}
    BY FS_Subset, FS_EmptySet
  <2> QED
    BY <2>1
<1>2. ASSUME NEW n \in Nat, n \in P PROVE n + 1 \in P
  <2>1. SUFFICES ASSUME NEW T \in SUBSET S, Cardinality(T) = n + 1, T # {}
                 PROVE  HasLast(T)
    OBVIOUS
  <2>2. PICK x \in T : TRUE
    BY <2>1
  <2>3. IsFiniteSet(T) /\ Cardinality(T \ {x}) = n
    <3>1. IsFiniteSet(T)
      BY FS_Subset
    <3>2. Cardinality(T \ {x}) = Cardinality(T) - 1
      BY <2>2, <3>1, FS_RemoveElement
    <3> QED
      BY <2>1, <3>1, <3>2
  <2>4. CASE T \ {x} = {}
    BY <2>2, <2>4
  <2>5. CASE T \ {x} # {}
    <3>1. HasLast(T \ {x})
      BY <1>2, <2>3, <2>5
    <3>2. PICK m \in T \ {x} : \A y \in T \ {x} : y = m \/ <<y, m>> \in order
      BY <3>1
    <3>3. CASE <<x, m>> \in order
      BY <3>2, <3>3
    <3>4. CASE <<m, x>> \in order
      <4>1. \A y \in T : y = x \/ <<y, x>> \in order
        BY <3>2, <3>4 DEF TotallyOrders
      <4> QED
        BY <4>1, <2>2
    <3> QED
      BY <3>2, <3>3, <3>4, <2>2 DEF TotallyOrders
  <2> QED
    BY <2>4, <2>5
<1> HIDE DEF HasLast, P
<1>3. Nat \subseteq P
  BY <1>1, <1>2, Induction
<1>4. S \in SUBSET S /\ Cardinality(S) \in P
  BY <1>3, FS_CardinalityType
<1>5. HasLast(S)
  BY <1>4 DEF P
<1> QED
  BY <1>5 DEF HasLast

(* A finite set can be sorted. *)
LEMMA SortExists ==
    ASSUME NEW S, NEW order, TotallyOrders(order, S), IsFiniteSet(S)
    PROVE  \E s : Ascends(s, S, order)
<1> DEFINE P == {n \in Nat : \A T \in SUBSET S :
                               Cardinality(T) = n => \E s : Ascends(s, T, order)}
<1>1. 0 \in P
  <2>1. SUFFICES ASSUME NEW T \in SUBSET S, Cardinality(T) = 0
                 PROVE  Ascends([i \in 1..0 |-> i], T, order)
    OBVIOUS
  <2> QED
    BY <2>1 DEF Ascends
<1>2. ASSUME NEW n \in Nat, n \in P PROVE n + 1 \in P
  <2>1. SUFFICES ASSUME NEW T \in SUBSET S, Cardinality(T) = n + 1
                 PROVE  \E s : Ascends(s, T, order)
    OBVIOUS
  <2>2. IsFiniteSet(T) /\ T # {} /\ TotallyOrders(order, T)
    BY <2>1, FS_Subset, FS_EmptySet DEF TotallyOrders
  <2>3. PICK m \in T : \A x \in T : x = m \/ <<x, m>> \in order
    BY <2>2, LastExists
  <2>4. Cardinality(T \ {m}) = n
    <3>1. Cardinality(T \ {m}) = Cardinality(T) - 1
      BY <2>2, <2>3, FS_RemoveElement
    <3> QED
      BY <2>1, <3>1
  <2>5. PICK s : Ascends(s, T \ {m}, order)
    BY <1>2, <2>4
  <2> DEFINE t == [i \in 1..n+1 |-> IF i = n + 1 THEN m ELSE s[i]]
  <2>6. /\ s \in [1..n -> T \ {m}]
        /\ \A i, j \in 1..n : i < j => <<s[i], s[j]>> \in order
    BY <2>4, <2>5 DEF Ascends
  <2>9. t \in [1..n+1 -> T]
    <3>1. \A i \in 1..n+1 : i # n + 1 => i \in 1..n
      OBVIOUS
    <3> QED
      BY <2>6, <3>1
  <2>7. ASSUME NEW i \in 1..n+1, NEW j \in 1..n+1, i < j
        PROVE  <<t[i], t[j]>> \in order
    <3>1. i \in 1..n /\ t[i] = s[i] /\ s[i] \in T \ {m}
      <4>1. i \in 1..n /\ i # n + 1
        BY <2>7
      <4> QED
        BY <2>6, <4>1
    <3>2. CASE j = n + 1
      BY <2>3, <3>1, <3>2
    <3>3. CASE j # n + 1
      <4>1. j \in 1..n
        BY <3>3
      <4> QED
        BY <2>6, <2>7, <3>1, <3>3, <4>1
    <3> QED
      BY <3>2, <3>3
  <2>8. Ascends(t, T, order)
    BY <2>1, <2>9, <2>7 DEF Ascends
  <2> QED
    BY <2>8
<1> HIDE DEF P
<1>3. Nat \subseteq P
  BY <1>1, <1>2, Induction
<1>4. S \in SUBSET S /\ Cardinality(S) \in P
  BY <1>3, FS_CardinalityType
<1> QED
  BY <1>4 DEF P

(* InOrder gives each element of the set once, in ascending order. *)
LEMMA InOrderSorts ==
    ASSUME NEW S, NEW order, TotallyOrders(order, S), IsFiniteSet(S)
    PROVE  /\ InOrder(S, order) \in Seq(S)
           /\ Len(InOrder(S, order)) = Cardinality(S)
           /\ ToSet(InOrder(S, order)) = S
           /\ IsInjective(InOrder(S, order))
<1> DEFINE n == Cardinality(S)
           s == InOrder(S, order)
<1>1. n \in Nat
  BY FS_CardinalityType
<1>2. Ascends(s, S, order)
  <2>1. PICK t : Ascends(t, S, order)
    BY SortExists
  <2>2. \A u \in [1..n -> S] : DOMAIN u = 1..n
    OBVIOUS
  <2>3. t \in [1..n -> S] /\ \A i, j \in DOMAIN t : i < j => <<t[i], t[j]>> \in order
    BY <2>1, <2>2 DEF Ascends
  <2>4. s \in [1..n -> S] /\ \A i, j \in DOMAIN s : i < j => <<s[i], s[j]>> \in order
    BY <2>3 DEF InOrder
  <2> QED
    BY <2>2, <2>4 DEF Ascends
<1> HIDE DEF s
<1>3. s \in Seq(S) /\ Len(s) = n /\ DOMAIN s = 1..n /\ s \in [1..n -> S]
  BY <1>1, <1>2 DEF Ascends
<1>4. \A i, j \in 1..n : s[i] = s[j] => i = j
  <2>1. SUFFICES ASSUME NEW i \in 1..n, NEW j \in 1..n, s[i] = s[j], i < j
                 PROVE  FALSE
    BY <1>1
  <2> QED
    BY <1>2, <1>3, <2>1 DEF Ascends, TotallyOrders
<1>5. IsInjective(s)
  BY <1>3, <1>4 DEF IsInjective
<1>6. s \in Surjection(1..n, S)
  <2>1. s \in Injection(1..n, S)
    BY <1>3, <1>5 DEF Injection
  <2>2. Cardinality(1..n) = n
    BY <1>1, FS_Interval
  <2> QED
    BY <2>1, <2>2, FS_Injection
<1>7. ToSet(s) = S
  BY <1>3, <1>6 DEF ToSet, Surjection
<1> QED
  BY <1>3, <1>5, <1>7 DEF s

(* A text has one place in the lexicon. *)
LEMMA RankIsAPlace ==
    \A t \in Texts : Rank[t] \in Nat /\ Lexicon[Rank[t]] = t
<1> SUFFICES ASSUME NEW t \in Texts
             PROVE  Rank[t] \in Nat /\ Lexicon[Rank[t]] = t
  OBVIOUS
<1>1. \E i \in DOMAIN Lexicon : Lexicon[i] = t
  BY DEF Texts, ToSet
<1>2. Rank[t] \in DOMAIN Lexicon /\ Lexicon[Rank[t]] = t
  BY <1>1 DEF Rank
<1>3. DOMAIN Lexicon \subseteq Nat
  <2>1. Lexicon \in Seq(Texts)
    BY RegistrationAssumption
  <2> QED
    BY <2>1
<1> QED
  BY <1>2, <1>3

(* The lexical order of texts is a total order. *)
LEMMA LexiconIsOrdered ==
    /\ \A s, t \in Texts : s = t \/ Before(s, t) \/ Before(t, s)
    /\ \A s \in Texts : ~Before(s, s)
    /\ \A s, t, u \in Texts : Before(s, t) /\ Before(t, u) => Before(s, u)
<1>1. \A s \in Texts : Rank[s] \in Nat
  BY RankIsAPlace
<1>2. \A s, t \in Texts : Rank[s] = Rank[t] => s = t
  BY RankIsAPlace
<1> QED
  BY <1>1, <1>2 DEF Before

(* Texts are ordered, services by their names, routes by their keys. *)
LEMMA TextsAreOrdered ==
    ASSUME NEW S \in SUBSET Texts
    PROVE  TotallyOrders({p \in S \X S : Before(p[1], p[2])}, S)
<1> DEFINE order == {p \in S \X S : Before(p[1], p[2])}
<1>1. \A x, y \in S : <<x, y>> \in order <=> Before(x, y)
  OBVIOUS
<1> HIDE DEF order
<1> QED
  BY <1>1, LexiconIsOrdered DEF TotallyOrders

(* Services of distinct names are ordered by their names. *)
LEMMA ServicesAreOrdered ==
    ASSUME NEW S, \A s \in S : s.name \in Texts,
           \A s, t \in S : s.name = t.name => s = t
    PROVE  TotallyOrders({p \in S \X S : ServiceBefore(p[1], p[2])}, S)
<1> DEFINE order == {p \in S \X S : ServiceBefore(p[1], p[2])}
<1>1. \A x, y \in S : <<x, y>> \in order <=> ServiceBefore(x, y)
  OBVIOUS
<1> HIDE DEF order
<1> QED
  BY <1>1, LexiconIsOrdered DEF TotallyOrders, ServiceBefore

(* Routes of distinct keys are ordered by their keys. *)
LEMMA RoutesAreOrdered ==
    ASSUME NEW S, \A r \in S : r.http_method \in Texts /\ r.path \in Texts,
           \A r, q \in S : RouteKey(r) = RouteKey(q) => r = q
    PROVE  TotallyOrders({p \in S \X S : RouteBefore(p[1], p[2])}, S)
<1> DEFINE order == {p \in S \X S : RouteBefore(p[1], p[2])}
<1>1. \A x, y \in S : <<x, y>> \in order <=> RouteBefore(x, y)
  OBVIOUS
<1> HIDE DEF order
<1>2. \A r, q \in S : r.http_method = q.http_method /\ r.path = q.path => r = q
  BY DEF RouteKey
<1>3. \A x \in S : ~RouteBefore(x, x)
  BY LexiconIsOrdered DEF RouteBefore
<1>4. \A x, y \in S : x = y \/ RouteBefore(x, y) \/ RouteBefore(y, x)
  BY <1>2, LexiconIsOrdered DEF RouteBefore
<1>5. \A x, y, z \in S : RouteBefore(x, y) /\ RouteBefore(y, z) => RouteBefore(x, z)
  BY LexiconIsOrdered DEF RouteBefore
<1> QED
  BY <1>1, <1>3, <1>4, <1>5 DEF TotallyOrders

(* Sequences have finitely many elements, and texts are those of one. *)
LEMMA ElementsAreFinite ==
    ASSUME NEW T, NEW s \in Seq(T)
    PROVE  /\ IsFiniteSet(ToSet(s))
           /\ IsInjective(s) => Cardinality(ToSet(s)) = Len(s)
<1>1. IsFiniteSet(1..Len(s)) /\ Cardinality(1..Len(s)) = Len(s)
  <2>1. Len(s) \in Nat
    OBVIOUS
  <2>2. IsFiniteSet(1..Len(s)) /\ Cardinality(1..Len(s)) =
           IF 1 > Len(s) THEN 0 ELSE Len(s) - 1 + 1
    BY <2>1, FS_Interval
  <2> QED
    BY <2>1, <2>2
<1>2. s \in Surjection(1..Len(s), ToSet(s))
  BY DEF Surjection, ToSet
<1>3. /\ IsFiniteSet(ToSet(s))
      /\ Cardinality(ToSet(s)) = Cardinality(1..Len(s))
            <=> s \in Injection(1..Len(s), ToSet(s))
  BY <1>1, <1>2, FS_Surjection
<1>4. IsInjective(s) => s \in Injection(1..Len(s), ToSet(s))
  BY DEF Injection, ToSet
<1> QED
  BY <1>1, <1>3, <1>4

(* A set of texts is finite, and so can be sorted. *)
LEMMA TextsAreFinite ==
    ASSUME NEW S \in SUBSET Texts
    PROVE  IsFiniteSet(S)
<1>1. IsFiniteSet(Texts)
  BY RegistrationAssumption, ElementsAreFinite DEF Texts
<1> QED
  BY <1>1, FS_Subset

(* Sorted texts are the texts, each of them once. *)
LEMMA SortedTexts ==
    ASSUME NEW S \in SUBSET Texts
    PROVE  /\ Sorted(S) \in Seq(S)
           /\ ToSet(Sorted(S)) = S /\ IsInjective(Sorted(S))
BY TextsAreOrdered, TextsAreFinite, InOrderSorts DEF Sorted

-----------------------------------------------------------------------------
(* The loop over the services.                                             *)

(* The form of a method and its exception come to what the loop looks at:  *)
(* the prefix.                                                             *)
LEMMA ContractIsPrefix ==
    ASSUME NEW s
    PROVE  ServiceContract(s) <=>
              /\ TrimSpace[s.name] # "" /\ s.methods # <<>>
              /\ TrimmedMethods(s) \X {TrimSpace[s.name]} \subseteq Belongs
<1>1. \A t, u : (<<t, u>> \in MethodForm \/ PrefixAlone(t, u)) <=> <<t, u>> \in Belongs
  BY RegistrationAssumption DEF PrefixAlone
<1>2. \A name : (\A t \in TrimmedMethods(s) : <<t, name>> \in MethodForm \/ PrefixAlone(t, name))
                   <=> TrimmedMethods(s) \X {name} \subseteq Belongs
  <2>1. SUFFICES ASSUME NEW name
                 PROVE  (\A t \in TrimmedMethods(s) : <<t, name>> \in Belongs)
                           <=> TrimmedMethods(s) \X {name} \subseteq Belongs
    BY <1>1
  <2> QED
    OBVIOUS
<1> QED
  BY <1>2 DEF ServiceContract

(* The loop over the services in closed form: after i turns. *)
ServicesOK(m, i) ==
    /\ m.schema /\ m.services # <<>>
    /\ \A k \in 1..i : /\ ServiceContract(m.services[k])
                       /\ \A j \in 1..k-1 : TrimSpace[m.services[j].name]
                                              # TrimSpace[m.services[k].name]
MethodsTo(m, i) == UNION {TrimmedMethods(m.services[k]) : k \in 1..i}
NormalServices(m, i) == [k \in 1..i |-> normalizeService(m.services[k])]
ServicesTo(m, i) ==
    [ok |-> ServicesOK(m, i), methods |-> MethodsTo(m, i),
     services |-> NormalServices(m, i)]

(* One turn more is one entry more. *)
LEMMA AppendToPrefix ==
    ASSUME NEW n \in Nat, NEW i \in 1..n, NEW T, NEW s \in [1..n -> T]
    PROVE  Append([k \in 1..i-1 |-> s[k]], s[i]) = [k \in 1..i |-> s[k]]
<1>1. i - 1 \in Nat /\ (i - 1) + 1 = i
  OBVIOUS
<1> DEFINE p == [k \in 1..i-1 |-> s[k]]
<1>2. p \in Seq(T) /\ Len(p) = i - 1
  BY <1>1
<1>3. Append(p, s[i]) = [k \in 1..i |-> IF k = i THEN s[i] ELSE p[k]]
  BY <1>1, <1>2
<1>4. \A k \in 1..i : (IF k = i THEN s[i] ELSE p[k]) = s[k]
  OBVIOUS
<1> QED
  BY <1>3, <1>4

(* The services normalised by one turn more. *)
LEMMA NormalServicesGrow ==
    ASSUME NEW m, NEW n \in Nat, NEW i \in 1..n
    PROVE  /\ Append(NormalServices(m, i-1), normalizeService(m.services[i]))
                 = NormalServices(m, i)
           /\ ToSet(NormalServices(m, i)) = {normalizeService(m.services[k]) : k \in 1..i}
<1> DEFINE s == [k \in 1..n |-> normalizeService(m.services[k])]
           T == {normalizeService(m.services[k]) : k \in 1..n}
<1>1. s \in [1..n -> T]
  OBVIOUS
<1>2. /\ NormalServices(m, i-1) = [k \in 1..i-1 |-> s[k]]
      /\ NormalServices(m, i) = [k \in 1..i |-> s[k]]
      /\ s[i] = normalizeService(m.services[i])
  BY DEF NormalServices
<1>3. Append(NormalServices(m, i-1), s[i]) = NormalServices(m, i)
  <2> HIDE DEF s, T
  <2> QED
    BY <1>1, <1>2, AppendToPrefix
<1>4. ToSet(NormalServices(m, i)) = {normalizeService(m.services[k]) : k \in 1..i}
  BY DEF NormalServices, ToSet
<1> QED
  BY <1>2, <1>3, <1>4

(* One turn of the loop over the services, in closed form. *)
LEMMA ServiceTurn ==
    ASSUME NEW m, NEW n \in Nat, NEW i \in 1..n
    PROVE  AddService(ServicesTo(m, i-1), m.services[i]) = ServicesTo(m, i)
<1> DEFINE s == m.services[i]
           loop == ServicesTo(m, i-1)
<1>1. /\ loop.methods = MethodsTo(m, i-1) /\ loop.services = NormalServices(m, i-1)
  BY DEF ServicesTo
<1>2. loop.ok = ServicesOK(m, i-1)
  BY DEF ServicesTo
<1>3. Append(loop.services, normalizeService(s)) = NormalServices(m, i)
  BY <1>1, NormalServicesGrow
<1>4. MethodsTo(m, i-1) \cup TrimmedMethods(s) = MethodsTo(m, i)
  <2>1. 1..i = (1..i-1) \cup {i}
    OBVIOUS
  <2> QED
    BY <2>1 DEF MethodsTo
<1>5. ToSet(loop.services) = {normalizeService(m.services[k]) : k \in 1..i-1}
  BY <1>1 DEF NormalServices, ToSet
<1>6. (\A q \in ToSet(loop.services) : q.name # TrimSpace[s.name])
         <=> \A j \in 1..i-1 : TrimSpace[m.services[j].name] # TrimSpace[s.name]
  <2>1. \A j \in 1..i-1 :
           normalizeService(m.services[j]).name = TrimSpace[m.services[j].name]
    BY DEF normalizeService
  <2> QED
    BY <1>5, <2>1
<1>7. ServicesOK(m, i) <=>
        /\ ServicesOK(m, i-1) /\ ServiceContract(s)
        /\ \A j \in 1..i-1 : TrimSpace[m.services[j].name] # TrimSpace[s.name]
  <2>1. 1..i = (1..i-1) \cup {i}
    OBVIOUS
  <2> QED
    BY <2>1 DEF ServicesOK
<1>8. ServicesOK(m, i) <=>
        /\ loop.ok /\ TrimSpace[s.name] # "" /\ s.methods # <<>>
        /\ \A q \in ToSet(loop.services) : q.name # TrimSpace[s.name]
        /\ TrimmedMethods(s) \X {TrimSpace[s.name]} \subseteq Belongs
  <2>1. ServiceContract(s) <=>
           /\ TrimSpace[s.name] # "" /\ s.methods # <<>>
           /\ TrimmedMethods(s) \X {TrimSpace[s.name]} \subseteq Belongs
    BY ContractIsPrefix
  <2> QED
    BY <1>2, <1>6, <1>7, <2>1
<1> QED
  <2> DEFINE ok == /\ loop.ok /\ TrimSpace[s.name] # "" /\ s.methods # <<>>
                   /\ \A q \in ToSet(loop.services) : q.name # TrimSpace[s.name]
                   /\ TrimmedMethods(s) \X {TrimSpace[s.name]} \subseteq Belongs
  <2>1. ok = ServicesOK(m, i)
    BY <1>8 DEF ServicesOK
  <2>2. AddService(loop, s) =
           [ok |-> ok, methods |-> loop.methods \cup TrimmedMethods(s),
            services |-> Append(loop.services, normalizeService(s))]
    BY Zenon DEF AddService
  <2> HIDE DEF ok, loop
  <2>3. AddService(loop, s) = [ok |-> ServicesOK(m, i), methods |-> MethodsTo(m, i),
                               services |-> NormalServices(m, i)]
    BY <2>1, <2>2, <1>1, <1>3, <1>4, Zenon
  <2> QED
    BY <2>3, Zenon DEF ServicesTo, loop

(* After its last turn the loop over the services holds the methods and    *)
(* the services of the whole manifest, and has found what is wrong with it. *)
LEMMA ServiceLoopIs ==
    ASSUME NEW m, Len(m.services) \in Nat
    PROVE  ServiceLoop(m)[Len(m.services)] = ServicesTo(m, Len(m.services))
<1> DEFINE n == Len(m.services)
           first == [ok |-> m.schema /\ m.services # <<>>, methods |-> {},
                     services |-> <<>>]
           Turn(i, k) == AddService(k, m.services[i])
           Loop(f) == f = [i \in 0..n |-> IF i = 0 THEN first ELSE Turn(i, f[i-1])]
           g == [i \in 0..n |-> ServicesTo(m, i)]
           after == ServiceLoop(m)
<1>1. n \in Nat
  OBVIOUS
<1>2. after = CHOOSE f : Loop(f)
  BY DEF ServiceLoop
<1>3. first = ServicesTo(m, 0)
  <2>1. 1..0 = {} /\ NormalServices(m, 0) = <<>>
    BY DEF NormalServices
  <2>2. MethodsTo(m, 0) = {} 
    BY <2>1 DEF MethodsTo
  <2>3. ServicesOK(m, 0) = (m.schema /\ m.services # <<>>)
    <3>1. ServicesOK(m, 0) <=> (m.schema /\ m.services # <<>>)
      BY <2>1 DEF ServicesOK
    <3> QED
      BY <3>1 DEF ServicesOK
  <2> QED
    BY <2>1, <2>2, <2>3 DEF ServicesTo
<1>4. \A i \in 1..n : ServicesTo(m, i) = Turn(i, ServicesTo(m, i-1))
  BY <1>1, ServiceTurn
<1> HIDE DEF first, Turn, n, after
<1>5. Loop(g)
  <2>1. \A i \in 0..n : g[i] = IF i = 0 THEN first ELSE Turn(i, g[i-1])
    <3>1. \A i \in 0..n : i = 0 \/ (i \in 1..n /\ i - 1 \in 0..n)
      BY <1>1
    <3> QED
      BY <1>3, <1>4, <3>1
  <2> QED
    BY <2>1
<1>6. Loop(after)
  BY <1>2, <1>5
<1> HIDE DEF g
<1> DEFINE P == {i \in Nat : i <= n => after[i] = ServicesTo(m, i)}
<1>7. 0 \in P
  <2>1. 0 \in 0..n
    BY <1>1
  <2> QED
    BY <1>3, <1>6, <2>1
<1>8. ASSUME NEW i \in Nat, i \in P PROVE i + 1 \in P
  <2>1. SUFFICES ASSUME i + 1 <= n PROVE after[i+1] = ServicesTo(m, i+1)
    OBVIOUS
  <2>2. i + 1 \in 0..n /\ i + 1 # 0 /\ (i + 1) - 1 = i /\ i + 1 \in 1..n /\ i <= n
    BY <1>1, <2>1
  <2>3. after[i+1] = Turn(i+1, after[i])
    BY <1>6, <2>2
  <2> QED
    BY <1>4, <1>8, <2>2, <2>3
<1> HIDE DEF P
<1>9. n \in P
  BY <1>1, <1>7, <1>8, Induction
<1> QED
  BY <1>1, <1>9 DEF P, n, after

-----------------------------------------------------------------------------
(* The loop over the routes.                                               *)

(* The loop over the routes in closed form: after i turns. *)
RouteGood(methods, route) ==
    /\ WellFormed(route)
    /\ Transcoded(route) => route.full_method \in methods
RoutesOK(methods, routes, i) ==
    \A k \in 1..i : /\ RouteGood(methods, normalizeHTTPRoute(routes[k]))
                    /\ \A j \in 1..k-1 : RouteKey(normalizeHTTPRoute(routes[j]))
                                           # RouteKey(normalizeHTTPRoute(routes[k]))
NormalRoutes(routes, i) == [k \in 1..i |-> normalizeHTTPRoute(routes[k])]
RoutesTo(methods, routes, i) ==
    [ok |-> RoutesOK(methods, routes, i), routes |-> NormalRoutes(routes, i)]

(* The routes normalised by one turn more. *)
LEMMA NormalRoutesGrow ==
    ASSUME NEW routes, NEW n \in Nat, NEW i \in 1..n
    PROVE  Append(NormalRoutes(routes, i-1), normalizeHTTPRoute(routes[i]))
                 = NormalRoutes(routes, i)
<1> DEFINE s == [k \in 1..n |-> normalizeHTTPRoute(routes[k])]
           T == {normalizeHTTPRoute(routes[k]) : k \in 1..n}
<1>1. s \in [1..n -> T]
  OBVIOUS
<1>2. /\ NormalRoutes(routes, i-1) = [k \in 1..i-1 |-> s[k]]
      /\ NormalRoutes(routes, i) = [k \in 1..i |-> s[k]]
      /\ s[i] = normalizeHTTPRoute(routes[i])
  BY DEF NormalRoutes
<1>3. Append(NormalRoutes(routes, i-1), s[i]) = NormalRoutes(routes, i)
  <2> HIDE DEF s, T
  <2> QED
    BY <1>1, <1>2, AppendToPrefix
<1> QED
  BY <1>2, <1>3

(* One turn of the loop over the routes, in closed form. *)
LEMMA RouteTurn ==
    ASSUME NEW methods, NEW routes, NEW n \in Nat, NEW i \in 1..n
    PROVE  AddRoute(methods, RoutesTo(methods, routes, i-1), routes[i])
              = RoutesTo(methods, routes, i)
<1> DEFINE route == normalizeHTTPRoute(routes[i])
           loop == RoutesTo(methods, routes, i-1)
           ok == /\ loop.ok /\ WellFormed(route)
                 /\ Transcoded(route) => route.full_method \in methods
                 /\ \A q \in ToSet(loop.routes) : RouteKey(q) # RouteKey(route)
<1>1. loop.routes = NormalRoutes(routes, i-1)
  BY DEF RoutesTo
<1>2. loop.ok = RoutesOK(methods, routes, i-1)
  BY DEF RoutesTo
<1>3. Append(loop.routes, route) = NormalRoutes(routes, i)
  BY <1>1, NormalRoutesGrow
<1>4. ToSet(loop.routes) = {normalizeHTTPRoute(routes[k]) : k \in 1..i-1}
  BY <1>1 DEF NormalRoutes, ToSet
<1>5. RoutesOK(methods, routes, i) <=>
        /\ RoutesOK(methods, routes, i-1) /\ RouteGood(methods, route)
        /\ \A j \in 1..i-1 : RouteKey(normalizeHTTPRoute(routes[j])) # RouteKey(route)
  <2>1. 1..i = (1..i-1) \cup {i}
    OBVIOUS
  <2> QED
    BY <2>1 DEF RoutesOK
<1>6. RoutesOK(methods, routes, i) <=> ok
  BY <1>2, <1>4, <1>5 DEF RouteGood
<1>7. ok = RoutesOK(methods, routes, i)
  BY <1>6 DEF RoutesOK
<1>8. AddRoute(methods, loop, routes[i])
         = [ok |-> ok, routes |-> Append(loop.routes, route)]
  BY Zenon DEF AddRoute
<1> HIDE DEF ok, loop, route
<1>9. AddRoute(methods, loop, routes[i])
         = [ok |-> RoutesOK(methods, routes, i), routes |-> NormalRoutes(routes, i)]
  BY <1>3, <1>7, <1>8, Zenon
<1> QED
  BY <1>9, Zenon DEF RoutesTo, loop

(* The loop over the routes, after each of its turns. *)
LEMMA RouteLoopIs ==
    ASSUME NEW methods, NEW routes, Len(routes) \in Nat
    PROVE  RouteLoop(methods, routes)[Len(routes)]
              = RoutesTo(methods, routes, Len(routes))
<1> DEFINE n == Len(routes)
           first == [ok |-> TRUE, routes |-> <<>>]
           Turn(i, k) == AddRoute(methods, k, routes[i])
           Loop(f) == f = [i \in 0..n |-> IF i = 0 THEN first ELSE Turn(i, f[i-1])]
           g == [i \in 0..n |-> RoutesTo(methods, routes, i)]
           after == RouteLoop(methods, routes)
<1>1. n \in Nat
  OBVIOUS
<1>2. after = CHOOSE f : Loop(f)
  BY DEF RouteLoop
<1>3. first = RoutesTo(methods, routes, 0)
  <2>1. 1..0 = {} /\ NormalRoutes(routes, 0) = <<>>
    BY DEF NormalRoutes
  <2>2. RoutesOK(methods, routes, 0) = TRUE
    BY <2>1 DEF RoutesOK
  <2> QED
    BY <2>1, <2>2 DEF RoutesTo
<1>4. \A i \in 1..n : RoutesTo(methods, routes, i) = Turn(i, RoutesTo(methods, routes, i-1))
  BY <1>1, RouteTurn
<1> HIDE DEF first, Turn, n, after
<1>5. Loop(g)
  <2>1. \A i \in 0..n : g[i] = IF i = 0 THEN first ELSE Turn(i, g[i-1])
    <3>1. \A i \in 0..n : i = 0 \/ (i \in 1..n /\ i - 1 \in 0..n)
      BY <1>1
    <3> QED
      BY <1>3, <1>4, <3>1
  <2> QED
    BY <2>1
<1>6. Loop(after)
  BY <1>2, <1>5
<1> HIDE DEF g
<1> DEFINE P == {i \in Nat : i <= n => after[i] = RoutesTo(methods, routes, i)}
<1>7. 0 \in P
  <2>1. 0 \in 0..n
    BY <1>1
  <2> QED
    BY <1>3, <1>6, <2>1
<1>8. ASSUME NEW i \in Nat, i \in P PROVE i + 1 \in P
  <2>1. SUFFICES ASSUME i + 1 <= n PROVE after[i+1] = RoutesTo(methods, routes, i+1)
    OBVIOUS
  <2>2. i + 1 \in 0..n /\ i + 1 # 0 /\ (i + 1) - 1 = i /\ i + 1 \in 1..n /\ i <= n
    BY <1>1, <2>1
  <2>3. after[i+1] = Turn(i+1, after[i])
    BY <1>6, <2>2
  <2> QED
    BY <1>4, <1>8, <2>2, <2>3
<1> HIDE DEF P
<1>9. n \in P
  BY <1>1, <1>7, <1>8, Induction
<1> QED
  BY <1>1, <1>9 DEF P, n, after

-----------------------------------------------------------------------------
(* What CheckRoutes says of the routes as a whole.                         *)
Agreeing(methods, S) ==
    /\ \A r \in S : RouteGood(methods, r)
    /\ \A r, q \in S : Transcoded(r) = Transcoded(q)
Distinct(s) == \A i, j \in DOMAIN s : RouteKey(s[i]) = RouteKey(s[j]) => i = j

(* CheckRoutes accepts the routes that are good each for itself, of one    *)
(* kind and of distinct keys, and gives them back normalised.              *)
LEMMA CheckRoutesIs ==
    ASSUME NEW methods, NEW T, NEW routes \in Seq(T)
    PROVE  LET normal == NormalRoutes(routes, Len(routes))
           IN /\ CheckRoutes(methods, routes).routes = normal
              /\ CheckRoutes(methods, routes).ok <=>
                    Agreeing(methods, ToSet(normal)) /\ Distinct(normal)
<1> DEFINE n == Len(routes)
           normal == NormalRoutes(routes, n)
           end == RouteLoop(methods, routes)[n]
           check == CheckRoutes(methods, routes)
<1>1. n \in Nat
  OBVIOUS
<1>2. end = RoutesTo(methods, routes, n)
  BY <1>1, RouteLoopIs
<1>3. end.routes = normal /\ end.ok = RoutesOK(methods, routes, n)
  BY <1>2 DEF RoutesTo
<1>4. /\ check.routes = end.routes
      /\ check.ok = (end.ok /\ \A r, s \in ToSet(end.routes) :
                                   Transcoded(r) <=> Transcoded(s))
  BY Zenon DEF CheckRoutes
<1>5. DOMAIN normal = 1..n /\ \A k \in 1..n : normal[k] = normalizeHTTPRoute(routes[k])
  BY DEF NormalRoutes
<1>6. RoutesOK(methods, routes, n) <=>
         /\ \A r \in ToSet(normal) : RouteGood(methods, r)
         /\ Distinct(normal)
  <2>1. ToSet(normal) = {normalizeHTTPRoute(routes[k]) : k \in 1..n}
    BY <1>5 DEF ToSet
  <2> DEFINE K(k) == RouteKey(normalizeHTTPRoute(routes[k]))
  <2>2. (\A k \in 1..n : \A j \in 1..k-1 : K(j) # K(k))
          <=> \A i, j \in 1..n : K(i) = K(j) => i = j
    <3>1. \A k \in 1..n : \A j \in 1..k-1 : j \in 1..n /\ j # k
      BY <1>1
    <3>2. \A i, j \in 1..n : i = j \/ i \in 1..j-1 \/ j \in 1..i-1
      BY <1>1
    <3> HIDE DEF K
    <3> QED
      BY <3>1, <3>2
  <2>3. Distinct(normal) <=> \A i, j \in 1..n : K(i) = K(j) => i = j
    BY <1>5 DEF Distinct
  <2> QED
    BY <2>1, <2>2, <2>3 DEF RoutesOK
<1>7. \A r \in ToSet(normal) : Transcoded(r) \in BOOLEAN
  BY DEF Transcoded
<1>8. check.ok <=> Agreeing(methods, ToSet(normal)) /\ Distinct(normal)
  <2>1. check.ok <=> /\ RoutesOK(methods, routes, n)
                     /\ \A r, s \in ToSet(normal) : Transcoded(r) <=> Transcoded(s)
    BY <1>3, <1>4, Zenon
  <2> QED
    BY <1>6, <1>7, <2>1 DEF Agreeing
<1> QED
  BY <1>3, <1>4, <1>8

-----------------------------------------------------------------------------
(* Texts, routes and services.                                             *)

(* The laws of texts. *)
LEMMA TextLaws ==
    /\ "" \in Texts /\ TrimSpace[""] = "" /\ "" \notin Absolute
    /\ \A t \in Texts :
          /\ TrimSpace[t] \in Texts /\ TrimSlashes[t] \in Texts
          /\ ToUpper[t] \in Texts /\ Pad[t] \in Texts /\ Respell[t] \in Texts
          /\ TrimSpace[TrimSpace[t]] = TrimSpace[t]
          /\ TrimSlashes[TrimSlashes[t]] = TrimSlashes[t]
          /\ ToUpper[ToUpper[t]] = ToUpper[t]
          /\ TrimSpace[ToUpper[t]] = ToUpper[TrimSpace[t]]
          /\ TrimSpace[Pad[t]] = TrimSpace[t]
          /\ ToUpper[Respell[t]] = ToUpper[t]
<1>1. /\ TrimSpace \in [Texts -> Texts] /\ TrimSlashes \in [Texts -> Texts]
      /\ ToUpper \in [Texts -> Texts] /\ Pad \in [Texts -> Texts]
      /\ Respell \in [Texts -> Texts]
  BY RegistrationAssumption
<1> QED
  BY <1>1, RegistrationAssumption

(* A normalised route is a route, and normalised; its key is the request   *)
(* that the given route takes.                                             *)
LEMMA NormalRoute ==
    ASSUME NEW r \in HTTPRoutes
    PROVE  /\ normalizeHTTPRoute(r) \in HTTPRoutes
           /\ normalizeHTTPRoute(normalizeHTTPRoute(r)) = normalizeHTTPRoute(r)
           /\ RouteKey(normalizeHTTPRoute(r)) = Request(r)
           /\ Request(normalizeHTTPRoute(r)) = Request(r)
           /\ Transcoded(normalizeHTTPRoute(r)) = Transcodes(r)
           /\ Transcodes(normalizeHTTPRoute(r)) = Transcodes(r)
<1> DEFINE n == normalizeHTTPRoute(r)
<1>1. /\ r.http_method \in Texts /\ r.path \in Texts /\ r.full_method \in Texts
      /\ r.upstream_path \in Texts /\ r.strip_prefix \in BOOLEAN
  BY DEF HTTPRoutes
<1>2. /\ n.http_method = ToUpper[TrimSpace[r.http_method]]
      /\ n.path = TrimSpace[r.path] /\ n.full_method = TrimSpace[r.full_method]
      /\ n.upstream_path = TrimSpace[r.upstream_path]
      /\ n.strip_prefix = r.strip_prefix
  BY DEF normalizeHTTPRoute
<1>3. n \in HTTPRoutes
  BY <1>1, TextLaws DEF normalizeHTTPRoute, HTTPRoutes
<1>4. /\ ToUpper[TrimSpace[n.http_method]] = n.http_method
      /\ TrimSpace[n.path] = n.path /\ TrimSpace[n.full_method] = n.full_method
      /\ TrimSpace[n.upstream_path] = n.upstream_path
  <2>1. \A t \in Texts : ToUpper[TrimSpace[ToUpper[TrimSpace[t]]]] = ToUpper[TrimSpace[t]]
    <3>1. ASSUME NEW t \in Texts, NEW u \in Texts, u = TrimSpace[t]
          PROVE  ToUpper[TrimSpace[ToUpper[u]]] = ToUpper[u]
      <4>1. TrimSpace[ToUpper[u]] = ToUpper[TrimSpace[u]] /\ TrimSpace[u] = u
        BY <3>1, TextLaws
      <4>2. ToUpper[ToUpper[u]] = ToUpper[u]
        BY TextLaws
      <4> QED
        BY <4>1, <4>2
    <3>2. \A t \in Texts : TrimSpace[t] \in Texts
      BY TextLaws
    <3> QED
      BY <3>1, <3>2
  <2>2. \A t \in Texts : TrimSpace[TrimSpace[t]] = TrimSpace[t]
    BY TextLaws
  <2> HIDE DEF n
  <2> QED
    BY <1>1, <1>2, <2>1, <2>2
<1>5. normalizeHTTPRoute(n) = n
  <2> DEFINE Route(a, b, c, d, e) ==
               [http_method |-> a, path |-> b, full_method |-> c,
                upstream_path |-> d, strip_prefix |-> e]
  <2>1. normalizeHTTPRoute(n) =
           Route(ToUpper[TrimSpace[n.http_method]], TrimSpace[n.path],
                 TrimSpace[n.full_method], TrimSpace[n.upstream_path], n.strip_prefix)
    BY Zenon DEF normalizeHTTPRoute
  <2>2. n = Route(ToUpper[TrimSpace[r.http_method]], TrimSpace[r.path],
                  TrimSpace[r.full_method], TrimSpace[r.upstream_path], r.strip_prefix)
    BY Zenon DEF normalizeHTTPRoute
  <2> HIDE DEF Route, n
  <2> QED
    BY <1>2, <1>4, <2>1, <2>2
<1> HIDE DEF n
<1>6. /\ RouteKey(n) = Request(r) /\ Request(n) = Request(r)
      /\ Transcoded(n) = Transcodes(r) /\ Transcodes(n) = Transcodes(r)
  BY <1>2, <1>4 DEF RouteKey, Request, Transcoded, Transcodes
<1> QED
  BY <1>3, <1>5, <1>6 DEF n

(* A normalised route leads to what the given route leads to. *)
LEMMA NormalRouteLeads ==
    ASSUME NEW r \in HTTPRoutes
    PROVE  Leads(normalizeHTTPRoute(r)) = Leads(r)
<1> DEFINE n == normalizeHTTPRoute(r)
<1>1. /\ n.full_method = TrimSpace[r.full_method]
      /\ n.upstream_path = TrimSpace[r.upstream_path]
      /\ n.strip_prefix = r.strip_prefix
  BY DEF normalizeHTTPRoute
<1>2. /\ TrimSpace[TrimSpace[r.full_method]] = TrimSpace[r.full_method]
      /\ TrimSpace[TrimSpace[r.upstream_path]] = TrimSpace[r.upstream_path]
  BY TextLaws DEF HTTPRoutes
<1>3. Request(n) = Request(r)
  BY NormalRoute
<1> HIDE DEF n
<1>4. Leads(n) = Leads(r)
  BY <1>1, <1>2, <1>3 DEF Leads
<1> QED
  BY <1>4 DEF n

(* For a route, the checks of the loop are those of the contract, when the *)
(* services declare methods that begin with a slash.                       *)
LEMMA RouteGoodIsContract ==
    ASSUME NEW f, NEW r \in HTTPRoutes, MethodsOf(f) \subseteq Absolute
    PROVE  RouteGood(MethodsOf(f), normalizeHTTPRoute(r)) <=> RouteContract(f, r)
<1> DEFINE n == normalizeHTTPRoute(r)
<1>1. /\ n.http_method = Request(r)[1] /\ n.path = Request(r)[2]
      /\ n.full_method = TrimSpace[r.full_method]
      /\ n.upstream_path = TrimSpace[r.upstream_path]
      /\ n.strip_prefix = r.strip_prefix
  BY DEF normalizeHTTPRoute, Request
<1>2. Transcodes(r) <=> n.full_method # ""
  BY <1>1 DEF Transcodes
<1> HIDE DEF n
<1>3. RouteContract(f, r) <=>
         /\ n.http_method # "" /\ n.path \in Absolute
         /\ n.full_method # "" => n.full_method \in MethodsOf(f)
         /\ ~(n.full_method # "" /\ (n.upstream_path # "" \/ r.strip_prefix))
         /\ ~(n.upstream_path # "" /\ r.strip_prefix)
         /\ n.upstream_path \in {""} \cup (Absolute \cap Plain)
  BY <1>1, <1>2 DEF RouteContract
<1>4. RouteGood(MethodsOf(f), n) <=>
         /\ n.http_method # "" /\ n.path \in Absolute
         /\ n.full_method # "" => /\ n.full_method \in Absolute
                                  /\ n.upstream_path = "" /\ ~r.strip_prefix
         /\ n.upstream_path # "" => /\ n.upstream_path \in Absolute \cap Plain
                                    /\ ~r.strip_prefix
         /\ n.full_method # "" => n.full_method \in MethodsOf(f)
  BY <1>1 DEF RouteGood, WellFormed, Transcoded
<1>5. RouteGood(MethodsOf(f), n) <=> RouteContract(f, r)
  BY <1>3, <1>4
<1> QED
  BY <1>5 DEF n

(* What a manifest's services and routes are made of.                      *)
LEMMA ManifestTypes ==
    ASSUME NEW f \in GatewayManifests
    PROVE  /\ Len(f.services) \in Nat /\ DOMAIN f.services = 1..Len(f.services)
           /\ f.services \in Seq(GatewayServices) /\ f.routes \in Seq(HTTPRoutes)
           /\ \A s \in ToSet(f.services) : s \in GatewayServices
           /\ Len(f.routes) \in Nat /\ DOMAIN f.routes = 1..Len(f.routes)
           /\ \A r \in ToSet(f.routes) : r \in HTTPRoutes
<1>1. f.services \in Seq(GatewayServices) /\ f.routes \in Seq(HTTPRoutes)
  BY DEF GatewayManifests
<1>2. \A T : \A s \in Seq(T) : /\ Len(s) \in Nat /\ DOMAIN s = 1..Len(s)
                               /\ \A x \in ToSet(s) : x \in T
  BY DEF ToSet
<1> QED
  BY <1>1, <1>2

(* A service is made of texts. *)
LEMMA ServiceTexts ==
    ASSUME NEW s \in GatewayServices
    PROVE  TrimSpace[s.name] \in Texts /\ TrimmedMethods(s) \in SUBSET Texts
<1>1. s.name \in Texts /\ s.methods \in Seq(Texts)
  BY DEF GatewayServices
<1>2. \A t \in ToSet(s.methods) : t \in Texts
  BY <1>1 DEF ToSet
<1>3. \A t \in Texts : TrimSpace[t] \in Texts
  BY TextLaws
<1> QED
  BY <1>1, <1>2, <1>3 DEF TrimmedMethods

(* The methods of a service that keeps the contract are absolute. *)
LEMMA ContractedMethods ==
    ASSUME NEW s \in GatewayServices, ServiceContract(s)
    PROVE  TrimmedMethods(s) \subseteq Absolute /\ TrimmedMethods(s) # {}
<1>1. TrimmedMethods(s) \subseteq Absolute
  <2>1. \A t \in TrimmedMethods(s) : <<t, TrimSpace[s.name]>> \in Belongs
    BY ContractIsPrefix
  <2>2. \A t, u : <<t, u>> \in Belongs => t \in Absolute
    BY RegistrationAssumption
  <2> QED
    BY <2>1, <2>2
<1>2. TrimmedMethods(s) # {}
  <2>1. s.methods \in Seq(Texts) /\ s.methods # <<>>
    BY DEF GatewayServices, ServiceContract
  <2>2. 1 \in DOMAIN s.methods
    BY <2>1
  <2> QED
    BY <2>2 DEF TrimmedMethods, ToSet
<1> QED
  BY <1>1, <1>2

-----------------------------------------------------------------------------
(* The loops decide the contract.                                          *)

(* What a manifest that keeps the contract comes to in the payload.        *)
NormalRoutesOf(f) == {normalizeHTTPRoute(r) : r \in ToSet(f.routes)}
PayloadMethods(f) == Sorted(MethodsOf(f))
PayloadRoutes(f) == SortedRoutes(NormalRoutesOf(f))

(* The parts of the contract. *)
ServicesContract(f) ==
    /\ f.schema /\ f.services # <<>>
    /\ \A s \in ToSet(f.services) : ServiceContract(s)
    /\ \A i, j \in DOMAIN f.services :
          TrimSpace[f.services[i].name] = TrimSpace[f.services[j].name] => i = j
RoutesContract(f) ==
    /\ \A r \in ToSet(f.routes) : RouteContract(f, r)
    /\ \A i, j \in DOMAIN f.routes : Request(f.routes[i]) = Request(f.routes[j]) => i = j
    /\ \A r, s \in ToSet(f.routes) : Transcodes(r) = Transcodes(s)

(* The contract, with what it says of the routes in a part of its own. *)
LEMMA ContractParts ==
    ASSUME NEW f
    PROVE  Contract(f) <=> ServicesContract(f) /\ RoutesContract(f)
BY DEF Contract, ServicesContract, RoutesContract

(* What the loop finds of the services is what the contract says of them. *)
LEMMA ServicesOKIsContract ==
    ASSUME NEW f \in GatewayManifests
    PROVE  /\ ServicesOK(f, Len(f.services)) <=> ServicesContract(f)
           /\ MethodsTo(f, Len(f.services)) = MethodsOf(f)
<1> DEFINE n == Len(f.services)
           Name(k) == TrimSpace[f.services[k].name]
<1>1. n \in Nat /\ DOMAIN f.services = 1..n
  BY ManifestTypes
<1>2. ToSet(f.services) = {f.services[k] : k \in 1..n}
  BY <1>1 DEF ToSet
<1>3. (\A k \in 1..n : \A j \in 1..k-1 : Name(j) # Name(k))
        <=> \A i, j \in 1..n : Name(i) = Name(j) => i = j
  <2>1. \A k \in 1..n : \A j \in 1..k-1 : j \in 1..n /\ j # k
    BY <1>1
  <2>2. \A i, j \in 1..n : i = j \/ i \in 1..j-1 \/ j \in 1..i-1
    BY <1>1
  <2> HIDE DEF Name, n
  <2> QED
    BY <2>1, <2>2
<1>4. ServicesOK(f, n) <=> ServicesContract(f)
  <2>1. (\A k \in 1..n : ServiceContract(f.services[k]))
          <=> \A s \in ToSet(f.services) : ServiceContract(s)
    BY <1>2
  <2>2. ServicesContract(f) <=>
           /\ f.schema /\ f.services # <<>>
           /\ \A k \in 1..n : ServiceContract(f.services[k])
           /\ \A k \in 1..n : \A j \in 1..k-1 : Name(j) # Name(k)
    BY <1>1, <1>3, <2>1 DEF ServicesContract
  <2>3. ServicesOK(f, n) <=>
           /\ f.schema /\ f.services # <<>>
           /\ \A k \in 1..n : ServiceContract(f.services[k])
           /\ \A k \in 1..n : \A j \in 1..k-1 : Name(j) # Name(k)
    BY DEF ServicesOK
  <2> QED
    BY <2>2, <2>3
<1>5. MethodsTo(f, n) = MethodsOf(f)
  BY <1>2 DEF MethodsTo, MethodsOf
<1> QED
  BY <1>4, <1>5

(* The methods of a manifest are texts, and those of one that keeps the    *)
(* contract are absolute.                                                  *)
LEMMA ContractMethods ==
    ASSUME NEW f \in GatewayManifests, ServicesContract(f)
    PROVE  /\ MethodsOf(f) \subseteq Absolute /\ MethodsOf(f) # {}
           /\ MethodsOf(f) \in SUBSET Texts /\ "" \notin MethodsOf(f)
           /\ \A t \in MethodsOf(f) : TrimSpace[t] = t
<1>1. \A s \in ToSet(f.services) : s \in GatewayServices /\ ServiceContract(s)
  BY ManifestTypes DEF ServicesContract
<1>2. \A s \in ToSet(f.services) :
         /\ TrimmedMethods(s) \subseteq Absolute /\ TrimmedMethods(s) # {}
         /\ TrimmedMethods(s) \in SUBSET Texts
  BY <1>1, ContractedMethods, ServiceTexts
<1>3. MethodsOf(f) \subseteq Absolute /\ MethodsOf(f) \subseteq Texts
  BY <1>2 DEF MethodsOf
<1>4. MethodsOf(f) # {}
  <2>1. 1 \in DOMAIN f.services
    BY ManifestTypes DEF ServicesContract
  <2>2. f.services[1] \in ToSet(f.services)
    BY <2>1 DEF ToSet
  <2> QED
    BY <1>2, <2>2 DEF MethodsOf
<1>5. \A t \in MethodsOf(f) : TrimSpace[t] = t
  <2>1. SUFFICES ASSUME NEW s \in ToSet(f.services), NEW t \in TrimmedMethods(s)
                 PROVE  TrimSpace[t] = t
    BY DEF MethodsOf
  <2>2. PICK u \in ToSet(s.methods) : t = TrimSpace[u]
    BY <2>1 DEF TrimmedMethods
  <2>3. u \in Texts
    BY <1>1, <2>2 DEF GatewayServices, ToSet
  <2> QED
    BY <2>2, <2>3, TextLaws
<1> QED
  BY <1>3, <1>4, <1>5, TextLaws

(* The routes as the loop leaves them. *)
LEMMA NormalRoutesAre ==
    ASSUME NEW f \in GatewayManifests
    PROVE  LET normal == NormalRoutes(f.routes, Len(f.routes))
           IN /\ normal \in Seq(HTTPRoutes) /\ Len(normal) = Len(f.routes)
              /\ ToSet(normal) = NormalRoutesOf(f)
              /\ Distinct(normal) <=>
                    \A i, j \in DOMAIN f.routes :
                       Request(f.routes[i]) = Request(f.routes[j]) => i = j
<1> DEFINE n == Len(f.routes)
           normal == NormalRoutes(f.routes, n)
<1>1. n \in Nat /\ DOMAIN f.routes = 1..n /\ \A k \in 1..n : f.routes[k] \in HTTPRoutes
  BY ManifestTypes DEF ToSet
<1>2. DOMAIN normal = 1..n /\ \A k \in 1..n : normal[k] = normalizeHTTPRoute(f.routes[k])
  BY DEF NormalRoutes
<1>3. \A k \in 1..n : normal[k] \in HTTPRoutes /\ RouteKey(normal[k]) = Request(f.routes[k])
  BY <1>1, <1>2, NormalRoute
<1>4. normal \in Seq(HTTPRoutes) /\ Len(normal) = n
  <2>1. \A k \in 1..n : normalizeHTTPRoute(f.routes[k]) \in HTTPRoutes
    BY <1>1, NormalRoute
  <2>2. normal \in [1..n -> HTTPRoutes]
    BY <2>1 DEF NormalRoutes
  <2> HIDE DEF normal, n
  <2> QED
    BY <1>1, <2>2
<1>5. ToSet(normal) = NormalRoutesOf(f)
  BY <1>1, <1>2 DEF ToSet, NormalRoutesOf
<1>6. Distinct(normal) <=>
         \A i, j \in DOMAIN f.routes : Request(f.routes[i]) = Request(f.routes[j]) => i = j
  <2> DEFINE R(k) == Request(f.routes[k])
  <2>1. \A k \in 1..n : RouteKey(normal[k]) = R(k)
    BY <1>3
  <2>2. Distinct(normal) <=> \A i, j \in 1..n :
                               RouteKey(normal[i]) = RouteKey(normal[j]) => i = j
    BY <1>2 DEF Distinct
  <2> HIDE DEF normal, R
  <2>3. Distinct(normal) <=> \A i, j \in 1..n : R(i) = R(j) => i = j
    BY <2>1, <2>2
  <2> QED
    BY <1>1, <2>3 DEF R
<1> QED
  BY <1>4, <1>5, <1>6

(* What CheckRoutes says of the normalised routes is what the contract says *)
(* of the routes as they are written.                                      *)
LEMMA AgreeingIsContract ==
    ASSUME NEW f \in GatewayManifests, MethodsOf(f) \subseteq Absolute
    PROVE  Agreeing(MethodsOf(f), NormalRoutesOf(f)) <=>
              /\ \A r \in ToSet(f.routes) : RouteContract(f, r)
              /\ \A r, s \in ToSet(f.routes) : Transcodes(r) = Transcodes(s)
<1>1. \A r \in ToSet(f.routes) : r \in HTTPRoutes
  BY ManifestTypes
<1>2. \A r \in ToSet(f.routes) :
         /\ RouteGood(MethodsOf(f), normalizeHTTPRoute(r)) <=> RouteContract(f, r)
         /\ Transcoded(normalizeHTTPRoute(r)) = Transcodes(r)
  BY <1>1, NormalRoute, RouteGoodIsContract
<1> QED
  BY <1>2 DEF Agreeing, NormalRoutesOf

(* The manifest is accepted exactly when it keeps the contract. *)
LEMMA AcceptedIsContract ==
    ASSUME NEW f \in GatewayManifests
    PROVE  /\ NormalizeAndValidate(f).ok <=> Contract(f)
           /\ Contract(f) =>
                /\ NormalizeAndValidate(f).services =
                      SortedServices({normalizeService(s) : s \in ToSet(f.services)})
                /\ NormalizeAndValidate(f).routes = PayloadRoutes(f)
<1> DEFINE loop == ServiceLoop(f)[Len(f.services)]
           check == CheckRoutes(loop.methods, f.routes)
           normal == NormalRoutes(f.routes, Len(f.routes))
<1>1. loop = ServicesTo(f, Len(f.services))
  BY ManifestTypes, ServiceLoopIs
<1>2. /\ loop.ok <=> ServicesContract(f)
      /\ loop.methods = MethodsOf(f)
      /\ loop.services = NormalServices(f, Len(f.services))
  <2>1. ServicesTo(f, Len(f.services)).ok = ServicesOK(f, Len(f.services))
    BY DEF ServicesTo
  <2>2. /\ loop.methods = MethodsTo(f, Len(f.services))
        /\ loop.services = NormalServices(f, Len(f.services))
    BY <1>1 DEF ServicesTo
  <2> HIDE DEF loop
  <2> QED
    BY <1>1, <2>1, <2>2, ServicesOKIsContract
<1>3. /\ check.routes = normal
      /\ check.ok <=> Agreeing(loop.methods, ToSet(normal)) /\ Distinct(normal)
  BY ManifestTypes, CheckRoutesIs
<1>4. ToSet(loop.services) = {normalizeService(s) : s \in ToSet(f.services)}
  <2> DEFINE n == Len(f.services)
  <2>1. ToSet(NormalServices(f, n)) = {normalizeService(f.services[k]) : k \in 1..n}
    BY DEF NormalServices, ToSet
  <2>2. ToSet(f.services) = {f.services[k] : k \in 1..n}
    BY ManifestTypes DEF ToSet
  <2> HIDE DEF loop, n
  <2> QED
    BY <1>2, <2>1, <2>2 DEF n
<1>5. ToSet(check.routes) = NormalRoutesOf(f)
  BY <1>3, NormalRoutesAre
<1>6. (loop.ok /\ check.ok) <=> Contract(f)
  <2>1. ServicesContract(f) => (check.ok <=> RoutesContract(f))
    BY <1>2, <1>3, NormalRoutesAre, ContractMethods, AgreeingIsContract DEF RoutesContract
  <2> QED
    BY <1>2, <2>1, ContractParts
<1>7. NormalizeAndValidate(f) =
         IF loop.ok /\ check.ok
         THEN [ok |-> TRUE, services |-> SortedServices(ToSet(loop.services)),
               routes |-> SortedRoutes(ToSet(check.routes))]
         ELSE [ok |-> FALSE, services |-> <<>>, routes |-> <<>>]
  BY DEF NormalizeAndValidate
<1> HIDE DEF loop, check
<1> QED
  BY <1>4, <1>5, <1>6, <1>7 DEF PayloadRoutes

-----------------------------------------------------------------------------
(* The payload.                                                            *)

(* The routes of the payload: those of the manifest, each once. *)
LEMMA PayloadRoutesAre ==
    ASSUME NEW f \in GatewayManifests, Contract(f)
    PROVE  /\ PayloadRoutes(f) \in Seq(HTTPRoutes)
           /\ Len(PayloadRoutes(f)) = Len(f.routes)
           /\ ToSet(PayloadRoutes(f)) = NormalRoutesOf(f)
           /\ Distinct(PayloadRoutes(f))
<1> DEFINE n == Len(f.routes)
           normal == NormalRoutes(f.routes, n)
           S == NormalRoutesOf(f)
           R == PayloadRoutes(f)
<1>1. /\ normal \in Seq(HTTPRoutes) /\ Len(normal) = n /\ ToSet(normal) = S
      /\ Distinct(normal)
  BY NormalRoutesAre DEF Contract
<1> HIDE DEF normal, S, R
<1>2. \A r, q \in S : RouteKey(r) = RouteKey(q) => r = q
  BY <1>1 DEF Distinct, ToSet
<1>3. IsInjective(normal)
  BY <1>1 DEF Distinct, IsInjective
<1>4. IsFiniteSet(S) /\ Cardinality(S) = n
  BY <1>1, <1>3, ElementsAreFinite
<1>5. \A r \in S : r \in HTTPRoutes
  BY <1>1 DEF ToSet
<1>6. \A r \in S : r.http_method \in Texts /\ r.path \in Texts
  BY <1>5 DEF HTTPRoutes
<1>7. R \in Seq(S) /\ Len(R) = Cardinality(S) /\ ToSet(R) = S /\ IsInjective(R)
  BY <1>2, <1>4, <1>6, RoutesAreOrdered, InOrderSorts DEF SortedRoutes, R, S, PayloadRoutes
<1>8. R \in Seq(HTTPRoutes)
  BY <1>5, <1>7
<1>9. Distinct(R)
  <2>1. \A i \in DOMAIN R : R[i] \in S
    BY <1>7 
  <2> QED
    BY <1>2, <1>7, <2>1 DEF Distinct, IsInjective
<1> QED
  BY <1>4, <1>7, <1>8, <1>9 DEF R, S

(* The services of the manifest as they are kept: each once. *)
LEMMA PayloadServicesAre ==
    ASSUME NEW f \in GatewayManifests, Contract(f)
    PROVE  LET S == {normalizeService(s) : s \in ToSet(f.services)}
           IN Len(SortedServices(S)) = Len(f.services) /\ ToSet(SortedServices(S)) = S
<1> DEFINE n == Len(f.services)
           S == {normalizeService(s) : s \in ToSet(f.services)}
           normal == [k \in 1..n |-> normalizeService(f.services[k])]
<1>1. n \in Nat /\ DOMAIN f.services = 1..n
  BY ManifestTypes
<1>2. \A k \in 1..n : /\ normalizeService(f.services[k]).name
                             = TrimSpace[f.services[k].name]
                      /\ f.services[k] \in GatewayServices
  BY <1>1, ManifestTypes DEF normalizeService, ToSet
<1>3. ToSet(normal) = S /\ normal \in Seq(S) /\ Len(normal) = n /\ DOMAIN normal = 1..n
  <2>1. ToSet(f.services) = {f.services[k] : k \in 1..n}
    BY <1>1 DEF ToSet
  <2>2. S = {normalizeService(f.services[k]) : k \in 1..n}
    BY <2>1
  <2>3. DOMAIN normal = 1..n /\ ToSet(normal) = {normal[k] : k \in 1..n}
    BY DEF ToSet
  <2>4. ToSet(normal) = S
    BY <2>2, <2>3
  <2>5. normal \in [1..n -> S]
    BY <2>2
  <2> HIDE DEF normal, S
  <2> QED
    BY <1>1, <2>3, <2>4, <2>5
<1>4. \A i, j \in 1..n : normal[i].name = normal[j].name => i = j
  BY <1>1, <1>2 DEF Contract
<1>5. \A s \in S : s.name \in Texts
  <2>1. \A k \in 1..n : normalizeService(f.services[k]).name \in Texts
    BY <1>2, ServiceTexts
  <2> QED
    BY <1>1, <2>1 DEF ToSet
<1> HIDE DEF normal, S
<1>6. \A s, t \in S : s.name = t.name => s = t
  BY <1>3, <1>4 DEF ToSet
<1>7. IsInjective(normal)
  BY <1>3, <1>4 DEF IsInjective
<1>8. IsFiniteSet(S) /\ Cardinality(S) = n
  BY <1>3, <1>7, ElementsAreFinite
<1>9. Len(SortedServices(S)) = Cardinality(S) /\ ToSet(SortedServices(S)) = S
  BY <1>5, <1>6, <1>8, ServicesAreOrdered, InOrderSorts DEF SortedServices
<1> QED
  BY <1>8, <1>9 DEF S

(* MethodPaths gives the methods of the manifest, sorted. *)
LEMMA MethodPathsAre ==
    ASSUME NEW f \in GatewayManifests, Contract(f), NEW m,
           ToSet(m.services) = {normalizeService(s) : s \in ToSet(f.services)}
    PROVE  MethodPaths(m) = PayloadMethods(f)
<1>1. \A s \in ToSet(f.services) : s \in GatewayServices
  BY ManifestTypes
<1>2. ASSUME NEW s \in ToSet(f.services)
      PROVE  TrimmedMethods(normalizeService(s)) = TrimmedMethods(s)
  <2>1. TrimmedMethods(s) \in SUBSET Texts
    BY <1>1, ServiceTexts
  <2>2. ToSet(Sorted(TrimmedMethods(s))) = TrimmedMethods(s)
    BY <2>1, SortedTexts
  <2>3. normalizeService(s).methods = Sorted(TrimmedMethods(s))
    BY DEF normalizeService
  <2>4. \A t \in TrimmedMethods(s) : TrimSpace[t] = t
    <3>1. \A t \in MethodsOf(f) : TrimSpace[t] = t
      BY ContractMethods, ContractParts
    <3> QED
      BY <3>1 DEF MethodsOf
  <2>5. TrimmedMethods(normalizeService(s)) = {TrimSpace[t] : t \in TrimmedMethods(s)}
    BY <2>2, <2>3 DEF TrimmedMethods
  <2> QED
    BY <2>4, <2>5
<1> DEFINE U == UNION {TrimmedMethods(s) : s \in ToSet(m.services)}
<1>3. U = MethodsOf(f)
  <2>1. UNION {TrimmedMethods(t) : t \in ToSet(m.services)}
           = UNION {TrimmedMethods(normalizeService(s)) : s \in ToSet(f.services)}
    OBVIOUS
  <2> QED
    BY <1>2, <2>1 DEF MethodsOf
<1>4. MethodsOf(f) \ {""} = MethodsOf(f)
  BY ContractMethods, ContractParts
<1>5. MethodPaths(m) = Sorted(U \ {""})
  BY DEF MethodPaths
<1> HIDE DEF U
<1> QED
  BY <1>3, <1>4, <1>5 DEF PayloadMethods

(* The two loops over routes, as they are, do the same. *)
LEMMA NodeLoopIsLoop ==
    ASSUME NEW n
    PROVE  NodeRoutes(n) = CheckRoutes(TrimmedMethods(n), n.http_routes)
BY Zenon DEF NodeRoutes, NodeRouteLoop, AddNodeRoute, CheckRoutes, RouteLoop, AddRoute

(* The node's own validation finds nothing wrong with what New made of the *)
(* manifest, and leaves its routes as they are.                            *)
LEMMA PayloadIsValid ==
    ASSUME NEW f \in GatewayManifests, Contract(f), NEW n,
           n.methods = PayloadMethods(f), n.http_routes = PayloadRoutes(f)
    PROVE  CapabilitiesOK(n) /\ NodeRoutes(n).routes = n.http_routes
<1> DEFINE M == MethodsOf(f)
           R == PayloadRoutes(f)
<1>1. /\ M # {} /\ M \subseteq Absolute /\ \A t \in M : TrimSpace[t] = t
      /\ M \in SUBSET Texts
  BY ContractMethods, ContractParts
<1>2. ToSet(n.methods) = M
  BY <1>1, SortedTexts DEF PayloadMethods
<1>3. n.methods # <<>>
  <2>1. ToSet(<<>>) = {}
    BY DEF ToSet
  <2> QED
    BY <1>1, <1>2, <2>1
<1>4. TrimmedMethods(n) = M
  BY <1>1, <1>2 DEF TrimmedMethods
<1>5. /\ R \in Seq(HTTPRoutes) /\ ToSet(R) = NormalRoutesOf(f) /\ Distinct(R)
  BY PayloadRoutesAre
<1>6. NormalRoutes(R, Len(R)) = R
  <2>1. \A k \in 1..Len(R) : R[k] \in NormalRoutesOf(f)
    BY <1>5 DEF ToSet
  <2>2. \A r \in NormalRoutesOf(f) : normalizeHTTPRoute(r) = r
    BY ManifestTypes, NormalRoute DEF NormalRoutesOf
  <2> HIDE DEF R
  <2>3. NormalRoutes(R, Len(R)) = [k \in 1..Len(R) |-> R[k]]
    BY <2>1, <2>2 DEF NormalRoutes
  <2> QED
    BY <1>5, <2>3
<1>7. Agreeing(M, NormalRoutesOf(f))
  BY <1>1, AgreeingIsContract DEF Contract
<1>8. /\ CheckRoutes(M, R).routes = R
      /\ CheckRoutes(M, R).ok
  BY <1>5, <1>6, <1>7, CheckRoutesIs
<1>9. NodeRoutes(n).routes = R /\ NodeRoutes(n).ok
  BY <1>4, <1>8, NodeLoopIsLoop
<1> QED
  BY <1>1, <1>2, <1>3, <1>9 DEF CapabilitiesOK

-----------------------------------------------------------------------------
(* Manifests of the same content.                                          *)

(* Two manifests of the same content: accepted or rejected alike, with the *)
(* same payload.                                                           *)
SameContent(f, g) ==
    /\ f.readable = g.readable /\ (Contract(f) <=> Contract(g))
    /\ Len(f.services) = Len(g.services)
    /\ MethodsOf(f) = MethodsOf(g) /\ NormalRoutesOf(f) = NormalRoutesOf(g)

AlikeServices(s, t) ==
    /\ TrimSpace[s.name] = TrimSpace[t.name] /\ TrimmedMethods(s) = TrimmedMethods(t)
    /\ s.methods = <<>> <=> t.methods = <<>>
AlikeRoutes(r, q) == normalizeHTTPRoute(r) = normalizeHTTPRoute(q)

(* p tells where the entries of one sequence are in the other. *)
Swaps(n, p) == p \in [1..n -> 1..n] /\ \A i \in 1..n : p[p[i]] = i

(* A service keeps the contract in each of its layouts. *)
LEMMA AlikeServicesContract ==
    ASSUME NEW s, NEW t, AlikeServices(s, t)
    PROVE  ServiceContract(s) <=> ServiceContract(t)
BY DEF AlikeServices, ServiceContract

(* A route keeps the contract in each of its layouts. *)
LEMMA AlikeRoutesContract ==
    ASSUME NEW f, NEW g, MethodsOf(f) = MethodsOf(g), NEW r, NEW q, AlikeRoutes(r, q)
    PROVE  /\ RouteContract(f, r) <=> RouteContract(g, q)
           /\ Request(r) = Request(q) /\ Transcodes(r) = Transcodes(q)
<1>1. \A x : /\ normalizeHTTPRoute(x).http_method = ToUpper[TrimSpace[x.http_method]]
             /\ normalizeHTTPRoute(x).path = TrimSpace[x.path]
             /\ normalizeHTTPRoute(x).full_method = TrimSpace[x.full_method]
             /\ normalizeHTTPRoute(x).upstream_path = TrimSpace[x.upstream_path]
             /\ normalizeHTTPRoute(x).strip_prefix = x.strip_prefix
  BY DEF normalizeHTTPRoute
<1>2. /\ ToUpper[TrimSpace[r.http_method]] = ToUpper[TrimSpace[q.http_method]]
      /\ TrimSpace[r.path] = TrimSpace[q.path]
      /\ TrimSpace[r.full_method] = TrimSpace[q.full_method]
      /\ TrimSpace[r.upstream_path] = TrimSpace[q.upstream_path]
      /\ r.strip_prefix = q.strip_prefix
  BY <1>1 DEF AlikeRoutes
<1>3. Request(r) = Request(q) /\ Transcodes(r) = Transcodes(q)
  BY <1>2 DEF Request, Transcodes
<1> QED
  BY <1>2, <1>3 DEF RouteContract

(* The same entries in another order, each in a layout of its own, are the *)
(* same content.                                                           *)
LEMMA SwappedContent ==
    ASSUME NEW f \in GatewayManifests, NEW g \in GatewayManifests,
           f.readable = g.readable, f.schema = g.schema,
           Len(f.services) = Len(g.services), Len(f.routes) = Len(g.routes),
           NEW p, Swaps(Len(f.services), p), NEW q, Swaps(Len(f.routes), q),
           \A i \in 1..Len(f.services) : AlikeServices(g.services[i], f.services[p[i]]),
           \A i \in 1..Len(f.routes) : AlikeRoutes(g.routes[i], f.routes[q[i]])
    PROVE  SameContent(f, g)
<1> DEFINE n == Len(f.services)
           k == Len(f.routes)
<1>1. /\ n \in Nat /\ DOMAIN f.services = 1..n /\ DOMAIN g.services = 1..n
      /\ k \in Nat /\ DOMAIN f.routes = 1..k /\ DOMAIN g.routes = 1..k
  BY ManifestTypes
<1>2. /\ ToSet(f.services) = {f.services[i] : i \in 1..n}
      /\ ToSet(g.services) = {g.services[i] : i \in 1..n}
      /\ ToSet(f.routes) = {f.routes[i] : i \in 1..k}
      /\ ToSet(g.routes) = {g.routes[i] : i \in 1..k}
  BY <1>1 DEF ToSet
<1>3. /\ \A i \in 1..n : p[i] \in 1..n /\ p[p[i]] = i
      /\ \A i \in 1..k : q[i] \in 1..k /\ q[q[i]] = i
  BY DEF Swaps
<1> HIDE DEF n, k
<1>3a. /\ \A i \in 1..n : AlikeServices(g.services[i], f.services[p[i]])
      /\ \A i \in 1..k : AlikeRoutes(g.routes[i], f.routes[q[i]])
  BY DEF n, k
<1>3b. /\ \A i \in 1..n : AlikeServices(g.services[p[i]], f.services[i])
      /\ \A i \in 1..k : AlikeRoutes(g.routes[q[i]], f.routes[i])
  <2>1. ASSUME NEW i \in 1..n PROVE AlikeServices(g.services[p[i]], f.services[i])
    <3>1. p[i] \in 1..n /\ p[p[i]] = i
      BY <1>3
    <3>2. AlikeServices(g.services[p[i]], f.services[p[p[i]]])
      BY <1>3a, <3>1
    <3> QED
      BY <3>1, <3>2
  <2>2. ASSUME NEW i \in 1..k PROVE AlikeRoutes(g.routes[q[i]], f.routes[i])
    <3>1. q[i] \in 1..k /\ q[q[i]] = i
      BY <1>3
    <3>2. AlikeRoutes(g.routes[q[i]], f.routes[q[q[i]]])
      BY <1>3a, <3>1
    <3> QED
      BY <3>1, <3>2
  <2> QED
    BY <2>1, <2>2
<1>4. /\ \A s \in ToSet(f.services) : \E t \in ToSet(g.services) : AlikeServices(t, s)
      /\ \A t \in ToSet(g.services) : \E s \in ToSet(f.services) : AlikeServices(t, s)
  BY <1>2, <1>3, <1>3a, <1>3b
<1>5. /\ \A s \in ToSet(f.routes) : \E t \in ToSet(g.routes) : AlikeRoutes(t, s)
      /\ \A t \in ToSet(g.routes) : \E s \in ToSet(f.routes) : AlikeRoutes(t, s)
  BY <1>2, <1>3, <1>3a, <1>3b
<1>6. MethodsOf(f) = MethodsOf(g)
  BY <1>4 DEF MethodsOf, AlikeServices
<1>7. NormalRoutesOf(f) = NormalRoutesOf(g)
  BY <1>5 DEF NormalRoutesOf, AlikeRoutes
<1>8. (f.services # <<>>) <=> (g.services # <<>>)
  <2>1. \A T : \A s \in Seq(T) : s # <<>> <=> Len(s) # 0
    OBVIOUS
  <2>2. f.services \in Seq(GatewayServices) /\ g.services \in Seq(GatewayServices)
    BY ManifestTypes
  <2> QED
    BY <2>1, <2>2
<1>9. (\A s \in ToSet(f.services) : ServiceContract(s))
         <=> \A s \in ToSet(g.services) : ServiceContract(s)
  BY <1>4, AlikeServicesContract
<1>10. (\A i, j \in 1..n : TrimSpace[f.services[i].name] = TrimSpace[f.services[j].name]
                              => i = j)
          <=> \A i, j \in 1..n : TrimSpace[g.services[i].name]
                                    = TrimSpace[g.services[j].name] => i = j
  <2> DEFINE F(i) == TrimSpace[f.services[i].name]
             G(i) == TrimSpace[g.services[i].name]
  <2>1. \A i \in 1..n : G(i) = F(p[i])
    BY <1>3a DEF AlikeServices
  <2> HIDE DEF F, G
  <2>2. (\A i, j \in 1..n : F(i) = F(j) => i = j) <=> \A i, j \in 1..n : G(i) = G(j) => i = j
    BY <1>3, <2>1
  <2> QED
    BY <2>2 DEF F, G
<1>11. ServicesContract(f) <=> ServicesContract(g)
  BY <1>1, <1>8, <1>9, <1>10 DEF ServicesContract
<1>12. /\ \A i \in 1..k :
             /\ RouteContract(g, g.routes[i]) <=> RouteContract(f, f.routes[q[i]])
             /\ Request(g.routes[i]) = Request(f.routes[q[i]])
       /\ \A i \in 1..k :
             RouteContract(g, g.routes[q[i]]) <=> RouteContract(f, f.routes[i])
  BY <1>6, <1>3a, <1>3b, AlikeRoutesContract
<1>13. (\A r \in ToSet(f.routes) : RouteContract(f, r))
          <=> \A r \in ToSet(g.routes) : RouteContract(g, r)
  <2>1. (\A r \in ToSet(f.routes) : RouteContract(f, r))
          => \A i \in 1..k : RouteContract(g, g.routes[i])
    BY <1>2, <1>3, <1>12
  <2>2. (\A r \in ToSet(g.routes) : RouteContract(g, r))
          => \A i \in 1..k : RouteContract(f, f.routes[i])
    BY <1>2, <1>3, <1>12
  <2> QED
    BY <1>2, <2>1, <2>2
<1>14. (\A i, j \in 1..k : Request(f.routes[i]) = Request(f.routes[j]) => i = j)
          <=> \A i, j \in 1..k : Request(g.routes[i]) = Request(g.routes[j]) => i = j
  <2> DEFINE F(i) == Request(f.routes[i])
             G(i) == Request(g.routes[i])
  <2>1. \A i \in 1..k : G(i) = F(q[i])
    BY <1>12
  <2> HIDE DEF F, G
  <2>2. (\A i, j \in 1..k : F(i) = F(j) => i = j) <=> \A i, j \in 1..k : G(i) = G(j) => i = j
    BY <1>3, <2>1
  <2> QED
    BY <2>2 DEF F, G
<1>15. (\A r, s \in ToSet(f.routes) : Transcodes(r) = Transcodes(s))
          <=> \A r, s \in ToSet(g.routes) : Transcodes(r) = Transcodes(s)
  <2>1. \A r, s : AlikeRoutes(r, s) => Transcodes(r) = Transcodes(s)
    BY AlikeRoutesContract
  <2>2. /\ \A s \in ToSet(f.routes) : \E t \in ToSet(g.routes) : Transcodes(t) = Transcodes(s)
        /\ \A t \in ToSet(g.routes) : \E s \in ToSet(f.routes) : Transcodes(t) = Transcodes(s)
    BY <1>5, <2>1
  <2> QED
    BY <2>2
<1>16. RoutesContract(f) <=> RoutesContract(g)
  BY <1>1, <1>13, <1>14, <1>15 DEF RoutesContract
<1> QED
  BY <1>6, <1>7, <1>11, <1>16, ContractParts DEF SameContent

(* A reversed sequence holds the same, in its mirrored places. *)
LEMMA ReversedSequence ==
    ASSUME NEW T, NEW s \in Seq(T)
    PROVE  /\ Reverse(s) \in Seq(T) /\ Len(Reverse(s)) = Len(s)
           /\ \A i \in 1..Len(s) : Reverse(s)[i] = s[Len(s) - i + 1]
           /\ ToSet(Reverse(s)) = ToSet(s)
<1> DEFINE n == Len(s)
           t == Reverse(s)
<1>1. n \in Nat /\ s \in [1..n -> T] /\ DOMAIN s = 1..n
  OBVIOUS
<1>2. t = [i \in 1..n |-> s[(n - i) + 1]]
  BY DEF Reverse
<1> HIDE DEF n, t
<1>3. \A i \in 1..n : (n - i) + 1 \in 1..n /\ n - ((n - i) + 1) + 1 = i
  BY <1>1
<1>4. t \in [1..n -> T] /\ \A i \in 1..n : t[i] = s[(n - i) + 1]
  BY <1>1, <1>2, <1>3
<1>5. t \in Seq(T) /\ Len(t) = n /\ DOMAIN t = 1..n
  BY <1>1, <1>4
<1>6. ToSet(t) = ToSet(s)
  <2>1. \A x \in ToSet(t) : x \in ToSet(s)
    BY <1>1, <1>3, <1>4, <1>5 DEF ToSet
  <2>2. ASSUME NEW i \in 1..n PROVE s[i] \in ToSet(t)
    <3>1. /\ (n - i) + 1 \in 1..n /\ t[(n - i) + 1] = s[i]
      <4>1. (n - i) + 1 \in 1..n /\ n - ((n - i) + 1) + 1 = i
        BY <1>3
      <4> QED
        BY <1>4, <4>1
    <3> QED
      BY <1>5, <3>1 DEF ToSet
  <2> QED
    BY <1>1, <2>1, <2>2 DEF ToSet
<1> QED
  BY <1>4, <1>5, <1>6 DEF n, t

(* Two sequences after one another hold what the two hold. *)
LEMMA ConcatenatedSet ==
    ASSUME NEW T, NEW s \in Seq(T), NEW t \in Seq(T)
    PROVE  s \o t \in Seq(T) /\ ToSet(s \o t) = ToSet(s) \cup ToSet(t)
<1> DEFINE m == Len(s)
           n == Len(t)
           u == s \o t
<1>1. /\ m \in Nat /\ n \in Nat /\ DOMAIN s = 1..m /\ DOMAIN t = 1..n
      /\ u \in Seq(T) /\ DOMAIN u = 1..m+n
      /\ \A i \in 1..m+n : u[i] = IF i <= m THEN s[i] ELSE t[i-m]
  OBVIOUS
<1> HIDE DEF m, n, u
<1>2. \A x \in ToSet(u) : x \in ToSet(s) \/ x \in ToSet(t)
  <2>1. \A i \in 1..m+n : i \in 1..m \/ (~(i <= m) /\ i - m \in 1..n)
    BY <1>1
  <2>2. \A i \in 1..m : i <= m
    OBVIOUS
  <2> QED
    BY <1>1, <2>1, <2>2 DEF ToSet
<1>3. \A x \in ToSet(s) : x \in ToSet(u)
  <2>1. \A i \in 1..m : i \in 1..m+n /\ i <= m
    BY <1>1
  <2> QED
    BY <1>1, <2>1 DEF ToSet
<1>4. \A x \in ToSet(t) : x \in ToSet(u)
  <2>1. ASSUME NEW i \in 1..n PROVE t[i] \in ToSet(u)
    <3>1. m + i \in 1..m+n /\ ~(m + i <= m) /\ (m + i) - m = i
      BY <1>1
    <3>2. u[m+i] = t[i]
      BY <1>1, <3>1
    <3> QED
      BY <1>1, <3>1, <3>2 DEF ToSet
  <2> QED
    BY <1>1, <2>1 DEF ToSet
<1> QED
  BY <1>1, <1>2, <1>3, <1>4 DEF u

(* Other white space, a method twice and letters of another case: the same *)
(* service, the same route.                                                *)
LEMMA RelaidServiceIsAlike ==
    ASSUME NEW s \in GatewayServices
    PROVE  RelaidService(s) \in GatewayServices /\ AlikeServices(RelaidService(s), s)
<1> DEFINE t == RelaidService(s)
           padded == [i \in DOMAIN s.methods |-> Pad[s.methods[i]]]
<1>1. s.name \in Texts /\ s.methods \in Seq(Texts)
  BY DEF GatewayServices
<1>2. t.name = Pad[s.name] /\ t.methods = padded \o Reverse(s.methods)
  BY DEF RelaidService
<1>3. padded \in Seq(Texts) /\ DOMAIN padded = DOMAIN s.methods /\ Len(padded) = Len(s.methods)
  <2>1. \A t1 \in Texts : Pad[t1] \in Texts
    BY TextLaws
  <2>2. \A i \in DOMAIN s.methods : s.methods[i] \in Texts
    BY <1>1
  <2>3. DOMAIN s.methods = 1..Len(s.methods) /\ Len(s.methods) \in Nat
    BY <1>1
  <2>4. padded \in [1..Len(s.methods) -> Texts]
    BY <2>1, <2>2, <2>3
  <2> QED
    BY <2>3, <2>4
<1>4. /\ Reverse(s.methods) \in Seq(Texts) /\ Len(Reverse(s.methods)) = Len(s.methods)
      /\ ToSet(Reverse(s.methods)) = ToSet(s.methods)
  BY <1>1, ReversedSequence
<1>5. /\ t.methods \in Seq(Texts)
      /\ ToSet(t.methods) = ToSet(padded) \cup ToSet(s.methods)
  <2> HIDE DEF padded, t
  <2> QED
    BY <1>2, <1>3, <1>4, ConcatenatedSet
<1>6. t \in GatewayServices
  BY <1>1, <1>2, <1>5, TextLaws DEF GatewayServices, RelaidService
<1>7. TrimmedMethods(t) = TrimmedMethods(s)
  <2>1. ToSet(padded) = {Pad[u] : u \in ToSet(s.methods)}
    BY DEF ToSet
  <2>2. \A u \in ToSet(s.methods) : u \in Texts
    BY <1>1 DEF ToSet
  <2>3. {TrimSpace[u] : u \in ToSet(padded)} = {TrimSpace[u] : u \in ToSet(s.methods)}
    <3>1. \A u \in ToSet(s.methods) : TrimSpace[Pad[u]] = TrimSpace[u]
      BY <2>2, TextLaws
    <3>2. {TrimSpace[u] : u \in ToSet(padded)} = {TrimSpace[Pad[u]] : u \in ToSet(s.methods)}
      <4> HIDE DEF padded
      <4> QED
        BY <2>1
    <3> HIDE DEF padded
    <3> QED
      BY <3>1, <3>2
  <2> HIDE DEF padded, t
  <2> QED
    BY <1>5, <2>3 DEF TrimmedMethods
<1>8. t.methods = <<>> <=> s.methods = <<>>
  <2>1. \A u \in Seq(Texts) : u = <<>> <=> ToSet(u) = {}
    <3>1. \A u \in Seq(Texts) : u # <<>> => 1 \in DOMAIN u
      OBVIOUS
    <3>2. ToSet(<<>>) = {}
      BY DEF ToSet
    <3> QED
      BY <3>1, <3>2 DEF ToSet
  <2>2. ToSet(padded) = {Pad[u] : u \in ToSet(s.methods)}
    BY DEF ToSet
  <2> HIDE DEF padded, t
  <2> QED
    BY <1>1, <1>5, <2>1, <2>2
<1>9. TrimSpace[t.name] = TrimSpace[s.name]
  BY <1>1, <1>2, TextLaws
<1> QED
  BY <1>6, <1>7, <1>8, <1>9 DEF AlikeServices

(* The same of a route. *)
LEMMA RelaidRouteIsAlike ==
    ASSUME NEW r \in HTTPRoutes
    PROVE  RelaidRoute(r) \in HTTPRoutes /\ AlikeRoutes(RelaidRoute(r), r)
<1> DEFINE q == RelaidRoute(r)
<1>1. /\ r.http_method \in Texts /\ r.path \in Texts /\ r.full_method \in Texts
      /\ r.upstream_path \in Texts /\ r.strip_prefix \in BOOLEAN
  BY DEF HTTPRoutes
<1>2. q \in HTTPRoutes
  BY <1>1, TextLaws DEF HTTPRoutes, RelaidRoute
<1>3. /\ q.http_method = Respell[r.http_method] /\ q.path = Pad[r.path]
      /\ q.full_method = r.full_method /\ q.upstream_path = r.upstream_path
      /\ q.strip_prefix = r.strip_prefix
  BY DEF HTTPRoutes, RelaidRoute
<1>4. TrimSpace[q.path] = TrimSpace[r.path]
  <2>1. \A t \in Texts : TrimSpace[Pad[t]] = TrimSpace[t]
    BY TextLaws
  <2> QED
    BY <1>1, <1>3, <2>1
<1>5. ToUpper[TrimSpace[q.http_method]] = ToUpper[TrimSpace[r.http_method]]
  <2>1. ASSUME NEW t \in Texts, NEW u \in Texts, u = Respell[t]
        PROVE  ToUpper[TrimSpace[u]] = ToUpper[TrimSpace[t]]
    <3>1. ToUpper[TrimSpace[u]] = TrimSpace[ToUpper[u]] /\ ToUpper[u] = ToUpper[t]
      BY <2>1, TextLaws
    <3> QED
      BY <3>1, TextLaws
  <2>2. \A t \in Texts : Respell[t] \in Texts
    BY TextLaws
  <2> QED
    BY <1>1, <1>3, <2>1, <2>2
<1> HIDE DEF q
<1>6. normalizeHTTPRoute(q) = normalizeHTTPRoute(r)
  BY <1>3, <1>4, <1>5 DEF normalizeHTTPRoute
<1> QED
  BY <1>2, <1>6 DEF AlikeRoutes, q

(* h is f with every entry written another way, in the same order. *)
EntryByEntry(f, h) ==
    /\ h \in GatewayManifests /\ f.readable = h.readable /\ f.schema = h.schema
    /\ Len(f.services) = Len(h.services) /\ Len(f.routes) = Len(h.routes)
    /\ \A i \in 1..Len(f.services) : AlikeServices(h.services[i], f.services[i])
    /\ \A i \in 1..Len(f.routes) : AlikeRoutes(h.routes[i], f.routes[i])

(* Relaid writes every entry another way, in its place. *)
LEMMA RelaidEntries ==
    ASSUME NEW f \in GatewayManifests
    PROVE  EntryByEntry(f, Relaid(f))
<1> DEFINE h == Relaid(f)
           services == [i \in DOMAIN f.services |-> RelaidService(f.services[i])]
           routes == [i \in DOMAIN f.routes |-> RelaidRoute(f.routes[i])]
<1>1. /\ h.services = services /\ h.routes = routes
      /\ h.readable = f.readable /\ h.schema = f.schema
      /\ DOMAIN h = DOMAIN f
      /\ h = [f EXCEPT !.services = services, !.routes = routes]
  BY DEF Relaid, GatewayManifests
<1>2. /\ \A i \in DOMAIN f.services : f.services[i] \in GatewayServices
      /\ \A i \in DOMAIN f.routes : f.routes[i] \in HTTPRoutes
  BY ManifestTypes DEF ToSet
<1>3. /\ \A i \in DOMAIN f.services : /\ services[i] \in GatewayServices
                                      /\ AlikeServices(services[i], f.services[i])
      /\ \A i \in DOMAIN f.routes : /\ routes[i] \in HTTPRoutes
                                    /\ AlikeRoutes(routes[i], f.routes[i])
  BY <1>2, RelaidServiceIsAlike, RelaidRouteIsAlike
<1>4. /\ DOMAIN f.services = 1..Len(f.services) /\ Len(f.services) \in Nat
      /\ DOMAIN f.routes = 1..Len(f.routes) /\ Len(f.routes) \in Nat
  BY ManifestTypes
<1>5. /\ services \in [1..Len(f.services) -> GatewayServices]
      /\ routes \in [1..Len(f.routes) -> HTTPRoutes]
  <2>1. DOMAIN services = 1..Len(f.services) /\ DOMAIN routes = 1..Len(f.routes)
    BY <1>4
  <2>2. /\ services = [i \in 1..Len(f.services) |-> services[i]]
        /\ routes = [i \in 1..Len(f.routes) |-> routes[i]]
    BY <1>4
  <2> HIDE DEF services, routes
  <2> QED
    BY <1>3, <1>4, <2>2
<1> HIDE DEF services, routes, h
<1>6. /\ services \in Seq(GatewayServices) /\ Len(services) = Len(f.services)
      /\ routes \in Seq(HTTPRoutes) /\ Len(routes) = Len(f.routes)
  BY <1>4, <1>5
<1>7. h \in GatewayManifests
  BY <1>1, <1>6 DEF GatewayManifests
<1> QED
  BY <1>1, <1>3, <1>4, <1>6, <1>7 DEF EntryByEntry, h

(* A manifest is entry by entry itself. *)
LEMMA UnchangedEntries ==
    ASSUME NEW f \in GatewayManifests
    PROVE  EntryByEntry(f, f)
BY DEF EntryByEntry, AlikeServices, AlikeRoutes

(* The order of the services does not matter. *)
LEMMA ServicesReversed ==
    ASSUME NEW f \in GatewayManifests, NEW h, EntryByEntry(f, h),
           NEW g, g = [h EXCEPT !.services = Reverse(@)]
    PROVE  g \in GatewayManifests /\ SameContent(f, g)
<1> DEFINE n == Len(f.services)
           k == Len(f.routes)
           p == [i \in 1..n |-> n - i + 1]
           q == [i \in 1..k |-> i]
<1>1. /\ h \in GatewayManifests /\ n \in Nat /\ Len(h.services) = n
      /\ k \in Nat /\ Len(h.routes) = k
  BY ManifestTypes DEF EntryByEntry
<1>2. h.services \in Seq(GatewayServices)
  BY <1>1, ManifestTypes
<1>3. /\ g.services = Reverse(h.services) /\ g.routes = h.routes
      /\ g.readable = f.readable /\ g.schema = f.schema
  BY <1>1 DEF GatewayManifests, EntryByEntry
<1>4. /\ Reverse(h.services) \in Seq(GatewayServices) /\ Len(g.services) = n
      /\ \A i \in 1..n : g.services[i] = h.services[n - i + 1]
  BY <1>1, <1>2, <1>3, ReversedSequence
<1>5. g \in GatewayManifests
  BY <1>1, <1>4 DEF GatewayManifests
<1>6. \A i \in 1..n : n - i + 1 \in 1..n /\ n - (n - i + 1) + 1 = i
  <2>1. \A m \in Nat : \A i \in 1..m : m - i + 1 \in 1..m /\ m - (m - i + 1) + 1 = i
    OBVIOUS
  <2> HIDE DEF n, k
  <2> QED
    BY <1>1, <2>1
<1>7. Swaps(n, p) /\ Swaps(k, q)
  <2>1. p \in [1..n -> 1..n] /\ \A i \in 1..n : p[p[i]] = i
    BY <1>6
  <2> QED
    BY <2>1 DEF Swaps
<1>8. \A i \in 1..n : AlikeServices(g.services[i], f.services[p[i]])
  BY <1>4, <1>6 DEF EntryByEntry
<1>9. \A i \in 1..k : AlikeRoutes(g.routes[i], f.routes[q[i]])
  BY <1>3 DEF EntryByEntry
<1> HIDE DEF p, q
<1> QED
  BY <1>1, <1>3, <1>4, <1>5, <1>7, <1>8, <1>9, SwappedContent

(* Nor does the order of the routes. *)
LEMMA RoutesReversed ==
    ASSUME NEW f \in GatewayManifests, NEW h, EntryByEntry(f, h),
           NEW g, g = [h EXCEPT !.routes = Reverse(@)]
    PROVE  g \in GatewayManifests /\ SameContent(f, g)
<1> DEFINE n == Len(f.services)
           k == Len(f.routes)
           p == [i \in 1..n |-> i]
           q == [i \in 1..k |-> k - i + 1]
<1>1. /\ h \in GatewayManifests /\ n \in Nat /\ Len(h.services) = n
      /\ k \in Nat /\ Len(h.routes) = k
  BY ManifestTypes DEF EntryByEntry
<1>2. h.routes \in Seq(HTTPRoutes)
  BY <1>1, ManifestTypes
<1>3. /\ g.routes = Reverse(h.routes) /\ g.services = h.services
      /\ g.readable = f.readable /\ g.schema = f.schema
  BY <1>1 DEF GatewayManifests, EntryByEntry
<1>4. /\ Reverse(h.routes) \in Seq(HTTPRoutes) /\ Len(g.routes) = k
      /\ \A i \in 1..k : g.routes[i] = h.routes[k - i + 1]
  BY <1>1, <1>2, <1>3, ReversedSequence
<1>5. g \in GatewayManifests
  BY <1>1, <1>4 DEF GatewayManifests
<1>6. \A i \in 1..k : k - i + 1 \in 1..k /\ k - (k - i + 1) + 1 = i
  <2>1. \A m \in Nat : \A i \in 1..m : m - i + 1 \in 1..m /\ m - (m - i + 1) + 1 = i
    OBVIOUS
  <2> HIDE DEF n, k
  <2> QED
    BY <1>1, <2>1
<1>7. Swaps(n, p) /\ Swaps(k, q)
  <2>1. q \in [1..k -> 1..k] /\ \A i \in 1..k : q[q[i]] = i
    BY <1>6
  <2> QED
    BY <2>1 DEF Swaps
<1>8. \A i \in 1..n : AlikeServices(g.services[i], f.services[p[i]])
  BY <1>3 DEF EntryByEntry
<1>9. \A i \in 1..k : AlikeRoutes(g.routes[i], f.routes[q[i]])
  BY <1>4, <1>6 DEF EntryByEntry
<1>10. Len(g.services) = n /\ Len(g.routes) = k
  BY <1>1, <1>3, <1>4
<1> HIDE DEF p, q
<1> QED
  BY <1>3, <1>5, <1>7, <1>8, <1>9, <1>10, SwappedContent

(* A manifest generated again has the same content. *)
LEMMA RegeneratedIsSame ==
    ASSUME NEW f \in GatewayManifests, NEW g \in Regenerated(f)
    PROVE  g \in GatewayManifests /\ SameContent(f, g)
<1>1. PICK h \in {f, Relaid(f)} : \/ g = [h EXCEPT !.services = Reverse(@)]
                                  \/ g = [h EXCEPT !.routes = Reverse(@)]
  BY DEF Regenerated
<1>2. EntryByEntry(f, h)
  BY <1>1, RelaidEntries, UnchangedEntries
<1> QED
  BY <1>1, <1>2, ServicesReversed, RoutesReversed

-----------------------------------------------------------------------------
(* The inductive invariant.                                                *)

(* The inductive invariant, by stages of New. *)
Accepts(f) == f.readable /\ Contract(f)

Payload(f) ==
    [result |-> "node", count |-> Len(f.services), methods |-> PayloadMethods(f),
     routes |-> PayloadRoutes(f)]
Expected(o, f) == IF o # NoOptions /\ Accepts(f) THEN Payload(f)
                  ELSE [result |-> "rejected"]

OptionErrors == Required \cup {"server_port", "weight"}

Inputs ==
    /\ given \in GivenConfigs /\ file \in GatewayManifests
    /\ options # NoOptions => options \in OptionsOf({options.instance})
    /\ deployments \in 1..MaxDeployments

Loaded ==
    /\ options # NoOptions /\ Accepts(file)
    /\ Len(manifest.services) = Len(file.services)
    /\ ToSet(manifest.services) = {normalizeService(s) : s \in ToSet(file.services)}
    /\ manifest.routes = PayloadRoutes(file)

NodeOf(o, f) ==
    [options |-> o, proto_count |-> Len(f.services), methods |-> PayloadMethods(f),
     http_routes |-> PayloadRoutes(f)]
Built == Loaded /\ \E o : o \in OptionsOf({o.instance}) /\ node = NodeOf(o, file)

Stages ==
    \/ pc = "start" /\ err = "none" /\ node = NoNode /\ manifest = NoManifest
    \/ /\ pc = "load" /\ err = "none" /\ node = NoNode /\ manifest = NoManifest
       /\ options # NoOptions
    \/ pc = "node" /\ err = "none" /\ node = NoNode /\ Loaded
    \/ pc \in {"controller", "run"} /\ err = "none" /\ Built
    \/ /\ pc = "failed" /\ err = "options" /\ options = NoOptions
       /\ node = NoNode /\ manifest = NoManifest
    \/ /\ pc = "failed" /\ err = "manifest" /\ ~Accepts(file)
       /\ node = NoNode /\ manifest = NoManifest
    \/ pc = "failed" /\ err \in OptionErrors /\ Built

Remembered == before = Nothing \/ before = Expected(options, file)
Configured == config = NoConfig \/ config = normalizeSidecarAgentConfig(given)
RegistrationInv == Inputs /\ Configured /\ Stages /\ Remembered

(* Init: New has not begun, nothing is remembered. *)
LEMMA InvFirst == Init => RegistrationInv
<1> SUFFICES ASSUME Init PROVE RegistrationInv
  OBVIOUS
<1>1. given \in GivenConfigs /\ file \in GatewayManifests /\ deployments \in 1..MaxDeployments
  <2>1. MaxDeployments \in Nat \ {0} /\ Files \subseteq GatewayManifests
    BY RegistrationAssumption
  <2>2. given \in GivenConfigs /\ file \in Files /\ deployments = 1
    BY DEF Init
  <2> QED
    BY <2>1, <2>2
<1>2. options # NoOptions => options \in OptionsOf({options.instance})
  BY RegistrationAssumption DEF Init
<1> QED
  BY <1>1, <1>2 DEF Init, RegistrationInv, Inputs, Stages, Remembered, Configured

(* What LoadGatewayManifest keeps of a manifest that it accepts. *)
LEMMA LoadedManifest ==
    ASSUME NEW f \in GatewayManifests, Contract(f), NEW m,
           m = [services |-> NormalizeAndValidate(f).services,
                routes |-> NormalizeAndValidate(f).routes]
    PROVE  /\ Len(m.services) = Len(f.services)
           /\ ToSet(m.services) = {normalizeService(s) : s \in ToSet(f.services)}
           /\ m.routes = PayloadRoutes(f)
<1>1. /\ m.services = SortedServices({normalizeService(s) : s \in ToSet(f.services)})
      /\ m.routes = PayloadRoutes(f)
  BY AcceptedIsContract
<1> QED
  BY <1>1, PayloadServicesAre

(* New completes the configuration, or has no options to go on with. *)
LEMMA StartsKeeps ==
    ASSUME RegistrationInv, Starts PROVE RegistrationInv'
<1>1. Inputs' /\ Remembered'
  BY DEF RegistrationInv, Starts, Inputs, Remembered
<1>2. Configured'
  BY DEF RegistrationInv, Configured, Starts
<1>3. Stages'
  <2>1. err = "none" /\ node' = NoNode /\ manifest' = NoManifest /\ options' = options
    BY DEF RegistrationInv, Stages, Starts
  <2> QED
    BY <2>1 DEF Starts, Stages
<1> QED
  BY <1>1, <1>2, <1>3 DEF RegistrationInv

(* The manifest is accepted when it keeps the contract, and New ends with  *)
(* an error otherwise.                                                     *)
LEMMA LoadKeeps ==
    ASSUME RegistrationInv, LoadGatewayManifest PROVE RegistrationInv'
<1> DEFINE m == NormalizeAndValidate(file)
<1>1. Inputs' /\ Remembered' /\ Configured'
  BY DEF RegistrationInv, LoadGatewayManifest, Inputs, Remembered, Configured
<1>2. /\ err = "none" /\ node' = NoNode /\ manifest = NoManifest /\ options # NoOptions
      /\ options' = options /\ file' = file /\ file \in GatewayManifests
  BY DEF RegistrationInv, Inputs, Stages, LoadGatewayManifest
<1>3. (file.readable /\ m.ok) <=> Accepts(file)
  BY <1>2, AcceptedIsContract DEF Accepts
<1>4. CASE Accepts(file)
  <2>1. /\ pc' = "node" /\ err' = err
        /\ manifest' = [services |-> m.services, routes |-> m.routes]
    BY <1>3, <1>4 DEF LoadGatewayManifest
  <2>2. /\ Len(manifest'.services) = Len(file.services)
        /\ ToSet(manifest'.services) = {normalizeService(s) : s \in ToSet(file.services)}
        /\ manifest'.routes = PayloadRoutes(file)
    BY <1>2, <1>4, <2>1, LoadedManifest DEF Accepts
  <2>3. Loaded'
    BY <1>2, <1>4, <2>2 DEF Loaded
  <2>4. Stages'
    BY <1>2, <2>1, <2>3 DEF Stages
  <2> QED
    BY <1>1, <2>4 DEF RegistrationInv
<1>5. CASE ~Accepts(file)
  <2>1. pc' = "failed" /\ err' = "manifest" /\ manifest' = manifest
    BY <1>3, <1>5 DEF LoadGatewayManifest
  <2>2. Stages'
    BY <1>2, <1>5, <2>1 DEF Stages
  <2> QED
    BY <1>1, <2>2 DEF RegistrationInv
<1> QED
  BY <1>4, <1>5

(* The node is made of the loaded manifest, whose methods are those of the *)
(* file.                                                                   *)
LEMMA BuildsNodeKeeps ==
    ASSUME RegistrationInv, BuildsNode PROVE RegistrationInv'
<1>1. Inputs' /\ Remembered' /\ Configured'
  BY DEF RegistrationInv, BuildsNode, Inputs, Remembered, Configured
<1>2. /\ err' = "none" /\ Loaded /\ file \in GatewayManifests
      /\ options \in OptionsOf({options.instance})
  BY DEF RegistrationInv, Inputs, Stages, BuildsNode, Loaded
<1>3. MethodPaths(manifest) = PayloadMethods(file)
  BY <1>2, MethodPathsAre DEF Loaded, Accepts
<1>4. node' = NodeOf(options, file)
  BY <1>2, <1>3 DEF BuildsNode, NewServiceNode, ServiceCount, HTTPRoutesCopy, NodeOf, Loaded
<1>5. Loaded' /\ file' = file
  BY <1>2 DEF BuildsNode, Loaded
<1>6. Built'
  BY <1>2, <1>4, <1>5 DEF Built
<1>7. Stages'
  BY <1>2, <1>6 DEF Stages, BuildsNode
<1> QED
  BY <1>1, <1>7 DEF RegistrationInv

(* Validate finds nothing wrong with the node but the application's own    *)
(* options, and normalises routes that are normal already.                 *)
LEMMA NewControllerKeeps ==
    ASSUME RegistrationInv, NewController PROVE RegistrationInv'
<1>1. Inputs' /\ Remembered' /\ Configured'
  BY DEF RegistrationInv, NewController, Inputs, Remembered, Configured
<1>2. err = "none" /\ Built /\ file \in GatewayManifests
  BY DEF RegistrationInv, Inputs, Stages, NewController
<1>3. PICK o : o \in OptionsOf({o.instance}) /\ node = NodeOf(o, file)
  BY <1>2 DEF Built
<1>4. /\ node.methods = PayloadMethods(file) /\ node.http_routes = PayloadRoutes(file)
      /\ node.options = o
  BY <1>3 DEF NodeOf
<1>5. CapabilitiesOK(node) /\ NodeRoutes(node).routes = node.http_routes
  BY <1>2, <1>4, PayloadIsValid DEF Built, Loaded, Accepts
<1>6. Validate(node) \subseteq OptionErrors
  <2>1. node.options.missing \subseteq Required
    BY <1>3, <1>4 DEF OptionsOf
  <2> QED
    <3>1. \/ Validate(node) = node.options.missing
          \/ Validate(node) = {"server_port"}
          \/ Validate(node) = {"weight"}
          \/ Validate(node) = {}
      BY <1>5 DEF Validate
    <3> QED
      BY <2>1, <3>1 DEF OptionErrors
<1>7. [node EXCEPT !.http_routes = node.http_routes] = node
  BY <1>3 DEF NodeOf
<1>8. node' = node
  BY <1>5, <1>7 DEF NewController
<1>9. Built'
  BY <1>2, <1>8 DEF NewController, Built, Loaded
<1>10. \/ pc' = "run" /\ err' = "none"
       \/ pc' = "failed" /\ err' \in OptionErrors
  BY <1>2, <1>6 DEF NewController
<1>11. Stages'
  BY <1>9, <1>10 DEF Stages
<1> QED
  BY <1>1, <1>11 DEF RegistrationInv

(* A request changes nothing that the invariant is about. *)
LEMMA RequestsKeep ==
    ASSUME RegistrationInv, NEW op, Sends(op) PROVE RegistrationInv'
BY DEF RegistrationInv, Inputs, Remembered, Configured, Stages, Loaded, Built, Sends

(* The application changes its own options; the node has a copy. *)
LEMMA OptionsChangeKeeps ==
    ASSUME RegistrationInv, OptionsChange PROVE RegistrationInv'
<1>1. Built /\ err = "none" /\ options # NoOptions
  BY DEF RegistrationInv, Stages, OptionsChange, Built, Loaded
<1>2. options \in OptionsOf({options.instance})
  BY <1>1 DEF RegistrationInv, Inputs
<1>3. options'.instance = "other" /\ options' \in OptionsOf({"other"})
  BY <1>2 DEF OptionsChange, OptionsOf
<1>4. options' # NoOptions
  <2>1. NoOptions.instance = ""
    BY DEF NoOptions
  <2> QED
    BY <1>3, <2>1
<1>5. Inputs' /\ Configured'
  BY <1>3 DEF RegistrationInv, Inputs, Configured, OptionsChange
<1>6. Remembered'
  BY <1>1, <1>4 DEF RegistrationInv, Remembered, OptionsChange, Expected
<1>7. Built' /\ pc' = "run" /\ err' = "none"
  BY <1>1, <1>4 DEF OptionsChange, Built, Loaded
<1> QED
  BY <1>5, <1>6, <1>7 DEF RegistrationInv, Stages

(* What New has come to, once it is over. *)
LEMMA OutcomeIsExpected ==
    ASSUME RegistrationInv
    PROVE  /\ Built => node # NoNode /\ Outcome = Payload(file)
           /\ pc \in {"run", "failed"} => Outcome = Expected(options, file)
<1>1. ASSUME Built PROVE node # NoNode /\ Outcome = Payload(file)
  <2>1. PICK o : node = NodeOf(o, file)
    BY <1>1 DEF Built
  <2>2. file.services # <<>> /\ file.services \in Seq(GatewayServices)
    BY <1>1, ManifestTypes DEF Built, Loaded, Accepts, Contract, RegistrationInv, Inputs
  <2>3. node.proto_count # 0
    BY <2>1, <2>2 DEF NodeOf
  <2>4. node # NoNode
    BY <2>3 DEF NoNode
  <2> QED
    BY <2>1, <2>4 DEF Outcome, NodeOf, Payload
<1>2. ASSUME pc \in {"run", "failed"} PROVE Outcome = Expected(options, file)
  <2>1. \/ Built
        \/ node = NoNode /\ (options = NoOptions \/ ~Accepts(file))
    BY <1>2 DEF RegistrationInv, Stages
  <2> QED
    BY <1>1, <2>1 DEF Expected, Built, Loaded, Outcome
<1> QED
  BY <1>1, <1>2

(* A regenerated manifest has the same content, so what is remembered of   *)
(* the deployment before is what is expected of this one.                  *)
LEMMA RedeploysKeeps ==
    ASSUME RegistrationInv, Redeploys PROVE RegistrationInv'
<1>1. file \in GatewayManifests /\ file' \in Regenerated(file) /\ options' = options
  BY DEF RegistrationInv, Inputs, Redeploys
<1>2. file' \in GatewayManifests /\ SameContent(file, file')
  BY <1>1, RegeneratedIsSame
<1>3. Expected(options, file) = Expected(options, file')
  BY <1>2 DEF SameContent, Expected, Accepts, Payload, PayloadMethods, PayloadRoutes
<1>4. before' = Expected(options, file)
  BY OutcomeIsExpected DEF Redeploys
<1>5. Remembered'
  BY <1>1, <1>3, <1>4 DEF Remembered
<1>6. Inputs'
  <2>1. deployments' \in 1..MaxDeployments
    <3>1. /\ MaxDeployments \in Nat /\ deployments \in 1..MaxDeployments
          /\ deployments < MaxDeployments /\ deployments' = deployments + 1
      BY RegistrationAssumption DEF RegistrationInv, Inputs, Redeploys
    <3> QED
      BY <3>1
  <2> QED
    BY <1>1, <1>2, <2>1 DEF RegistrationInv, Inputs, Redeploys
<1>7. Configured' /\ Stages'
  BY DEF Redeploys, Configured, Stages
<1> QED
  BY <1>5, <1>6, <1>7 DEF RegistrationInv

(* Every step keeps the invariant. *)
LEMMA InvKept ==
    ASSUME RegistrationInv, [Next]_vars PROVE RegistrationInv'
<1>1. CASE UNCHANGED vars
  BY <1>1 DEF vars, RegistrationInv, Inputs, Remembered, Configured, Stages, Loaded, Built
<1>2. CASE Registers \/ Drains \/ Deregisters
  BY <1>2, RequestsKeep DEF Registers, Drains, Deregisters
<1> QED
  BY <1>1, <1>2, StartsKeeps, LoadKeeps, BuildsNodeKeeps, NewControllerKeeps,
     OptionsChangeKeeps, RedeploysKeeps DEF Next

(* OneInstance is not inductive: two equal requests say nothing of the     *)
(* next one.  What is kept is that all of them name the instance of the    *)
(* node, which does not change while the agent runs.                       *)
RequestsNameTheNode ==
    /\ requests # {} => pc = "run"
    /\ \A r \in requests : r.instance = node.options.instance

(* Init: nothing has been sent. *)
LEMMA NothingSentFirst == Init => RequestsNameTheNode
BY DEF Init, RequestsNameTheNode

(* Every step keeps it: New sends nothing, a request of the running agent  *)
(* names its node, the application changes options that are not the        *)
(* node's, and a new deployment starts with no requests.                   *)
LEMMA RequestsKeepNaming ==
    ASSUME RequestsNameTheNode, [Next]_vars
    PROVE  RequestsNameTheNode'
<1>1. CASE Starts \/ LoadGatewayManifest \/ BuildsNode \/ NewController
  <2>1. pc # "run" /\ requests' = requests
    BY <1>1 DEF Starts, LoadGatewayManifest, BuildsNode, NewController
  <2>. QED  BY <2>1 DEF RequestsNameTheNode
<1>2. CASE Registers \/ Drains \/ Deregisters
  <2>1. PICK op \in {"register", "drain", "deregister"} : Sends(op)
    BY <1>2 DEF Registers, Drains, Deregisters
  <2>2. /\ pc' = "run" /\ node' = node
        /\ requests' = requests \cup
                         {[op |-> op, instance |-> node.options.instance]}
    BY <2>1 DEF Sends, Named, NodeOptions
  <2>. QED  BY <2>2 DEF RequestsNameTheNode
<1>3. CASE OptionsChange
  BY <1>3 DEF OptionsChange, RequestsNameTheNode
<1>4. CASE Redeploys
  BY <1>4 DEF Redeploys, RequestsNameTheNode
<1>5. CASE UNCHANGED vars
  BY <1>5 DEF vars, RequestsNameTheNode
<1>. QED  BY <1>1, <1>2, <1>3, <1>4, <1>5 DEF Next

-----------------------------------------------------------------------------
(* The theorems.                                                           *)

(* The two invariants hold of every behaviour. *)
LEMMA InvAlways == Spec => [](RegistrationInv /\ RequestsNameTheNode)
<1>1. Init => RegistrationInv /\ RequestsNameTheNode
  BY InvFirst, NothingSentFirst
<1>2. /\ RegistrationInv /\ RequestsNameTheNode /\ [Next]_vars
      => RegistrationInv' /\ RequestsNameTheNode'
  BY InvKept, RequestsKeepNaming
<1> QED
  BY <1>1, <1>2, PTL DEF Spec

(* The types: New walks through its stages once, ends with an error or     *)
(* without, and sends nothing before it is over (agent.go:42-90).          *)
THEOREM RegistrationTypes == Spec => []TypeOK
<1>1. ASSUME RegistrationInv, RequestsNameTheNode PROVE TypeOK
  <2>1. given \in GivenConfigs /\ deployments \in 1..MaxDeployments
    BY <1>1 DEF RegistrationInv, Inputs
  <2>2. pc \in {"start", "load", "node", "controller", "run", "failed"}
    BY <1>1 DEF RegistrationInv, Stages
  <2>3. manifest.routes # <<>> => manifest.services # <<>>
    <3>1. CASE manifest = NoManifest
      BY <3>1 DEF NoManifest
    <3>2. CASE Loaded
      <4>1. file.services # <<>> /\ file.services \in Seq(GatewayServices)
        BY <1>1, <3>2, ManifestTypes
        DEF Loaded, Accepts, Contract, RegistrationInv, Inputs
      <4>2. Len(manifest.services) # 0
        BY <3>2, <4>1 DEF Loaded
      <4> QED
        BY <4>2
    <3> QED
      BY <1>1, <3>1, <3>2 DEF RegistrationInv, Stages, Built
  <2>4. /\ pc \in {"start", "load"} => node = NoNode
        /\ pc = "failed" <=> err # "none"
    BY <1>1 DEF RegistrationInv, Stages, OptionErrors, Required
  <2> QED
    BY <1>1, <2>1, <2>2, <2>3, <2>4 DEF TypeOK, RequestsNameTheNode
<1> QED
  BY <1>1, InvAlways, PTL

(* New rejects a manifest exactly when it breaks the contract, for any     *)
(* number of services, methods and routes (manifest.go:92-204).            *)
THEOREM NewAcceptsTheContract == Spec => []AcceptsTheContract
<1>1. ASSUME RegistrationInv PROVE AcceptsTheContract
  <2>1. node # NoNode => Accepts(file)
    BY <1>1 DEF RegistrationInv, Stages, Built, Loaded
  <2>2. err = "manifest" => ~Accepts(file)
    BY <1>1 DEF RegistrationInv, Stages, OptionErrors, Required
  <2> QED
    BY <2>1, <2>2 DEF AcceptsTheContract, Accepts
<1> QED
  BY <1>1, InvAlways, PTL

(* What LoadGatewayManifest lets through, Validate finds nothing wrong     *)
(* with (service_node.go:149-188).                                         *)
THEOREM TheValidatorsAgree == Spec => []AcceptedIsRegistrable
<1>1. RegistrationInv => AcceptedIsRegistrable
  BY DEF RegistrationInv, Stages, OptionErrors, Required, AcceptedIsRegistrable
<1> QED
  BY <1>1, InvAlways, PTL

(* A manifest generated again, in another order or another layout, comes   *)
(* to the registration it came to before (manifest.go:206, 226).           *)
THEOREM OrderDoesNotMatter == Spec => []SameContentSameRegistration
<1>1. ASSUME RegistrationInv PROVE SameContentSameRegistration
  <2>1. SUFFICES ASSUME before # Nothing, node # NoNode \/ err = "manifest"
                 PROVE  Outcome = before
    BY DEF SameContentSameRegistration
  <2>2. before = Expected(options, file)
    BY <1>1, <2>1 DEF RegistrationInv, Remembered
  <2>3. CASE node # NoNode
    BY <1>1, <2>2, <2>3, OutcomeIsExpected
    DEF RegistrationInv, Stages, Built, Loaded, Expected
  <2>4. CASE err = "manifest"
    <3>1. pc = "failed"
      BY <1>1, <2>4 DEF RegistrationInv, Stages, OptionErrors, Required
    <3> QED
      BY <1>1, <2>2, <3>1, OutcomeIsExpected
  <2> QED
    BY <2>1, <2>3, <2>4
<1> QED
  BY <1>1, InvAlways, PTL

(* The payload of an agent that runs is the whole manifest, each method    *)
(* once, and its routes resolve: one route to a request, and every         *)
(* transcoding route to a method of the payload (COVERAGE.md:58).          *)
THEOREM PayloadIsTheManifest == Spec => []RegistersTheManifest
<1>1. ASSUME RegistrationInv, pc = "run" PROVE RoutesResolve /\ NothingLost
  <2> DEFINE M == MethodsOf(file)
             R == PayloadRoutes(file)
             S == NormalRoutesOf(file)
  <2>1. /\ file \in GatewayManifests /\ Contract(file) /\ Built
    BY <1>1 DEF RegistrationInv, Inputs, Stages, Built, Loaded, Accepts
  <2>2. /\ node.methods = PayloadMethods(file) /\ node.http_routes = R
        /\ node.proto_count = Len(file.services)
    BY <2>1 DEF Built, NodeOf
  <2>3. /\ M \in SUBSET Texts /\ Agreeing(M, S)
    BY <2>1, ContractMethods, ContractParts, AgreeingIsContract DEF Contract
  <2>4. ToSet(node.methods) = M /\ IsInjective(node.methods)
    BY <2>2, <2>3, SortedTexts DEF PayloadMethods
  <2>5. /\ R \in Seq(HTTPRoutes) /\ Len(R) = Len(file.routes) /\ ToSet(R) = S
        /\ Distinct(R)
    BY <2>1, PayloadRoutesAre
  <2>6. \A r \in S : /\ Request(r) = RouteKey(r) /\ Transcodes(r) = Transcoded(r)
    BY <2>1, ManifestTypes, NormalRoute DEF NormalRoutesOf
  <2>7. {Leads(r) : r \in S} = {Leads(r) : r \in ToSet(file.routes)}
    <3>1. \A r \in ToSet(file.routes) : Leads(normalizeHTTPRoute(r)) = Leads(r)
      BY <2>1, ManifestTypes, NormalRouteLeads
    <3> QED
      BY <3>1 DEF NormalRoutesOf
  <2> HIDE DEF M, R, S
  <2>8. \A i, j \in DOMAIN R : Request(R[i]) = Request(R[j]) => i = j
    <3>1. \A i \in DOMAIN R : Request(R[i]) = RouteKey(R[i])
      BY <2>5, <2>6 DEF ToSet
    <3> QED
      BY <2>5, <3>1 DEF Distinct
  <2>9. \A r, s \in S : /\ Transcodes(r) => r.full_method \in M
                        /\ Transcodes(r) = Transcodes(s)
    BY <2>3, <2>6 DEF Agreeing, RouteGood
  <2>10. RoutesResolve
    BY <2>2, <2>4, <2>5, <2>8, <2>9 DEF RoutesResolve
  <2>11. NothingLost
    BY <2>2, <2>4, <2>5, <2>7 DEF NothingLost, M
  <2> QED
    BY <2>10, <2>11
<1>2. RegistrationInv => RegistersTheManifest
  BY <1>1 DEF RegistersTheManifest
<1> QED
  BY <1>2, InvAlways, PTL

(* An agent is one instance to the sidecar: every request of it, register, *)
(* drain or deregister, names the same one (service_node.go:81-101,        *)
(* 193-222).                                                               *)
THEOREM AgentIsOneInstance == Spec => []OneInstance
<1>1. RequestsNameTheNode => OneInstance
  BY DEF RequestsNameTheNode, OneInstance
<1>. QED  BY <1>1, InvAlways, PTL

-----------------------------------------------------------------------------
(* The defaults.                                                           *)

Default(c) == DefaultSidecarAgentConfig(c.base_url)
Fields == {"base_url", "watch_url", "request_timeout", "reconnect_interval",
           "gateway_manifest_path"}

(* The defaults for a base URL: the address is not empty, and trimming     *)
(* its slashes once more changes nothing.                                  *)
LEMMA DefaultFields ==
    ASSUME NEW c \in GivenConfigs
    PROVE  /\ Default(c).base_url \in Texts \ {""}
           /\ TrimSlashes[Default(c).base_url] = Default(c).base_url
           /\ Default(c).base_url =
                 IF TrimSlashes[TrimSpace[c.base_url]] = "" THEN DefaultAdminBaseURL
                 ELSE TrimSlashes[TrimSpace[c.base_url]]
           /\ Default(c) =
                 [base_url |-> Default(c).base_url,
                  watch_url |-> Default(c).base_url \o DefaultWatchPath,
                  request_timeout |-> "3s", reconnect_interval |-> "1s",
                  gateway_manifest_path |-> "gateway.manifest.json"]
<1>1. c.base_url \in Texts
  BY RegistrationAssumption DEF SidecarAgentConfigs
<1>2. Default(c).base_url =
         IF TrimSlashes[TrimSpace[c.base_url]] = "" THEN DefaultAdminBaseURL
         ELSE TrimSlashes[TrimSpace[c.base_url]]
  BY DEF Default, DefaultSidecarAgentConfig
<1>3. /\ DefaultAdminBaseURL \in Texts /\ DefaultAdminBaseURL # ""
      /\ TrimSlashes[DefaultAdminBaseURL] = DefaultAdminBaseURL
  <2>1. DefaultAdminBaseURL # ""
    BY DEF DefaultAdminBaseURL
  <2> QED
    BY <2>1, DefaultsAssumption
<1>4. PICK clean \in Texts : /\ clean = TrimSlashes[TrimSpace[c.base_url]]
                           /\ TrimSlashes[clean] = clean
  <2>1. PICK u \in Texts : u = TrimSpace[c.base_url]
    BY <1>1, TextLaws
  <2>2. TrimSlashes[u] \in Texts /\ TrimSlashes[TrimSlashes[u]] = TrimSlashes[u]
    BY TextLaws
  <2> QED
    BY <2>1, <2>2
<1>5. /\ Default(c).base_url \in Texts \ {""}
      /\ TrimSlashes[Default(c).base_url] = Default(c).base_url
  <2>1. Default(c).base_url = IF clean = "" THEN DefaultAdminBaseURL ELSE clean
    BY <1>2, <1>4
  <2> HIDE DEF Default
  <2> QED
    BY <1>3, <1>4, <2>1
<1>6. Default(c) =
         [base_url |-> Default(c).base_url,
          watch_url |-> Default(c).base_url \o DefaultWatchPath,
          request_timeout |-> "3s", reconnect_interval |-> "1s",
          gateway_manifest_path |-> "gateway.manifest.json"]
  BY DEF Default, DefaultSidecarAgentConfig
<1> QED
  BY <1>2, <1>5, <1>6

(* A default configuration comes through unchanged. *)
LEMMA DefaultIsNormal ==
    ASSUME NEW c \in GivenConfigs, TrimSpace[Default(c).base_url] = Default(c).base_url
    PROVE  normalizeSidecarAgentConfig(Default(c)) = Default(c)
<1> DEFINE d == Default(c)
           base == d.base_url
           watch == base \o DefaultWatchPath
<1>1. /\ base # "" /\ TrimSpace[base] = base /\ TrimSlashes[TrimSpace[base]] = base
  BY DefaultFields
<1>2. /\ d.watch_url = watch /\ d.request_timeout = "3s" /\ d.reconnect_interval = "1s"
      /\ d.gateway_manifest_path = "gateway.manifest.json"
  <2>1. d = [base_url |-> base, watch_url |-> watch, request_timeout |-> "3s",
             reconnect_interval |-> "1s",
             gateway_manifest_path |-> "gateway.manifest.json"]
    BY DefaultFields
  <2> HIDE DEF d
  <2> DEFINE b == d.base_url
  <2>2. d = [base_url |-> b, watch_url |-> b \o DefaultWatchPath,
             request_timeout |-> "3s", reconnect_interval |-> "1s",
             gateway_manifest_path |-> "gateway.manifest.json"]
    BY <2>1
  <2> HIDE DEF b
  <2>3. /\ d.watch_url = b \o DefaultWatchPath /\ d.request_timeout = "3s"
        /\ d.reconnect_interval = "1s"
        /\ d.gateway_manifest_path = "gateway.manifest.json"
    BY <2>2
  <2> QED
    BY <2>3 DEF b
<1>3. TrimSpace[watch] = watch /\ watch # ""
  BY <1>1, DefaultsAssumption DEF Default
<1>4. /\ TrimSpace["3s"] = "3s" /\ TrimSpace["1s"] = "1s"
      /\ TrimSpace["gateway.manifest.json"] = "gateway.manifest.json"
  BY DefaultsAssumption
<1>5. d = [base_url |-> base, watch_url |-> watch, request_timeout |-> "3s",
           reconnect_interval |-> "1s", gateway_manifest_path |-> "gateway.manifest.json"]
  BY DefaultFields
<1>6. /\ d["watch_url"] = watch /\ d["request_timeout"] = "3s"
      /\ d["reconnect_interval"] = "1s"
      /\ d["gateway_manifest_path"] = "gateway.manifest.json"
  BY <1>2
<1> HIDE DEF d, watch
<1>7. normalizeSidecarAgentConfig(d)
         = [base_url |-> base, watch_url |-> watch, request_timeout |-> "3s",
            reconnect_interval |-> "1s", gateway_manifest_path |-> "gateway.manifest.json"]
  BY <1>1, <1>3, <1>4, <1>6 DEF normalizeSidecarAgentConfig
<1> QED
  BY <1>5, <1>7 DEF d

(* Where nothing is given, New runs with the default. *)
LEMMA NormalIsDefault ==
    ASSUME NEW c \in GivenConfigs,
           TrimSpace[c.base_url] = "" \/ TrimSlashes[TrimSpace[c.base_url]] # "",
           NEW field \in DOMAIN c
    PROVE  \/ normalizeSidecarAgentConfig(c)[field] = Default(c)[field]
           \/ TrimSpace[c[field]] # "" /\ field # "base_url"
<1> DEFINE n == normalizeSidecarAgentConfig(c)
           d == Default(c)
           base == IF TrimSpace[c.base_url] = "" THEN d.base_url
                   ELSE TrimSlashes[TrimSpace[c.base_url]]
           Given(f, otherwise) == IF TrimSpace[c[f]] = "" THEN otherwise
                                  ELSE TrimSpace[c[f]]
<1>1. field \in Fields
  <2>1. DOMAIN c = Fields
    BY RegistrationAssumption DEF SidecarAgentConfigs, Fields
  <2> QED
    BY <2>1
<1>2. base = d.base_url
  BY DefaultFields
<1>3. n = [base_url |-> base,
           watch_url |-> Given("watch_url", base \o DefaultWatchPath),
           request_timeout |-> Given("request_timeout", d.request_timeout),
           reconnect_interval |-> Given("reconnect_interval", d.reconnect_interval),
           gateway_manifest_path |->
              Given("gateway_manifest_path", d.gateway_manifest_path)]
  BY DEF normalizeSidecarAgentConfig, Default
<1>4. d.watch_url = d.base_url \o DefaultWatchPath
  BY DEF Default, DefaultSidecarAgentConfig
<1> HIDE DEF n, d, base
<1>5. /\ n["base_url"] = d["base_url"]
      /\ n["watch_url"] = Given("watch_url", d["watch_url"])
      /\ n["request_timeout"] = Given("request_timeout", d["request_timeout"])
      /\ n["reconnect_interval"] = Given("reconnect_interval", d["reconnect_interval"])
      /\ n["gateway_manifest_path"] =
            Given("gateway_manifest_path", d["gateway_manifest_path"])
  BY <1>2, <1>3, <1>4
<1>6. \A f, otherwise : Given(f, otherwise) = otherwise \/ TrimSpace[c[f]] # ""
  OBVIOUS
<1> HIDE DEF Given
<1> QED
  BY <1>1, <1>5, <1>6 DEF Fields, n, d

(* The defaults of the two functions agree (defaults.go:5-63).             *)
THEOREM TheDefaultsAgree == Spec => []DefaultsAgree
<1>1. ASSUME RegistrationInv PROVE DefaultsAgree
  <2>1. SUFFICES ASSUME config # NoConfig PROVE DefaultsAgree
    BY DEF DefaultsAgree
  <2>2. given \in GivenConfigs /\ config = normalizeSidecarAgentConfig(given)
    BY <1>1, <2>1 DEF RegistrationInv, Inputs, Configured
  <2> QED
    BY <2>2, DefaultIsNormal, NormalIsDefault DEF DefaultsAgree, Default
<1> QED
  BY <1>1, InvAlways, PTL
=============================================================================
