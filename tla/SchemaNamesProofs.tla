-------------------------- MODULE SchemaNamesProofs --------------------------
(***************************************************************************)
(* Theorems about SchemaNames, for ids of any length.  The places of the   *)
(* characters that are kept are numbered by counting, so that nothing here *)
(* is an induction over the id.                                            *)
(***************************************************************************)
EXTENDS SchemaNames, FiniteSetTheorems, SequenceTheorems, TLAPS

-----------------------------------------------------------------------------
(* Sequences of characters.                                                *)

\* What is left in a sanitised id.
Safe == {"x", "-", "_"}

NoDoubles(t) ==
    \A i, j \in 1 .. Len(t) : j + 1 = i /\ t[i] = "_" => t[j] # "_"

\* toLowerCase and the first replacement leave safe characters, and change none of them.
LEMMA SanitizeFacts ==
    ASSUME NEW s \in Seq(Chars)
    PROVE  /\ Sanitize(s) \in Seq(Safe)
           /\ s \in Seq(Safe) => Sanitize(s) = s
<1>1. s \in [1 .. Len(s) -> Chars] /\ Len(s) \in Nat /\ DOMAIN s = 1 .. Len(s)
  BY ElementOfSeq, LenProperties
<1>2. Sanitize(s) \in [1 .. Len(s) -> Safe]
  BY <1>1 DEF Sanitize, Lower, Safe, Chars
<1>3. Sanitize(s) \in Seq(Safe)  BY <1>1, <1>2, SeqDef
<1>4. ASSUME s \in Seq(Safe) PROVE Sanitize(s) = s
  <2>1. \A i \in 1 .. Len(s) : s[i] \in Safe  BY <1>4, ElementOfSeq, LenProperties
  <2>2. \A i \in 1 .. Len(s) : Sanitize(s)[i] = s[i]
    BY <1>1, <2>1 DEF Sanitize, Lower, Safe
  <2>3. DOMAIN Sanitize(s) = 1 .. Len(s)  BY <1>1 DEF Sanitize
  <2> QED  BY <1>1, <2>2, <2>3 DEF Sanitize
<1> QED  BY <1>3, <1>4

-----------------------------------------------------------------------------
(* The places of the members of a set of positions.                        *)

\* A position of a set has a place in it, and a later one a later place.
LEMMA PlaceFacts ==
    ASSUME NEW n \in Nat, NEW k \in SUBSET (1 .. n)
    PROVE  /\ IsFiniteSet(k) /\ Cardinality(k) \in Nat
           /\ \A i \in k : Place(k, i) \in 1 .. Cardinality(k)
           /\ \A i, j \in k : i < j => Place(k, i) < Place(k, j)
<1>1. IsFiniteSet(1 .. n)  BY FS_Interval
<1>2. \A w \in SUBSET k : /\ IsFiniteSet(w) /\ Cardinality(w) \in Nat
                          /\ Cardinality(w) <= Cardinality(k)
  <2>1. IsFiniteSet(k)  BY <1>1, FS_Subset
  <2> QED  BY <2>1, FS_Subset, FS_CardinalityType
<1>3. ASSUME NEW i \in k PROVE Place(k, i) \in 1 .. Cardinality(k)
  <2> DEFINE w == {j \in k : j <= i}
  <2>1. w \in SUBSET k /\ i \in w  OBVIOUS
  <2>2. Cardinality(w) \in Nat /\ Cardinality(w) <= Cardinality(k) /\ IsFiniteSet(w)
        /\ Cardinality(k) \in Nat
    BY <1>2, <2>1
  <2>3. Cardinality(w) # 0  BY <2>1, <2>2, FS_EmptySet
  <2>4. Place(k, i) = Cardinality(w)  BY DEF Place
  <2> HIDE DEF w
  <2> QED  BY <2>2, <2>3, <2>4
<1>4. ASSUME NEW i \in k, NEW j \in k, i < j PROVE Place(k, i) < Place(k, j)
  <2> DEFINE w == {m \in k : m <= i}
  <2> DEFINE v == {m \in k : m <= j}
  <2>1. w \in SUBSET k /\ v \in SUBSET k /\ w \cup {j} \subseteq v /\ j \notin w
    <3>1. \A m \in k : m \in Nat  OBVIOUS
    <3>2. \A m \in k : m <= i => m <= j  BY <1>4, <3>1
    <3>3. ~(j <= i) /\ j <= j  BY <1>4, <3>1
    <3> QED  BY <3>2, <3>3
  <2>2. IsFiniteSet(w) /\ IsFiniteSet(v) /\ Cardinality(w) \in Nat /\ Cardinality(v) \in Nat
    BY <1>2, <2>1
  <2>3. Place(k, i) = Cardinality(w) /\ Place(k, j) = Cardinality(v)  BY DEF Place
  <2> HIDE DEF w, v
  <2>4. Cardinality(w \cup {j}) = Cardinality(w) + 1  BY <2>1, <2>2, FS_AddElement
  <2>5. Cardinality(w \cup {j}) <= Cardinality(v)  BY <2>1, <2>2, FS_Subset
  <2> QED  BY <2>2, <2>3, <2>4, <2>5
<1> QED  BY <1>2, <1>3, <1>4

\* Every place up to the size of the set is taken, by the position At names.
LEMMA AtFacts ==
    ASSUME NEW n \in Nat, NEW k \in SUBSET (1 .. n), NEW m \in 1 .. Cardinality(k)
    PROVE  At(k, m) \in k /\ Place(k, At(k, m)) = m
<1> DEFINE c == Cardinality(k)
<1> DEFINE f == [i \in k |-> Place(k, i)]
<1>1. /\ IsFiniteSet(k) /\ c \in Nat
      /\ \A i \in k : Place(k, i) \in 1 .. c
      /\ \A i, j \in k : i < j => Place(k, i) < Place(k, j)
  BY PlaceFacts
<1>2. IsFiniteSet(1 .. c) /\ Cardinality(1 .. c) = c
  <2>1. IsFiniteSet(1 .. c) /\ Cardinality(1 .. c) = IF 1 > c THEN 0 ELSE c - 1 + 1
    BY <1>1, FS_Interval
  <2> QED  BY <1>1, <2>1
<1> HIDE DEF c
<1>3. f \in Injection(k, 1 .. c)
  <2>1. f \in [k -> 1 .. c]  BY <1>1
  <2>2. ASSUME NEW i \in k, NEW j \in k, f[i] = f[j] PROVE i = j
    <3>1. Place(k, i) = Place(k, j) /\ Place(k, i) \in Nat /\ Place(k, j) \in Nat
      BY <1>1, <2>2
    <3>2. ~(i < j) /\ ~(j < i)  BY <1>1, <3>1
    <3> QED  BY <3>2
  <2> QED  BY <2>1, <2>2 DEF Injection, IsInjective
<1> HIDE DEF f
<1>4. f \in Surjection(k, 1 .. c)  BY <1>1, <1>2, <1>3, FS_Injection DEF c
<1>5. PICK i \in k : f[i] = m  BY <1>4 DEF Surjection, c
<1>6. Place(k, i) = m  BY <1>5 DEF f
<1>7. \E j \in k : Place(k, j) = m  BY <1>6
<1> QED  BY <1>7 DEF At

-----------------------------------------------------------------------------
(* The conversions.                                                        *)

\* The second replacement leaves no two adjacent underscores.
LEMMA CollapseFacts ==
    ASSUME NEW s \in Seq(Safe)
    PROVE  Collapse(s) \in Seq(Safe) /\ NoDoubles(Collapse(s))
<1> DEFINE n == Len(s)
<1> DEFINE k == Kept(s)
<1> DEFINE c == Cardinality(k)
<1> DEFINE t == Collapse(s)
<1>1. n \in Nat /\ DOMAIN s = 1 .. n /\ \A i \in 1 .. n : s[i] \in Safe
  BY ElementOfSeq, LenProperties
<1>2. k \in SUBSET (1 .. n)  BY <1>1 DEF Kept
<1>3. \A i \in 1 .. n : s[i] # "_" => i \in k  BY <1>1 DEF Kept
<1>4. \A i \in k, j \in 1 .. n : j + 1 = i /\ s[i] = "_" => s[j] # "_"  BY <1>1 DEF Kept
<1>5. t = [m \in 1 .. c |-> s[At(k, m)]]  BY DEF Collapse
<1> HIDE DEF k, t, n
<1>6. c \in Nat /\ \A i, j \in k : i < j => Place(k, i) < Place(k, j)
  BY <1>1, <1>2, PlaceFacts
<1>p. \A i \in k : Place(k, i) \in Nat
  <2>1. \A i \in k : Place(k, i) \in 1 .. c  BY <1>1, <1>2, PlaceFacts
  <2> QED  BY <1>6, <2>1
<1>7. \A m \in 1 .. c : At(k, m) \in k /\ Place(k, At(k, m)) = m
  BY <1>1, <1>2, AtFacts
<1> HIDE DEF c
<1>8. t \in [1 .. c -> Safe]
  <2>1. \A m \in 1 .. c : s[At(k, m)] \in Safe  BY <1>1, <1>2, <1>7
  <2> QED  BY <1>5, <2>1
<1>9. t \in Seq(Safe) /\ Len(t) = c
  <2>1. t \in Seq(Safe)  BY <1>6, <1>8, SeqDef
  <2> QED  BY <1>6, <1>8, <2>1, LenProperties
<1>a. \A l, m \in 1 .. c : l + 1 = m => l \in Nat /\ m \in Nat /\ l < m
  <2>1. c \in Nat  BY <1>6
  <2> QED  BY <2>1
<1>10. ASSUME NEW m \in 1 .. c, NEW l \in 1 .. c, l + 1 = m, t[m] = "_", t[l] = "_"
       PROVE  FALSE
  <2>0. n \in Nat  BY <1>1
  <2>1. l \in Nat /\ m \in Nat /\ l < m  BY <1>a, <1>10, Zenon
  <2> DEFINE a == At(k, l)
  <2> DEFINE b == At(k, m)
  <2>2. /\ a \in k /\ Place(k, a) = l /\ s[a] = "_"
        /\ b \in k /\ Place(k, b) = m /\ s[b] = "_"
    <3>1. t[l] = s[a] /\ t[m] = s[b]  BY <1>5
    <3> QED  BY <1>7, <1>10, <3>1
  <2> HIDE DEF a, b
  <2>3. a \in 1 .. n /\ b \in 1 .. n  BY <1>2, <2>2
  <2>p. l + 1 = m  BY <1>10
  <2>4. a < b
    <3>1. ~(b < a)
      <4> SUFFICES ASSUME b < a PROVE FALSE  OBVIOUS
      <4>1. m < l  BY <1>6, <2>2
      <4> QED  BY <2>1, <4>1
    <3>2. a # b
      <4>1. l # m  BY <2>1
      <4> QED  BY <2>2, <4>1
    <3> QED  BY <1>1, <2>3, <3>1, <3>2
  <2> DEFINE d == b - 1
  <2>5. d \in 1 .. n /\ d + 1 = b /\ d < b /\ a <= d  BY <2>0, <2>3, <2>4
  <2> HIDE DEF d
  <2>6. s[d] # "_"  BY <1>4, <2>2, <2>5
  <2>7. d \in k /\ a # d  BY <1>3, <2>2, <2>5, <2>6
  <2>8. a < d  BY <2>0, <2>3, <2>5, <2>7
  <2>9. l < Place(k, d) /\ Place(k, d) < m  BY <1>6, <2>2, <2>5, <2>7, <2>8
  <2>10. Place(k, d) \in Nat  BY <1>p, <2>7
  <2> QED  BY <2>1, <2>p, <2>9, <2>10
<1> QED  BY <1>9, <1>10 DEF NoDoubles, t

\* ... and changes nothing where there are none.
LEMMA CollapseNothing ==
    ASSUME NEW s \in Seq(Safe), NoDoubles(s)
    PROVE  Collapse(s) = s
<1> DEFINE n == Len(s)
<1> DEFINE k == 1 .. n
<1>1. n \in Nat /\ DOMAIN s = k /\ s = [i \in k |-> s[i]]
  BY ElementOfSeq, LenProperties
<1>2. Kept(s) = k  BY <1>1 DEF Kept, NoDoubles
<1> HIDE DEF n
<1>3. \A i \in 0 .. n : IsFiniteSet(1 .. i) /\ Cardinality(1 .. i) = i
  <2> SUFFICES ASSUME NEW i \in 0 .. n PROVE IsFiniteSet(1 .. i) /\ Cardinality(1 .. i) = i
    OBVIOUS
  <2>1. IsFiniteSet(1 .. i) /\ Cardinality(1 .. i) = IF 1 > i THEN 0 ELSE i - 1 + 1
    BY <1>1, FS_Interval
  <2> QED  BY <1>1, <2>1
<1>4. \A i \in k : Place(k, i) = i
  <2> SUFFICES ASSUME NEW i \in k PROVE Place(k, i) = i
    OBVIOUS
  <2>1. {j \in k : j <= i} = 1 .. i /\ i \in 0 .. n  BY <1>1
  <2> QED  BY <1>3, <2>1 DEF Place
<1>5. Cardinality(k) = n  BY <1>1, <1>3
<1>6. \A i \in k : At(k, i) = i
  <2> SUFFICES ASSUME NEW i \in k PROVE At(k, i) = i
    OBVIOUS
  <2>1. i \in 1 .. Cardinality(k) /\ k \in SUBSET (1 .. n)  BY <1>5
  <2> HIDE DEF k
  <2>2. At(k, i) \in k /\ Place(k, At(k, i)) = i  BY <1>1, <2>1, AtFacts
  <2> QED  BY <1>4, <2>2
<1> HIDE DEF k
<1>7. Collapse(s) = [i \in 1 .. n |-> s[At(k, i)]]  BY <1>2, <1>5 DEF Collapse
<1>8. Collapse(s) = [i \in k |-> s[At(k, i)]]  BY <1>7 DEF k
<1>9. Collapse(s) = [i \in k |-> s[i]]  BY <1>6, <1>8
<1> QED  BY <1>1, <1>9

\* The cut keeps what it keeps.
LEMMA SliceFacts ==
    ASSUME NEW s \in Seq(Safe), NEW n \in Nat
    PROVE  /\ Slice(s, n) \in Seq(Safe) /\ Len(Slice(s, n)) <= n
           /\ NoDoubles(s) => NoDoubles(Slice(s, n))
           /\ Len(s) <= n => Slice(s, n) = s
<1> DEFINE m == IF Len(s) < n THEN Len(s) ELSE n
<1> DEFINE t == Slice(s, n)
<1>1. Len(s) \in Nat /\ DOMAIN s = 1 .. Len(s) /\ \A i \in 1 .. Len(s) : s[i] \in Safe
  BY ElementOfSeq, LenProperties
<1>0. Len(s) \in Nat  BY LenProperties
<1>2. m \in Nat /\ m <= Len(s) /\ m <= n  BY <1>0
<1>3. t = SubSeq(s, 1, m)  BY DEF Slice
<1>4. t = [i \in 1 .. m |-> s[i]]
  <2> HIDE DEF m, t
  <2>0. \A i \in 1 .. m : i \in 1 .. Len(s)  BY <1>0, <1>2
  <2>1. \A i \in 1 .. m : s[i] \in Safe  BY <1>1, <2>0
  <2>2. /\ SubSeq(s, 1, m) \in Seq(Safe)
        /\ Len(SubSeq(s, 1, m)) = IF 1 <= m THEN m - 1 + 1 ELSE 0
        /\ \A i \in 1 .. m - 1 + 1 : SubSeq(s, 1, m)[i] = s[1 + i - 1]
    BY <1>2, <2>1, SubSeqProperties
  <2>3. m - 1 + 1 = m /\ (IF 1 <= m THEN m - 1 + 1 ELSE 0) = m
        /\ \A i \in 1 .. m : 1 + i - 1 = i
    BY <1>2
  <2>4. Len(t) = m /\ \A i \in 1 .. m : t[i] = s[i]  BY <1>3, <2>2, <2>3, Zenon
  <2>5. t = [i \in 1 .. Len(t) |-> t[i]]  BY <1>3, <2>2, ElementOfSeq, LenProperties
  <2> QED  BY <2>4, <2>5, Zenon
<1>5. Len(s) <= n => m = Len(s)  BY <1>0
<1> HIDE DEF m, t
<1>6. t \in [1 .. m -> Safe]  BY <1>1, <1>2, <1>4
<1>7. t \in Seq(Safe)  BY <1>2, <1>6, SeqDef
<1>8. Len(t) = m  BY <1>2, <1>6, <1>7, LenProperties
<1>9. NoDoubles(s) => NoDoubles(t)
  <2>1. \A i \in 1 .. m : i \in 1 .. Len(s)  BY <1>0, <1>2
  <2>2. \A i \in 1 .. m : t[i] = s[i]  BY <1>4
  <2> QED  BY <1>8, <2>1, <2>2 DEF NoDoubles
<1>10. Len(s) <= n => t = s
  <2>1. s = [i \in 1 .. Len(s) |-> s[i]]  BY <1>1, ElementOfSeq, LenProperties
  <2> QED  BY <1>4, <1>5, <2>1
<1> QED  BY <1>2, <1>7, <1>8, <1>9, <1>10 DEF t

\* A name is safe, without doubled underscores and no longer than the width; what is so
\* already is its own name.
LEMMA NameFacts ==
    ASSUME NEW s \in Seq(Chars)
    PROVE  /\ GetSchemaName(s) \in Seq(Safe) /\ NoDoubles(GetSchemaName(s))
           /\ Len(GetSchemaName(s)) <= Width
           /\ s \in Seq(Safe) /\ NoDoubles(s) /\ Len(s) <= Width => GetSchemaName(s) = s
<1> DEFINE t == Collapse(Sanitize(s))
<1>1. t \in Seq(Safe) /\ NoDoubles(t)  BY SanitizeFacts, CollapseFacts
<1>2. GetSchemaName(s) = Slice(t, Width)  BY DEF GetSchemaName
<1>3. s \in Seq(Safe) /\ NoDoubles(s) => t = s  BY SanitizeFacts, CollapseNothing
<1> HIDE DEF t
<1> QED  BY <1>1, <1>2, <1>3, SliceFacts, SchemaNamesConstants

-----------------------------------------------------------------------------
(* The theorems.                                                           *)

IdsTyped == id \in Seq(Chars) /\ other \in Seq(Chars)

LEMMA IdsAreTyped == Spec => []IdsTyped
<1>1. Init => IdsTyped  BY EmptySeq DEF Init, IdsTyped
<1>2. IdsTyped /\ [Next]_vars => IdsTyped'
  BY AppendProperties DEF IdsTyped, Next, Grow, vars
<1> QED  BY <1>1, <1>2, PTL DEF Spec

\* Ids of any length that the onboarding form admits have different schemas when they
\* are different.
THEOREM SlugsAreDistinct == Spec => []SlugsNeverCollide
<1>1. ASSUME NEW s \in Seq(Chars), Slug(s) PROVE GetSchemaName(s) = s
  <2>1. Len(s) \in Nat /\ DOMAIN s = 1 .. Len(s) /\ s = [i \in 1 .. Len(s) |-> s[i]]
    BY ElementOfSeq, LenProperties
  <2>2. \A i \in 1 .. Len(s) : s[i] \in {"x", "-"}  BY <1>1, <2>1 DEF Slug
  <2>3. s \in [1 .. Len(s) -> Safe]  BY <2>1, <2>2 DEF Safe
  <2>4. s \in Seq(Safe)  BY <2>1, <2>3, SeqDef
  <2>6. NoDoubles(s)  BY <2>2 DEF NoDoubles
  <2>5. Len(s) <= Width  BY <1>1, <2>1, SchemaNamesConstants DEF Slug
  <2> QED  BY <2>4, <2>5, <2>6, NameFacts
<1>2. IdsTyped => SlugsNeverCollide  BY <1>1 DEF IdsTyped, SlugsNeverCollide
<1> QED  BY <1>2, IdsAreTyped, PTL

\* The name of an id of any length is short enough, without doubled underscores, and
\* its own name.
THEOREM NamesAreTheirOwn == Spec => []NamesAreCanonical
<1>1. ASSUME IdsTyped PROVE NamesAreCanonical
  <2> DEFINE name == GetSchemaName(id)
  <2>1. name \in Seq(Safe) /\ NoDoubles(name) /\ Len(name) <= Width
    BY <1>1, NameFacts DEF IdsTyped
  <2> HIDE DEF name
  <2>2. Len(name) \in Nat  BY <2>1, LenProperties
  <2>3. name \in Seq(Chars)
    <3>1. Safe \subseteq Chars  BY DEF Safe, Chars
    <3> QED  BY <2>1, <3>1, SeqMonotonic
  <2>4. GetSchemaName(name) = name  BY <2>1, <2>3, NameFacts
  <2>5. \A i \in 1 .. Len(name) - 1 : name[i] = "_" => name[i + 1] # "_"
    <3>1. \A i \in 1 .. Len(name) - 1 :
             i \in 1 .. Len(name) /\ i + 1 \in 1 .. Len(name)
      BY <2>2
    <3>2. \A i, j \in 1 .. Len(name) : i + 1 = j /\ name[j] = "_" => name[i] # "_"
      BY <2>1 DEF NoDoubles
    <3> QED  BY <3>1, <3>2, Zenon
  <2> QED  BY <2>1, <2>4, <2>5 DEF NamesAreCanonical, name
<1> QED  BY <1>1, IdsAreTyped, PTL
==============================================================================
