------------------------- MODULE SchemaTypesProofs -------------------------
(***************************************************************************)
(* Proofs about SchemaGrowth, for every set of names and every depth: the  *)
(* annotation and the imports of a type are those it was exported for.     *)
(*                                                                         *)
(* ToPython, RefsIn, Joined and SplitAtCommas are recursive functions.     *)
(* Their defining equations hold because each calls itself for shorter     *)
(* sequences only, which the first part shows to suffice.  Then come the   *)
(* operations on tokens, what each function makes of what the others       *)
(* build, and the invariant.                                               *)
(***************************************************************************)
EXTENDS SchemaGrowth, SequenceTheorems, WellFoundedInduction, TLAPS

---------------------------------------------------------------------------
(* Recursive functions over a measure. *)

\* A set of natural numbers has a least element.
LEMMA LeastNatural ==
  ASSUME NEW T, T \subseteq Nat, T # {}
  PROVE  \E n \in T : \A k \in T : n <= k
<1> DEFINE R == OpToRel(<, Nat)
<1>1. R = {p \in Nat \X Nat : p[1] < p[2]}
  BY DEF OpToRel
<1>2. IsWellFoundedOn(R, Nat)
  BY NatLessThanWellFounded
<1> HIDE DEF R
<1>3. PICK n \in T : \A k \in T : ~ (<<k, n>> \in R)
  BY <1>2, WFMin
<1>4. \A k \in T : ~ (k < n)
  <2> SUFFICES ASSUME NEW k \in T, k < n PROVE FALSE
    OBVIOUS
  <2>1. <<k, n>> \in Nat \X Nat
    OBVIOUS
  <2> QED
    BY <1>1, <1>3, <2>1
<1> QED
  BY <1>4

\* A recursive definition of a function from S to V: G gives its value from
\* its values for what is smaller.
Recursion(S, V, m, G) ==
  /\ V # {}
  /\ m \in [S -> Nat]
  /\ G \in [S -> [[S -> V] -> V]]
  /\ \A t \in S : \A g, h \in [S -> V] :
       (\A u \in S : m[u] < m[t] => g[u] = h[u]) => G[t][g] = G[t][h]

\* The functions that satisfy the definition where the measure is below n.
Approximations(S, V, m, G, n) ==
  {g \in [S -> V] : \A t \in S : m[t] < n => g[t] = G[t][g]}

\* One application of the definition carries a solution one step further.
LEMMA NextApproximation ==
  ASSUME NEW S, NEW V, NEW m, NEW G, Recursion(S, V, m, G),
         NEW n \in Nat, NEW g \in Approximations(S, V, m, G, n)
  PROVE  [t \in S |-> G[t][g]] \in Approximations(S, V, m, G, n + 1)
<1> DEFINE next == [t \in S |-> G[t][g]]
<1>1. next \in [S -> V]
  BY DEF Recursion, Approximations
<1>2. ASSUME NEW t \in S, m[t] < n + 1 PROVE next[t] = G[t][next]
  <2>1. \A u \in S : m[u] < m[t] => m[u] < n
    BY <1>2 DEF Recursion
  <2>2. \A u \in S : m[u] < m[t] => g[u] = next[u]
    BY <2>1 DEF Approximations
  <2>3. g \in [S -> V]
    BY DEF Approximations
  <2>4. next[t] = G[t][g]
    OBVIOUS
  <2> HIDE DEF next
  <2> QED
    BY <1>1, <2>2, <2>3, <2>4 DEF Recursion
<1> QED
  BY <1>1, <1>2 DEF Approximations

\* There are approximations of every height.
LEMMA ApproximationsExist ==
  ASSUME NEW S, NEW V, NEW m, NEW G, Recursion(S, V, m, G)
  PROVE  \A n \in Nat : Approximations(S, V, m, G, n) # {}
<1> DEFINE Missing == {n \in Nat : Approximations(S, V, m, G, n) = {}}
<1> SUFFICES ASSUME Missing # {} PROVE FALSE
  OBVIOUS
<1>1. PICK n \in Missing : \A k \in Missing : n <= k
  <2>1. Missing \subseteq Nat
    OBVIOUS
  <2> HIDE DEF Missing
  <2> QED
    BY <2>1, LeastNatural
<1>2. n \in Nat /\ Approximations(S, V, m, G, n) = {}
  OBVIOUS
<1>3. CASE n = 0
  <2>1. PICK v \in V : TRUE
    BY DEF Recursion
  <2>2. [t \in S |-> v] \in Approximations(S, V, m, G, 0)
    BY DEF Approximations, Recursion
  <2> QED
    BY <1>2, <1>3, <2>2
<1>4. CASE n # 0
  <2>1. n - 1 \in Nat /\ ~ (n <= n - 1) /\ (n - 1) + 1 = n
    BY <1>2, <1>4
  <2>2. n - 1 \notin Missing
    BY ONLY <1>1, <2>1
  <2>3. PICK g : g \in Approximations(S, V, m, G, n - 1)
    BY <2>1, <2>2
  <2>4. [t \in S |-> G[t][g]] \in Approximations(S, V, m, G, (n - 1) + 1)
    BY <2>1, <2>3, NextApproximation
  <2> QED
    BY <1>2, <2>1, <2>4
<1> QED
  BY <1>3, <1>4

\* Approximations agree where both satisfy the definition.
LEMMA ApproximationsAgree ==
  ASSUME NEW S, NEW V, NEW m, NEW G, Recursion(S, V, m, G),
         NEW t \in S, NEW n \in Nat, NEW k \in Nat, m[t] < n, m[t] < k,
         NEW g \in Approximations(S, V, m, G, n), NEW h \in Approximations(S, V, m, G, k)
  PROVE  g[t] = h[t]
<1> DEFINE Disagree == {m[u] : u \in {v \in S : m[v] < n /\ m[v] < k /\ g[v] # h[v]}}
<1> SUFFICES ASSUME g[t] # h[t] PROVE FALSE
  OBVIOUS
<1>1. m \in [S -> Nat]
  BY DEF Recursion
<1>2. Disagree # {} /\ Disagree \subseteq Nat
  BY <1>1
<1>3. PICK d \in Disagree : \A e \in Disagree : d <= e
  <2> HIDE DEF Disagree
  <2> QED
    BY <1>2, LeastNatural
<1>4. PICK u \in S : d = m[u] /\ m[u] < n /\ m[u] < k /\ g[u] # h[u]
  BY <1>3
<1>5. \A v \in S : m[v] < m[u] => g[v] = h[v]
  <2> SUFFICES ASSUME NEW v \in S, m[v] < m[u], g[v] # h[v] PROVE FALSE
    OBVIOUS
  <2>1. m[v] \in Nat /\ m[u] \in Nat
    BY <1>1
  <2>2. m[v] < n /\ m[v] < k /\ ~ (m[u] <= m[v])
    BY <1>4, <2>1
  <2>3. m[v] \in Disagree
    BY <2>2
  <2> HIDE DEF Disagree
  <2> QED
    BY <1>3, <1>4, <2>2, <2>3
<1>6. g \in [S -> V] /\ h \in [S -> V] /\ g[u] = G[u][g] /\ h[u] = G[u][h]
  BY <1>4 DEF Approximations
<1>7. G[u][g] = G[u][h]
  <2> HIDE DEF Disagree
  <2> QED
    BY <1>5, <1>6 DEF Recursion
<1> QED
  BY <1>4, <1>6, <1>7

\* The definition has a solution: at each argument, an approximation that is
\* high enough.
LEMMA RecursiveFunction ==
  ASSUME NEW S, NEW V, NEW m, NEW G, Recursion(S, V, m, G)
  PROVE  \E f \in [S -> V] : f = [t \in S |-> G[t][f]]
<1> DEFINE A(n) == Approximations(S, V, m, G, n)
           at == [n \in Nat |-> CHOOSE g : g \in A(n)]
           f == [t \in S |-> at[m[t] + 1][t]]
<1>1. \A t \in S : m[t] \in Nat /\ m[t] + 1 \in Nat /\ m[t] < m[t] + 1
  BY DEF Recursion
<1>2. \A n \in Nat : at[n] \in A(n)
  <2> HIDE DEF A
  <2>1. \A n \in Nat : A(n) # {}
    BY ApproximationsExist DEF A
  <2> QED
    BY <2>1
<1>3. \A t \in S : f[t] = at[m[t] + 1][t]
  OBVIOUS
<1>4. f \in [S -> V]
  <2>1. \A t \in S : at[m[t] + 1] \in [S -> V]
    <3> HIDE DEF at
    <3> QED
      BY <1>1, <1>2 DEF Approximations
  <2> HIDE DEF at
  <2> QED
    BY <2>1
<1> HIDE DEF f, at
<1>5. ASSUME NEW t \in S PROVE f[t] = G[t][f]
  <2> DEFINE g == at[m[t] + 1]
  <2>1. g \in A(m[t] + 1)
    BY <1>1, <1>2
  <2>2. g \in [S -> V] /\ g[t] = G[t][g]
    BY <1>1, <2>1 DEF Approximations
  <2>3. \A u \in S : m[u] < m[t] => g[u] = f[u]
    <3> SUFFICES ASSUME NEW u \in S, m[u] < m[t] PROVE g[u] = f[u]
      OBVIOUS
    <3>1. at[m[u] + 1] \in A(m[u] + 1) /\ m[u] < m[t] + 1
      BY <1>1, <1>2
    <3> HIDE DEF g
    <3>2. g[u] = at[m[u] + 1][u]
      BY <1>1, <2>1, <3>1, ApproximationsAgree
    <3> QED
      BY <1>3, <3>2
  <2> HIDE DEF g
  <2>4. G[t][g] = G[t][f]
    BY <1>4, <2>2, <2>3 DEF Recursion
  <2>5. f[t] = g[t]
    BY <1>3 DEF g
  <2> QED
    BY <2>2, <2>4, <2>5
<1>6. f = [t \in S |-> G[t][f]]
  BY <1>4, <1>5
<1> QED
  BY <1>4, <1>6

\* Every function that satisfies the definition has its values in V.
LEMMA RecursiveFunctionType ==
  ASSUME NEW S, NEW V, NEW m, NEW G, Recursion(S, V, m, G),
         NEW f, f = [t \in S |-> f[t]],
         \A t \in S : \A h \in [S -> V] :
           (\A u \in S : m[u] < m[t] => f[u] = h[u]) => f[t] = G[t][h]
  PROVE  f \in [S -> V]
<1> DEFINE Untyped == {m[t] : t \in {u \in S : f[u] \notin V}}
<1> SUFFICES ASSUME Untyped # {} PROVE FALSE
  OBVIOUS
<1>1. m \in [S -> Nat]
  BY DEF Recursion
<1>2. Untyped \subseteq Nat
  BY <1>1
<1>3. PICK d \in Untyped : \A e \in Untyped : d <= e
  <2> HIDE DEF Untyped
  <2> QED
    BY <1>2, LeastNatural
<1>4. PICK t \in S : d = m[t] /\ f[t] \notin V
  BY <1>3
<1>5. PICK v \in V : TRUE
  BY DEF Recursion
<1> DEFINE h == [u \in S |-> IF m[u] < m[t] THEN f[u] ELSE v]
<1>6. \A u \in S : m[u] < m[t] => f[u] \in V
  <2> SUFFICES ASSUME NEW u \in S, m[u] < m[t], f[u] \notin V PROVE FALSE
    OBVIOUS
  <2>1. m[u] \in Untyped
    OBVIOUS
  <2>2. m[u] \in Nat /\ m[t] \in Nat
    BY <1>1
  <2> HIDE DEF Untyped
  <2> QED
    BY <1>3, <1>4, <2>1, <2>2
<1>7. h \in [S -> V] /\ \A u \in S : m[u] < m[t] => f[u] = h[u]
  BY <1>6
<1> HIDE DEF h
<1>8. f[t] = G[t][h]
  BY <1>7
<1>9. G[t][h] \in V
  BY <1>7 DEF Recursion
<1> QED
  BY <1>4, <1>8, <1>9

---------------------------------------------------------------------------
(* Tokens, and sequences of one token or with one token at each end. *)

\* The tokens the definitions write are tokens.
LEMMA KnownTokens ==
  /\ Keywords \subseteq Tokens /\ Annotations \subseteq Tokens /\ RefNames \subseteq Tokens
  /\ {"option<", "array<", "map<", "tuple<", ">", ",", "string", "Unknown"} \subseteq Keywords
  /\ {"fragment", "ref fragment", "integer", "number", "float", "boolean", "object"} \subseteq Keywords
  /\ {"str", "int", "float", "bool", "Any", "|None", "list[", "dict[str,", "tuple[", "]"} \subseteq Annotations
BY DEF Tokens, Keywords, Annotations

\* ir_type_to_python maps primitives to annotations.
LEMMA PrimitivesAreTokens ==
  \A token \in DOMAIN PythonPrimitive : token \in Keywords /\ PythonPrimitive[token] \in Annotations
<1>1. DOMAIN PythonPrimitive = {"string", "integer", "float", "boolean", "object", "Unknown"}
  BY DEF PythonPrimitive
<1>2. /\ PythonPrimitive["string"] = "str" /\ PythonPrimitive["integer"] = "int"
      /\ PythonPrimitive["float"] = "float" /\ PythonPrimitive["boolean"] = "bool"
      /\ PythonPrimitive["object"] = "dict[str,Any]" /\ PythonPrimitive["Unknown"] = "Any"
  BY DEF PythonPrimitive
<1> QED
  BY <1>1, <1>2 DEF Keywords, Annotations

\* A sequence of one.
LEMMA Single ==
  ASSUME NEW S, NEW a \in S
  PROVE  <<a>> \in Seq(S) /\ Len(<<a>>) = 1 /\ <<a>>[1] = a /\ <<a>> # <<>> /\ Head(<<a>>) = a
OBVIOUS

\* A sequence of two is two sequences of one.
LEMMA Pair ==
  ASSUME NEW S, NEW a \in S, NEW b \in S
  PROVE  <<a, b>> = <<a>> \o <<b>>
<1>1. <<a, b>> \in Seq(S) /\ Len(<<a, b>>) = 2 /\ <<a, b>>[1] = a /\ <<a, b>>[2] = b
  OBVIOUS
<1>2. <<a>> \in Seq(S) /\ <<b>> \in Seq(S) /\ Len(<<a>>) = 1 /\ Len(<<b>>) = 1
      /\ <<a>>[1] = a /\ <<b>>[1] = b
  OBVIOUS
<1>3. /\ <<a>> \o <<b>> \in Seq(S) /\ Len(<<a>> \o <<b>>) = 2
      /\ (<<a>> \o <<b>>)[1] = a /\ (<<a>> \o <<b>>)[2] = b
  BY <1>2, ConcatProperties
<1> DEFINE s == <<a, b>>
           t == <<a>> \o <<b>>
<1>4. s \in Seq(S) /\ t \in Seq(S) /\ Len(s) = 2 /\ Len(t) = 2 /\ s[1] = t[1] /\ s[2] = t[2]
  BY <1>1, <1>3, Zenon
<1> HIDE DEF s, t
<1>5. \A i \in 1 .. Len(s) : s[i] = t[i]
  BY <1>4
<1>6. s = t
  BY <1>4, <1>5, SeqEqual
<1> QED
  BY <1>6 DEF s, t

\* A sequence behind one element.
LEMMA Prefixed ==
  ASSUME NEW S, NEW a \in S, NEW s \in Seq(S)
  PROVE  /\ <<a>> \o s \in Seq(S) /\ <<a>> \o s # <<>> /\ Len(<<a>> \o s) = Len(s) + 1
         /\ Head(<<a>> \o s) = a /\ Tail(<<a>> \o s) = s
         /\ (<<a>> \o s)[1] = a /\ \A i \in 1 .. Len(s) : (<<a>> \o s)[i + 1] = s[i]
<1>1. <<a>> \in Seq(S) /\ Len(<<a>>) = 1 /\ <<a>>[1] = a
  OBVIOUS
<1> DEFINE t == <<a>> \o s
<1>2. /\ t \in Seq(S) /\ Len(t) = Len(s) + 1 /\ t[1] = a
      /\ \A i \in 1 .. Len(s) : t[i + 1] = s[i]
  BY <1>1, ConcatProperties, LenProperties
<1> HIDE DEF t
<1>3. t # <<>> /\ Head(t) = a
  BY <1>2, LenProperties, EmptySeq
<1>4. Tail(t) \in Seq(S) /\ Len(Tail(t)) = Len(s) /\ \A i \in 1 .. Len(s) : Tail(t)[i] = s[i]
  BY <1>2, <1>3, HeadTailProperties, LenProperties
<1>5. Tail(t) = s
  BY <1>4, SeqEqual
<1> QED
  BY <1>2, <1>3, <1>5 DEF t

\* A sequence before one element.
LEMMA Suffixed ==
  ASSUME NEW S, NEW s \in Seq(S), NEW a \in S
  PROVE  /\ s \o <<a>> \in Seq(S) /\ s \o <<a>> # <<>> /\ Len(s \o <<a>>) = Len(s) + 1
         /\ Last(s \o <<a>>) = a /\ Front(s \o <<a>>) = s
         /\ \A i \in 1 .. Len(s) : (s \o <<a>>)[i] = s[i]
<1>1. <<a>> \in Seq(S) /\ Len(<<a>>) = 1 /\ <<a>>[1] = a
  OBVIOUS
<1> DEFINE t == s \o <<a>>
<1>2. /\ t \in Seq(S) /\ Len(t) = Len(s) + 1 /\ t[Len(s) + 1] = a
      /\ \A i \in 1 .. Len(s) : t[i] = s[i]
  BY <1>1, ConcatProperties, LenProperties
<1> HIDE DEF t
<1>3. t # <<>> /\ Last(t) = a
  BY <1>2, LenProperties, EmptySeq DEF Last
<1>4. Front(t) = SubSeq(t, 1, Len(s))
  BY <1>2, LenProperties DEF Front
<1>5. SubSeq(t, 1, Len(s)) \in Seq(S) /\ Len(SubSeq(t, 1, Len(s))) = Len(s)
      /\ \A i \in 1 .. Len(s) : SubSeq(t, 1, Len(s))[i] = s[i]
  BY <1>2, LenProperties, SubSeqProperties
<1>6. Front(t) = s
  BY <1>4, <1>5, SeqEqual
<1> QED
  BY <1>2, <1>3, <1>6 DEF t

\* The ends and the middle of a wrapped sequence.
LEMMA WrappedProperties ==
  ASSUME NEW a \in Tokens, NEW t \in TypeStrings, NEW b \in Tokens
  PROVE  /\ Wrapped(a, t, b) \in TypeStrings /\ Wrapped(a, t, b) # <<>>
         /\ Len(Wrapped(a, t, b)) = Len(t) + 2 /\ Last(Wrapped(a, t, b)) = b
         /\ Head(Wrapped(a, t, b)) = a /\ Tail(Wrapped(a, t, b)) = t \o <<b>>
         /\ \A i \in 1 .. Len(t) : Wrapped(a, t, b)[i + 1] = t[i]
         /\ Wrapped(a, t, b)[1] = a
<1>1. Wrapped(a, t, b) = <<a>> \o (t \o <<b>>)
  <2>1. <<a>> \in Seq(Tokens) /\ <<b>> \in Seq(Tokens) /\ t \in Seq(Tokens)
    BY Single DEF TypeStrings
  <2>2. \A x, y, z \in Seq(Tokens) : (x \o y) \o z = x \o (y \o z)
    BY ConcatAssociative
  <2> QED
    BY <2>1, <2>2, Zenon DEF Wrapped
<1> DEFINE rest == t \o <<b>>
<1>2. /\ rest \in Seq(Tokens) /\ Len(rest) = Len(t) + 1 /\ Last(rest) = b
      /\ \A i \in 1 .. Len(t) : rest[i] = t[i]
  BY Suffixed DEF TypeStrings
<1> HIDE DEF rest
<1> DEFINE w == <<a>> \o rest
<1>3. /\ w \in Seq(Tokens) /\ w # <<>> /\ Len(w) = Len(rest) + 1
      /\ Head(w) = a /\ Tail(w) = rest
      /\ w[1] = a /\ \A i \in 1 .. Len(rest) : w[i + 1] = rest[i]
  BY <1>2, Prefixed
<1> HIDE DEF w
<1>4. w \in TypeStrings /\ Len(w) = Len(t) + 2 /\ \A i \in 1 .. Len(t) : w[i + 1] = t[i]
  BY <1>2, <1>3, LenProperties DEF TypeStrings
<1>5. Last(w) = b
  BY <1>2, <1>3, LenProperties DEF Last, TypeStrings
<1>6. Wrapped(a, t, b) = w /\ rest = t \o <<b>>
  BY <1>1 DEF w, rest
<1> QED
  BY <1>3, <1>4, <1>5, <1>6

\* What was wrapped for the generator is what it finds inside.
LEMMA InsideWrapped ==
  ASSUME NEW a \in Tokens, NEW t \in TypeStrings
  PROVE  Inside(Wrapped(a, t, ">")) = t
<1>1. ">" \in Tokens
  BY KnownTokens
<1>2. Tail(Wrapped(a, t, ">")) = t \o <<">">>
  BY <1>1, WrappedProperties
<1>3. t \o <<">">> # <<>> /\ Last(t \o <<">">>) = ">" /\ Front(t \o <<">">>) = t
  BY <1>1, Suffixed DEF TypeStrings
<1> QED
  BY <1>2, <1>3, Zenon DEF Inside, WithoutLastCharacter

\* A slice from the start.
LEMMA FirstTokens ==
  ASSUME NEW S, NEW s \in Seq(S), NEW n \in 0 .. Len(s)
  PROVE  /\ SubSeq(s, 1, n) \in Seq(S) /\ Len(SubSeq(s, 1, n)) = n
         /\ \A i \in 1 .. n : SubSeq(s, 1, n)[i] = s[i]
<1>1. n \in Int /\ 1 \in Int /\ \A i \in 1 .. n : s[i] \in S
  BY ElementOfSeq, LenProperties
<1> QED
  BY <1>1, SubSeqProperties

\* A slice to the end.
LEMMA LastTokens ==
  ASSUME NEW S, NEW s \in Seq(S), NEW n \in 0 .. Len(s)
  PROVE  /\ SubSeq(s, n + 1, Len(s)) \in Seq(S) /\ Len(SubSeq(s, n + 1, Len(s))) = Len(s) - n
         /\ \A i \in 1 .. Len(s) - n : SubSeq(s, n + 1, Len(s))[i] = s[n + i]
<1> DEFINE m == n + 1
           k == Len(s)
<1>1. m \in Int /\ k \in Int /\ k - m + 1 = k - n /\ (m <= k \/ k - n = 0)
      /\ \A i \in m .. k : s[i] \in S
  BY ElementOfSeq, LenProperties
<1>2. n \in Int /\ \A i \in Int : m + i - 1 = n + i
  <2>1. n \in Int
    OBVIOUS
  <2> QED
    BY ONLY <2>1
<1> HIDE DEF m, k
<1>3. /\ SubSeq(s, m, k) \in Seq(S) /\ Len(SubSeq(s, m, k)) = IF m <= k THEN k - m + 1 ELSE 0
      /\ \A i \in 1 .. k - m + 1 : SubSeq(s, m, k)[i] = s[m + i - 1]
  BY <1>1, SubSeqProperties
<1>4. /\ SubSeq(s, m, k) \in Seq(S) /\ Len(SubSeq(s, m, k)) = k - n
      /\ \A i \in 1 .. k - n : SubSeq(s, m, k)[i] = s[n + i]
  BY <1>1, <1>2, <1>3
<1> QED
  BY <1>4 DEF m, k

\* A slice is shorter, whatever it cuts into.
LEMMA InsideIsShorter ==
  ASSUME NEW t \in TypeStrings, t # <<>>
  PROVE  Inside(t) \in TypeStrings /\ Len(Inside(t)) < Len(t)
<1>1. Tail(t) \in TypeStrings /\ Len(Tail(t)) = Len(t) - 1 /\ Len(t) \in Nat \ {0}
  BY HeadTailProperties, EmptySeq DEF TypeStrings
<1> DEFINE u == Tail(t)
<1> HIDE DEF u
<1>2. u \in Seq(Tokens) /\ Len(u) \in Nat /\ Len(u) < Len(t)
  BY <1>1, LenProperties DEF u, TypeStrings
<1>3. CASE u = <<>>
  BY <1>2, <1>3 DEF Inside, WithoutLastCharacter, u, TypeStrings
<1>4. CASE u # <<>>
  <2>1. Len(u) \in Nat \ {0}
    BY <1>2, <1>4, EmptySeq
  <2>2. Front(u) \in Seq(Tokens) /\ Len(Front(u)) = Len(u) - 1
    <3>1. Len(u) - 1 \in 0 .. Len(u)
      BY <2>1
    <3>2. SubSeq(u, 1, Len(u) - 1) \in Seq(Tokens) /\ Len(SubSeq(u, 1, Len(u) - 1)) = Len(u) - 1
      BY <1>2, <3>1, FirstTokens
    <3> QED
      BY <3>2 DEF Front
  <2>3. \A a \in Tokens : Append(Front(u), a) \in Seq(Tokens) /\ Len(Append(Front(u), a)) = Len(u)
    BY <2>1, <2>2, AppendProperties
  <2>4. "fragment" \in Tokens /\ "ref fragment" \in Tokens
    BY KnownTokens
  <2>5. WithoutLastCharacter(u) \in Seq(Tokens) /\ Len(WithoutLastCharacter(u)) <= Len(u)
    <3>1. CASE Last(u) = ">"
      BY <1>4, <2>1, <2>2, <3>1 DEF WithoutLastCharacter
    <3>2. CASE Last(u) # ">"
      <4>1. PICK a \in Tokens : WithoutLastCharacter(u) = Append(Front(u), a)
        BY <1>4, <2>4, <3>2, Zenon DEF WithoutLastCharacter
      <4> QED
        BY <2>1, <2>3, <4>1
    <3> QED
      BY <3>1, <3>2
  <2>6. Inside(t) = WithoutLastCharacter(u)
    BY DEF Inside, u
  <2> HIDE DEF Inside, WithoutLastCharacter
  <2> QED
    BY <1>2, <2>5, <2>6, LenProperties DEF TypeStrings
<1> QED
  BY <1>3, <1>4
---------------------------------------------------------------------------
(* Joining. *)

\* Two sequences with a token between them.
LEMMA Between ==
  ASSUME NEW S, NEW x \in Seq(S), NEW c \in S, NEW y \in Seq(S)
  PROVE  /\ x \o <<c>> \o y \in Seq(S) /\ Len(x \o <<c>> \o y) = Len(x) + 1 + Len(y)
         /\ \A i \in 1 .. Len(x) : (x \o <<c>> \o y)[i] = x[i]
         /\ (x \o <<c>> \o y)[Len(x) + 1] = c
         /\ \A i \in 1 .. Len(y) : (x \o <<c>> \o y)[Len(x) + 1 + i] = y[i]
<1> DEFINE left == x \o <<c>>
<1>1. /\ left \in Seq(S) /\ Len(left) = Len(x) + 1 /\ left[Len(x) + 1] = c
      /\ \A i \in 1 .. Len(x) : left[i] = x[i]
  BY Suffixed, LenProperties DEF Last
<1> HIDE DEF left
<1>2. Len(x) \in Nat /\ Len(y) \in Nat
  BY LenProperties
<1>3. /\ left \o y \in Seq(S) /\ Len(left \o y) = Len(x) + 1 + Len(y)
      /\ \A i \in 1 .. Len(x) + 1 : (left \o y)[i] = left[i]
      /\ \A i \in 1 .. Len(y) : (left \o y)[Len(x) + 1 + i] = y[i]
  <2>1. /\ left \o y \in Seq(S) /\ Len(left \o y) = Len(left) + Len(y)
        /\ \A i \in 1 .. Len(left) + Len(y) :
             (left \o y)[i] = IF i <= Len(left) THEN left[i] ELSE y[i - Len(left)]
    BY <1>1, ConcatProperties
  <2> DEFINE n == Len(left)
             k == Len(y)
  <2>2. n = Len(x) + 1 /\ n \in Nat /\ k \in Nat
    BY <1>1, <1>2
  <2> HIDE DEF n, k
  <2>3. \A i \in 1 .. n : i \in 1 .. n + k /\ i <= n
    BY <2>2
  <2>4. \A i \in 1 .. k : n + i \in 1 .. n + k /\ ~ (n + i <= n) /\ n + i - n = i
    BY <2>2
  <2> QED
    BY <2>1, <2>2, <2>3, <2>4 DEF n, k
<1>4. /\ \A i \in 1 .. Len(x) : (left \o y)[i] = x[i]
      /\ (left \o y)[Len(x) + 1] = c
  BY <1>1, <1>2, <1>3
<1> QED
  BY <1>3, <1>4 DEF left

\* The recursive definition of Joined has a solution, and its values are type strings.
LEMMA JoinedDefined ==
  /\ Joined \in [Seq(TypeStrings) -> TypeStrings]
  /\ \A parts \in Seq(TypeStrings) :
       Joined[parts] = IF parts = <<>> THEN <<>>
                       ELSE IF Len(parts) = 1 THEN Head(parts)
                       ELSE Head(parts) \o <<",">> \o Joined[Tail(parts)]
<1> DEFINE S == Seq(TypeStrings)
           V == TypeStrings
           Body(parts, of) ==
             IF parts = <<>> THEN <<>>
             ELSE IF Len(parts) = 1 THEN Head(parts)
             ELSE Head(parts) \o <<",">> \o of[Tail(parts)]
           m == [parts \in S |-> Len(parts)]
           G == [parts \in S |-> [of \in [S -> V] |-> Body(parts, of)]]
<1>1. \A parts \in S : parts # <<>> =>
        /\ Head(parts) \in V /\ Tail(parts) \in S /\ m[Tail(parts)] < m[parts]
  BY HeadTailProperties, EmptySeq
<1>2. \A x, y \in V : x \o <<",">> \o y \in V
  <2>1. \A c \in Tokens : \A x, y \in V : x \o <<c>> \o y \in V
    BY Between DEF TypeStrings
  <2> QED
    BY <2>1, KnownTokens, Zenon
<1>3. <<>> \in V /\ \A parts \in S : m[parts] = Len(parts) /\ Len(parts) \in Nat
  BY EmptySeq, LenProperties DEF TypeStrings
<1> HIDE DEF S, V, m
<1>4. ASSUME NEW parts \in S, NEW of \in [S -> V] PROVE Body(parts, of) \in V
  BY <1>1, <1>2, <1>3
<1>5. ASSUME NEW parts \in S, NEW g, NEW h, \A u \in S : m[u] < m[parts] => g[u] = h[u]
      PROVE  Body(parts, g) = Body(parts, h)
  BY <1>1, <1>5
<1> HIDE DEF Body
<1>6. Recursion(S, V, m, G)
  <2>1. G \in [S -> [[S -> V] -> V]]
    BY <1>4
  <2>2. m \in [S -> Nat]
    BY <1>3 DEF m
  <2>3. \A t \in S : \A g, h \in [S -> V] :
          (\A u \in S : m[u] < m[t] => g[u] = h[u]) => G[t][g] = G[t][h]
    BY <1>5
  <2> QED
    BY <1>3, <2>1, <2>2, <2>3 DEF Recursion
<1>7. PICK f \in [S -> V] : f = [parts \in S |-> G[parts][f]]
  BY <1>6, RecursiveFunction
<1>8. f = [parts \in S |-> Body(parts, f)]
  BY <1>7
<1>9. Joined = [parts \in S |-> Body(parts, Joined)]
  <2> USE DEF Body, S
  <2> QED
    BY <1>8, Zenon DEF Joined
<1>10. Joined \in [S -> V]
  <2>1. \A t \in S : Joined[t] = Body(t, Joined)
    BY <1>9, Zenon
  <2>2. Joined = [t \in S |-> Joined[t]]
    BY <1>9
  <2>3. \A t \in S : \A h \in [S -> V] :
           (\A u \in S : m[u] < m[t] => Joined[u] = h[u]) => Joined[t] = G[t][h]
    BY <1>5, <2>1
  <2> HIDE DEF G
  <2> QED
    BY <1>6, <2>2, <2>3, RecursiveFunctionType
<1> QED
  BY <1>9, <1>10, Zenon DEF S, V, Body
---------------------------------------------------------------------------
(* Commas. *)

\* FirstComma is a comma, and none comes before it.
LEMMA FirstCommaIsFirst ==
  ASSUME NEW t \in TypeStrings, HasComma(t)
  PROVE  /\ FirstComma(t) \in 1 .. Len(t) /\ t[FirstComma(t)] = ","
         /\ \A i \in 1 .. Len(t) : t[i] = "," => FirstComma(t) <= i
<1> DEFINE commas == {i \in DOMAIN t : t[i] = ","}
<1>1. DOMAIN t = 1 .. Len(t) /\ Len(t) \in Nat
  BY LenProperties DEF TypeStrings
<1>2. commas \subseteq Nat /\ commas # {}
  <2>1. PICK i \in 1 .. Len(t) : t[i] = ","
    BY Zenon DEF HasComma, Contains
  <2>2. i \in commas
    BY <1>1, <2>1, Zenon
  <2>3. commas \subseteq Nat
    <3>1. commas \subseteq 1 .. Len(t)
      BY <1>1, Zenon
    <3> HIDE DEF commas
    <3> QED
      BY <3>1
  <2> QED
    BY <2>2, <2>3
<1> HIDE DEF commas
<1>3. \E n \in commas : \A k \in commas : n <= k
  BY <1>2, LeastNatural
<1>4. Min(commas) \in commas /\ \A k \in commas : Min(commas) <= k
  BY <1>3, Zenon DEF Min
<1>5. FirstComma(t) = Min(commas)
  BY DEF FirstComma, commas
<1> HIDE DEF FirstComma
<1> QED
  BY <1>1, <1>4, <1>5 DEF commas

\* What str.split(",", 1) returns.
LEMMA AroundComma ==
  ASSUME NEW t \in TypeStrings, HasComma(t)
  PROVE  /\ BeforeComma(t) \in TypeStrings /\ Len(BeforeComma(t)) = FirstComma(t) - 1
         /\ AfterComma(t) \in TypeStrings /\ Len(AfterComma(t)) = Len(t) - FirstComma(t)
         /\ \A i \in 1 .. FirstComma(t) - 1 : BeforeComma(t)[i] = t[i]
         /\ \A i \in 1 .. Len(t) - FirstComma(t) : AfterComma(t)[i] = t[FirstComma(t) + i]
<1> DEFINE c == FirstComma(t)
<1>1. c \in 1 .. Len(t) /\ Len(t) \in Nat
  BY FirstCommaIsFirst, LenProperties DEF TypeStrings
<1> HIDE DEF c
<1>2. c \in 0 .. Len(t) /\ c - 1 \in 0 .. Len(t)
  BY <1>1
<1>3. /\ SubSeq(t, 1, c - 1) \in TypeStrings /\ Len(SubSeq(t, 1, c - 1)) = c - 1
      /\ \A i \in 1 .. c - 1 : SubSeq(t, 1, c - 1)[i] = t[i]
  BY <1>2, FirstTokens DEF TypeStrings
<1>4. /\ SubSeq(t, c + 1, Len(t)) \in TypeStrings /\ Len(SubSeq(t, c + 1, Len(t))) = Len(t) - c
      /\ \A i \in 1 .. Len(t) - c : SubSeq(t, c + 1, Len(t))[i] = t[c + i]
  BY <1>2, LastTokens DEF TypeStrings
<1> QED
  BY <1>3, <1>4 DEF c, BeforeComma, AfterComma

\* Splitting once undoes joining two, when the first has no comma.
LEMMA CommaBetween ==
  ASSUME NEW x \in TypeStrings, ~HasComma(x), NEW y \in TypeStrings
  PROVE  /\ x \o <<",">> \o y \in TypeStrings /\ HasComma(x \o <<",">> \o y)
         /\ BeforeComma(x \o <<",">> \o y) = x /\ AfterComma(x \o <<",">> \o y) = y
<1> DEFINE t == x \o <<",">> \o y
           c == Len(x) + 1
<1>1. "," \in Tokens
  BY KnownTokens
<1>2. /\ t \in TypeStrings /\ Len(t) = c + Len(y) /\ t[c] = ","
      /\ \A i \in 1 .. Len(x) : t[i] = x[i]
      /\ \A i \in 1 .. Len(y) : t[c + i] = y[i]
  <2>1. \A a \in Tokens :
          /\ x \o <<a>> \o y \in TypeStrings /\ Len(x \o <<a>> \o y) = Len(x) + 1 + Len(y)
          /\ (x \o <<a>> \o y)[Len(x) + 1] = a
          /\ \A i \in 1 .. Len(x) : (x \o <<a>> \o y)[i] = x[i]
          /\ \A i \in 1 .. Len(y) : (x \o <<a>> \o y)[Len(x) + 1 + i] = y[i]
    BY Between DEF TypeStrings
  <2> QED
    BY <1>1, <2>1, Zenon
<1> HIDE DEF t
<1>3. Len(x) \in Nat /\ Len(y) \in Nat
  BY LenProperties DEF TypeStrings
<1>4. c \in 1 .. Len(t) /\ c - 1 = Len(x) /\ Len(t) - c = Len(y)
  <2>1. Len(t) = c + Len(y)
    BY <1>2, Zenon
  <2> QED
    BY ONLY <1>3, <2>1
<1>5. HasComma(t)
  BY <1>2, <1>4, Zenon DEF HasComma, Contains
<1>6. FirstComma(t) = c
  <2>1. FirstComma(t) \in 1 .. Len(t) /\ t[FirstComma(t)] = "," /\ FirstComma(t) <= c
    BY <1>2, <1>4, <1>5, FirstCommaIsFirst
  <2>2. \A i \in 1 .. Len(x) : t[i] # ","
    BY <1>2, Zenon DEF HasComma, Contains
  <2>3. FirstComma(t) \notin 1 .. Len(x)
    BY <2>1, <2>2, Zenon
  <2>4. FirstComma(t) \in 1 .. Len(t) /\ FirstComma(t) <= c
    BY <2>1, Zenon
  <2> QED
    BY ONLY <1>3, <1>4, <2>3, <2>4
<1>7. /\ BeforeComma(t) \in TypeStrings /\ Len(BeforeComma(t)) = Len(x)
      /\ AfterComma(t) \in TypeStrings /\ Len(AfterComma(t)) = Len(y)
      /\ \A i \in 1 .. Len(x) : BeforeComma(t)[i] = t[i]
      /\ \A i \in 1 .. Len(y) : AfterComma(t)[i] = t[c + i]
  <2>1. t \in TypeStrings
    BY <1>2, Zenon
  <2>2. /\ BeforeComma(t) \in TypeStrings /\ Len(BeforeComma(t)) = FirstComma(t) - 1
        /\ AfterComma(t) \in TypeStrings /\ Len(AfterComma(t)) = Len(t) - FirstComma(t)
        /\ \A i \in 1 .. FirstComma(t) - 1 : BeforeComma(t)[i] = t[i]
        /\ \A i \in 1 .. Len(t) - FirstComma(t) : AfterComma(t)[i] = t[FirstComma(t) + i]
    BY <1>5, <2>1, AroundComma
  <2> QED
    BY <1>4, <1>6, <2>2, Zenon
<1>8. BeforeComma(t) = x
  <2> HIDE DEF BeforeComma
  <2> QED
    BY <1>2, <1>7, SeqEqual DEF TypeStrings
<1>9. AfterComma(t) = y
  <2> HIDE DEF AfterComma
  <2> QED
    BY <1>2, <1>7, SeqEqual DEF TypeStrings
<1> QED
  BY <1>2, <1>5, <1>8, <1>9 DEF t

\* The recursive definition of SplitAtCommas has a solution.
LEMMA SplitDefined ==
  /\ SplitAtCommas \in [TypeStrings -> Seq(TypeStrings)]
  /\ \A t \in TypeStrings :
       SplitAtCommas[t] = IF HasComma(t) THEN <<BeforeComma(t)>> \o SplitAtCommas[AfterComma(t)]
                          ELSE <<t>>
<1> DEFINE S == TypeStrings
           V == Seq(TypeStrings)
           Body(t, of) == IF HasComma(t) THEN <<BeforeComma(t)>> \o of[AfterComma(t)] ELSE <<t>>
           m == [t \in S |-> Len(t)]
           G == [t \in S |-> [of \in [S -> V] |-> Body(t, of)]]
<1>1. \A t \in S : m[t] = Len(t) /\ Len(t) \in Nat
  BY LenProperties DEF TypeStrings
<1> HIDE DEF m
<1>2. \A t \in S : HasComma(t) =>
        BeforeComma(t) \in S /\ AfterComma(t) \in S /\ m[AfterComma(t)] < m[t]
  <2> SUFFICES ASSUME NEW t \in S, HasComma(t)
               PROVE  BeforeComma(t) \in S /\ AfterComma(t) \in S /\ m[AfterComma(t)] < m[t]
    OBVIOUS
  <2>1. BeforeComma(t) \in S /\ AfterComma(t) \in S /\ Len(AfterComma(t)) = Len(t) - FirstComma(t)
    BY AroundComma
  <2>2. FirstComma(t) \in 1 .. Len(t)
    BY FirstCommaIsFirst
  <2> QED
    BY <1>1, <2>1, <2>2
<1> HIDE DEF S, V
<1>3. \A x \in S : \A parts \in V : <<x>> \in V /\ <<x>> \o parts \in V
  BY Single, Prefixed DEF S, V
<1>4. ASSUME NEW t \in S, NEW of \in [S -> V] PROVE Body(t, of) \in V
  BY <1>2, <1>3
<1>5. ASSUME NEW t \in S, NEW g, NEW h, \A u \in S : m[u] < m[t] => g[u] = h[u]
      PROVE  Body(t, g) = Body(t, h)
  BY <1>2, <1>5
<1> HIDE DEF Body
<1>6. Recursion(S, V, m, G)
  <2>1. G \in [S -> [[S -> V] -> V]]
    BY <1>4
  <2>2. m \in [S -> Nat] /\ V # {}
    BY <1>1, EmptySeq DEF m, V
  <2>3. \A t \in S : \A g, h \in [S -> V] :
          (\A u \in S : m[u] < m[t] => g[u] = h[u]) => G[t][g] = G[t][h]
    BY <1>5
  <2> QED
    BY <2>1, <2>2, <2>3 DEF Recursion
<1>7. PICK f \in [S -> V] : f = [t \in S |-> G[t][f]]
  BY <1>6, RecursiveFunction
<1>8. f = [t \in S |-> Body(t, f)]
  BY <1>7
<1>9. SplitAtCommas = [t \in S |-> Body(t, SplitAtCommas)]
  <2> USE DEF Body, S
  <2> QED
    BY <1>8, Zenon DEF SplitAtCommas
<1>10. SplitAtCommas \in [S -> V]
  <2>1. \A t \in S : SplitAtCommas[t] = Body(t, SplitAtCommas)
    BY <1>9, Zenon
  <2>2. SplitAtCommas = [t \in S |-> SplitAtCommas[t]]
    BY <1>9
  <2>3. \A t \in S : \A h \in [S -> V] :
           (\A u \in S : m[u] < m[t] => SplitAtCommas[u] = h[u]) => SplitAtCommas[t] = G[t][h]
    BY <1>5, <2>1
  <2> HIDE DEF G
  <2> QED
    BY <1>6, <2>2, <2>3, RecursiveFunctionType
<1> QED
  BY <1>9, <1>10, Zenon DEF S, V, Body

\* No part is longer than what was split.
LEMMA PartsAreNotLonger ==
  \A t \in TypeStrings : \A i \in DOMAIN SplitAtCommas[t] : Len(SplitAtCommas[t][i]) <= Len(t)
<1> DEFINE Fits(t) == \A i \in DOMAIN SplitAtCommas[t] : Len(SplitAtCommas[t][i]) <= Len(t)
           Longer == {Len(t) : t \in {u \in TypeStrings : ~Fits(u)}}
<1>1. \A t \in TypeStrings : Len(t) \in Nat
  BY LenProperties DEF TypeStrings
<1>2. \A t \in TypeStrings : HasComma(t) /\ Fits(AfterComma(t)) => Fits(t)
  <2> SUFFICES ASSUME NEW t \in TypeStrings, HasComma(t), Fits(AfterComma(t)),
                      NEW i \in DOMAIN SplitAtCommas[t]
               PROVE  Len(SplitAtCommas[t][i]) <= Len(t)
    OBVIOUS
  <2> DEFINE first == BeforeComma(t)
             rest == SplitAtCommas[AfterComma(t)]
  <2>1. /\ first \in TypeStrings /\ Len(first) = FirstComma(t) - 1
        /\ AfterComma(t) \in TypeStrings /\ Len(AfterComma(t)) = Len(t) - FirstComma(t)
        /\ FirstComma(t) \in 1 .. Len(t)
    BY AroundComma, FirstCommaIsFirst
  <2>2. Len(first) <= Len(t) /\ Len(AfterComma(t)) <= Len(t)
    BY <1>1, <2>1
  <2>3. rest \in Seq(TypeStrings) /\ SplitAtCommas[t] = <<first>> \o rest
    BY <2>1, SplitDefined
  <2>4. \A j \in 1 .. Len(rest) : rest[j] \in TypeStrings /\ Len(rest[j]) <= Len(t)
    <3>1. DOMAIN rest = 1 .. Len(rest) /\ \A j \in 1 .. Len(rest) : rest[j] \in TypeStrings
      BY <2>3, LenProperties, ElementOfSeq
    <3>2. \A j \in 1 .. Len(rest) : Len(rest[j]) <= Len(AfterComma(t))
      BY <3>1
    <3> HIDE DEF rest, Fits
    <3> QED
      BY <1>1, <2>1, <2>2, <3>1, <3>2
  <2> HIDE DEF first, rest, Fits
  <2>5. /\ <<first>> \o rest \in Seq(TypeStrings) /\ Len(<<first>> \o rest) = Len(rest) + 1
        /\ (<<first>> \o rest)[1] = first
        /\ \A j \in 1 .. Len(rest) : (<<first>> \o rest)[j + 1] = rest[j]
    BY <2>1, <2>3, Prefixed
  <2>6. i \in 1 .. Len(rest) + 1
    BY <2>3, <2>5, LenProperties
  <2>7. Len(rest) \in Nat
    BY <2>3, LenProperties
  <2>8. i = 1 \/ \E j \in 1 .. Len(rest) : i = j + 1
    <3>1. i = 1 \/ (i - 1 \in 1 .. Len(rest) /\ i = (i - 1) + 1)
      BY <2>6, <2>7
    <3> QED
      BY <3>1
  <2> QED
    BY <2>2, <2>3, <2>4, <2>5, <2>8
<1>3. \A t \in TypeStrings : ~HasComma(t) => Fits(t)
  <2> SUFFICES ASSUME NEW t \in TypeStrings, ~HasComma(t) PROVE Fits(t)
    OBVIOUS
  <2>1. SplitAtCommas[t] = <<t>>
    BY SplitDefined
  <2>2. DOMAIN <<t>> = {1} /\ <<t>>[1] = t
    OBVIOUS
  <2>3. \A i \in DOMAIN SplitAtCommas[t] : SplitAtCommas[t][i] = t
    BY <2>1, <2>2
  <2> QED
    BY <1>1, <2>3
<1> SUFFICES ASSUME NEW t \in TypeStrings, ~Fits(t) PROVE FALSE
  OBVIOUS
<1> HIDE DEF Fits
<1>4. Longer \subseteq Nat /\ Len(t) \in Longer
  BY <1>1
<1>5. PICK n \in Longer : \A k \in Longer : n <= k
  <2> HIDE DEF Longer
  <2> QED
    BY <1>4, LeastNatural
<1>6. PICK u \in TypeStrings : ~Fits(u) /\ n = Len(u)
  BY <1>5
<1>7. HasComma(u)
  BY <1>3, <1>6
<1>8. AfterComma(u) \in TypeStrings /\ Len(AfterComma(u)) < Len(u)
  <2>1. AfterComma(u) \in TypeStrings /\ Len(AfterComma(u)) = Len(u) - FirstComma(u)
        /\ FirstComma(u) \in 1 .. Len(u)
    BY <1>7, AroundComma, FirstCommaIsFirst
  <2>2. Len(u) \in Nat
    BY <1>1
  <2> QED
    BY <2>1, <2>2
<1>9. Fits(AfterComma(u))
  <2> SUFFICES ASSUME ~Fits(AfterComma(u)) PROVE FALSE
    OBVIOUS
  <2>1. Len(AfterComma(u)) \in Longer
    BY <1>8
  <2>2. Len(AfterComma(u)) \in Nat /\ Len(u) \in Nat
    BY <1>1, <1>8
  <2> HIDE DEF Longer
  <2> QED
    BY <1>5, <1>6, <1>8, <2>1, <2>2
<1> QED
  BY <1>2, <1>6, <1>7, <1>9

\* Whatever the generator calls itself for is shorter than what it was called for.
LEMMA InnerIsShorter ==
  ASSUME NEW t \in TypeStrings, t # <<>>
  PROVE  /\ Inside(t) \in TypeStrings /\ Len(Inside(t)) < Len(t)
         /\ HasComma(Inside(t)) =>
              AfterComma(Inside(t)) \in TypeStrings /\ Len(AfterComma(Inside(t))) < Len(t)
         /\ SplitAtCommas[Inside(t)] \in Seq(TypeStrings)
         /\ \A i \in DOMAIN SplitAtCommas[Inside(t)] :
              /\ SplitAtCommas[Inside(t)][i] \in TypeStrings
              /\ Len(SplitAtCommas[Inside(t)][i]) < Len(t)
<1> DEFINE u == Inside(t)
<1>1. u \in TypeStrings /\ Len(u) < Len(t)
  BY InsideIsShorter
<1> HIDE DEF u
<1>2. Len(u) \in Nat /\ Len(t) \in Nat
  BY <1>1, LenProperties DEF TypeStrings
<1>3. HasComma(u) => AfterComma(u) \in TypeStrings /\ Len(AfterComma(u)) < Len(t)
  <2> SUFFICES ASSUME HasComma(u)
               PROVE  AfterComma(u) \in TypeStrings /\ Len(AfterComma(u)) < Len(t)
    OBVIOUS
  <2>1. AfterComma(u) \in TypeStrings /\ Len(AfterComma(u)) = Len(u) - FirstComma(u)
        /\ FirstComma(u) \in 1 .. Len(u)
    BY <1>1, AroundComma, FirstCommaIsFirst
  <2> QED
    BY <1>1, <1>2, <2>1
<1>4. SplitAtCommas[u] \in Seq(TypeStrings)
  BY <1>1, SplitDefined
<1>5. \A i \in DOMAIN SplitAtCommas[u] :
        SplitAtCommas[u][i] \in TypeStrings /\ Len(SplitAtCommas[u][i]) < Len(t)
  <2> SUFFICES ASSUME NEW i \in DOMAIN SplitAtCommas[u]
               PROVE  SplitAtCommas[u][i] \in TypeStrings /\ Len(SplitAtCommas[u][i]) < Len(t)
    OBVIOUS
  <2>1. SplitAtCommas[u][i] \in TypeStrings
    BY <1>4, ElementOfSeq, LenProperties
  <2>2. Len(SplitAtCommas[u][i]) \in Nat /\ Len(SplitAtCommas[u][i]) <= Len(u)
    BY <1>1, <2>1, PartsAreNotLonger, LenProperties DEF TypeStrings
  <2> QED
    BY <1>1, <1>2, <2>1, <2>2
<1> QED
  BY <1>1, <1>3, <1>4, <1>5 DEF u
---------------------------------------------------------------------------
(* The two recursive functions of the generator. *)

\* One level of ir_type_to_python yields an annotation.
LEMMA ToPythonTyped ==
  ASSUME NEW t \in TypeStrings, NEW of \in [TypeStrings -> TypeStrings]
  PROVE  PythonOf(t, of) \in TypeStrings
<1> DEFINE u == Inside(t)
           parts == SplitAtCommas[u]
<1>1. t # <<>> => /\ u \in TypeStrings
                  /\ HasComma(u) => AfterComma(u) \in TypeStrings
                  /\ parts \in Seq(TypeStrings)
  BY InnerIsShorter
<1> HIDE DEF u, parts
<1>2. \A a \in Tokens : <<a>> \in TypeStrings
  BY Single DEF TypeStrings
<1>3. \A a, b \in Tokens : \A s \in TypeStrings : Wrapped(a, s, b) \in TypeStrings
  BY WrappedProperties
<1>4. \A s \in TypeStrings : \A a \in Tokens : s \o <<a>> \in TypeStrings
  BY Suffixed DEF TypeStrings
<1>5. "|None" \in Tokens /\ "list[" \in Tokens /\ "dict[str," \in Tokens /\ "tuple[" \in Tokens
      /\ "]" \in Tokens /\ "Any" \in Tokens
  BY KnownTokens
<1>6. \A a \in DOMAIN PythonPrimitive : <<PythonPrimitive[a]>> \in TypeStrings
  BY <1>2, PrimitivesAreTokens, KnownTokens
<1>7. t # <<>> => of[u] \o <<"|None">> \in TypeStrings
  BY <1>1, <1>4, <1>5, Zenon
<1>8. t # <<>> => Wrapped("list[", of[u], "]") \in TypeStrings
  BY <1>1, <1>3, <1>5, Zenon
<1>9. t # <<>> => MapToPython(u, of) \in TypeStrings
  BY <1>1, <1>2, <1>3, <1>5, Zenon DEF MapToPython
<1>10. t # <<>> => TupleToPython(parts, of) \in TypeStrings
  <2> SUFFICES ASSUME t # <<>> PROVE TupleToPython(parts, of) \in TypeStrings
    OBVIOUS
  <2> DEFINE each == [i \in DOMAIN parts |-> of[parts[i]]]
  <2>1. each \in Seq(TypeStrings)
    <3>1. parts \in Seq(TypeStrings) /\ DOMAIN parts = 1 .. Len(parts) /\ Len(parts) \in Nat
          /\ \A i \in 1 .. Len(parts) : parts[i] \in TypeStrings
      BY <1>1, LenProperties, ElementOfSeq
    <3>2. \A i \in 1 .. Len(parts) : of[parts[i]] \in TypeStrings
      BY <3>1
    <3> QED
      BY <3>1, <3>2, IsASeq
  <2> HIDE DEF each
  <2>2. Joined[each] \in TypeStrings
    BY <2>1, JoinedDefined
  <2> QED
    BY <1>3, <1>5, <2>2, Zenon DEF TupleToPython, each
<1>11. \A a : StartsWith(t, a) => t # <<>>
  BY Zenon DEF StartsWith
<1> QED
  BY <1>2, <1>5, <1>6, <1>7, <1>8, <1>9, <1>10, <1>11, Zenon DEF PythonOf, u, parts

\* One level of it depends on the results for shorter type strings only.
LEMMA ToPythonLocal ==
  ASSUME NEW t \in TypeStrings, NEW g, NEW h,
         \A u \in TypeStrings : Len(u) < Len(t) => g[u] = h[u]
  PROVE  PythonOf(t, g) = PythonOf(t, h)
<1> DEFINE u == Inside(t)
           parts == SplitAtCommas[u]
<1>1. t # <<>> => /\ g[u] = h[u]
                  /\ HasComma(u) => g[AfterComma(u)] = h[AfterComma(u)]
                  /\ \A i \in DOMAIN parts : g[parts[i]] = h[parts[i]]
  BY InnerIsShorter
<1> HIDE DEF u, parts
<1>2. t # <<>> => MapToPython(u, g) = MapToPython(u, h)
  BY <1>1, Zenon DEF MapToPython
<1>3. t # <<>> => TupleToPython(parts, g) = TupleToPython(parts, h)
  <2> SUFFICES ASSUME t # <<>> PROVE TupleToPython(parts, g) = TupleToPython(parts, h)
    OBVIOUS
  <2>1. [i \in DOMAIN parts |-> g[parts[i]]] = [i \in DOMAIN parts |-> h[parts[i]]]
    BY <1>1
  <2> QED
    BY <2>1, Zenon DEF TupleToPython
<1>4. \A a : StartsWith(t, a) => t # <<>>
  BY Zenon DEF StartsWith
<1> QED
  BY <1>1, <1>2, <1>3, <1>4, Zenon DEF PythonOf, u, parts

\* ir_type_to_python is a total function: however its slices cut a type string, its
\* recursion has a value, which is an annotation (generate_types.py:62-95).
THEOREM ToPythonDefined ==
  /\ ToPython \in [TypeStrings -> TypeStrings]
  /\ \A t \in TypeStrings : ToPython[t] = PythonOf(t, ToPython)
<1> DEFINE S == TypeStrings
           V == TypeStrings
           m == [t \in S |-> Len(t)]
           G == [t \in S |-> [of \in [S -> V] |-> PythonOf(t, of)]]
<1>1. \A t \in S : m[t] = Len(t) /\ Len(t) \in Nat
  BY LenProperties DEF TypeStrings
<1>2. m \in [S -> Nat] /\ V # {}
  BY <1>1, EmptySeq DEF TypeStrings
<1> HIDE DEF m
<1>3. ASSUME NEW t \in S, NEW of \in [S -> V] PROVE PythonOf(t, of) \in V
  BY ToPythonTyped
<1>4. ASSUME NEW t \in S, NEW g, NEW h, \A u \in S : m[u] < m[t] => g[u] = h[u]
      PROVE  PythonOf(t, g) = PythonOf(t, h)
  <2>1. \A u \in TypeStrings : Len(u) < Len(t) => g[u] = h[u]
    BY <1>1, <1>4
  <2> QED
    BY <2>1, ToPythonLocal
<1> HIDE DEF S, V
<1>5. Recursion(S, V, m, G)
  <2>1. G \in [S -> [[S -> V] -> V]]
    BY <1>3
  <2>3. \A t \in S : \A g, h \in [S -> V] :
          (\A u \in S : m[u] < m[t] => g[u] = h[u]) => G[t][g] = G[t][h]
    BY <1>4
  <2> QED
    BY <1>2, <2>1, <2>3 DEF Recursion
<1>6. PICK f \in [S -> V] : f = [t \in S |-> G[t][f]]
  BY <1>5, RecursiveFunction
<1>7. f = [t \in S |-> PythonOf(t, f)]
  BY <1>6
<1>8. ToPython = [t \in S |-> PythonOf(t, ToPython)]
  BY <1>7, Zenon DEF ToPython, S
<1>9. ToPython \in [S -> V]
  <2>1. \A t \in S : ToPython[t] = PythonOf(t, ToPython)
    BY <1>8, Zenon
  <2>2. ToPython = [t \in S |-> ToPython[t]]
    BY <1>8
  <2>3. \A t \in S : \A h \in [S -> V] :
           (\A u \in S : m[u] < m[t] => ToPython[u] = h[u]) => ToPython[t] = G[t][h]
    BY <1>4, <2>1
  <2> HIDE DEF G
  <2> QED
    BY <1>5, <2>2, <2>3, RecursiveFunctionType
<1> QED
  BY <1>8, <1>9, Zenon DEF S, V

\* One level of _extract_refs_from_type yields tokens.
LEMMA RefsTyped ==
  ASSUME NEW t \in TypeStrings, NEW of \in [TypeStrings -> SUBSET Tokens]
  PROVE  RefsOf(t, of) \in SUBSET Tokens
<1> DEFINE u == Inside(t)
           parts == SplitAtCommas[u]
<1>1. t # <<>> => /\ u \in TypeStrings
                  /\ HasComma(u) => AfterComma(u) \in TypeStrings
                  /\ \A i \in DOMAIN parts : parts[i] \in TypeStrings
  BY InnerIsShorter
<1> HIDE DEF u, parts
<1>2. t # <<>> => of[u] \in SUBSET Tokens /\ (HasComma(u) => of[AfterComma(u)] \in SUBSET Tokens)
  BY <1>1
<1>3. t # <<>> => TupleRefs(parts, of) \in SUBSET Tokens
  BY <1>1 DEF TupleRefs
<1>4. t # <<>> => Head(t) \in Tokens
  BY HeadTailProperties DEF TypeStrings
<1>5. "ref fragment" \in Tokens
  BY KnownTokens
<1>6. NamesRef(t) => {IF Len(t) = 1 THEN Head(t) ELSE "ref fragment"} \in SUBSET Tokens
  <2>1. NamesRef(t) => (IF Len(t) = 1 THEN Head(t) ELSE "ref fragment") \in Tokens
    BY <1>4, <1>5, Zenon DEF NamesRef
  <2> QED
    BY <2>1
<1>7. \A a : StartsWith(t, a) => t # <<>>
  BY Zenon DEF StartsWith
<1>8. {} \in SUBSET Tokens
  OBVIOUS
<1> QED
  BY <1>2, <1>3, <1>6, <1>7, <1>8, Zenon DEF RefsOf, u, parts

\* One level of it depends on the results for shorter type strings only.
LEMMA RefsLocal ==
  ASSUME NEW t \in TypeStrings, NEW g, NEW h,
         \A u \in TypeStrings : Len(u) < Len(t) => g[u] = h[u]
  PROVE  RefsOf(t, g) = RefsOf(t, h)
<1> DEFINE u == Inside(t)
           parts == SplitAtCommas[u]
<1>1. t # <<>> => /\ g[u] = h[u]
                  /\ HasComma(u) => g[AfterComma(u)] = h[AfterComma(u)]
                  /\ \A i \in DOMAIN parts : g[parts[i]] = h[parts[i]]
  BY InnerIsShorter
<1> HIDE DEF u, parts
<1>2. t # <<>> => TupleRefs(parts, g) = TupleRefs(parts, h)
  BY <1>1 DEF TupleRefs
<1>3. \A a : StartsWith(t, a) => t # <<>>
  BY Zenon DEF StartsWith
<1> QED
  BY <1>1, <1>2, <1>3, Zenon DEF RefsOf, u, parts

\* So is _extract_refs_from_type, with sets of tokens (generate_types.py:440-456).
THEOREM RefsDefined ==
  /\ RefsIn \in [TypeStrings -> SUBSET Tokens]
  /\ \A t \in TypeStrings : RefsIn[t] = RefsOf(t, RefsIn)
<1> DEFINE S == TypeStrings
           V == SUBSET Tokens
           m == [t \in S |-> Len(t)]
           G == [t \in S |-> [of \in [S -> V] |-> RefsOf(t, of)]]
<1>1. \A t \in S : m[t] = Len(t) /\ Len(t) \in Nat
  BY LenProperties DEF TypeStrings
<1>2. m \in [S -> Nat] /\ V # {}
  BY <1>1
<1> HIDE DEF m
<1>3. ASSUME NEW t \in S, NEW of \in [S -> V] PROVE RefsOf(t, of) \in V
  BY RefsTyped
<1>4. ASSUME NEW t \in S, NEW g, NEW h, \A u \in S : m[u] < m[t] => g[u] = h[u]
      PROVE  RefsOf(t, g) = RefsOf(t, h)
  <2>1. \A u \in TypeStrings : Len(u) < Len(t) => g[u] = h[u]
    BY <1>1, <1>4
  <2> QED
    BY <2>1, RefsLocal
<1> HIDE DEF S, V
<1>5. Recursion(S, V, m, G)
  <2>1. G \in [S -> [[S -> V] -> V]]
    BY <1>3
  <2>3. \A t \in S : \A g, h \in [S -> V] :
          (\A u \in S : m[u] < m[t] => g[u] = h[u]) => G[t][g] = G[t][h]
    BY <1>4
  <2> QED
    BY <1>2, <2>1, <2>3 DEF Recursion
<1>6. PICK f \in [S -> V] : f = [t \in S |-> G[t][f]]
  BY <1>5, RecursiveFunction
<1>7. f = [t \in S |-> RefsOf(t, f)]
  BY <1>6
<1>8. RefsIn = [t \in S |-> RefsOf(t, RefsIn)]
  BY <1>7, Zenon DEF RefsIn, S
<1>9. RefsIn \in [S -> V]
  <2>1. \A t \in S : RefsIn[t] = RefsOf(t, RefsIn)
    BY <1>8, Zenon
  <2>2. RefsIn = [t \in S |-> RefsIn[t]]
    BY <1>8
  <2>3. \A t \in S : \A h \in [S -> V] :
           (\A u \in S : m[u] < m[t] => RefsIn[u] = h[u]) => RefsIn[t] = G[t][h]
    BY <1>4, <2>1
  <2> HIDE DEF G
  <2> QED
    BY <1>5, <2>2, <2>3, RecursiveFunctionType
<1> QED
  BY <1>8, <1>9, Zenon DEF S, V
---------------------------------------------------------------------------
(* Splitting at commas what was joined with them. *)

\* A sequence is its head before its tail.
LEMMA HeadAndTail ==
  ASSUME NEW S, NEW s \in Seq(S), s # <<>>
  PROVE  /\ Head(s) \in S /\ Tail(s) \in Seq(S) /\ Len(s) \in Nat \ {0} /\ Len(Tail(s)) = Len(s) - 1
         /\ Head(s) = s[1] /\ \A i \in 1 .. Len(Tail(s)) : Tail(s)[i] = s[i + 1]
         /\ s = <<Head(s)>> \o Tail(s)
<1> DEFINE h == Head(s)
           r == Tail(s)
<1>1. /\ h \in S /\ r \in Seq(S) /\ Len(s) \in Nat \ {0} /\ Len(r) = Len(s) - 1
      /\ h = s[1] /\ \A i \in 1 .. Len(r) : r[i] = s[i + 1]
  BY HeadTailProperties, EmptySeq
<1> HIDE DEF h, r
<1>2. /\ <<h>> \o r \in Seq(S) /\ Len(<<h>> \o r) = Len(r) + 1
      /\ (<<h>> \o r)[1] = h /\ \A i \in 1 .. Len(r) : (<<h>> \o r)[i + 1] = r[i]
  BY <1>1, Prefixed
<1>3. \A i \in 1 .. Len(s) : (<<h>> \o r)[i] = s[i]
  <2> SUFFICES ASSUME NEW i \in 1 .. Len(s), i # 1 PROVE (<<h>> \o r)[i] = s[i]
    BY <1>1, <1>2
  <2> DEFINE j == i - 1
  <2>1. j \in 1 .. Len(r) /\ i = j + 1
    BY <1>1
  <2> HIDE DEF j
  <2>2. (<<h>> \o r)[j + 1] = s[j + 1]
    BY <1>1, <1>2, <2>1
  <2> QED
    BY <2>1, <2>2
<1>4. Len(<<h>> \o r) = Len(s)
  BY <1>1, <1>2
<1>5. <<h>> \o r = s
  BY <1>2, <1>3, <1>4, SeqEqual
<1> QED
  BY <1>1, <1>5 DEF h, r

\* split(",") undoes ",".join(parts) if no part has a comma: the generator finds the
\* elements of the tuple the normalizer wrote (normalize_ir.py:126,
\* generate_types.py:87).
THEOREM SplitUndoesJoin ==
  ASSUME NEW parts \in Seq(TypeStrings), parts # <<>>,
         \A i \in 1 .. Len(parts) : ~HasComma(parts[i])
  PROVE  SplitAtCommas[Joined[parts]] = parts
<1> DEFINE Commaless(p) == p # <<>> /\ \A i \in 1 .. Len(p) : ~HasComma(p[i])
           Lost == {Len(p) : p \in {q \in Seq(TypeStrings) :
                                      Commaless(q) /\ SplitAtCommas[Joined[q]] # q}}
<1> SUFFICES ASSUME SplitAtCommas[Joined[parts]] # parts PROVE FALSE
  OBVIOUS
<1>1. Lost \subseteq Nat /\ Lost # {}
  <2>1. \A p \in Seq(TypeStrings) : Len(p) \in Nat
    BY LenProperties
  <2>2. Len(parts) \in Lost
    OBVIOUS
  <2> QED
    BY <2>1, <2>2
<1>2. PICK n \in Lost : \A k \in Lost : n <= k
  <2> HIDE DEF Lost
  <2> QED
    BY <1>1, LeastNatural
<1>3. PICK p \in Seq(TypeStrings) :
        n = Len(p) /\ Commaless(p) /\ SplitAtCommas[Joined[p]] # p
  BY <1>2
<1> DEFINE first == Head(p)
           rest == Tail(p)
<1>4. /\ first \in TypeStrings /\ rest \in Seq(TypeStrings) /\ Len(p) \in Nat \ {0}
      /\ Len(rest) = Len(p) - 1 /\ first = p[1] /\ \A i \in 1 .. Len(rest) : rest[i] = p[i + 1]
      /\ p = <<first>> \o rest
  BY <1>3, HeadAndTail
<1> HIDE DEF first, rest
<1>5. ~HasComma(first)
  BY <1>3, <1>4
<1>6. CASE Len(p) = 1
  <2>1. Joined[p] = first
    BY <1>3, <1>6, JoinedDefined DEF first
  <2>2. SplitAtCommas[first] = <<first>>
    BY <1>4, <1>5, SplitDefined
  <2>3. rest = <<>>
    BY <1>4, <1>6, EmptySeq
  <2>4. p = <<first>>
    BY <1>4, <2>3, Single, ConcatEmptySeq
  <2> QED
    BY <1>3, <2>1, <2>2, <2>4
<1>7. CASE Len(p) # 1
  <2>1. Joined[p] = first \o <<",">> \o Joined[rest]
    BY <1>3, <1>7, JoinedDefined DEF first, rest
  <2>2. Joined[rest] \in TypeStrings
    BY <1>4, JoinedDefined
  <2>3. Joined[p] \in TypeStrings /\ HasComma(Joined[p])
        /\ BeforeComma(Joined[p]) = first /\ AfterComma(Joined[p]) = Joined[rest]
    <3>1. \A x, y \in TypeStrings : ~HasComma(x) =>
            /\ x \o <<",">> \o y \in TypeStrings /\ HasComma(x \o <<",">> \o y)
            /\ BeforeComma(x \o <<",">> \o y) = x /\ AfterComma(x \o <<",">> \o y) = y
      BY CommaBetween
    <3>2. first \in TypeStrings /\ ~HasComma(first)
      BY <1>4, <1>5
    <3> DEFINE joined == Joined[rest]
    <3>3. joined \in TypeStrings
      BY <2>2
    <3> HIDE DEF joined, Lost, Commaless
    <3>4. /\ first \o <<",">> \o joined \in TypeStrings /\ HasComma(first \o <<",">> \o joined)
          /\ BeforeComma(first \o <<",">> \o joined) = first
          /\ AfterComma(first \o <<",">> \o joined) = joined
      BY <3>1, <3>2, <3>3, Zenon
    <3> QED
      BY <2>1, <3>4, Zenon DEF joined
  <2>4. SplitAtCommas[Joined[p]] = <<first>> \o SplitAtCommas[Joined[rest]]
    BY <2>3, SplitDefined
  <2>5. Commaless(rest)
    <3>1. Len(rest) # 0 /\ \A i \in 1 .. Len(rest) : i + 1 \in 1 .. Len(p)
      BY <1>4, <1>7
    <3>2. rest # <<>>
      BY <3>1, EmptySeq
    <3>3. \A i \in 1 .. Len(rest) : ~HasComma(rest[i])
      BY <1>3, <1>4, <3>1
    <3> QED
      BY <3>2, <3>3
  <2>6. Len(rest) \notin Lost
    <3>1. Len(rest) \in Nat /\ n \in Nat /\ ~ (n <= Len(rest))
      BY <1>3, <1>4
    <3> HIDE DEF Lost
    <3> QED
      BY <1>2, <3>1
  <2>7. SplitAtCommas[Joined[rest]] = rest
    BY <1>4, <2>5, <2>6
  <2> QED
    BY <1>3, <1>4, <2>4, <2>7
<1> QED
  BY <1>6, <1>7
---------------------------------------------------------------------------
(* What the generator makes of the type strings that canonical_type builds. *)

\* No definition is called like a token of the notation.
LEMMA NamesAreNotKeywords ==
  \A r \in RefNames : r \notin Keywords /\ r \notin DOMAIN PythonPrimitive /\ r \in Tokens
BY RefNamesAssumption, PrimitivesAreTokens, KnownTokens

\* A type string with an opening token: what the generator tests and finds inside.
LEMMA Wraps ==
  ASSUME NEW a \in Keywords, NEW t \in TypeStrings
  PROVE  /\ Wrapped(a, t, ">") \in TypeStrings /\ Wrapped(a, t, ">") # <<>>
         /\ Len(Wrapped(a, t, ">")) # 1
         /\ Head(Wrapped(a, t, ">")) = a /\ Inside(Wrapped(a, t, ">")) = t
<1>1. a \in Tokens /\ ">" \in Tokens
  BY KnownTokens
<1>2. Wrapped(a, t, ">") \in TypeStrings /\ Wrapped(a, t, ">") # <<>>
      /\ Len(Wrapped(a, t, ">")) = Len(t) + 2 /\ Head(Wrapped(a, t, ">")) = a
  BY <1>1, WrappedProperties
<1>3. Len(t) + 2 # 1
  <2>1. Len(t) \in Nat
    BY LenProperties DEF TypeStrings
  <2> QED
    BY ONLY <2>1
<1>4. Inside(Wrapped(a, t, ">")) = t
  BY <1>1, InsideWrapped
<1> QED
  BY <1>2, <1>3, <1>4, Zenon

\* To the generator an option is the inner type or None, with the names of the inner type.
LEMMA WrapsInOption ==
  ASSUME NEW t \in TypeStrings
  PROVE  /\ Option(t) \in TypeStrings
         /\ ToPython[Option(t)] = ToPython[t] \o <<"|None">>
         /\ RefsIn[Option(t)] = RefsIn[t]
<1> DEFINE w == Wrapped("option<", t, ">")
<1>1. "option<" \in Keywords /\ "option<" \notin RefNames
  BY KnownTokens, NamesAreNotKeywords
<1>2. w \in TypeStrings /\ w # <<>> /\ Len(w) # 1 /\ Head(w) = "option<" /\ Inside(w) = t
  BY <1>1, Wraps, Zenon
<1>3. Len(Unknown) = 1
  BY Single DEF Unknown
<1> HIDE DEF w
<1>4. PythonOf(w, ToPython) = ToPython[t] \o <<"|None">>
  BY <1>2, Zenon DEF PythonOf, StartsWith
<1>5. RefsOf(w, RefsIn) = RefsIn[t]
  BY <1>1, <1>2, <1>3, Zenon DEF RefsOf, NamesRef, StartsWith
<1> QED
  BY <1>2, <1>4, <1>5, ToPythonDefined, RefsDefined, Zenon DEF Option, w

\* To the generator an array is a list, with the names of the inner type.
LEMMA WrapsInArray ==
  ASSUME NEW t \in TypeStrings
  PROVE  /\ Array(t) \in TypeStrings
         /\ ToPython[Array(t)] = Wrapped("list[", ToPython[t], "]")
         /\ RefsIn[Array(t)] = RefsIn[t]
<1> DEFINE w == Wrapped("array<", t, ">")
<1>1. "array<" \in Keywords /\ "array<" \notin RefNames
  BY KnownTokens, NamesAreNotKeywords
<1>2. w \in TypeStrings /\ w # <<>> /\ Len(w) # 1 /\ Head(w) = "array<" /\ Inside(w) = t
  BY <1>1, Wraps, Zenon
<1>3. Len(Unknown) = 1
  BY Single DEF Unknown
<1> HIDE DEF w
<1>4. PythonOf(w, ToPython) = Wrapped("list[", ToPython[t], "]")
  BY <1>2, Zenon DEF PythonOf, StartsWith
<1>5. RefsOf(w, RefsIn) = RefsIn[t]
  BY <1>1, <1>2, <1>3, Zenon DEF RefsOf, NamesRef, StartsWith
<1> QED
  BY <1>2, <1>4, <1>5, ToPythonDefined, RefsDefined, Zenon DEF Array, w

\* To the generator a map is a dict of its values, with the names of the inner type.
LEMMA WrapsInMap ==
  ASSUME NEW t \in TypeStrings
  PROVE  /\ Map(t) \in TypeStrings
         /\ ToPython[Map(t)] = Wrapped("dict[str,", ToPython[t], "]")
         /\ RefsIn[Map(t)] = RefsIn[t]
<1> DEFINE entry == <<"string", ",">> \o t
           w == Wrapped("map<", entry, ">")
<1>1. "map<" \in Keywords /\ "map<" \notin RefNames
  BY KnownTokens, NamesAreNotKeywords
<1>2. entry = <<"string">> \o <<",">> \o t
  <2>1. \A a, b \in Tokens : <<a, b>> = <<a>> \o <<b>>
    BY Pair
  <2>2. "string" \in Tokens /\ "," \in Tokens
    BY KnownTokens
  <2> QED
    BY <2>1, <2>2, Zenon
<1>3. <<"string">> \in TypeStrings /\ ~HasComma(<<"string">>)
  <2>1. \A a \in Tokens : <<a>> \in TypeStrings /\ DOMAIN <<a>> = 1 .. 1 /\ \A i \in 1 .. 1 : <<a>>[i] = a
                          /\ Len(<<a>>) = 1
    BY Single DEF TypeStrings
  <2>2. "string" \in Tokens
    BY KnownTokens
  <2> QED
    BY <2>1, <2>2, Zenon DEF HasComma, Contains
<1>4. entry \in TypeStrings /\ HasComma(entry) /\ AfterComma(entry) = t
  <2>1. \A x, y \in TypeStrings : ~HasComma(x) =>
          /\ x \o <<",">> \o y \in TypeStrings /\ HasComma(x \o <<",">> \o y)
          /\ AfterComma(x \o <<",">> \o y) = y
    BY CommaBetween
  <2> QED
    BY <1>2, <1>3, <2>1, Zenon
<1> HIDE DEF entry
<1>5. w \in TypeStrings /\ w # <<>> /\ Len(w) # 1 /\ Head(w) = "map<" /\ Inside(w) = entry
  BY <1>1, <1>4, Wraps, Zenon
<1>6. Len(Unknown) = 1
  BY Single DEF Unknown
<1> HIDE DEF w
<1>7. PythonOf(w, ToPython) = Wrapped("dict[str,", ToPython[t], "]")
  BY <1>4, <1>5, Zenon DEF PythonOf, StartsWith, MapToPython
<1>8. RefsOf(w, RefsIn) = RefsIn[t]
  BY <1>1, <1>4, <1>5, <1>6, Zenon DEF RefsOf, NamesRef, StartsWith
<1> QED
  BY <1>5, <1>7, <1>8, ToPythonDefined, RefsDefined, Zenon DEF Map, w, entry

\* To the generator a tuple without commas inside is the tuple of its elements,
\* with the names of all.
LEMMA WrapsInTuple ==
  ASSUME NEW parts \in Seq(TypeStrings), parts # <<>>,
         \A i \in 1 .. Len(parts) : ~HasComma(parts[i])
  PROVE  /\ Wrapped("tuple<", Joined[parts], ">") \in TypeStrings
         /\ ToPython[Wrapped("tuple<", Joined[parts], ">")] =
              Wrapped("tuple[", Joined[[i \in DOMAIN parts |-> ToPython[parts[i]]]], "]")
         /\ RefsIn[Wrapped("tuple<", Joined[parts], ">")] =
              UNION {RefsIn[parts[i]] : i \in DOMAIN parts}
<1> DEFINE t == Joined[parts]
           w == Wrapped("tuple<", t, ">")
<1>1. "tuple<" \in Keywords /\ "tuple<" \notin RefNames
  BY KnownTokens, NamesAreNotKeywords
<1>2. t \in TypeStrings /\ SplitAtCommas[t] = parts
  BY JoinedDefined, SplitUndoesJoin
<1> HIDE DEF t
<1>3. w \in TypeStrings /\ w # <<>> /\ Len(w) # 1 /\ Head(w) = "tuple<" /\ Inside(w) = t
  BY <1>1, <1>2, Wraps, Zenon
<1>4. Len(Unknown) = 1
  BY Single DEF Unknown
<1> HIDE DEF w
<1>5. PythonOf(w, ToPython) = Wrapped("tuple[", Joined[[i \in DOMAIN parts |-> ToPython[parts[i]]]], "]")
  BY <1>2, <1>3, Zenon DEF PythonOf, StartsWith, TupleToPython
<1>6. RefsOf(w, RefsIn) = UNION {RefsIn[parts[i]] : i \in DOMAIN parts}
  BY <1>1, <1>2, <1>3, <1>4, Zenon DEF RefsOf, NamesRef, StartsWith, TupleRefs
<1> QED
  BY <1>3, <1>5, <1>6, ToPythonDefined, RefsDefined, Zenon DEF w, t
---------------------------------------------------------------------------
(* Leaves. *)

\* Sequences of one are equal only with equal elements.
LEMMA SingleEqual ==
  \A a, b : <<a>> = <<b>> => a = b
OBVIOUS

\* A type string of one token.
LEMMA OneToken ==
  ASSUME NEW a \in Tokens
  PROVE  /\ <<a>> \in TypeStrings /\ Len(<<a>>) = 1 /\ Head(<<a>>) = a /\ <<a>> # <<>>
         /\ HasComma(<<a>>) => a = ","
<1>1. <<a>> \in TypeStrings /\ Len(<<a>>) = 1 /\ <<a>>[1] = a /\ Head(<<a>>) = a /\ <<a>> # <<>>
  BY Single DEF TypeStrings
<1>2. \A i \in 1 .. 1 : <<a>>[i] = a
  OBVIOUS
<1>3. HasComma(<<a>>) => a = ","
  BY <1>1, <1>2, Zenon DEF HasComma, Contains
<1> QED
  BY <1>1, <1>3

\* A name is its own annotation and the one name it refers to.
LEMMA NameValues ==
  ASSUME NEW r \in RefNames
  PROVE  /\ <<r>> \in TypeStrings /\ ~HasComma(<<r>>)
         /\ ToPython[<<r>>] = <<r>> /\ RefsIn[<<r>>] = {r}
<1>1. r \in Tokens /\ r \notin Keywords /\ r \notin DOMAIN PythonPrimitive
  BY NamesAreNotKeywords
<1>2. /\ r # "option<" /\ r # "array<" /\ r # "map<" /\ r # "tuple<" /\ r # "," /\ r # "Unknown"
      /\ r # "ref fragment"
  BY <1>1, KnownTokens
<1>3. <<r>> \in TypeStrings /\ Len(<<r>>) = 1 /\ Head(<<r>>) = r /\ <<r>> # <<>> /\ ~HasComma(<<r>>)
  BY <1>1, <1>2, OneToken
<1>4. PythonOf(<<r>>, ToPython) = <<r>>
  BY <1>1, <1>2, <1>3, Zenon DEF PythonOf, StartsWith, NamesRef
<1>5. RefsOf(<<r>>, RefsIn) = {r}
  <2>1. <<r>> # Unknown
    BY <1>2, SingleEqual, Zenon DEF Unknown
  <2>2. NamesRef(<<r>>)
    BY <1>3, Zenon DEF NamesRef
  <2> QED
    BY <1>3, <2>1, <2>2, Zenon DEF RefsOf
<1> QED
  BY <1>3, <1>4, <1>5, ToPythonDefined, RefsDefined, Zenon

\* A primitive refers to no name.
LEMMA PrimitiveValues ==
  ASSUME NEW a \in {"string", "integer", "float", "boolean"}
  PROVE  /\ <<a>> \in TypeStrings /\ ~HasComma(<<a>>)
         /\ ToPython[<<a>>] = <<PythonPrimitive[a]>> /\ RefsIn[<<a>>] = {}
<1>1. a \in DOMAIN PythonPrimitive
  BY DEF PythonPrimitive
<1>2. a \in Tokens /\ a \notin RefNames
  BY <1>1, PrimitivesAreTokens, KnownTokens, NamesAreNotKeywords
<1>3. /\ a # "option<" /\ a # "array<" /\ a # "map<" /\ a # "tuple<" /\ a # "," /\ a # "Unknown"
      /\ a # "ref fragment"
  OBVIOUS
<1>4. <<a>> \in TypeStrings /\ Len(<<a>>) = 1 /\ Head(<<a>>) = a /\ <<a>> # <<>> /\ ~HasComma(<<a>>)
  BY <1>2, <1>3, OneToken
<1>5. PythonOf(<<a>>, ToPython) = <<PythonPrimitive[a]>>
  BY <1>1, <1>4, Zenon DEF PythonOf
<1>6. RefsOf(<<a>>, RefsIn) = {}
  <2>1. <<a>> # Unknown
    BY <1>3, SingleEqual, Zenon DEF Unknown
  <2>2. ~NamesRef(<<a>>)
    BY <1>2, <1>3, <1>4, Zenon DEF NamesRef
  <2> QED
    BY <1>3, <1>4, <2>1, <2>2, Zenon DEF RefsOf, StartsWith
<1> QED
  BY <1>4, <1>5, <1>6, ToPythonDefined, RefsDefined, Zenon

\* canonical_type of a $ref.
LEMMA CanonicalName ==
  \A r, of : CanonicalType([ref |-> r], of) = <<r>>
<1> SUFFICES ASSUME NEW r, NEW of PROVE CanonicalType([ref |-> r], of) = <<r>>
  OBVIOUS
<1>1. DOMAIN [ref |-> r] = {"ref"} /\ [ref |-> r].ref = r
  OBVIOUS
<1>2. Has([ref |-> r], "ref")
  BY <1>1 DEF Has
<1> QED
  BY <1>1, <1>2, Zenon DEF CanonicalType

\* canonical_type of a primitive.
LEMMA CanonicalPrimitive ==
  ASSUME NEW x, x \notin {"array", "object"}, NEW of
  PROVE  CanonicalType([type |-> <<x>>], of) = Primitive(x)
<1> DEFINE s == [type |-> <<x>>]
<1>1. DOMAIN s = {"type"} /\ s.type = <<x>>
  OBVIOUS
<1> HIDE DEF s
<1>2. ~Has(s, "ref") /\ ~Has(s, "anyOf") /\ Has(s, "type") /\ ~Has(s, "prefixItems")
  BY <1>1 DEF Has
<1>3. ~(Len(s.type) > 1) /\ s.type[1] = x
  <2>1. Len(<<x>>) = 1 /\ <<x>>[1] = x /\ ~(1 > 1)
    OBVIOUS
  <2> QED
    BY <1>1, <2>1, Zenon
<1>4. ~IsOrUntyped(s, "array", "items") /\ ~IsOrUntyped(s, "object", "additionalProperties")
  BY <1>1, <1>2, SingleEqual, Zenon DEF IsOrUntyped
<1>5. CanonicalType(s, of) = Primitive(s.type[1])
  BY <1>2, <1>3, <1>4, Zenon DEF CanonicalType
<1> QED
  BY <1>3, <1>5, Zenon DEF s

\* A leaf is translated to the type it was exported for.
LEMMA LeafValues ==
  ASSUME NEW leaf \in Leaves
  PROVE  /\ LeafIr(leaf) \in TypeStrings /\ ~HasComma(LeafIr(leaf))
         /\ LeafType(leaf) \in TypeStrings /\ LeafType(leaf) # <<>>
         /\ ToPython[LeafIr(leaf)] = LeafType(leaf) /\ RefsIn[LeafIr(leaf)] = LeafUses(leaf)
<1>1. CASE leaf \in RefNames
  <2>1. LeafIr(leaf) = <<leaf>>
    BY <1>1, CanonicalName, Zenon DEF LeafIr, LeafSchema
  <2>2. LeafType(leaf) = <<leaf>> /\ <<leaf>> # <<>>
    BY <1>1 DEF LeafType
  <2>3. LeafUses(leaf) = {leaf}
    BY <1>1 DEF LeafUses
  <2> QED
    BY <1>1, <2>1, <2>2, <2>3, NameValues, Zenon
<1>2. CASE leaf \notin RefNames
  <2>1. leaf \in {"string", "integer", "number", "boolean"}
    BY <1>2 DEF Leaves, PrimitiveType
  <2>2. LeafUses(leaf) = {}
    BY <1>2 DEF LeafUses
  <2>3. LeafIr(leaf) = Primitive(leaf)
    <3>1. leaf \notin {"array", "object"}
      BY <2>1
    <3> QED
      BY <1>2, <3>1, CanonicalPrimitive, Zenon DEF LeafIr, LeafSchema
  <2>4. LeafType(leaf) = <<PrimitiveType[leaf]>>
    BY <1>2 DEF LeafType
  <2>5. PICK a \in {"string", "integer", "float", "boolean"} :
          Primitive(leaf) = <<a>> /\ PrimitiveType[leaf] = PythonPrimitive[a]
    <3>1. PrimitiveType["string"] = PythonPrimitive["string"]
          /\ PrimitiveType["integer"] = PythonPrimitive["integer"]
          /\ PrimitiveType["number"] = PythonPrimitive["float"]
          /\ PrimitiveType["boolean"] = PythonPrimitive["boolean"]
      BY DEF PrimitiveType, PythonPrimitive
    <3> QED
      BY <2>1, <3>1, Zenon DEF Primitive
  <2>6. <<PythonPrimitive[a]>> \in TypeStrings /\ <<PythonPrimitive[a]>> # <<>>
    <3>1. a \in DOMAIN PythonPrimitive
      BY DEF PythonPrimitive
    <3> QED
      BY <3>1, PrimitivesAreTokens, KnownTokens, OneToken
  <2> QED
    BY <2>2, <2>3, <2>4, <2>5, <2>6, PrimitiveValues, Zenon
<1> QED
  BY <1>1, <1>2
---------------------------------------------------------------------------
(* canonical_type of a schema that wraps another. *)

\* canonical_type of a list.
LEMMA CanonicalArray ==
  ASSUME NEW s, NEW of
  PROVE  CanonicalType([type |-> <<"array">>, items |-> s], of) = Array(of[s])
<1> DEFINE w == [type |-> <<"array">>, items |-> s]
<1>1. DOMAIN w = {"type", "items"} /\ w.type = <<"array">> /\ w.items = s
  OBVIOUS
<1> HIDE DEF w
<1>2. ~Has(w, "ref") /\ ~Has(w, "anyOf") /\ Has(w, "type") /\ Has(w, "items")
  BY <1>1 DEF Has
<1>3. ~(Len(w.type) > 1)
  <2>1. \A x : Len(<<x>>) = 1 /\ ~(1 > 1)
    OBVIOUS
  <2> QED
    BY <1>1, <2>1, Zenon
<1>4. IsOrUntyped(w, "array", "items")
  BY <1>1, <1>2, Zenon DEF IsOrUntyped
<1> QED
  BY <1>1, <1>2, <1>3, <1>4, Zenon DEF CanonicalType, w

\* canonical_type of a map.
LEMMA CanonicalMap ==
  ASSUME NEW s, NEW of
  PROVE  CanonicalType([type |-> <<"object">>, additionalProperties |-> s], of) = Map(of[s])
<1> DEFINE w == [type |-> <<"object">>, additionalProperties |-> s]
<1>1. DOMAIN w = {"type", "additionalProperties"} /\ w.type = <<"object">>
      /\ w.additionalProperties = s
  OBVIOUS
<1> HIDE DEF w
<1>2. ~Has(w, "ref") /\ ~Has(w, "anyOf") /\ Has(w, "type") /\ ~Has(w, "prefixItems")
      /\ Has(w, "additionalProperties")
  BY <1>1 DEF Has
<1>3. ~(Len(w.type) > 1)
  <2>1. \A x : Len(<<x>>) = 1 /\ ~(1 > 1)
    OBVIOUS
  <2> QED
    BY <1>1, <2>1, Zenon
<1>4. ~IsOrUntyped(w, "array", "items") /\ IsOrUntyped(w, "object", "additionalProperties")
  <2>1. "object" # "array"
    OBVIOUS
  <2> QED
    BY <1>1, <1>2, <2>1, SingleEqual, Zenon DEF IsOrUntyped
<1> QED
  BY <1>1, <1>2, <1>3, <1>4, Zenon DEF CanonicalType, w

\* canonical_type of a tuple.
LEMMA CanonicalTuple ==
  ASSUME NEW each, each # <<>>, NEW of
  PROVE  CanonicalType([type |-> <<"array">>, prefixItems |-> each], of)
           = Wrapped("tuple<", Joined[[i \in DOMAIN each |-> of[each[i]]]], ">")
<1> DEFINE w == [type |-> <<"array">>, prefixItems |-> each]
<1>1. DOMAIN w = {"type", "prefixItems"} /\ w.type = <<"array">> /\ w.prefixItems = each
  OBVIOUS
<1> HIDE DEF w
<1>2. ~Has(w, "ref") /\ ~Has(w, "anyOf") /\ Has(w, "type") /\ ~Has(w, "items") /\ Has(w, "prefixItems")
  BY <1>1 DEF Has
<1>3. ~(Len(w.type) > 1)
  <2>1. \A x : Len(<<x>>) = 1 /\ ~(1 > 1)
    OBVIOUS
  <2> QED
    BY <1>1, <2>1, Zenon
<1>4. IsOrUntyped(w, "array", "items")
  BY <1>1, <1>2, Zenon DEF IsOrUntyped
<1>5. CanonicalType(w, of) = PrefixItems(w, of)
  BY <1>2, <1>3, <1>4, Zenon DEF CanonicalType
<1>6. PrefixItems(w, of) = Wrapped("tuple<", Joined[[i \in DOMAIN each |-> of[each[i]]]], ">")
  BY <1>1, Zenon DEF PrefixItems
<1> QED
  BY <1>5, <1>6 DEF w

\* The minimum of a set of one.
LEMMA MinOfOne ==
  Min({1}) = 1
<1>1. \E n \in {1} : \A k \in {1} : n <= k
  OBVIOUS
<1>2. Min({1}) \in {1}
  BY <1>1, Zenon DEF Min
<1> QED
  BY <1>2

\* Of two alternatives with one null, the other is the first that is not.
LEMMA OneOfTwo ==
  ASSUME NEW both, DOMAIN both = {1, 2}, NEW P, P \subseteq {1, 2}, 1 \in P, 2 \notin P, NEW first
  PROVE  Nullable(DOMAIN both, P, first) = Option(first) /\ Min(P) = 1
<1>1. P = {1} /\ P # {} /\ P # DOMAIN both
  OBVIOUS
<1> QED
  BY <1>1, MinOfOne, Zenon DEF Nullable

\* A pair, element by element.
LEMMA PairProperties ==
  \A a, b : DOMAIN <<a, b>> = {1, 2} /\ <<a, b>>[1] = a /\ <<a, b>>[2] = b /\ Len(<<a, b>>) > 1
OBVIOUS

\* Appending to a sequence of one makes a pair.
LEMMA AppendToOne ==
  \A a, b : Append(<<a>>, b) = <<a, b>>
<1> SUFFICES ASSUME NEW a, NEW b PROVE Append(<<a>>, b) = <<a, b>>
  OBVIOUS
<1> DEFINE S == {a, b}
<1>1. <<a>> \in Seq(S) /\ <<b>> \in Seq(S) /\ a \in S /\ b \in S
  OBVIOUS
<1> HIDE DEF S
<1>2. Append(<<a>>, b) = <<a>> \o <<b>>
  BY <1>1, AppendIsConcat
<1> QED
  BY <1>1, <1>2, Pair

\* A schema beside null in an anyOf is an option of it.
LEMMA CanonicalAnyOf ==
  ASSUME NEW s, NEW none, ~Has(s, "type"), Has(none, "type"), none.type = <<"null">>, NEW of
  PROVE  CanonicalType([anyOf |-> <<s, none>>], of) = Option(of[s])
<1> DEFINE both == <<s, none>>
           w == [anyOf |-> both]
           nonNull == {i \in DOMAIN both : NotNull(both[i])}
<1>1. DOMAIN both = {1, 2} /\ both[1] = s /\ both[2] = none
  BY PairProperties
<1> HIDE DEF both
<1>2. DOMAIN w = {"anyOf"} /\ w.anyOf = both
  OBVIOUS
<1> HIDE DEF w
<1>3. ~Has(w, "ref") /\ Has(w, "anyOf")
  BY <1>2 DEF Has
<1>4. NotNull(s) /\ ~NotNull(none)
  BY Zenon DEF NotNull
<1>5. nonNull \subseteq {1, 2} /\ 1 \in nonNull /\ 2 \notin nonNull
  BY <1>1, <1>4
<1>6. AnyOf(w, of) = Nullable(DOMAIN both, nonNull, of[both[Min(nonNull)]])
  BY <1>2, Zenon DEF AnyOf
<1> HIDE DEF nonNull
<1>7. Min(nonNull) = 1 /\ \A first : Nullable(DOMAIN both, nonNull, first) = Option(first)
  BY <1>1, <1>5, OneOfTwo
<1>8. AnyOf(w, of) = Option(of[s])
  BY <1>1, <1>6, <1>7, Zenon
<1> QED
  BY <1>3, <1>8, Zenon DEF CanonicalType, w, both

\* A type that null joins is an option of the schema it was.
LEMMA CanonicalTypeList ==
  ASSUME NEW s, s = [key \in DOMAIN s |-> s[key]], ~Has(s, "ref"), ~Has(s, "anyOf"), Has(s, "type"),
         NEW x, s.type = <<x>>, x # "null", NEW of
  PROVE  CanonicalType([s EXCEPT !.type = Append(@, "null")], of) = Option(of[s])
<1> DEFINE both == <<x, "null">>
           w == [s EXCEPT !.type = Append(@, "null")]
           nonNull == {i \in DOMAIN both : both[i] # "null"}
<1>1. DOMAIN both = {1, 2} /\ both[1] = x /\ both[2] = "null" /\ Len(both) > 1
  BY PairProperties
<1>2. Append(<<x>>, "null") = both
  BY AppendToOne, Zenon
<1> HIDE DEF both
<1>3. DOMAIN w = DOMAIN s /\ w.type = both /\ w = [s EXCEPT !.type = both]
  BY <1>2 DEF Has
<1>4. [w EXCEPT !.type = <<x>>] = s
  <2>1. [s EXCEPT !["type"] = s["type"]] = s
    OBVIOUS
  <2>2. \A a, b : [[s EXCEPT !["type"] = a] EXCEPT !["type"] = b] = [s EXCEPT !["type"] = b]
    OBVIOUS
  <2> HIDE DEF w
  <2> QED
    BY <1>3, <2>1, <2>2, Zenon
<1> HIDE DEF w
<1>5. ~Has(w, "ref") /\ ~Has(w, "anyOf") /\ Has(w, "type")
  BY <1>3 DEF Has
<1>6. nonNull \subseteq {1, 2} /\ 1 \in nonNull /\ 2 \notin nonNull
  BY <1>1
<1>7. TypeList(w, of) = Nullable(DOMAIN both, nonNull, of[[w EXCEPT !.type = <<both[Min(nonNull)]>>]])
  BY <1>3, Zenon DEF TypeList
<1> HIDE DEF nonNull
<1>8. Min(nonNull) = 1 /\ \A first : Nullable(DOMAIN both, nonNull, first) = Option(first)
  BY <1>1, <1>6, OneOfTwo
<1>9. TypeList(w, of) = Option(of[s])
  BY <1>1, <1>4, <1>7, <1>8, Zenon
<1>10. CanonicalType(w, of) = TypeList(w, of)
  BY <1>1, <1>3, <1>5, Zenon DEF CanonicalType
<1> QED
  BY <1>9, <1>10, Zenon DEF w
---------------------------------------------------------------------------
(* The inductive invariant. *)

\* An option can be made of a schema that is not one: it is a $ref, or its type is
\* a single word.
Canonical ==
  /\ schema = [key \in DOMAIN schema |-> schema[key]]
  /\ \/ IsNullable
     \/ DOMAIN schema = {"ref"}
     \/ /\ ~Has(schema, "ref") /\ ~Has(schema, "anyOf") /\ Has(schema, "type")
        /\ \E x : schema.type = <<x>> /\ x # "null"

\* A schema that equals one of a leaf has the type string of the leaf, so what
\* stands beside it in a tuple is translated as by itself.
LeafIsTranslated == \A leaf \in Leaves : schema = LeafSchema(leaf) => ir = LeafIr(leaf)
\* Only tuples and maps put commas into a type string.
CommasAreShown == HasComma(ir) => HoldsTupleOrMap

TypesInv ==
  /\ ir \in TypeStrings /\ type \in TypeStrings /\ type # <<>> /\ nested \in BOOLEAN
  /\ Canonical /\ LeafIsTranslated /\ CommasAreShown
  /\ FlatTypesSurvive /\ ImportsMatchUses

\* The tokens of a wrapped sequence are those at its ends and those inside.
LEMMA TokensOfWrapped ==
  ASSUME NEW a \in Tokens, NEW b \in Tokens, NEW t \in TypeStrings, NEW P
  PROVE  (\E i \in 1 .. Len(Wrapped(a, t, b)) : Wrapped(a, t, b)[i] \in P)
           <=> (a \in P \/ b \in P \/ \E i \in 1 .. Len(t) : t[i] \in P)
<1> DEFINE w == Wrapped(a, t, b)
<1>1. /\ Len(w) = Len(t) + 2 /\ Last(w) = b /\ w[1] = a
      /\ \A i \in 1 .. Len(t) : w[i + 1] = t[i]
  BY WrappedProperties
<1>2. Len(t) \in Nat
  BY LenProperties DEF TypeStrings
<1>3. w[Len(t) + 2] = b
  BY <1>1 DEF Last
<1> HIDE DEF w
<1>4. ASSUME NEW i \in 1 .. Len(w), w[i] \in P
      PROVE  a \in P \/ b \in P \/ \E j \in 1 .. Len(t) : t[j] \in P
  <2> DEFINE j == i - 1
  <2>1. i = 1 \/ i = Len(t) + 2 \/ (j \in 1 .. Len(t) /\ i = j + 1)
    BY <1>1, <1>2
  <2> HIDE DEF j
  <2> QED
    BY <1>1, <1>3, <1>4, <2>1
<1>5. ASSUME a \in P \/ b \in P \/ \E j \in 1 .. Len(t) : t[j] \in P
      PROVE  \E i \in 1 .. Len(w) : w[i] \in P
  <2>1. 1 \in 1 .. Len(w) /\ Len(t) + 2 \in 1 .. Len(w) /\ \A j \in 1 .. Len(t) : j + 1 \in 1 .. Len(w)
    BY <1>1, <1>2
  <2> QED
    BY <1>1, <1>3, <1>5, <2>1
<1> QED
  BY <1>4, <1>5 DEF w

\* A comma in a wrapped type string is one inside.
LEMMA CommaOfWrapped ==
  ASSUME NEW a \in Tokens, a # ",", NEW t \in TypeStrings, HasComma(Wrapped(a, t, ">"))
  PROVE  HasComma(t)
<1> DEFINE w == Wrapped(a, t, ">")
           P == {","}
<1>1. ">" \in Tokens /\ ">" \notin P /\ a \notin P
  BY KnownTokens
<1>2. \A s : HasComma(s) <=> \E i \in 1 .. Len(s) : s[i] \in P
  BY Zenon DEF HasComma, Contains
<1> HIDE DEF P
<1>3. \A b \in Tokens : (\E i \in 1 .. Len(Wrapped(a, t, b)) : Wrapped(a, t, b)[i] \in P)
        <=> (a \in P \/ b \in P \/ \E i \in 1 .. Len(t) : t[i] \in P)
  BY TokensOfWrapped
<1> QED
  BY <1>1, <1>2, <1>3, Zenon

\* The schema of a leaf has one key.
LEMMA LeafShape ==
  ASSUME NEW leaf \in Leaves
  PROVE  /\ LeafSchema(leaf) = [key \in DOMAIN LeafSchema(leaf) |-> LeafSchema(leaf)[key]]
         /\ \/ DOMAIN LeafSchema(leaf) = {"ref"}
            \/ DOMAIN LeafSchema(leaf) = {"type"} /\ LeafSchema(leaf).type = <<leaf>> /\ leaf # "null"
<1>1. CASE leaf \in RefNames
  BY <1>1 DEF LeafSchema
<1>2. CASE leaf \notin RefNames
  <2>1. leaf # "null"
    BY <1>2 DEF Leaves, PrimitiveType
  <2>2. LeafSchema(leaf) = [type |-> <<leaf>>]
    BY <1>2 DEF LeafSchema
  <2>3. \A x : /\ DOMAIN [type |-> x] = {"type"} /\ [type |-> x].type = x
               /\ [type |-> x] = [key \in DOMAIN [type |-> x] |-> [type |-> x][key]]
    OBVIOUS
  <2> QED
    BY <2>1, <2>2, <2>3, Zenon
<1> QED
  BY <1>1, <1>2

\* Leaves with one schema have one type string.
LEMMA LeafOfSchema ==
  \A leaf, other \in Leaves : LeafSchema(leaf) = LeafSchema(other) => LeafIr(leaf) = LeafIr(other)
BY Zenon DEF LeafIr

\* An initial state satisfies the invariant.
LEMMA TypesInvInit ==
  TypesInit => TypesInv
<1> SUFFICES ASSUME TypesInit PROVE TypesInv
  OBVIOUS
<1>1. PICK leaf \in Leaves :
        schema = LeafSchema(leaf) /\ type = LeafType(leaf) /\ uses = LeafUses(leaf) /\ ir = LeafIr(leaf)
  BY Zenon DEF TypesInit
<1>2. /\ ir \in TypeStrings /\ ~HasComma(ir) /\ type \in TypeStrings /\ type # <<>>
      /\ ToPython[ir] = type /\ RefsIn[ir] = uses
  BY <1>1, LeafValues, Zenon
<1>3. nested \in BOOLEAN
  BY DEF TypesInit
<1>4. Canonical
  <2>1. /\ schema = [key \in DOMAIN schema |-> schema[key]]
        /\ \/ DOMAIN schema = {"ref"}
           \/ DOMAIN schema = {"type"} /\ schema.type = <<leaf>> /\ leaf # "null"
    BY <1>1, LeafShape, Zenon
  <2>2. DOMAIN schema = {"type"} => ~Has(schema, "ref") /\ ~Has(schema, "anyOf") /\ Has(schema, "type")
    BY DEF Has
  <2> QED
    BY <2>1, <2>2, Zenon DEF Canonical
<1>5. LeafIsTranslated
  BY <1>1, LeafOfSchema, Zenon DEF LeafIsTranslated
<1> QED
  BY <1>2, <1>3, <1>4, <1>5, Zenon
     DEF TypesInv, CommasAreShown, FlatTypesSurvive, ImportsMatchUses

\* What a step wraps was translated before.
LEMMA Translations ==
  ASSUME TypesInv
  PROVE  /\ Translated[schema] = ir
         /\ \A leaf \in Beside : leaf \in Leaves /\ Translated[LeafSchema(leaf)] = LeafIr(leaf)
<1>1. Beside \subseteq Leaves
  BY GrowthAssumption
<1>2. schema \in {schema} \cup {LeafSchema(leaf) : leaf \in Beside}
      /\ \A leaf \in Beside : LeafSchema(leaf) \in {schema} \cup {LeafSchema(other) : other \in Beside}
  OBVIOUS
<1>3. Translated[schema] = ir
  BY <1>2, Zenon DEF Translated
<1>4. ASSUME NEW leaf \in Beside PROVE Translated[LeafSchema(leaf)] = LeafIr(leaf)
  <2>1. CASE LeafSchema(leaf) = schema
    BY <1>1, <1>3, <2>1, Zenon DEF TypesInv, LeafIsTranslated
  <2>2. CASE LeafSchema(leaf) # schema
    BY <1>2, <2>2, Zenon DEF Translated, LeafIr
  <2> QED
    BY <2>1, <2>2
<1> QED
  BY <1>1, <1>3, <1>4

\* A list, a map or a tuple still shows the tuples and maps of what it wraps.
LEMMA TokensStay ==
  ASSUME NEW a \in Annotations, type \in TypeStrings, type' = Wrapped(a, type, "]")
  PROVE  /\ type' \in TypeStrings /\ type' # <<>>
         /\ HoldsTupleOrMap \/ a \in {"tuple[", "dict[str,"} => HoldsTupleOrMap'
<1> DEFINE P == {"tuple[", "dict[str,"}
<1>1. a \in Tokens /\ "]" \in Tokens
  BY KnownTokens
<1>2. Wrapped(a, type, "]") \in TypeStrings /\ Wrapped(a, type, "]") # <<>>
  BY <1>1, WrappedProperties
<1>3. \A t \in TypeStrings : DOMAIN t = 1 .. Len(t)
  BY LenProperties DEF TypeStrings
<1> HIDE DEF P
<1>4. (\E i \in 1 .. Len(type) : type[i] \in P) \/ a \in P
        => \E i \in 1 .. Len(Wrapped(a, type, "]")) : Wrapped(a, type, "]")[i] \in P
  <2>1. \A b \in Tokens : (\E i \in 1 .. Len(Wrapped(a, type, b)) : Wrapped(a, type, b)[i] \in P)
          <=> (a \in P \/ b \in P \/ \E i \in 1 .. Len(type) : type[i] \in P)
    BY <1>1, TokensOfWrapped
  <2> QED
    BY <1>1, <2>1, Zenon
<1>5. HoldsTupleOrMap <=> \E i \in 1 .. Len(type) : type[i] \in P
  BY <1>3, Zenon DEF HoldsTupleOrMap, P
<1>6. HoldsTupleOrMap' <=> \E i \in 1 .. Len(type') : type'[i] \in P
  BY <1>2, <1>3, Zenon DEF HoldsTupleOrMap, P
<1> QED
  BY <1>2, <1>4, <1>5, <1>6, Zenon DEF P

\* A schema with items, prefixItems or additionalProperties is not a leaf, and
\* an option can be made of it.
LEMMA WrappingSchema ==
  ASSUME NEW kind, kind \in {"array", "object"}, NEW key, key \in {"items", "prefixItems", "additionalProperties"},
         DOMAIN schema' = {"type", key}, schema' = [k \in DOMAIN schema' |-> schema'[k]],
         schema'["type"] = <<kind>>
  PROVE  Canonical' /\ LeafIsTranslated'
<1>1. Canonical'
  <2>1. ~Has(schema', "ref") /\ ~Has(schema', "anyOf") /\ Has(schema', "type") /\ kind # "null"
    BY DEF Has
  <2> QED
    BY <2>1, Zenon DEF Canonical
<1>2. \A leaf \in Leaves : schema' # LeafSchema(leaf)
  <2> SUFFICES ASSUME NEW leaf \in Leaves, schema' = LeafSchema(leaf) PROVE FALSE
    OBVIOUS
  <2>1. DOMAIN schema' = {"ref"} \/ DOMAIN schema' = {"type"}
    BY LeafShape, Zenon
  <2> QED
    BY <2>1
<1> QED
  BY <1>1, <1>2, Zenon DEF LeafIsTranslated, Leaves, LeafSchema

\* A list preserves the invariant.
LEMMA TypesInvArray ==
  ASSUME TypesInv, WrapArray PROVE TypesInv'
<1>1. ir \in TypeStrings /\ type \in TypeStrings /\ nested \in BOOLEAN
  BY Zenon DEF TypesInv
<1>2. ir' = Array(ir) /\ type' = Wrapped("list[", type, "]") /\ uses' = uses /\ nested' = nested
  BY CanonicalArray, Translations, Zenon DEF WrapArray, Grows
<1>3. /\ Array(ir) \in TypeStrings /\ ToPython[Array(ir)] = Wrapped("list[", ToPython[ir], "]")
      /\ RefsIn[Array(ir)] = RefsIn[ir]
  BY <1>1, WrapsInArray
<1>4. "list[" \in Annotations /\ "array<" \in Tokens /\ "array<" # ","
  BY KnownTokens
<1>5. type' \in TypeStrings /\ type' # <<>> /\ (HoldsTupleOrMap => HoldsTupleOrMap')
  BY <1>1, <1>2, <1>4, TokensStay, Zenon
<1>6. CommasAreShown'
  <2>1. HasComma(Array(ir)) => HasComma(ir)
    BY <1>1, <1>4, CommaOfWrapped, Zenon DEF Array
  <2> QED
    BY <1>2, <1>5, <2>1, Zenon DEF CommasAreShown, TypesInv
<1>7. Canonical' /\ LeafIsTranslated'
  <2>1. \A a, s : LET w == [type |-> <<a>>, items |-> s]
                  IN DOMAIN w = {"type", "items"} /\ w = [k \in DOMAIN w |-> w[k]] /\ w["type"] = <<a>>
    OBVIOUS
  <2>2. schema' = [type |-> <<"array">>, items |-> schema]
    BY DEF WrapArray
  <2>3. DOMAIN schema' = {"type", "items"} /\ schema' = [k \in DOMAIN schema' |-> schema'[k]]
        /\ schema'["type"] = <<"array">>
    BY <2>1, <2>2, Zenon
  <2>4. "array" \in {"array", "object"} /\ "items" \in {"items", "prefixItems", "additionalProperties"}
    OBVIOUS
  <2> QED
    BY <2>3, <2>4, WrappingSchema, Zenon
<1>8. FlatTypesSurvive' /\ ImportsMatchUses'
  BY <1>2, <1>3, Zenon DEF TypesInv, FlatTypesSurvive, ImportsMatchUses
<1> QED
  BY <1>1, <1>2, <1>3, <1>5, <1>6, <1>7, <1>8, Zenon DEF TypesInv

\* A map preserves the invariant.
LEMMA TypesInvMap ==
  ASSUME TypesInv, WrapMap PROVE TypesInv'
<1>1. ir \in TypeStrings /\ type \in TypeStrings /\ nested \in BOOLEAN
  BY Zenon DEF TypesInv
<1>2. ir' = Map(ir) /\ type' = Wrapped("dict[str,", type, "]") /\ uses' = uses /\ nested' = nested
  BY CanonicalMap, Translations, Zenon DEF WrapMap, Grows
<1>3. /\ Map(ir) \in TypeStrings /\ ToPython[Map(ir)] = Wrapped("dict[str,", ToPython[ir], "]")
      /\ RefsIn[Map(ir)] = RefsIn[ir]
  BY <1>1, WrapsInMap
<1>4. "dict[str," \in Annotations /\ "dict[str," \in {"tuple[", "dict[str,"}
  BY KnownTokens
<1>5. type' \in TypeStrings /\ type' # <<>> /\ HoldsTupleOrMap'
  BY <1>1, <1>2, <1>4, TokensStay, Zenon
<1>6. Canonical' /\ LeafIsTranslated'
  <2>1. \A a, s : LET w == [type |-> <<a>>, additionalProperties |-> s]
                  IN DOMAIN w = {"type", "additionalProperties"}
                     /\ w = [k \in DOMAIN w |-> w[k]] /\ w["type"] = <<a>>
    OBVIOUS
  <2>2. schema' = [type |-> <<"object">>, additionalProperties |-> schema]
    BY DEF WrapMap
  <2>3. DOMAIN schema' = {"type", "additionalProperties"}
        /\ schema' = [k \in DOMAIN schema' |-> schema'[k]] /\ schema'["type"] = <<"object">>
    BY <2>1, <2>2, Zenon
  <2>4. "object" \in {"array", "object"}
        /\ "additionalProperties" \in {"items", "prefixItems", "additionalProperties"}
    OBVIOUS
  <2> QED
    BY <2>3, <2>4, WrappingSchema, Zenon
<1>7. FlatTypesSurvive' /\ ImportsMatchUses'
  BY <1>2, <1>3, Zenon DEF TypesInv, FlatTypesSurvive, ImportsMatchUses
<1> QED
  BY <1>1, <1>2, <1>3, <1>5, <1>6, <1>7, Zenon DEF TypesInv, CommasAreShown

\* An option preserves the invariant.
LEMMA TypesInvOption ==
  ASSUME TypesInv, WrapOption PROVE TypesInv'
<1>1. ir \in TypeStrings /\ type \in TypeStrings /\ type # <<>> /\ nested \in BOOLEAN
  BY Zenon DEF TypesInv
<1> DEFINE null == [type |-> <<"null">>]
<1>2. /\ ~IsNullable /\ uses' = uses /\ nested' = nested /\ type' = type \o <<"|None">>
      /\ schema' = (IF Has(schema, "type") THEN [schema EXCEPT !.type = Append(@, "null")]
                    ELSE [anyOf |-> <<schema, null>>])
      /\ ir' = CanonicalType(schema', Translated)
  BY Zenon DEF WrapOption, Grows
<1>3. Translated[schema] = ir
  BY Translations
<1>4. Has(null, "type") /\ null.type = <<"null">>
  BY DEF Has
<1> HIDE DEF null
<1>5. /\ ir' = Option(ir) /\ schema' = [k \in DOMAIN schema' |-> schema'[k]]
      /\ \A leaf \in Leaves : schema' # LeafSchema(leaf)
  <2>1. CASE Has(schema, "type")
    <3>1. /\ schema = [k \in DOMAIN schema |-> schema[k]]
          /\ ~Has(schema, "ref") /\ ~Has(schema, "anyOf") /\ Has(schema, "type")
          /\ \E x : schema.type = <<x>> /\ x # "null"
      <4>1. DOMAIN schema = {"ref"} => ~Has(schema, "type")
        BY DEF Has
      <4> QED
        BY <1>2, <2>1, <4>1, Zenon DEF TypesInv, Canonical
    <3>2. PICK x : schema.type = <<x>> /\ x # "null"
      BY <3>1
    <3>3. schema' = [schema EXCEPT !.type = Append(@, "null")]
      BY <1>2, <2>1, Zenon
    <3>4. CanonicalType([schema EXCEPT !.type = Append(@, "null")], Translated) = Option(Translated[schema])
      BY <3>1, <3>2, CanonicalTypeList
    <3>5. Append(schema.type, "null") = <<x, "null">>
      BY <3>2, AppendToOne, Zenon
    <3>6. schema' = [schema EXCEPT !["type"] = <<x, "null">>]
      BY <3>3, <3>5, Zenon
    <3>7. \A v : LET w == [schema EXCEPT !["type"] = v]
                 IN w = [k \in DOMAIN w |-> w[k]] /\ DOMAIN w = DOMAIN schema /\ w["type"] = v
      BY <3>1 DEF Has
    <3>8. schema' = [k \in DOMAIN schema' |-> schema'[k]] /\ DOMAIN schema' = DOMAIN schema
          /\ schema'["type"] = <<x, "null">>
      BY <3>6, <3>7, Zenon
    <3>9. \A leaf \in Leaves : schema' # LeafSchema(leaf)
      <4> SUFFICES ASSUME NEW leaf \in Leaves, schema' = LeafSchema(leaf) PROVE FALSE
        OBVIOUS
      <4>1. schema'["type"] = <<leaf>> \/ DOMAIN schema' = {"ref"}
        BY LeafShape, Zenon
      <4>2. DOMAIN schema # {"ref"}
        BY <3>1 DEF Has
      <4>3. \A a, b, c : <<a, b>> # <<c>>
        OBVIOUS
      <4> QED
        BY <3>8, <4>1, <4>2, <4>3, Zenon
    <3> QED
      BY <1>2, <1>3, <3>3, <3>4, <3>8, <3>9, Zenon
  <2>2. CASE ~Has(schema, "type")
    <3>1. CanonicalType([anyOf |-> <<schema, null>>], Translated) = Option(Translated[schema])
      BY <1>4, <2>2, CanonicalAnyOf
    <3>2. schema' = [anyOf |-> <<schema, null>>]
      BY <1>2, <2>2, Zenon
    <3>3. \A v : DOMAIN [anyOf |-> v] = {"anyOf"}
                 /\ [anyOf |-> v] = [k \in DOMAIN [anyOf |-> v] |-> [anyOf |-> v][k]]
      OBVIOUS
    <3>4. DOMAIN schema' = {"anyOf"} /\ schema' = [k \in DOMAIN schema' |-> schema'[k]]
      BY <3>2, <3>3, Zenon
    <3>5. \A leaf \in Leaves : schema' # LeafSchema(leaf)
      <4> SUFFICES ASSUME NEW leaf \in Leaves, schema' = LeafSchema(leaf) PROVE FALSE
        OBVIOUS
      <4>1. DOMAIN schema' = {"ref"} \/ DOMAIN schema' = {"type"}
        BY LeafShape, Zenon
      <4> QED
        BY <3>4, <4>1
    <3> QED
      BY <1>2, <1>3, <3>1, <3>2, <3>4, <3>5, Zenon
  <2> QED
    BY <2>1, <2>2
<1>6. "|None" \in Tokens /\ "option<" \in Tokens /\ "option<" # ","
  BY KnownTokens
<1>7. /\ type' \in TypeStrings /\ type' # <<>> /\ Last(type') = "|None"
      /\ Len(type') = Len(type) + 1 /\ \A i \in 1 .. Len(type) : type'[i] = type[i]
  <2>1. \A a \in Tokens :
          /\ type \o <<a>> \in TypeStrings /\ type \o <<a>> # <<>> /\ Last(type \o <<a>>) = a
          /\ Len(type \o <<a>>) = Len(type) + 1 /\ \A i \in 1 .. Len(type) : (type \o <<a>>)[i] = type[i]
    BY <1>1, Suffixed DEF TypeStrings
  <2> QED
    BY <1>2, <1>6, <2>1, Zenon
<1>8. HoldsTupleOrMap => HoldsTupleOrMap'
  <2>1. DOMAIN type = 1 .. Len(type) /\ Len(type) \in Nat
    BY <1>1, LenProperties DEF TypeStrings
  <2>2. DOMAIN type' = 1 .. Len(type')
    BY <1>7, LenProperties DEF TypeStrings
  <2>3. \A i \in DOMAIN type : i \in DOMAIN type' /\ type'[i] = type[i]
    BY <1>7, <2>1, <2>2
  <2> QED
    BY <2>3, Zenon DEF HoldsTupleOrMap
<1>9. /\ Option(ir) \in TypeStrings /\ ToPython[Option(ir)] = ToPython[ir] \o <<"|None">>
      /\ RefsIn[Option(ir)] = RefsIn[ir]
  BY <1>1, WrapsInOption
<1>10. CommasAreShown'
  <2>1. HasComma(Option(ir)) => HasComma(ir)
    BY <1>1, <1>6, CommaOfWrapped, Zenon DEF Option
  <2> QED
    BY <1>5, <1>8, <2>1, Zenon DEF CommasAreShown, TypesInv
<1>11. Canonical' /\ LeafIsTranslated'
  BY <1>5, <1>7, Zenon DEF Canonical, IsNullable, LeafIsTranslated, Leaves, LeafSchema
<1>12. FlatTypesSurvive' /\ ImportsMatchUses'
  BY <1>2, <1>5, <1>9, Zenon DEF TypesInv, FlatTypesSurvive, ImportsMatchUses
<1> QED
  BY <1>1, <1>2, <1>5, <1>7, <1>9, <1>10, <1>11, <1>12, Zenon DEF TypesInv

\* A tuple preserves the invariant: without a comma in an element, splitting finds
\* the elements that were joined.
LEMMA TypesInvTuple ==
  ASSUME TypesInv, WrapTuple PROVE TypesInv'
<1>1. ir \in TypeStrings /\ type \in TypeStrings /\ nested \in BOOLEAN
  BY Zenon DEF TypesInv
<1>2. PICK leaves \in BoundedSeq(Beside, MaxTuple) : \E place \in DOMAIN leaves :
        /\ schema' = [type |-> <<"array">>,
                      prefixItems |-> [i \in DOMAIN leaves |->
                                         IF i = place THEN schema ELSE LeafSchema(leaves[i])]]
        /\ type' = Wrapped("tuple[", Joined[[i \in DOMAIN leaves |->
                                               IF i = place THEN type ELSE LeafType(leaves[i])]], "]")
        /\ uses' = uses \cup UNION {LeafUses(leaves[i]) : i \in DOMAIN leaves \ {place}}
  BY Zenon DEF WrapTuple
<1>3. PICK place \in DOMAIN leaves :
        /\ schema' = [type |-> <<"array">>,
                      prefixItems |-> [i \in DOMAIN leaves |->
                                         IF i = place THEN schema ELSE LeafSchema(leaves[i])]]
        /\ type' = Wrapped("tuple[", Joined[[i \in DOMAIN leaves |->
                                               IF i = place THEN type ELSE LeafType(leaves[i])]], "]")
        /\ uses' = uses \cup UNION {LeafUses(leaves[i]) : i \in DOMAIN leaves \ {place}}
  BY <1>2
<1>4. /\ ir' = CanonicalType(schema', Translated)
      /\ nested' = (nested \/ HoldsTupleOrMap)
  BY Zenon DEF WrapTuple, Grows
<1> DEFINE each == [i \in DOMAIN leaves |-> IF i = place THEN schema ELSE LeafSchema(leaves[i])]
           irs == [i \in DOMAIN leaves |-> IF i = place THEN ir ELSE LeafIr(leaves[i])]
           types == [i \in DOMAIN leaves |-> IF i = place THEN type ELSE LeafType(leaves[i])]
<1>5. PICK n \in Nat : DOMAIN leaves = 1 .. n /\ \A i \in 1 .. n : leaves[i] \in Beside
  <2>1. PICK m \in 0 .. MaxTuple : leaves \in [1 .. m -> Beside]
    BY Zenon DEF BoundedSeq, SeqOf
  <2>2. m \in Nat
    BY <2>1, GrowthAssumption
  <2> QED
    BY <2>1, <2>2
<1>6. \A i \in 1 .. n :
        /\ Translated[LeafSchema(leaves[i])] = LeafIr(leaves[i])
        /\ LeafIr(leaves[i]) \in TypeStrings /\ ~HasComma(LeafIr(leaves[i]))
        /\ LeafType(leaves[i]) \in TypeStrings
        /\ ToPython[LeafIr(leaves[i])] = LeafType(leaves[i])
        /\ RefsIn[LeafIr(leaves[i])] = LeafUses(leaves[i])
  BY <1>5, Translations, LeafValues, Zenon
<1>7. irs \in Seq(TypeStrings) /\ Len(irs) = n /\ irs # <<>> /\ DOMAIN irs = 1 .. n
  <2>1. \A i \in 1 .. n : (IF i = place THEN ir ELSE LeafIr(leaves[i])) \in TypeStrings
    BY <1>1, <1>6, Zenon
  <2>2. irs = [i \in 1 .. n |-> IF i = place THEN ir ELSE LeafIr(leaves[i])]
    BY <1>5
  <2>3. irs \in Seq(TypeStrings)
    BY <1>5, <2>1, <2>2, IsASeq
  <2>4. place \in DOMAIN irs
    BY <1>3
  <2>5. DOMAIN irs = 1 .. n
    BY <1>5
  <2> HIDE DEF irs
  <2>6. Len(irs) = n
    BY <2>3, <2>5, LenProperties
  <2>7. irs # <<>>
    BY <2>4
  <2> QED
    BY <2>3, <2>5, <2>6, <2>7
<1>8. types \in Seq(TypeStrings)
  <2>1. \A i \in 1 .. n : (IF i = place THEN type ELSE LeafType(leaves[i])) \in TypeStrings
    BY <1>1, <1>6, Zenon
  <2>2. types = [i \in 1 .. n |-> IF i = place THEN type ELSE LeafType(leaves[i])]
    BY <1>5
  <2> QED
    BY <1>5, <2>1, <2>2, IsASeq
<1>9. /\ schema' = [type |-> <<"array">>, prefixItems |-> each]
      /\ type' = Wrapped("tuple[", Joined[types], "]")
  BY <1>3
<1>10. ir' = Wrapped("tuple<", Joined[irs], ">")
  <2>1. [i \in DOMAIN each |-> Translated[each[i]]] = irs
    <3>1. Translated[schema] = ir
      BY Translations
    <3>2. DOMAIN each = 1 .. n /\ \A i \in 1 .. n : Translated[each[i]] = irs[i]
      BY <1>5, <1>6, <3>1
    <3>3. irs = [i \in 1 .. n |-> irs[i]]
      BY <1>5
    <3> HIDE DEF each, irs
    <3> QED
      BY <3>2, <3>3
  <2>2. each # <<>>
    <3>1. place \in DOMAIN each
      BY <1>3
    <3> HIDE DEF each
    <3> QED
      BY <3>1
  <2> HIDE DEF each, irs
  <2> QED
    BY <1>4, <1>9, <2>1, <2>2, CanonicalTuple, Zenon
<1> HIDE DEF each
<1>11. Joined[irs] \in TypeStrings /\ Joined[types] \in TypeStrings
  BY <1>7, <1>8, JoinedDefined
<1>12. ir' \in TypeStrings
  <2>1. "tuple<" \in Tokens /\ ">" \in Tokens
    BY KnownTokens
  <2> HIDE DEF irs
  <2> QED
    BY <1>10, <1>11, <2>1, WrappedProperties, Zenon
<1>13. type' \in TypeStrings /\ type' # <<>> /\ HoldsTupleOrMap'
  <2>1. "tuple[" \in Tokens /\ "]" \in Tokens
    BY KnownTokens
  <2>2. /\ type' \in TypeStrings /\ type' # <<>> /\ type'[1] = "tuple["
        /\ Len(type') = Len(Joined[types]) + 2
    <3> DEFINE joined == Joined[types]
    <3>1. joined \in TypeStrings /\ type' = Wrapped("tuple[", joined, "]")
      BY <1>9, <1>11, Zenon
    <3>2. \A a, b \in Tokens : \A t \in TypeStrings :
            /\ Wrapped(a, t, b) \in TypeStrings /\ Wrapped(a, t, b) # <<>>
            /\ Len(Wrapped(a, t, b)) = Len(t) + 2 /\ Wrapped(a, t, b)[1] = a
      BY WrappedProperties
    <3> HIDE DEF joined, types
    <3>3. /\ type' \in TypeStrings /\ type' # <<>> /\ type'[1] = "tuple["
          /\ Len(type') = Len(joined) + 2
      BY <2>1, <3>1, <3>2, Zenon
    <3> QED
      BY <3>3, Zenon DEF joined
  <2>3. 1 \in DOMAIN type'
    <3>1. type' \in Seq(Tokens)
      BY <2>2 DEF TypeStrings
    <3>2. Len(type') \in Nat \ {0} /\ DOMAIN type' = 1 .. Len(type')
      BY <2>2, <3>1, EmptySeq, LenProperties
    <3> QED
      BY ONLY <3>2
  <2> QED
    BY <2>2, <2>3 DEF HoldsTupleOrMap
<1>14. Canonical' /\ LeafIsTranslated'
  <2>1. \A a, s : LET w == [type |-> <<a>>, prefixItems |-> s]
                  IN DOMAIN w = {"type", "prefixItems"} /\ w = [k \in DOMAIN w |-> w[k]] /\ w["type"] = <<a>>
    OBVIOUS
  <2>2. DOMAIN schema' = {"type", "prefixItems"} /\ schema' = [k \in DOMAIN schema' |-> schema'[k]]
        /\ schema'["type"] = <<"array">>
    BY <1>9, <2>1, Zenon
  <2>3. "array" \in {"array", "object"} /\ "prefixItems" \in {"items", "prefixItems", "additionalProperties"}
    OBVIOUS
  <2> QED
    BY <2>2, <2>3, WrappingSchema, Zenon
<1>15. ASSUME ~nested' PROVE ToPython[ir'] = type' /\ RefsIn[ir'] = uses'
  <2>1. ~nested /\ ~HasComma(ir) /\ ToPython[ir] = type /\ RefsIn[ir] = uses
    BY <1>4, <1>15, Zenon DEF TypesInv, CommasAreShown, FlatTypesSurvive, ImportsMatchUses
  <2>2. \A i \in 1 .. n : ~HasComma(irs[i])
    BY <1>5, <1>6, <2>1
  <2>3. /\ ToPython[ir'] = Wrapped("tuple[", Joined[[i \in DOMAIN irs |-> ToPython[irs[i]]]], "]")
        /\ RefsIn[ir'] = UNION {RefsIn[irs[i]] : i \in DOMAIN irs}
    <3> HIDE DEF irs
    <3>1. \A parts \in Seq(TypeStrings) :
            parts # <<>> /\ (\A i \in 1 .. Len(parts) : ~HasComma(parts[i])) =>
              /\ ToPython[Wrapped("tuple<", Joined[parts], ">")] =
                   Wrapped("tuple[", Joined[[i \in DOMAIN parts |-> ToPython[parts[i]]]], "]")
              /\ RefsIn[Wrapped("tuple<", Joined[parts], ">")] =
                   UNION {RefsIn[parts[i]] : i \in DOMAIN parts}
      BY WrapsInTuple
    <3>2. \A i \in 1 .. Len(irs) : ~HasComma(irs[i])
      BY <1>7, <2>2, Zenon
    <3> QED
      BY <1>7, <1>10, <3>1, <3>2, Zenon
  <2>4. [i \in DOMAIN irs |-> ToPython[irs[i]]] = types
    <3>1. \A i \in 1 .. n : ToPython[irs[i]] = types[i]
      BY <1>5, <1>6, <2>1
    <3>2. types = [i \in 1 .. n |-> types[i]]
      BY <1>5
    <3> HIDE DEF irs, types
    <3> QED
      BY <1>7, <3>1, <3>2
  <2>5. UNION {RefsIn[irs[i]] : i \in DOMAIN irs} = uses'
    <3>1. \A i \in 1 .. n : RefsIn[irs[i]] = IF i = place THEN uses ELSE LeafUses(leaves[i])
      BY <1>5, <1>6, <2>1
    <3>2. uses' = uses \cup UNION {LeafUses(leaves[i]) : i \in 1 .. n \ {place}}
      BY <1>3, <1>5
    <3>3. place \in 1 .. n
      BY <1>3, <1>5
    <3> HIDE DEF irs
    <3> QED
      BY <1>7, <3>1, <3>2, <3>3
  <2> QED
    BY <1>9, <2>3, <2>4, <2>5, Zenon
<1> QED
  <2>1. nested' \in BOOLEAN
    BY <1>1, <1>4
  <2> QED
    BY <2>1, <1>12, <1>13, <1>14, <1>15, Zenon
       DEF TypesInv, CommasAreShown, FlatTypesSurvive, ImportsMatchUses

\* Every step preserves the invariant.
LEMMA TypesInvNext ==
  TypesInv /\ [TypesNext]_typeVars => TypesInv'
<1>1. ASSUME TypesInv, UNCHANGED typeVars PROVE TypesInv'
  BY <1>1, Zenon
     DEF typeVars, TypesInv, Canonical, IsNullable, LeafIsTranslated, CommasAreShown, HoldsTupleOrMap,
         FlatTypesSurvive, ImportsMatchUses, Leaves, LeafSchema, LeafIr
<1> QED
  BY <1>1, TypesInvOption, TypesInvArray, TypesInvMap, TypesInvTuple, Zenon DEF TypesNext

\* The inductive invariant holds in every reachable state.
LEMMA TypesInvAlways == TypesSpec => []TypesInv
BY TypesInvInit, TypesInvNext, PTL DEF TypesSpec

\* For any names and any depth: the annotation is the type the schema was exported
\* for, unless a comma stands inside a tuple.
THEOREM FlatTypesAreTranslated == TypesSpec => []FlatTypesSurvive
<1>1. TypesInv => FlatTypesSurvive
  BY Zenon DEF TypesInv
<1> QED
  BY <1>1, TypesInvAlways, PTL

\* For any names and any depth: the names found for the imports are the names the
\* type refers to, unless a comma stands inside a tuple.
THEOREM ImportsAreUsed == TypesSpec => []ImportsMatchUses
<1>1. TypesInv => ImportsMatchUses
  BY Zenon DEF TypesInv
<1> QED
  BY <1>1, TypesInvAlways, PTL
=============================================================================
