---------------------------- MODULE PyFloatProofs ----------------------------
(***************************************************************************)
(* Reference counts, storage and sharing in the Python extension, for any  *)
(* memory, names, blocks, precisions and length of the free list.          *)
(*                                                                         *)
(* The inductive invariant PyInv has three parts: what a statement has at  *)
(* each of its steps (CallOK), the reference counts, with results nobody   *)
(* else knows and operands that have names (Counted), and the storage of   *)
(* what is alive, the three temporaries included (Owned).                  *)
(***************************************************************************)
EXTENDS PyFloat, FiniteSetTheorems, SequenceTheorems, TLAPS

-----------------------------------------------------------------------------
(* How often a reference occurs in a sequence. *)

\* One if two references are the same.
Same(a, b) == IF a = b THEN 1 ELSE 0

\* The places of a reference.
Places(s, c) == {i \in DOMAIN s : s[i] = c}

LEMMA OccurrencesType ==
  ASSUME NEW S, NEW s \in Seq(S), NEW c
  PROVE  /\ IsFiniteSet(Places(s, c))
         /\ Occurrences(s, c) = Cardinality(Places(s, c))
         /\ Occurrences(s, c) \in Nat
<1>1. Len(s) \in Nat /\ DOMAIN s = 1..Len(s)
  OBVIOUS
<1>2. IsFiniteSet(1..Len(s))
  BY <1>1, FS_Interval
<1>3. Places(s, c) \in SUBSET (1..Len(s))
  BY <1>1 DEF Places
<1>4. IsFiniteSet(Places(s, c))
  BY <1>2, <1>3, FS_Subset
<1> QED
  BY <1>4, FS_CardinalityType DEF Occurrences, Places

LEMMA OccurrencesEmpty == \A c : Occurrences(<<>>, c) = 0
<1> SUFFICES ASSUME NEW c PROVE Occurrences(<<>>, c) = 0
  OBVIOUS
<1>1. Places(<<>>, c) = {}
  BY DEF Places
<1> QED
  BY <1>1, FS_EmptySet DEF Occurrences, Places

LEMMA OccurrencesOne == \A v, c : Occurrences(<<v>>, c) = Same(v, c)
<1> SUFFICES ASSUME NEW v, NEW c PROVE Occurrences(<<v>>, c) = Same(v, c)
  OBVIOUS
<1>1. Places(<<v>>, c) = IF v = c THEN {1} ELSE {}
  BY DEF Places
<1> QED
  BY <1>1, FS_EmptySet, FS_Singleton DEF Occurrences, Places, Same

\* The places in the second of two sequences move up by the length of the first.
LEMMA OccurrencesConcat ==
  ASSUME NEW S, NEW s \in Seq(S), NEW t \in Seq(S), NEW c
  PROVE  Occurrences(s \o t, c) = Occurrences(s, c) + Occurrences(t, c)
<1> DEFINE n == Len(s)
           P == Places(s, c)
           Q == Places(t, c)
           R == {n + i : i \in Q}
           f == [i \in Q |-> n + i]
<1>1. /\ s \o t \in Seq(S) /\ DOMAIN (s \o t) = 1..(Len(s) + Len(t))
      /\ \A i \in 1..(Len(s) + Len(t)) :
           (s \o t)[i] = IF i <= Len(s) THEN s[i] ELSE t[i - Len(s)]
      /\ DOMAIN s = 1..Len(s) /\ DOMAIN t = 1..Len(t)
      /\ Len(s) \in Nat /\ Len(t) \in Nat
  BY ConcatProperties
<1>2. /\ IsFiniteSet(P) /\ Occurrences(s, c) = Cardinality(P) /\ Cardinality(P) \in Nat
      /\ IsFiniteSet(Q) /\ Occurrences(t, c) = Cardinality(Q) /\ Cardinality(Q) \in Nat
  BY OccurrencesType
<1>3. P \subseteq 1..n /\ Q \subseteq 1..Len(t)
  BY <1>1 DEF Places
<1>4. Places(s \o t, c) = P \cup R
  <2>1. ASSUME NEW i \in Places(s \o t, c) PROVE i \in P \cup R
    <3>1. i \in 1..(Len(s) + Len(t)) /\ (s \o t)[i] = c
      BY <1>1 DEF Places
    <3>2. CASE i <= Len(s)
      BY <1>1, <3>1, <3>2 DEF Places
    <3>3. CASE ~(i <= Len(s))
      <4>1. i - n \in Q /\ n + (i - n) = i
        BY <1>1, <3>1, <3>3 DEF Places
      <4> QED
        BY <4>1
    <3> QED
      BY <3>2, <3>3
  <2>2. ASSUME NEW i \in P PROVE i \in Places(s \o t, c)
    BY <1>1 DEF Places
  <2>3. ASSUME NEW i \in Q PROVE n + i \in Places(s \o t, c)
    <3>1. i \in 1..Len(t) /\ t[i] = c
      BY <1>1 DEF Places
    <3>2. n + i \in 1..(Len(s) + Len(t)) /\ ~(n + i <= Len(s)) /\ (n + i) - Len(s) = i
      BY <1>1, <3>1
    <3> QED
      BY <1>1, <3>1, <3>2 DEF Places
  <2> QED
    BY <2>1, <2>2, <2>3
<1>5. IsFiniteSet(R) /\ Cardinality(R) = Cardinality(Q)
  <2>1. f \in Bijection(Q, R)
    <3>1. f \in [Q -> R]
      OBVIOUS
    <3>2. \A a, b \in Q : f[a] = f[b] => a = b
      BY <1>1, <1>3
    <3>3. \A r \in R : \E q \in Q : f[q] = r
      OBVIOUS
    <3> QED
      BY <3>1, <3>2, <3>3 DEF Bijection, Injection, Surjection, IsInjective
  <2>2. ExistsBijection(Q, R)
    BY <2>1 DEF ExistsBijection
  <2> HIDE DEF Q, R, f
  <2> QED
    BY <1>2, <2>2, FS_Bijection
<1>6. P \cap R = {}
  <2>1. \A i \in Q : n + i > n
    BY <1>1, <1>3
  <2>2. \A i \in P : i <= n
    BY <1>1, <1>3
  <2> QED
    BY <1>1, <1>3, <2>1, <2>2
<1> HIDE DEF P, Q, R, f
<1>7. Cardinality(P \cup R) = Cardinality(P) + Cardinality(R)
  <2>1. Cardinality(P \cup R) = Cardinality(P) + Cardinality(R) - Cardinality(P \cap R)
    BY <1>2, <1>5, FS_Union
  <2>2. Cardinality(P \cap R) = 0
    BY <1>6, FS_EmptySet
  <2> QED
    BY <1>2, <1>5, <2>1, <2>2
<1> QED
  BY <1>1, <1>2, <1>4, <1>5, <1>7, OccurrencesType

LEMMA OccurrencesTail ==
  ASSUME NEW S, NEW s \in Seq(S), s # <<>>, NEW c
  PROVE  Occurrences(s, c) = Same(Head(s), c) + Occurrences(Tail(s), c)
<1>1. Tail(s) \in Seq(S) /\ <<Head(s)>> \in Seq(S) /\ s = <<Head(s)>> \o Tail(s)
  OBVIOUS
<1>2. Occurrences(<<Head(s)>> \o Tail(s), c) =
        Occurrences(<<Head(s)>>, c) + Occurrences(Tail(s), c)
  BY <1>1, OccurrencesConcat
<1> QED
  BY <1>1, <1>2, OccurrencesOne

\* What occurs nowhere is at no place.
LEMMA OccurrencesSome ==
  ASSUME NEW S, NEW s \in Seq(S), NEW c
  PROVE  Occurrences(s, c) = 0 <=> \A i \in DOMAIN s : s[i] # c
<1>1. IsFiniteSet(Places(s, c)) /\ Occurrences(s, c) = Cardinality(Places(s, c))
  BY OccurrencesType
<1>2. Cardinality(Places(s, c)) = 0 <=> Places(s, c) = {}
  BY <1>1, FS_EmptySet
<1> QED
  BY <1>1, <1>2 DEF Places

-----------------------------------------------------------------------------
(* How many names refer to a Float. *)

NamesOf(n, c) == {x \in Names : n[x] = c}

LEMMA NamesCounted ==
  ASSUME NEW n, NEW c
  PROVE  IsFiniteSet(NamesOf(n, c)) /\ Cardinality(NamesOf(n, c)) \in Nat
<1>1. NamesOf(n, c) \in SUBSET Names
  BY DEF NamesOf
<1>2. IsFiniteSet(NamesOf(n, c))
  BY <1>1, PyAssumption, FS_Subset
<1> QED
  BY <1>2, FS_CardinalityType

\* Two sets of names that differ in x at most.
LEMMA NameBound ==
  ASSUME NEW A \in SUBSET Names, NEW B \in SUBSET Names, NEW x \in Names,
         A \ {x} = B \ {x}
  PROVE  Cardinality(A) + (IF x \in B THEN 1 ELSE 0)
           = Cardinality(B) + (IF x \in A THEN 1 ELSE 0)
<1>1. IsFiniteSet(A) /\ Cardinality(A) \in Nat
  BY PyAssumption, FS_Subset, FS_CardinalityType
<1>2. IsFiniteSet(B) /\ Cardinality(B) \in Nat
  BY PyAssumption, FS_Subset, FS_CardinalityType
<1>3. Cardinality(A \ {x}) = IF x \in A THEN Cardinality(A) - 1 ELSE Cardinality(A)
  BY <1>1, FS_RemoveElement
<1>4. Cardinality(B \ {x}) = IF x \in B THEN Cardinality(B) - 1 ELSE Cardinality(B)
  BY <1>2, FS_RemoveElement
<1>5. Cardinality(A \ {x}) = Cardinality(B \ {x})
  OBVIOUS
<1> QED
  BY <1>1, <1>2, <1>3, <1>4, <1>5

\* No name refers to what has no names.
LEMMA Unnamed ==
  ASSUME NEW n, NEW c
  PROVE  Cardinality(NamesOf(n, c)) = 0 <=> \A x \in Names : n[x] # c
<1>1. IsFiniteSet(NamesOf(n, c))
  BY NamesCounted
<1>2. Cardinality(NamesOf(n, c)) = 0 <=> NamesOf(n, c) = {}
  BY <1>1, FS_EmptySet
<1> QED
  BY <1>2 DEF NamesOf
-----------------------------------------------------------------------------
(* The inductive invariant. *)

\* The steps at which a product has its temporary.
WithTemporary == {"items", "convert", "product", "sum", "next", "clear"}

\* What a statement is, and what it has, when it is at a step.
CallOK ==
  /\ pc \in {"idle", "drop"} => call.args = <<>> /\ call.res = None
  /\ pc # "drop" => call.drops = <<>>
  /\ pc = "convert" => call.op \in {"add", "div", "compare", "sqrt", "dot"}
  /\ pc = "alloc" => call.op \in {"add", "div", "neg", "sqrt", "fma", "dot", "new"}
  /\ pc = "compute" => call.op \in {"add", "div", "neg", "sqrt"}
  /\ pc \in {"temporary", "product", "sum"} => call.op \in {"fma", "dot"}
  /\ pc \in {"items", "next"} => call.op = "dot"
  /\ pc = "clear" => call.op \notin {"iadd", "idiv", "init"}
  /\ pc = "in_place" => call.op \in {"iadd", "idiv"}
  /\ pc \in {"precision", "value"} => call.op \in {"new", "init"}
  \* The name that gets the result.
  /\ pc \notin {"idle", "drop"} /\ call.op # "init" => call.target \in Names
  \* The result, from its allocation on.
  /\ call.op \notin {"new", "dot"} /\ pc \in {"convert", "alloc", "in_place", "precision", "value"}
       => call.res = None
  /\ pc = "alloc" => call.res = None
  /\ pc \in {"compute", "temporary", "product", "sum", "items", "next"} => call.res \in Cells
  /\ pc = "convert" /\ call.op = "dot" => call.res \in Cells
  /\ pc \in {"precision", "value"} /\ call.op = "new" => call.res \in Cells
  \* The operands.
  /\ Len(call.args) <= 3
  /\ pc = "convert" => Len(call.args) <= 2
  /\ pc = "items" => call.args = <<>>
  /\ pc \in {"alloc", "temporary"} /\ call.op = "dot" => call.args = <<>>
  /\ pc \in {"alloc", "compute"} /\ call.op = "neg" => call.args # <<>>
  /\ pc \in {"precision", "value"} /\ call.op = "init" =>
       call.args # <<>> /\ call.args[1] \in Cells
  /\ pc = "in_place" =>
       Len(call.args) = 2 /\ call.args[1] \in Cells /\ call.args[2] \in Cells

\* The references to a Float that the names n and the statement cl have.
Held(n, cl, c) ==
  Cardinality(NamesOf(n, c)) + Occurrences(cl.args, c) + Occurrences(cl.drops, c)
  + Same(cl.res, c)

\* The counts r are those of the references there are, and what is free, once
\* each, has none.  A result has the one reference of the function that computes
\* it, and an operand has a name besides, which it keeps while the statement
\* runs.
Counted(r, f, n, cl) ==
  /\ \A c \in Cells : r[c] = Held(n, cl, c)
  /\ IsInjective(f)
  /\ \A i \in DOMAIN f : r[f[i]] = 0
  /\ cl.res \in Cells => r[cl.res] = 1
  /\ \A i \in DOMAIN cl.args : cl.args[i] \in Cells => \E x \in Names : n[x] = cl.args[i]

\* The objects O, with the fields in o, own the heap h; u says that a call was
\* undefined.
Owned(O, o, h, u) ==
  /\ \A x \in O :
       /\ o[x].limbs = Inline => o[x].capacity = 1
       /\ o[x].limbs \in Blocks => h[o[x].limbs] = o[x].capacity /\ o[x].capacity > 0
       /\ ~u => o[x].used <= o[x].capacity
  /\ \A x, y \in O : o[x].limbs \in Blocks /\ o[x].limbs = o[y].limbs => x = y
  /\ \A k \in Blocks : h[k] > 0 => \E x \in O : o[x].limbs = k

\* The operands' temporaries hold a limb at most, and that of a product is
\* cleared before the statement ends.
TempsOK ==
  /\ obj[V].limbs \notin Blocks /\ obj[W].limbs \notin Blocks
  /\ obj[Tmp].limbs \in Blocks => call.op \in {"fma", "dot"} /\ pc \in WithTemporary

PyInv ==
  /\ PyTypeOK
  /\ CallOK
  /\ Counted(refs, freelist, names, call)
  /\ Owned(Owners, obj, heap, undef)
  /\ TempsOK

\* It says what the run checks.
LEMMA PyInvStorage == PyInv => PyStorageOK
  BY DEF PyInv, PyTypeOK, Owned, TempsOK, PyStorageOK, Temps, WithTemporary

\* The constants have the types the actions need.
LEMMA PyConstants ==
  /\ Null # Inline /\ Null \notin Blocks /\ Inline \notin Blocks
  /\ Precisions \subseteq Nat /\ Sizes \subseteq Nat
  /\ DefaultPrecision \in Nat /\ FreeListMax \in Nat
  /\ Cells \subseteq Objects /\ Temps \subseteq Objects
  /\ V \in Temps /\ W \in Temps /\ Tmp \in Temps
  /\ V # W /\ Tmp # V /\ Tmp # W
  /\ \A t \in Temps : t \notin Cells
  /\ None \notin Cells /\ Number \notin Cells /\ Other \notin Cells
  /\ Cells \subseteq References /\ None \in References
  /\ Owners \subseteq Objects /\ Temps \subseteq Owners
<1>1. /\ Null # Inline /\ Null \notin Blocks /\ Inline \notin Blocks
      /\ Precisions \subseteq Nat /\ Sizes \subseteq Nat
  BY StoreAssumption
<1> QED
  BY <1>1, PyAssumption DEF Temps, Owners, References

-----------------------------------------------------------------------------
(* Storage that stays owned. *)

\* The fields of an object with another number in it.
LEMMA UsedFields ==
  ASSUME NEW o \in [Objects -> ObjectType], NEW x \in Objects, NEW n \in Nat
  PROVE  /\ [o EXCEPT ![x].used = n] \in [Objects -> ObjectType]
         /\ \A y \in Objects :
              /\ [o EXCEPT ![x].used = n][y].limbs = o[y].limbs
              /\ [o EXCEPT ![x].used = n][y].capacity = o[y].capacity
              /\ [o EXCEPT ![x].used = n][y].used = IF y = x THEN n ELSE o[y].used
              /\ y # x => [o EXCEPT ![x].used = n][y] = o[y]
<1>1. o[x] \in ObjectType
  OBVIOUS
<1>2. /\ [o[x] EXCEPT !.used = n] \in ObjectType
      /\ [o[x] EXCEPT !.used = n].limbs = o[x].limbs
      /\ [o[x] EXCEPT !.used = n].capacity = o[x].capacity
      /\ [o[x] EXCEPT !.used = n].used = n
  BY <1>1 DEF ObjectType
<1> DEFINE r == [o[x] EXCEPT !.used = n]
<1>3. [o EXCEPT ![x].used = n] = [o EXCEPT ![x] = r]
  OBVIOUS
<1> HIDE DEF r
<1> QED
  BY <1>2, <1>3 DEF r

\* A number that fits, or any number once a call is undefined.
LEMMA OwnedUsed ==
  ASSUME NEW O \in SUBSET Objects, NEW o \in [Objects -> ObjectType], NEW h,
         NEW u \in BOOLEAN, Owned(O, o, h, u), NEW x \in Objects, NEW n \in Nat,
         NEW w \in BOOLEAN, ~w => ~u /\ n <= o[x].capacity,
         NEW p, p = [o EXCEPT ![x].used = n]
  PROVE  Owned(O, p, h, w)
<1>1. \A y \in Objects :
        /\ p[y].limbs = o[y].limbs
        /\ p[y].capacity = o[y].capacity
        /\ p[y].used = IF y = x THEN n ELSE o[y].used
  BY UsedFields
<1> QED
  BY <1>1 DEF Owned

\* Objects whose storage is the same.
LEMMA OwnedSame ==
  ASSUME NEW O \in SUBSET Objects, NEW o, NEW h, NEW u, Owned(O, o, h, u), NEW p,
         \A x \in O : /\ p[x].limbs = o[x].limbs
                      /\ p[x].capacity = o[x].capacity
                      /\ p[x].used = o[x].used
  PROVE  Owned(O, p, h, u)
  BY DEF Owned

\* The fields of an object with n limbs in use of m in block k.
GrownFields(r, k, m, n) ==
  [limbs |-> k, capacity |-> m, precision |-> r.precision, used |-> n]

\* A block that is free or the object's own, resized.
LEMMA OwnedGrown ==
  ASSUME NEW O \in SUBSET Objects, NEW o \in [Objects -> ObjectType],
         NEW h \in [Blocks -> Nat], NEW u \in BOOLEAN, Owned(O, o, h, u),
         NEW x \in O, NEW k \in Blocks, NEW m \in Nat, NEW n \in Nat,
         n <= m, m > o[x].capacity,
         o[x].limbs \in Blocks => k = o[x].limbs,
         o[x].limbs \notin Blocks => h[k] = 0,
         NEW p, p[x].limbs = k, p[x].capacity = m, p[x].used = n,
         \A y \in Objects \ {x} : p[y] = o[y],
         NEW g, \A j \in Blocks : g[j] = IF j = k THEN m ELSE h[j]
  PROVE  Owned(O, p, g, u)
<1>1. o[x] \in ObjectType /\ o[x].capacity \in Nat
  BY DEF ObjectType
<1>4. \A y \in Objects \ {x} : p[y] = o[y]
  OBVIOUS
<1>5. p[x].limbs = k /\ p[x].capacity = m /\ p[x].used = n
  OBVIOUS
<1>6. \A j \in Blocks : g[j] = IF j = k THEN m ELSE h[j]
  OBVIOUS
<1>7. k # Inline
  BY PyConstants
<1>8. \A y \in O \ {x} : o[y].limbs # k
  <2> SUFFICES ASSUME NEW y \in O \ {x}, o[y].limbs = k PROVE FALSE
    OBVIOUS
  <2>1. h[k] = o[y].capacity /\ o[y].capacity > 0
    BY DEF Owned
  <2>2. o[y].capacity \in Nat
    BY DEF ObjectType
  <2>3. o[x].limbs = k
    BY <2>1, <2>2
  <2> QED
    BY <2>3 DEF Owned
<1>9. \A y \in O :
        /\ p[y].limbs = Inline => p[y].capacity = 1
        /\ p[y].limbs \in Blocks => g[p[y].limbs] = p[y].capacity /\ p[y].capacity > 0
        /\ ~u => p[y].used <= p[y].capacity
  <2> TAKE y \in O
  <2>1. CASE y = x
    BY <1>1, <1>4, <1>5, <1>6, <1>7, <2>1
  <2>2. CASE y # x
    <3>1. p[y] = o[y] /\ o[y].limbs # k
      BY <1>4, <1>8, <2>2
    <3> QED
      BY <1>6, <3>1 DEF Owned
  <2> QED
    BY <2>1, <2>2
<1>10. \A y, z \in O : p[y].limbs \in Blocks /\ p[y].limbs = p[z].limbs => y = z
  <2> TAKE y, z \in O
  <2>1. CASE y # x /\ z # x
    BY <1>4, <2>1 DEF Owned
  <2>2. CASE y = x \/ z = x
    BY <1>4, <1>5, <1>8, <2>2
  <2> QED
    BY <2>1, <2>2
<1>11. \A j \in Blocks : g[j] > 0 => \E y \in O : p[y].limbs = j
  <2> SUFFICES ASSUME NEW j \in Blocks, g[j] > 0 PROVE \E y \in O : p[y].limbs = j
    OBVIOUS
  <2>1. CASE j = k
    BY <1>4, <1>5, <2>1
  <2>2. CASE j # k
    <3>1. PICK y \in O : o[y].limbs = j
      BY <1>6, <2>2 DEF Owned
    <3>2. h[j] > 0
      BY <1>6, <2>2
    <3>3. CASE y = x
      BY <2>2, <3>1, <3>3
    <3>4. CASE y # x
      BY <1>4, <3>1, <3>4
    <3> QED
      BY <3>3, <3>4
  <2> QED
    BY <2>1, <2>2
<1> QED
  BY <1>4, <1>9, <1>10, <1>11 DEF Owned

\* The heap h without the blocks of the objects X, whose fields are o.
FreedOf(X, o, h) == [k \in Blocks |-> IF \E x \in X : o[x].limbs = k THEN 0 ELSE h[k]]

\* Owners X lose their blocks, and stay without or are owners no more.
LEMMA OwnedFreed ==
  ASSUME NEW O \in SUBSET Objects, NEW o \in [Objects -> ObjectType],
         NEW h \in [Blocks -> Nat], NEW u \in BOOLEAN, Owned(O, o, h, u),
         NEW X \in SUBSET O, NEW Q \in SUBSET O, O \ X \subseteq Q, NEW p,
         \A x \in Q : IF x \in X THEN p[x] = Unset ELSE p[x] = o[x]
  PROVE  Owned(Q, p, FreedOf(X, o, h), u)
<1> DEFINE g == FreedOf(X, o, h)
<1>1. /\ Unset.limbs = Null /\ Unset.capacity = 0 /\ Unset.used = 0
      /\ Null # Inline /\ Null \notin Blocks
  BY PyConstants DEF Unset
<1>2. \A j \in Blocks : g[j] = IF \E x \in X : o[x].limbs = j THEN 0 ELSE h[j]
  BY DEF FreedOf
<1> HIDE DEF g
<1>3. \A y \in Q :
        /\ p[y].limbs = Inline => p[y].capacity = 1
        /\ p[y].limbs \in Blocks => g[p[y].limbs] = p[y].capacity /\ p[y].capacity > 0
        /\ ~u => p[y].used <= p[y].capacity
  <2> SUFFICES ASSUME NEW y \in Q
               PROVE  /\ p[y].limbs = Inline => p[y].capacity = 1
                      /\ p[y].limbs \in Blocks =>
                           g[p[y].limbs] = p[y].capacity /\ p[y].capacity > 0
                      /\ ~u => p[y].used <= p[y].capacity
    OBVIOUS
  <2>1. CASE y \in X
    BY <1>1, <2>1
  <2>2. CASE y \notin X
    <3>1. p[y] = o[y] /\ y \in O
      BY <2>2
    <3>2. \A x \in X : o[x].limbs # o[y].limbs \/ o[y].limbs \notin Blocks
      BY <2>2, <3>1 DEF Owned
    <3>3. o[y].limbs \in Blocks => g[o[y].limbs] = h[o[y].limbs]
      BY <1>2, <3>2
    <3> QED
      BY <3>1, <3>3 DEF Owned
  <2> QED
    BY <2>1, <2>2
<1>4. \A y, z \in Q : p[y].limbs \in Blocks /\ p[y].limbs = p[z].limbs => y = z
  BY <1>1 DEF Owned
<1>5. \A j \in Blocks : g[j] > 0 => \E y \in Q : p[y].limbs = j
  <2> SUFFICES ASSUME NEW j \in Blocks, g[j] > 0 PROVE \E y \in Q : p[y].limbs = j
    OBVIOUS
  <2>1. h[j] > 0 /\ \A x \in X : o[x].limbs # j
    BY <1>2
  <2>2. PICK y \in O : o[y].limbs = j
    BY <2>1 DEF Owned
  <2> QED
    BY <2>1, <2>2
<1>6. Owned(Q, p, g, u)
  BY <1>3, <1>4, <1>5 DEF Owned
<1> QED
  BY <1>6 DEF g

\* Objects Y become or stay owners, with the inline limb, and had no block.
LEMMA OwnedInline ==
  ASSUME NEW O \in SUBSET Objects, NEW o, NEW h, NEW u, Owned(O, o, h, u),
         NEW Y \in SUBSET Objects, \A y \in Y \cap O : o[y].limbs \notin Blocks,
         NEW p, \A x \in O \ Y : p[x] = o[x],
         \A y \in Y : p[y].limbs = Inline /\ p[y].capacity = 1 /\ p[y].used <= 1
  PROVE  Owned(O \cup Y, p, h, u)
<1>1. Inline \notin Blocks
  BY PyConstants
<1>2. \A y \in O \cup Y :
        /\ p[y].limbs = Inline => p[y].capacity = 1
        /\ p[y].limbs \in Blocks => h[p[y].limbs] = p[y].capacity /\ p[y].capacity > 0
        /\ ~u => p[y].used <= p[y].capacity
  BY <1>1 DEF Owned
<1>3. \A y, z \in O \cup Y : p[y].limbs \in Blocks /\ p[y].limbs = p[z].limbs => y = z
  BY <1>1 DEF Owned
<1>4. \A j \in Blocks : h[j] > 0 => \E y \in O \cup Y : p[y].limbs = j
  <2> SUFFICES ASSUME NEW j \in Blocks, h[j] > 0 PROVE \E y \in O \cup Y : p[y].limbs = j
    OBVIOUS
  <2>1. PICK y \in O : o[y].limbs = j
    BY DEF Owned
  <2> QED
    BY <2>1
<1> QED
  BY <1>2, <1>3, <1>4 DEF Owned

-----------------------------------------------------------------------------
(* What the library's calls do to storage. *)

\* The storage part of the types.
StoreTyped ==
  /\ obj \in [Objects -> ObjectType] /\ heap \in [Blocks -> Nat]
  /\ status \in Failures \cup {"ok"} /\ undef \in BOOLEAN

\* A call on x, an owner or any object of which no block is asked, leaves the
\* others alone.
OnlyWrites(x) ==
  /\ StoreTyped'
  /\ Owned(Owners, obj', heap', undef')
  /\ \A y \in Objects \ {x} : obj'[y] = obj[y]

LEMMA FitsKeeps ==
  ASSUME StoreTyped, Owned(Owners, obj, heap, undef), NEW x \in Objects,
         NEW n \in Nat, Fits(x, n)
  PROVE  OnlyWrites(x)
<1>1. /\ heap' = heap /\ undef' = undef /\ status' = "ok"
      /\ n <= obj[x].capacity
      /\ obj' = [obj EXCEPT ![x].used = n]
  BY DEF Fits, KeepsHeap
<1>2. Owned(Owners, obj', heap, undef)
  <2>1. /\ Owners \in SUBSET Objects /\ obj \in [Objects -> ObjectType]
        /\ undef \in BOOLEAN /\ (~undef => ~undef /\ n <= obj[x].capacity)
    BY <1>1, PyConstants DEF StoreTyped
  <2> QED
    BY <1>1, <2>1, OwnedUsed
<1>3. /\ [obj EXCEPT ![x].used = n] \in [Objects -> ObjectType]
      /\ \A y \in Objects : y # x => [obj EXCEPT ![x].used = n][y] = obj[y]
  BY UsedFields DEF StoreTyped
<1> QED
  BY <1>1, <1>2, <1>3 DEF OnlyWrites, StoreTyped

LEMMA GrowsKeeps ==
  ASSUME StoreTyped, Owned(Owners, obj, heap, undef), NEW x \in Owners,
         NEW m \in Nat, NEW n \in Nat, Grows(x, m, n)
  PROVE  OnlyWrites(x)
<1>1. PICK k \in Blocks :
        /\ heap' = [heap EXCEPT ![k] = m]
        /\ m > obj[x].capacity
        /\ IF obj[x].limbs \in Blocks THEN k = obj[x].limbs ELSE heap[k] = 0
        /\ obj' = [obj EXCEPT ![x].limbs = k, ![x].capacity = m, ![x].used = n]
  BY DEF Grows
<1>2. n <= m /\ undef' = undef /\ status' = "ok"
  BY DEF Grows
<1>3. x \in Objects /\ Owners \in SUBSET Objects
  BY PyConstants
<1>4. /\ obj' \in [Objects -> ObjectType]
      /\ obj'[x].limbs = k /\ obj'[x].capacity = m /\ obj'[x].used = n
      /\ \A y \in Objects \ {x} : obj'[y] = obj[y]
  <2> DEFINE p == obj[x]
             r == GrownFields(p, k, m, n)
             r0 == [limbs |-> p.limbs, capacity |-> p.capacity,
                    precision |-> p.precision, used |-> p.used]
             r1 == [limbs |-> k, capacity |-> p.capacity,
                    precision |-> p.precision, used |-> p.used]
             r2 == [limbs |-> k, capacity |-> m,
                    precision |-> p.precision, used |-> p.used]
  <2>1. obj \in [Objects -> ObjectType] /\ p \in ObjectType
    BY <1>3 DEF StoreTyped
  <2>2. p = r0
    BY <2>1 DEF ObjectType
  <2>3. [r0 EXCEPT !.limbs = k] = r1
    OBVIOUS
  <2>4. [r1 EXCEPT !.capacity = m] = r2
    OBVIOUS
  <2>5. [r2 EXCEPT !.used = n] = r
    BY DEF GrownFields
  <2>6. [[[obj[x] EXCEPT !.limbs = k] EXCEPT !.capacity = m] EXCEPT !.used = n] = r
    BY <2>2, <2>3, <2>4, <2>5
  <2>7. obj' = [obj EXCEPT ![x] = r]
    BY <1>1, <1>3, <2>1, <2>6
  <2>8. r \in ObjectType /\ r.limbs = k /\ r.capacity = m /\ r.used = n
    BY <2>1 DEF ObjectType, GrownFields
  <2> HIDE DEF r
  <2> QED
    BY <1>3, <2>1, <2>7, <2>8
<1>5. Owned(Owners, obj', heap', undef)
  <2>1. /\ obj \in [Objects -> ObjectType] /\ heap \in [Blocks -> Nat]
        /\ undef \in BOOLEAN /\ Owners \in SUBSET Objects
        /\ Owned(Owners, obj, heap, undef)
        /\ x \in Owners /\ k \in Blocks /\ m \in Nat /\ n \in Nat
        /\ n <= m /\ m > obj[x].capacity
        /\ obj[x].limbs \in Blocks => k = obj[x].limbs
        /\ obj[x].limbs \notin Blocks => heap[k] = 0
        /\ obj'[x].limbs = k /\ obj'[x].capacity = m /\ obj'[x].used = n
        /\ \A y \in Objects \ {x} : obj'[y] = obj[y]
        /\ \A j \in Blocks : heap'[j] = IF j = k THEN m ELSE heap[j]
    BY <1>1, <1>2, <1>3, <1>4 DEF StoreTyped
  <2> HIDE <1>1, <1>2, <1>4
  <2> QED
    BY <2>1, OwnedGrown
<1>6. heap' \in [Blocks -> Nat]
  BY <1>1 DEF StoreTyped
<1> QED
  BY <1>2, <1>4, <1>5, <1>6 DEF OnlyWrites, StoreTyped

LEMMA FailsKeeps ==
  ASSUME StoreTyped, Owned(Owners, obj, heap, undef), NEW x, NEW st, Fails(st)
  PROVE  OnlyWrites(x) /\ obj' = obj
  BY DEF Fails, OnlyWrites, StoreTyped

LEMMA OverrunsKeeps ==
  ASSUME StoreTyped, Owned(Owners, obj, heap, undef), NEW x \in Objects, Overruns(x)
  PROVE  OnlyWrites(x)
<1>1. PICK n \in Sizes : obj' = [obj EXCEPT ![x].used = n]
  BY DEF Overruns
<1>2. heap' = heap /\ undef' = TRUE /\ status' \in {status, "ok"} /\ n \in Nat
  BY PyConstants DEF Overruns
<1>3. Owned(Owners, obj', heap, TRUE)
  BY <1>1, <1>2, PyConstants, OwnedUsed DEF StoreTyped
<1>4. /\ [obj EXCEPT ![x].used = n] \in [Objects -> ObjectType]
      /\ \A y \in Objects : y # x => [obj EXCEPT ![x].used = n][y] = obj[y]
  BY <1>2, UsedFields DEF StoreTyped
<1> QED
  BY <1>1, <1>2, <1>3, <1>4 DEF OnlyWrites, StoreTyped

\* A sum, product, quotient or root.
LEMMA ComputesKeeps ==
  ASSUME StoreTyped, Owned(Owners, obj, heap, undef), NEW x \in Owners, Computes(x)
  PROVE  OnlyWrites(x)
<1>1. x \in Objects /\ Sizes \subseteq Nat
  BY PyConstants
<1>2. ASSUME NEW n \in Sizes, Fits(x, n) PROVE OnlyWrites(x)
  BY <1>1, <1>2, FitsKeeps
<1>3. ASSUME NEW n \in Sizes, NEW m \in Sizes, Grows(x, m, n) PROVE OnlyWrites(x)
  BY <1>1, <1>3, GrowsKeeps
<1> QED
  BY <1>1, <1>2, <1>3, FailsKeeps, OverrunsKeeps DEF Computes

\* A copy.
LEMMA CopiesKeeps ==
  ASSUME StoreTyped, Owned(Owners, obj, heap, undef), NEW x \in Owners, NEW n \in Nat,
         Copies(x, n)
  PROVE  OnlyWrites(x)
<1>1. x \in Objects
  BY PyConstants
<1> QED
  BY <1>1, FitsKeeps, GrowsKeeps, FailsKeeps DEF Copies

\* Temporaries cleared.
LEMMA ClearsKeeps ==
  ASSUME StoreTyped, Owned(Owners, obj, heap, undef), NEW X \in SUBSET Temps, Clears(X)
  PROVE  /\ StoreTyped'
         /\ Owned(Owners, obj', heap', undef')
         /\ \A y \in Objects \ X : obj'[y] = obj[y]
         /\ \A y \in X : obj'[y].limbs \notin Blocks
<1>1. X \subseteq Owners /\ Owners \in SUBSET Objects
  BY PyConstants
<1>2. /\ obj' = [o \in Objects |-> IF o \in X THEN Unset ELSE obj[o]]
      /\ heap' = FreedOf(X, obj, heap)
      /\ status' = status /\ undef' = undef
  BY DEF Clears, Freed, FreedOf
<1>3. Unset \in ObjectType /\ Unset.limbs \notin Blocks
  BY PyConstants DEF Unset, ObjectType
<1>4. obj' \in [Objects -> ObjectType] /\ heap' \in [Blocks -> Nat]
  BY <1>2, <1>3 DEF StoreTyped, FreedOf
<1>5. \A x \in Owners : IF x \in X THEN obj'[x] = Unset ELSE obj'[x] = obj[x]
  BY <1>1, <1>2
<1>6. Owned(Owners, obj', FreedOf(X, obj, heap), undef)
  BY <1>1, <1>5, OwnedFreed DEF StoreTyped
<1> QED
  BY <1>1, <1>2, <1>3, <1>4, <1>6 DEF StoreTyped

-----------------------------------------------------------------------------
(* Reference counts. *)

\* The types of what is counted.
LEMMA HeldType ==
  ASSUME NEW n, NEW cl \in CallType, NEW c
  PROVE  /\ Cardinality(NamesOf(n, c)) \in Nat
         /\ cl.args \in Seq(References) /\ cl.drops \in Seq(References)
         /\ Occurrences(cl.args, c) \in Nat /\ Occurrences(cl.drops, c) \in Nat
         /\ Same(cl.res, c) \in 0..1
         /\ Held(n, cl, c) = Cardinality(NamesOf(n, c)) + Occurrences(cl.args, c)
                             + Occurrences(cl.drops, c) + Same(cl.res, c)
         /\ Held(n, cl, c) \in Nat
<1>1. cl.args \in Seq(References) /\ cl.drops \in Seq(References)
  BY DEF CallType
<1>2. Occurrences(cl.args, c) \in Nat /\ Occurrences(cl.drops, c) \in Nat
  BY <1>1, OccurrencesType
<1>3. Same(cl.res, c) \in 0..1
  BY DEF Same
<1> QED
  BY <1>1, <1>2, <1>3, NamesCounted DEF Held

\* The invariant says that the counts are right.
LEMMA CountedRight ==
  ASSUME call \in CallType, Counted(refs, freelist, names, call)
  PROVE  RefCountsRight
<1>1. ASSUME NEW c \in Cells
      PROVE  refs[c] = Cardinality({x \in Names : names[x] = c})
                       + Occurrences(call.args \o call.drops, c)
                       + (IF call.res = c THEN 1 ELSE 0)
  <2>1. refs[c] = Held(names, call, c)
    BY DEF Counted
  <2>2. Occurrences(call.args \o call.drops, c) =
          Occurrences(call.args, c) + Occurrences(call.drops, c)
    BY HeldType, OccurrencesConcat
  <2>3. /\ Cardinality(NamesOf(names, c)) \in Nat
        /\ Occurrences(call.args, c) \in Nat /\ Occurrences(call.drops, c) \in Nat
        /\ Same(call.res, c) \in 0..1
        /\ Held(names, call, c) =
             Cardinality(NamesOf(names, c)) + Occurrences(call.args, c)
             + Occurrences(call.drops, c) + Same(call.res, c)
    BY HeldType
  <2> QED
    BY <2>1, <2>2, <2>3 DEF NamesOf, Same
<1> QED
  BY <1>1 DEF Counted, RefCountsRight

\* What a name, an operand, the result or a reference still to be dropped
\* refers to is alive.
LEMMA HeldLives ==
  ASSUME NEW n, NEW cl \in CallType, NEW c
  PROVE  /\ (\E x \in Names : n[x] = c) => Held(n, cl, c) > 0
         /\ (\E i \in DOMAIN cl.args : cl.args[i] = c) => Held(n, cl, c) > 0
         /\ (\E i \in DOMAIN cl.drops : cl.drops[i] = c) => Held(n, cl, c) > 0
         /\ cl.res = c => Held(n, cl, c) > 0
<1>1. /\ Cardinality(NamesOf(n, c)) \in Nat
      /\ cl.args \in Seq(References) /\ cl.drops \in Seq(References)
      /\ Occurrences(cl.args, c) \in Nat /\ Occurrences(cl.drops, c) \in Nat
      /\ Same(cl.res, c) \in 0..1
      /\ Held(n, cl, c) = Cardinality(NamesOf(n, c)) + Occurrences(cl.args, c)
                          + Occurrences(cl.drops, c) + Same(cl.res, c)
  BY HeldType
<1>2. (\E x \in Names : n[x] = c) => Cardinality(NamesOf(n, c)) # 0
  BY Unnamed
<1>3. (\E i \in DOMAIN cl.args : cl.args[i] = c) => Occurrences(cl.args, c) # 0
  BY <1>1, OccurrencesSome
<1>4. (\E i \in DOMAIN cl.drops : cl.drops[i] = c) => Occurrences(cl.drops, c) # 0
  BY <1>1, OccurrencesSome
<1> QED
  BY <1>1, <1>2, <1>3, <1>4 DEF Same

\* References to the operands s, which have names, are taken.
LEMMA TakenCounted ==
  ASSUME NEW r \in [Cells -> Nat], NEW f \in Seq(Cells), NEW n, NEW cl \in CallType,
         Counted(r, f, n, cl), cl.args = <<>>,
         NEW s \in Seq(References),
         \A i \in DOMAIN s : s[i] \in Cells => \E x \in Names : n[x] = s[i],
         NEW d \in CallType, d.args = s, d.drops = cl.drops, d.res = cl.res,
         NEW q, \A c \in Cells : q[c] = r[c] + Occurrences(s, c)
  PROVE  /\ \A c \in Cells : q[c] \in Nat
         /\ Counted(q, f, n, d)
         /\ \A c \in Cells : q[c] > 0 <=> r[c] > 0
<1>1. \A c \in Cells : Occurrences(s, c) \in Nat /\ r[c] \in Nat
  BY OccurrencesType
<1>2. \A c \in Cells : q[c] = r[c] + Occurrences(s, c)
  OBVIOUS
<1>3. \A c \in Cells : q[c] \in Nat
  BY <1>1
<1>4. ASSUME NEW c \in Cells, r[c] = 0 PROVE Occurrences(s, c) = 0
  <2>1. Held(n, cl, c) = 0
    BY <1>4 DEF Counted
  <2>2. \A x \in Names : n[x] # c
    BY <2>1, HeldLives
  <2> QED
    BY <2>2, OccurrencesSome
<1>5. ASSUME NEW c \in Cells PROVE q[c] = Held(n, d, c)
  <2>1. Occurrences(cl.args, c) = 0
    BY OccurrencesEmpty
  <2>2. r[c] = Held(n, cl, c)
    BY DEF Counted
  <2>3. /\ Cardinality(NamesOf(n, c)) \in Nat /\ Occurrences(cl.drops, c) \in Nat
        /\ Same(cl.res, c) \in 0..1
        /\ Held(n, cl, c) = Cardinality(NamesOf(n, c)) + Occurrences(cl.args, c)
                            + Occurrences(cl.drops, c) + Same(cl.res, c)
        /\ Held(n, d, c) = Cardinality(NamesOf(n, c)) + Occurrences(d.args, c)
                           + Occurrences(d.drops, c) + Same(d.res, c)
    BY HeldType
  <2> QED
    BY <1>1, <1>2, <2>1, <2>2, <2>3
<1>6. \A i \in DOMAIN f : q[f[i]] = 0
  <2> TAKE i \in DOMAIN f
  <2>1. f[i] \in Cells /\ r[f[i]] = 0
    BY DEF Counted
  <2>2. Occurrences(s, f[i]) = 0
    BY <1>4, <2>1
  <2>3. q[f[i]] = r[f[i]] + Occurrences(s, f[i])
    BY <1>2, <2>1
  <2> QED
    BY <2>1, <2>2, <2>3
<1>7. d.res \in Cells => q[d.res] = 1
  <2> SUFFICES ASSUME d.res \in Cells PROVE q[d.res] = 1
    OBVIOUS
  <2> DEFINE c == cl.res
  <2>1. r[c] = 1 /\ r[c] = Held(n, cl, c)
    BY DEF Counted
  <2>2. Same(cl.res, c) = 1
    BY DEF Same
  <2>3. /\ Cardinality(NamesOf(n, c)) \in Nat /\ Occurrences(cl.drops, c) \in Nat
        /\ Occurrences(cl.args, c) \in Nat
        /\ Held(n, cl, c) = Cardinality(NamesOf(n, c)) + Occurrences(cl.args, c)
                            + Occurrences(cl.drops, c) + Same(cl.res, c)
    BY HeldType
  <2>4. Cardinality(NamesOf(n, c)) = 0
    BY <2>1, <2>2, <2>3
  <2>5. \A x \in Names : n[x] # c
    BY <2>4, Unnamed
  <2>6. \A i \in DOMAIN s : s[i] # c
    BY <2>5
  <2>7. Occurrences(s, c) = 0
    BY <2>6, OccurrencesSome
  <2> QED
    BY <1>2, <2>1, <2>7
<1>8. Counted(q, f, n, d)
  BY <1>5, <1>6, <1>7 DEF Counted
<1> QED
  BY <1>1, <1>2, <1>3, <1>4, <1>8


\* The operands are given back, whose names still hold them.
LEMMA GivenBackCounted ==
  ASSUME NEW r \in [Cells -> Nat], NEW f \in Seq(Cells), NEW n, NEW cl \in CallType,
         Counted(r, f, n, cl),
         NEW d \in CallType, d.args = <<>>, d.drops = cl.drops, d.res = cl.res,
         NEW q, \A c \in Cells : q[c] = r[c] - Occurrences(cl.args, c)
  PROVE  /\ \A c \in Cells : q[c] \in Nat
         /\ Counted(q, f, n, d)
         /\ \A c \in Cells : q[c] > 0 <=> r[c] > 0
<1>1. \A c \in Cells : q[c] = r[c] - Occurrences(cl.args, c)
  OBVIOUS
<1>2. ASSUME NEW c \in Cells
      PROVE  /\ q[c] \in Nat /\ q[c] = Held(n, d, c)
             /\ q[c] > 0 <=> r[c] > 0
             /\ c = cl.res => q[c] = r[c]
  <2>1. Occurrences(d.args, c) = 0
    BY OccurrencesEmpty
  <2>2. r[c] = Held(n, cl, c) /\ (c = cl.res => r[c] = 1)
    BY DEF Counted
  <2>3. /\ Cardinality(NamesOf(n, c)) \in Nat /\ Occurrences(cl.drops, c) \in Nat
        /\ Occurrences(cl.args, c) \in Nat
        /\ Same(cl.res, c) \in 0..1
        /\ Held(n, cl, c) = Cardinality(NamesOf(n, c)) + Occurrences(cl.args, c)
                            + Occurrences(cl.drops, c) + Same(cl.res, c)
        /\ Held(n, d, c) = Cardinality(NamesOf(n, c)) + Occurrences(d.args, c)
                           + Occurrences(d.drops, c) + Same(d.res, c)
    BY HeldType
  <2>4. Occurrences(cl.args, c) # 0 => Cardinality(NamesOf(n, c)) # 0
    <3> SUFFICES ASSUME Occurrences(cl.args, c) # 0
                 PROVE  Cardinality(NamesOf(n, c)) # 0
      OBVIOUS
    <3>1. PICK i \in DOMAIN cl.args : cl.args[i] = c
      BY HeldType, OccurrencesSome
    <3>2. \E x \in Names : n[x] = c
      BY <3>1 DEF Counted
    <3> QED
      BY <3>2, Unnamed
  <2>5. q[c] = r[c] - Occurrences(cl.args, c)
    BY <1>1
  <2>6. q[c] \in Nat /\ q[c] = Held(n, d, c)
    BY <2>1, <2>2, <2>3, <2>5
  <2>7. q[c] > 0 <=> r[c] > 0
    BY <2>1, <2>2, <2>3, <2>4, <2>5
  <2>8. c = cl.res => q[c] = r[c]
    <3> SUFFICES ASSUME c = cl.res PROVE q[c] = r[c]
      OBVIOUS
    <3>1. Same(cl.res, c) = 1
      BY DEF Same
    <3>2. Cardinality(NamesOf(n, c)) = 0
      BY <2>2, <2>3, <3>1
    <3>3. r[c] \in Nat
      OBVIOUS
    <3>4. Occurrences(cl.args, c) = 0
      BY <2>4, <3>2
    <3> QED
      BY <2>5, <3>3, <3>4
  <2> QED
    BY <2>6, <2>7, <2>8
<1>3. \A c \in Cells : q[c] \in Nat
  BY <1>2
<1>4. \A i \in DOMAIN f : q[f[i]] = 0
  <2> TAKE i \in DOMAIN f
  <2>1. f[i] \in Cells /\ r[f[i]] = 0
    BY DEF Counted
  <2> QED
    BY <1>2, <2>1
<1>5. d.res \in Cells => q[d.res] = 1
  BY <1>2 DEF Counted
<1>6. Counted(q, f, n, d)
  BY <1>2, <1>4, <1>5 DEF Counted
<1> QED
  BY <1>2, <1>3, <1>6

\* Memory is handed out, the last of the free list if it has any.
LEMMA HandedOutCounted ==
  ASSUME NEW r \in [Cells -> Nat], NEW f \in Seq(Cells), NEW n, NEW cl \in CallType,
         Counted(r, f, n, cl), cl.res = None,
         NEW c \in Cells, f = <<>> => r[c] = 0, f # <<>> => c = Last(f),
         NEW d \in CallType, d.args = cl.args, d.drops = cl.drops, d.res = c,
         NEW q, \A b \in Cells : q[b] = IF b = c THEN 1 ELSE r[b],
         NEW g, f = <<>> => g = <<>>, f # <<>> => g = Front(f)
  PROVE  /\ g \in Seq(Cells) /\ Len(g) <= Len(f)
         /\ r[c] = 0
         /\ Counted(q, g, n, d)
<1>1. Len(f) \in Nat /\ DOMAIN f = 1..Len(f) /\ \A i \in 1..Len(f) : f[i] \in Cells
  OBVIOUS
<1>2. /\ g \in Seq(Cells) /\ Len(g) <= Len(f)
      /\ \A i \in DOMAIN g : i \in DOMAIN f /\ g[i] = f[i] /\ g[i] # c
      /\ r[c] = 0
  <2>1. CASE f = <<>>
    <3>1. g = <<>>
      BY <2>1
    <3> QED
      BY <2>1, <3>1
  <2>2. CASE f # <<>>
    <3>1. g = SubSeq(f, 1, Len(f) - 1) /\ c = f[Len(f)]
      BY <2>2 DEF Front, Last
    <3>2. Len(f) > 0 /\ Len(f) \in DOMAIN f
      BY <1>1, <2>2
    <3> DEFINE m == Len(f) - 1
    <3>3. m \in Nat /\ Len(f) = m + 1 /\ m <= Len(f)
      BY <1>1, <3>2
    <3>4. g = SubSeq(f, 1, m)
      BY <3>1
    <3> HIDE DEF m
    <3>5. \A i \in 1..m : i \in DOMAIN f /\ i # Len(f)
      BY <1>1, <3>3
    <3>6. SubSeq(f, 1, m) \in Seq(Cells) /\ Len(SubSeq(f, 1, m)) = m
          /\ \A i \in 1..m : SubSeq(f, 1, m)[i] = f[i]
      <4>1. \A i \in 1..m : f[i] \in Cells
        BY <1>1, <3>5
      <4>2. SubSeq(f, 1, m) = [i \in 1..m |-> f[i]]
        BY <1>1, <3>3, <4>1, SubSeqProperties
      <4> QED
        BY <3>3, <4>1, <4>2
    <3>7. /\ g \in Seq(Cells) /\ Len(g) = m /\ DOMAIN g = 1..m
          /\ \A i \in 1..m : g[i] = f[i]
      <4>1. /\ g \in Seq(Cells) /\ Len(g) = m
            /\ \A i \in 1..m : g[i] = f[i]
        BY <3>4, <3>6, Zenon
      <4>2. DOMAIN g = 1..Len(g)
        BY <4>1
      <4> QED
        BY <4>1, <4>2
    <3>8. \A i, j \in DOMAIN f : f[i] = f[j] => i = j
      BY DEF Counted, IsInjective
    <3>9. \A i \in 1..m : f[i] # c
      BY <3>1, <3>2, <3>5, <3>8
    <3>10. r[c] = 0
      BY <3>1, <3>2 DEF Counted
    <3>11. Len(g) <= Len(f)
      BY <3>3, <3>7
    <3> QED
      BY <3>5, <3>7, <3>9, <3>10, <3>11
  <2> QED
    BY <2>1, <2>2
<1>3. \A b \in Cells : q[b] = IF b = c THEN 1 ELSE r[b]
  OBVIOUS
<1>4. ASSUME NEW b \in Cells PROVE q[b] = Held(n, d, b)
  <2>1. b # cl.res
    BY PyConstants
  <2>2. Same(cl.res, b) = 0 /\ Same(d.res, b) = IF b = c THEN 1 ELSE 0
    BY <2>1 DEF Same
  <2>3. r[b] = Held(n, cl, b) /\ (b = c => r[b] = 0)
    BY <1>2 DEF Counted
  <2>4. /\ Cardinality(NamesOf(n, b)) \in Nat /\ Occurrences(cl.drops, b) \in Nat
        /\ Occurrences(cl.args, b) \in Nat
        /\ Held(n, cl, b) = Cardinality(NamesOf(n, b)) + Occurrences(cl.args, b)
                            + Occurrences(cl.drops, b) + Same(cl.res, b)
        /\ Held(n, d, b) = Cardinality(NamesOf(n, b)) + Occurrences(d.args, b)
                           + Occurrences(d.drops, b) + Same(d.res, b)
    BY HeldType
  <2> QED
    BY <1>3, <2>2, <2>3, <2>4
<1>5. IsInjective(g)
  <2>1. \A i, j \in DOMAIN f : f[i] = f[j] => i = j
    BY DEF Counted, IsInjective
  <2> QED
    BY <1>2, <2>1 DEF IsInjective
<1>6. \A i \in DOMAIN g : q[g[i]] = 0
  <2> TAKE i \in DOMAIN g
  <2>1. i \in DOMAIN f /\ g[i] = f[i] /\ g[i] # c
    BY <1>2
  <2>2. g[i] \in Cells /\ r[g[i]] = 0
    BY <1>1, <2>1 DEF Counted
  <2> QED
    BY <1>3, <2>1, <2>2
<1>7. Counted(q, g, n, d)
  BY <1>3, <1>4, <1>5, <1>6 DEF Counted
<1> QED
  BY <1>2, <1>3, <1>7


\* The first of the references to be dropped goes; memory without references
\* is free, and the free list keeps what it has room for.
LEMMA DroppedCounted ==
  ASSUME refs \in [Cells -> Nat], freelist \in Seq(Cells), Len(freelist) <= FreeListMax,
         call \in CallType, Counted(refs, freelist, names, call),
         call.args = <<>>, call.res = None, call.drops # <<>>,
         call' \in CallType, call'.args = call.args, call'.drops = Tail(call.drops),
         call'.res = call.res,
         NEW c, c = Head(call.drops),
         \A b \in Cells : refs'[b] = IF b = c THEN refs[b] - 1 ELSE refs[b],
         IF c \in Cells /\ refs[c] = 1 /\ Len(freelist) < FreeListMax
           THEN freelist' = Append(freelist, c) ELSE freelist' = freelist
  PROVE  /\ \A b \in Cells : refs'[b] \in Nat
         /\ freelist' \in Seq(Cells) /\ Len(freelist') <= FreeListMax
         /\ Counted(refs', freelist', names, call')
         /\ c \in Cells => refs[c] > 0
<1>1. call.drops \in Seq(References)
  BY HeldType
<1>2. ASSUME NEW b \in Cells
      PROVE  /\ Held(names, call, b) = Same(c, b) + Held(names, call', b)
             /\ Held(names, call', b) \in Nat
  <2>1. Occurrences(call.drops, b)
          = Same(Head(call.drops), b) + Occurrences(Tail(call.drops), b)
    BY <1>1, OccurrencesTail
  <2>2. /\ Cardinality(NamesOf(names, b)) \in Nat /\ Occurrences(call.args, b) \in Nat
        /\ Occurrences(call'.drops, b) \in Nat /\ Same(call.res, b) \in 0..1
        /\ Held(names, call, b) =
             Cardinality(NamesOf(names, b)) + Occurrences(call.args, b)
             + Occurrences(call.drops, b) + Same(call.res, b)
        /\ Held(names, call', b) =
             Cardinality(NamesOf(names, b)) + Occurrences(call'.args, b)
             + Occurrences(call'.drops, b) + Same(call'.res, b)
        /\ Held(names, call', b) \in Nat
    BY HeldType
  <2>3. Same(c, b) \in 0..1
    BY DEF Same
  <2> QED
    BY <2>1, <2>2, <2>3
<1>3. \A b \in Cells : refs[b] = Held(names, call, b) /\ refs[b] \in Nat
  BY DEF Counted
<1>4. c \in Cells => refs[c] > 0
  <2> SUFFICES ASSUME c \in Cells PROVE refs[c] > 0
    OBVIOUS
  <2>1. refs[c] = Same(c, c) + Held(names, call', c) /\ Held(names, call', c) \in Nat
    BY <1>2, <1>3
  <2> QED
    BY <2>1 DEF Same
<1>5. \A b \in Cells : refs'[b] = IF b = c THEN refs[b] - 1 ELSE refs[b]
  OBVIOUS
<1>6. \A b \in Cells : refs'[b] = Held(names, call', b) /\ refs'[b] \in Nat
  <2> TAKE b \in Cells
  <2>1. /\ refs[b] = Same(c, b) + Held(names, call', b) /\ Held(names, call', b) \in Nat
        /\ refs'[b] = IF b = c THEN refs[b] - 1 ELSE refs[b]
    BY <1>2, <1>3, <1>5
  <2> QED
    BY <2>1 DEF Same
<1>7. \A b \in Cells : refs'[b] \in Nat
  BY <1>6
<1>8. /\ Len(freelist) \in Nat /\ DOMAIN freelist = 1..Len(freelist)
      /\ \A i \in 1..Len(freelist) : freelist[i] \in Cells
  OBVIOUS
<1>9. /\ \A i, j \in DOMAIN freelist : freelist[i] = freelist[j] => i = j
      /\ \A i \in DOMAIN freelist : refs[freelist[i]] = 0
  BY DEF Counted, IsInjective
<1>10. \A i \in DOMAIN freelist : freelist[i] # c /\ refs'[freelist[i]] = 0
  <2> TAKE i \in DOMAIN freelist
  <2>1. freelist[i] \in Cells /\ refs[freelist[i]] = 0
    BY <1>8, <1>9
  <2>2. freelist[i] # c
    BY <1>4, <2>1
  <2> QED
    BY <1>5, <2>1, <2>2
<1>11. /\ freelist' \in Seq(Cells) /\ Len(freelist') <= FreeListMax
       /\ IsInjective(freelist')
       /\ \A i \in DOMAIN freelist' : refs'[freelist'[i]] = 0
  <2>1. CASE freelist' = freelist
    BY <1>9, <1>10, <2>1 DEF IsInjective
  <2>2. CASE /\ c \in Cells /\ refs[c] = 1 /\ Len(freelist) < FreeListMax
             /\ freelist' = Append(freelist, c)
    <3>1. /\ freelist' \in Seq(Cells) /\ Len(freelist') = Len(freelist) + 1
          /\ \A i \in 1..Len(freelist) : freelist'[i] = freelist[i]
          /\ freelist'[Len(freelist) + 1] = c
      BY <1>8, <2>2, AppendProperties
    <3>2. DOMAIN freelist' = 1..(Len(freelist) + 1)
      BY <3>1
    <3>3. Len(freelist') <= FreeListMax
      BY <1>8, <2>2, <3>1, PyConstants
    <3>4. refs'[c] = 0
      BY <1>5, <2>2
    <3>5. \A i \in DOMAIN freelist' : i = Len(freelist) + 1 \/ i \in DOMAIN freelist
      BY <1>8, <3>2
    <3>6. \A i \in DOMAIN freelist' : refs'[freelist'[i]] = 0
      BY <1>8, <1>10, <3>1, <3>4, <3>5
    <3>7. \A i, j \in DOMAIN freelist' : freelist'[i] = freelist'[j] => i = j
      BY <1>8, <1>9, <1>10, <3>1, <3>5
    <3> QED
      BY <3>1, <3>3, <3>6, <3>7 DEF IsInjective
  <2> QED
    BY <2>1, <2>2
<1>12. call'.res \notin Cells
  BY PyConstants
<1>13. Counted(refs', freelist', names, call')
  BY <1>6, <1>11, <1>12 DEF Counted
<1> QED
  BY <1>4, <1>7, <1>11, <1>13

\* The statement ends: its references and that of the name it binds again are
\* to be dropped, and the result is the name's.
LEMMA FinishHeld ==
  ASSUME NEW n, NEW cl \in CallType, cl.drops = <<>>, NEW c \in Cells,
         NEW res, NEW lost \in Seq(References), NEW old \in Seq(References),
         NEW m, Cardinality(NamesOf(m, c)) + Occurrences(old, c)
                  = Cardinality(NamesOf(n, c)) + Same(res, c),
         NEW d \in CallType, d.args = <<>>, d.res = None,
         d.drops = cl.args \o lost \o old,
         NEW q \in Nat,
         q + Same(cl.res, c) = Held(n, cl, c) + Same(res, c) + Occurrences(lost, c)
  PROVE  q = Held(m, d, c)
<1>1. cl.args \in Seq(References)
  BY DEF CallType
<1> DEFINE p == cl.args \o lost
           s == p \o old
<1>2. p \in Seq(References)
  BY <1>1, ConcatProperties
<1>3. d.drops = s
  OBVIOUS
<1>4. Occurrences(p, c) = Occurrences(cl.args, c) + Occurrences(lost, c)
  BY <1>1, OccurrencesConcat
<1> HIDE DEF p
<1>5. Occurrences(s, c) = Occurrences(cl.args, c) + Occurrences(lost, c)
                          + Occurrences(old, c)
  <2>1. Occurrences(p \o old, c) = Occurrences(p, c) + Occurrences(old, c)
    BY <1>2, OccurrencesConcat
  <2> QED
    BY <1>4, <2>1
<1> HIDE DEF s
<1>6. Occurrences(d.args, c) = 0 /\ Occurrences(cl.drops, c) = 0
  BY OccurrencesEmpty
<1>7. Same(d.res, c) = 0
  BY PyConstants DEF Same
<1>8. /\ Cardinality(NamesOf(m, c)) \in Nat
      /\ Held(m, d, c) = Cardinality(NamesOf(m, c)) + Occurrences(d.args, c)
                         + Occurrences(d.drops, c) + Same(d.res, c)
  BY NamesCounted DEF Held
<1>9. /\ Cardinality(NamesOf(n, c)) \in Nat
      /\ Occurrences(cl.args, c) \in Nat /\ Same(cl.res, c) \in 0..1
      /\ Held(n, cl, c) = Cardinality(NamesOf(n, c)) + Occurrences(cl.args, c)
                          + Occurrences(cl.drops, c) + Same(cl.res, c)
  BY HeldType
<1>10. /\ Occurrences(lost, c) \in Nat /\ Occurrences(old, c) \in Nat
       /\ Same(res, c) \in 0..1
  BY OccurrencesType DEF Same
<1>11. Held(n, cl, c) = Cardinality(NamesOf(n, c)) + Occurrences(cl.args, c) + Same(cl.res, c)
  BY <1>6, <1>9
<1>12. Held(m, d, c) = Cardinality(NamesOf(m, c)) + Occurrences(cl.args, c)
                       + Occurrences(lost, c) + Occurrences(old, c)
  BY <1>3, <1>5, <1>6, <1>7, <1>8, <1>9, <1>10
<1>13. Held(m, d, c) = Cardinality(NamesOf(n, c)) + Same(res, c) + Occurrences(cl.args, c)
                       + Occurrences(lost, c)
  BY <1>8, <1>9, <1>10, <1>12
<1> QED
  BY <1>9, <1>10, <1>11, <1>13

-----------------------------------------------------------------------------
(* How a statement ends, and what it leaves alone. *)

\* The part of the types that is no storage.
ProgramTyped ==
  /\ refs \in [Cells -> Nat]
  /\ freelist \in Seq(Cells) /\ Len(freelist) <= FreeListMax
  /\ names \in [Names -> Cells \cup {None}]
  /\ call \in CallType
  /\ pc \in {"idle", "convert", "alloc", "compute", "temporary", "product", "sum",
             "items", "next", "clear", "in_place", "precision", "value", "drop"}

LEMMA TypesSplit == PyTypeOK <=> StoreTyped /\ ProgramTyped
  BY DEF PyTypeOK, StoreTyped, ProgramTyped

LEMMA TypesSplitNext == PyTypeOK' <=> StoreTyped' /\ ProgramTyped'
  BY DEF PyTypeOK, StoreTyped, ProgramTyped

\* A call with nothing but references to drop.
Dropping(s) == [op |-> "none", target |-> None, args |-> <<>>, res |-> None,
                drops |-> s, raised |-> FALSE]

LEMMA DropsIdle ==
  ASSUME NEW s, NEW d, d = [Idle EXCEPT !.drops = s]
  PROVE  d = Dropping(s)
BY DEF Idle, Dropping

LEMMA DroppingType ==
  ASSUME NEW s \in Seq(References)
  PROVE  /\ Dropping(s) \in CallType
         /\ Dropping(s).args = <<>> /\ Dropping(s).res = None /\ Dropping(s).drops = s
<1>1. <<>> \in Seq(References)
  OBVIOUS
<1> QED
  BY <1>1 DEF CallType, Dropping

LEMMA FinishKeeps ==
  ASSUME ProgramTyped, Counted(refs, freelist, names, call), call.drops = <<>>,
         NEW res \in Cells \cup {None}, res # None => call.target \in Names,
         NEW lost \in Seq(References), Finish(res, lost), freelist' = freelist,
         refs' \in [Cells -> Nat],
         \A c \in Cells : refs'[c] + Same(call.res, c)
                            = refs[c] + Same(res, c) + Occurrences(lost, c),
         \A c \in Cells : refs[c] = 0 => refs'[c] = 0
  PROVE  /\ ProgramTyped' /\ CallOK'
         /\ Counted(refs', freelist', names', call')
         /\ pc' = "drop"
<1> DEFINE old == IF res = None THEN <<>> ELSE <<names[call.target]>>
           s == call.args \o lost \o old
<1>1. /\ refs \in [Cells -> Nat] /\ freelist \in Seq(Cells) /\ Len(freelist) <= FreeListMax
      /\ names \in [Names -> Cells \cup {None}] /\ call \in CallType
      /\ call.args \in Seq(References)
  BY DEF ProgramTyped, CallType
<1>2. /\ names' = IF res = None THEN names ELSE [names EXCEPT ![call.target] = res]
      /\ call' = [Idle EXCEPT !.drops = s]
      /\ pc' = "drop"
  BY DEF Finish
<1>3. names' \in [Names -> Cells \cup {None}]
  BY <1>1, <1>2
<1>4. \A y \in Names : names'[y] = IF res # None /\ y = call.target THEN res ELSE names[y]
  BY <1>1, <1>2
<1>5. old \in Seq(References)
  <2>1. Cells \cup {None} \subseteq References
    BY PyConstants
  <2>2. res # None => names[call.target] \in References
    BY <1>1, <2>1
  <2> QED
    BY <2>2
<1>6. s \in Seq(References)
  <2>1. call.args \o lost \in Seq(References)
    BY <1>1, ConcatProperties
  <2> HIDE DEF old
  <2> QED
    BY <1>5, <2>1, ConcatProperties
<1>7. (res = None => old = <<>>) /\ (res # None => old = <<names[call.target]>>)
  OBVIOUS
<1>8. ASSUME NEW c \in Cells
      PROVE  Cardinality(NamesOf(names', c)) + Occurrences(old, c)
               = Cardinality(NamesOf(names, c)) + Same(res, c)
  <2> HIDE DEF old
  <2>1. CASE res = None
    <3>1. Same(res, c) = 0 /\ Occurrences(old, c) = 0
      BY <1>7, <2>1, PyConstants, OccurrencesEmpty DEF Same
    <3>2. NamesOf(names', c) = NamesOf(names, c)
      BY <1>4, <2>1 DEF NamesOf
    <3>3. Cardinality(NamesOf(names, c)) \in Nat
      BY NamesCounted
    <3> QED
      BY <3>1, <3>2, <3>3
  <2>2. CASE res # None
    <3> DEFINE x == call.target
               A == NamesOf(names', c)
               B == NamesOf(names, c)
    <3>1. A \in SUBSET Names /\ B \in SUBSET Names /\ x \in Names /\ A \ {x} = B \ {x}
      BY <1>4, <2>2 DEF NamesOf
    <3>2. (x \in A <=> res = c) /\ (x \in B <=> names[x] = c)
      BY <1>4, <2>2 DEF NamesOf
    <3>3. Occurrences(old, c) = Same(names[x], c)
      BY <1>7, <2>2, OccurrencesOne
    <3> HIDE DEF A, B
    <3>4. Cardinality(A) + (IF x \in B THEN 1 ELSE 0)
            = Cardinality(B) + (IF x \in A THEN 1 ELSE 0)
      BY <3>1, NameBound
    <3>5. Cardinality(A) + Same(names[x], c) = Cardinality(B) + Same(res, c)
      BY <3>2, <3>4 DEF Same
    <3> QED
      BY <3>3, <3>5 DEF A, B
  <2> QED
    BY <2>1, <2>2
<1> HIDE DEF old
<1>9. /\ call' \in CallType /\ call'.args = <<>> /\ call'.res = None
      /\ call'.drops = s
  <2>1. call' = Dropping(s)
    BY <1>2, DropsIdle
  <2> HIDE DEF s
  <2> QED
    BY <1>6, <2>1, DroppingType
<1>10. Counted(refs', freelist, names', call')
  <2>1. ASSUME NEW c \in Cells PROVE refs'[c] = Held(names', call', c)
    <3>1. call'.drops = call.args \o lost \o old
      BY <1>9
    <3> HIDE DEF s
    <3>2. refs'[c] + Same(call.res, c)
            = Held(names, call, c) + Same(res, c) + Occurrences(lost, c)
      BY DEF Counted
    <3>3. refs'[c] \in Nat
      OBVIOUS
    <3>4. /\ call \in CallType /\ call.drops = <<>>
          /\ old \in Seq(References)
          /\ Cardinality(NamesOf(names', c)) + Occurrences(old, c)
               = Cardinality(NamesOf(names, c)) + Same(res, c)
          /\ call' \in CallType /\ call'.args = <<>> /\ call'.res = None
      BY <1>1, <1>5, <1>8, <1>9
    <3> QED
      BY <3>1, <3>2, <3>3, <3>4, FinishHeld
  <2>2. \A i \in DOMAIN freelist : refs'[freelist[i]] = 0
    <3> TAKE i \in DOMAIN freelist
    <3>1. freelist[i] \in Cells /\ refs[freelist[i]] = 0
      BY <1>1 DEF Counted
    <3> QED
      BY <3>1
  <2>3. call'.res \notin Cells /\ \A i \in DOMAIN call'.args : FALSE
    BY <1>9, PyConstants
  <2> QED
    BY <2>1, <2>2, <2>3 DEF Counted
<1>11. ProgramTyped'
  BY <1>1, <1>2, <1>3, <1>9 DEF ProgramTyped
<1>12. CallOK'
  BY <1>2, <1>9 DEF CallOK
<1> QED
  BY <1>2, <1>10, <1>11, <1>12

\* A result, or NULL.
LEMMA ReturnKeeps ==
  ASSUME ProgramTyped, Counted(refs, freelist, names, call), call.drops = <<>>,
         call.res # None => call.target \in Names,
         Return \/ Raise
  PROVE  /\ ProgramTyped' /\ CallOK'
         /\ Counted(refs', freelist', names', call')
         /\ pc' = "drop" /\ refs' = refs
<1>1. /\ refs \in [Cells -> Nat] /\ call \in CallType /\ call.res \in Cells \cup {None}
  BY DEF ProgramTyped, CallType
<1>2. refs' = refs /\ freelist' = freelist
  BY DEF Return, Raise
<1>3. CASE Return
  <2>1. Finish(call.res, <<>>) /\ <<>> \in Seq(References)
    BY <1>3 DEF Return
  <2>2. \A c \in Cells : refs'[c] + Same(call.res, c)
                           = refs[c] + Same(call.res, c) + Occurrences(<<>>, c)
    BY <1>1, <1>2, OccurrencesEmpty DEF Same
  <2> QED
    BY <1>1, <1>2, <2>1, <2>2, FinishKeeps
<1>4. CASE Raise
  <2>1. Finish(None, <<call.res>>)
    BY <1>4 DEF Raise
  <2>2. <<call.res>> \in Seq(References)
    BY <1>1, PyConstants
  <2>3. \A c \in Cells : refs'[c] + Same(call.res, c)
                           = refs[c] + Same(None, c) + Occurrences(<<call.res>>, c)
    <3> TAKE c \in Cells
    <3>1. Same(None, c) = 0 /\ Occurrences(<<call.res>>, c) = Same(call.res, c)
      BY PyConstants, OccurrencesOne DEF Same
    <3>2. refs[c] \in Nat /\ Same(call.res, c) \in 0..1
      BY <1>1 DEF Same
    <3> QED
      BY <1>2, <3>1, <3>2
  <2> QED
    BY <1>1, <1>2, <2>1, <2>2, <2>3, FinishKeeps
<1> QED
  BY <1>3, <1>4


-----------------------------------------------------------------------------
(* How a statement starts. *)

LEMMA OwnersSame ==
  ASSUME \A c \in Cells : refs'[c] > 0 <=> refs[c] > 0
  PROVE  Owners' = Owners
  BY DEF Owners

\* The statement x = op(s).
Called(op, x, s) == [op |-> op, target |-> x, args |-> s, res |-> None,
                     drops |-> <<>>, raised |-> FALSE]

\* Operands whose Floats have names.
Named(s, n) ==
  /\ s \in Seq(References)
  /\ \A i \in DOMAIN s : s[i] \in Cells => \E x \in Names : n[x] = s[i]

LEMMA NamedNone == Named(<<>>, names)
  BY DEF Named

LEMMA NamedOne ==
  ASSUME NEW v \in Operands \cup {None}, ProgramTyped
  PROVE  Named(<<v>>, names)
<1>1. v \in References /\ (v \in Cells => \E x \in Names : names[x] = v)
  BY PyConstants DEF Operands, Bound, References, ProgramTyped
<1> QED
  BY <1>1 DEF Named

LEMMA NamedTwo ==
  ASSUME NEW v \in Operands \cup {None}, NEW w \in Operands \cup {None}, ProgramTyped
  PROVE  Named(<<v, w>>, names)
<1>1. v \in References /\ (v \in Cells => \E x \in Names : names[x] = v)
  BY PyConstants DEF Operands, Bound, References, ProgramTyped
<1>2. w \in References /\ (w \in Cells => \E x \in Names : names[x] = w)
  BY PyConstants DEF Operands, Bound, References, ProgramTyped
<1> QED
  BY <1>1, <1>2 DEF Named

LEMMA NamedThree ==
  ASSUME NEW a \in Bound, NEW b \in Bound, NEW c \in Bound, ProgramTyped
  PROVE  Named(<<a, b, c>>, names)
<1>1. a \in References /\ \E x \in Names : names[x] = a
  BY PyConstants DEF Bound, References, ProgramTyped
<1>2. b \in References /\ \E x \in Names : names[x] = b
  BY PyConstants DEF Bound, References, ProgramTyped
<1>3. c \in References /\ \E x \in Names : names[x] = c
  BY PyConstants DEF Bound, References, ProgramTyped
<1> QED
  BY <1>1, <1>2, <1>3 DEF Named

\* References to operands are taken, whatever else happens.
LEMMA TakeKeeps ==
  ASSUME ProgramTyped, Counted(refs, freelist, names, call), call.args = <<>>,
         NEW s, Named(s, names), refs' = WithRefs(s), call' \in CallType,
         call'.args = s, call'.drops = call.drops, call'.res = call.res
  PROVE  /\ refs' \in [Cells -> Nat]
         /\ Counted(refs', freelist, names, call')
         /\ Owners' = Owners
<1>1. /\ refs \in [Cells -> Nat] /\ freelist \in Seq(Cells) /\ call \in CallType
      /\ s \in Seq(References)
      /\ \A i \in DOMAIN s : s[i] \in Cells => \E x \in Names : names[x] = s[i]
      /\ refs' = [c \in Cells |-> refs[c] + Occurrences(s, c)]
      /\ \A c \in Cells : refs'[c] = refs[c] + Occurrences(s, c)
  BY DEF ProgramTyped, Named, WithRefs
<1>2. /\ \A c \in Cells : refs'[c] \in Nat
      /\ Counted(refs', freelist, names, call')
      /\ \A c \in Cells : refs'[c] > 0 <=> refs[c] > 0
  BY <1>1, TakenCounted
<1>3. refs' \in [Cells -> Nat]
  BY <1>1, <1>2
<1> QED
  BY <1>2, <1>3, OwnersSame

LEMMA BeginKeeps ==
  ASSUME PyInv, NEW op, NEW x \in Names \cup {None}, NEW s, Named(s, names), NEW next,
         Begin(op, x, s, next)
  PROVE  /\ pc = "idle" /\ pc' = next
         /\ call' = Called(op, x, s)
         /\ next # "drop" /\ next \in {"convert", "alloc", "in_place", "precision"}
              /\ op \in {"add", "div", "compare", "iadd", "idiv", "neg", "sqrt", "fma",
                         "dot", "new", "init"}
              /\ CallOK' => PyInv'
<1>1. /\ pc = "idle" /\ ~undef
      /\ call' = [Idle EXCEPT !.op = op, !.target = x, !.args = s]
      /\ refs' = WithRefs(s)
      /\ pc' = next
      /\ obj' = obj /\ heap' = heap /\ status' = status /\ undef' = undef
      /\ freelist' = freelist /\ names' = names
  BY DEF Begin, At, storeVars
<1>2. call' = Called(op, x, s)
  BY <1>1 DEF Idle, Called
<1>3. call.args = <<>> /\ call.res = None /\ call.drops = <<>>
  BY <1>1 DEF PyInv, CallOK
<1>4. ASSUME next \in {"convert", "alloc", "in_place", "precision"},
             op \in {"add", "div", "compare", "iadd", "idiv", "neg", "sqrt", "fma",
                     "dot", "new", "init"},
             CallOK'
      PROVE  PyInv'
  <2>1. StoreTyped /\ ProgramTyped
    BY TypesSplit DEF PyInv
  <2>2. call' \in CallType
    <3>1. s \in Seq(References) /\ <<>> \in Seq(References)
      BY DEF Named
    <3> QED
      BY <1>2, <1>4, <3>1 DEF Called, CallType
  <2>3. call'.args = s /\ call'.drops = call.drops /\ call'.res = call.res
    BY <1>2, <1>3 DEF Called
  <2>4. /\ refs' \in [Cells -> Nat]
        /\ Counted(refs', freelist, names, call')
        /\ Owners' = Owners
    BY <1>1, <1>3, <2>1, <2>2, <2>3, TakeKeeps DEF PyInv
  <2>5. PyTypeOK'
    BY <1>1, <1>4, <2>1, <2>2, <2>4, TypesSplitNext DEF StoreTyped, ProgramTyped
  <2>6. Owned(Owners', obj', heap', undef')
    BY <1>1, <2>4 DEF PyInv
  <2>7. TempsOK'
    BY <1>1 DEF PyInv, TempsOK, WithTemporary
  <2> QED
    BY <1>1, <1>4, <2>4, <2>5, <2>6, <2>7 DEF PyInv
<1> QED
  BY <1>1, <1>2, <1>4


\* x = y or del x.
LEMMA AssignKeeps ==
  ASSUME PyInv, Assign
  PROVE  PyInv'
<1>1. PICK x \in Names, to \in Bound \cup {None} :
        /\ names' = [names EXCEPT ![x] = to]
        /\ refs' = WithRefs(<<to>>)
        /\ call' = [Idle EXCEPT !.drops = <<names[x]>>]
  BY DEF Assign
<1>2. /\ pc = "idle" /\ pc' = "drop"
      /\ obj' = obj /\ heap' = heap /\ status' = status /\ undef' = undef
      /\ freelist' = freelist
  BY DEF Assign, At, storeVars
<1>3. /\ StoreTyped /\ ProgramTyped /\ Counted(refs, freelist, names, call)
      /\ call.args = <<>> /\ call.res = None /\ call.drops = <<>>
  BY <1>2, TypesSplit DEF PyInv, CallOK
<1>4. /\ refs \in [Cells -> Nat] /\ freelist \in Seq(Cells) /\ Len(freelist) <= FreeListMax
      /\ names \in [Names -> Cells \cup {None}] /\ call \in CallType
      /\ to \in Cells \cup {None} /\ names[x] \in Cells \cup {None}
  BY <1>3 DEF ProgramTyped, Bound
<1>5. /\ names' \in [Names -> Cells \cup {None}]
      /\ \A y \in Names : names'[y] = IF y = x THEN to ELSE names[y]
  BY <1>1, <1>4
<1> DEFINE d0 == Called("none", None, <<to>>)
           s == <<names[x]>>
<1>6. s \in Seq(References)
  BY <1>4, PyConstants
<1>7. /\ call' \in CallType /\ call'.args = <<>> /\ call'.res = None
      /\ call'.drops = s
  <2>1. call' = Dropping(s)
    BY <1>1, DropsIdle
  <2> HIDE DEF s
  <2> QED
    BY <1>6, <2>1, DroppingType
<1>8. /\ d0 \in CallType /\ d0.args = <<to>> /\ d0.res = None /\ d0.drops = <<>>
  <2>1. <<to>> \in Seq(References) /\ <<>> \in Seq(References)
    BY <1>4, PyConstants
  <2> QED
    BY <2>1 DEF CallType, Called
<1> HIDE DEF d0, s
<1>9. /\ \A c \in Cells : refs'[c] \in Nat
      /\ Counted(refs', freelist, names, d0)
      /\ \A c \in Cells : refs'[c] > 0 <=> refs[c] > 0
  <2> DEFINE t == <<to>>
  <2>1. Named(t, names)
    BY <1>3, NamedOne DEF Operands
  <2>2. \A c \in Cells : refs'[c] = refs[c] + Occurrences(t, c)
    BY <1>1 DEF WithRefs
  <2>3. d0.args = t /\ d0.drops = call.drops /\ d0.res = call.res
    BY <1>3, <1>8
  <2> HIDE DEF t
  <2>4. /\ t \in Seq(References)
        /\ \A i \in DOMAIN t : t[i] \in Cells => \E y \in Names : names[y] = t[i]
    BY <2>1 DEF Named
  <2> QED
    BY <1>3, <1>4, <1>8, <2>2, <2>3, <2>4, TakenCounted
<1>10. ASSUME NEW c \in Cells PROVE refs'[c] = Held(names', call', c)
  <2> DEFINE A == NamesOf(names', c)
             B == NamesOf(names, c)
  <2>1. A \in SUBSET Names /\ B \in SUBSET Names /\ A \ {x} = B \ {x}
    BY <1>5 DEF NamesOf
  <2>2. (x \in A <=> to = c) /\ (x \in B <=> names[x] = c)
    BY <1>5 DEF NamesOf
  <2>3. Cardinality(A) \in Nat /\ Cardinality(B) \in Nat
    BY NamesCounted
  <2>4. Occurrences(<<to>>, c) = Same(to, c) /\ Occurrences(s, c) = Same(names[x], c)
    BY OccurrencesOne DEF s
  <2>5. Occurrences(<<>>, c) = 0 /\ Same(None, c) = 0
    BY PyConstants, OccurrencesEmpty DEF Same
  <2>6. Same(to, c) \in 0..1 /\ Same(names[x], c) \in 0..1
    BY DEF Same
  <2>7. refs'[c] = Cardinality(B) + Same(to, c)
    <3>1. refs'[c] = Held(names, d0, c)
      BY <1>9 DEF Counted
    <3> QED
      BY <1>8, <2>3, <2>4, <2>5, <2>6, <3>1 DEF Held
  <2>8. Held(names', call', c) = Cardinality(A) + Same(names[x], c)
    BY <1>7, <2>3, <2>4, <2>5, <2>6 DEF Held
  <2> HIDE DEF A, B
  <2>9. Cardinality(A) + (IF x \in B THEN 1 ELSE 0)
          = Cardinality(B) + (IF x \in A THEN 1 ELSE 0)
    BY <2>1, NameBound
  <2>10. Cardinality(A) + Same(names[x], c) = Cardinality(B) + Same(to, c)
    BY <2>2, <2>9 DEF Same
  <2> QED
    BY <2>7, <2>8, <2>10
<1>11. Counted(refs', freelist', names', call')
  <2>1. call'.res \notin Cells /\ \A i \in DOMAIN call'.args : FALSE
    BY <1>7, PyConstants
  <2> QED
    BY <1>2, <1>9, <1>10, <2>1 DEF Counted
<1>12. refs' \in [Cells -> Nat]
  BY <1>1, <1>9 DEF WithRefs
<1>13. PyTypeOK'
  BY <1>2, <1>3, <1>4, <1>5, <1>7, <1>12, TypesSplitNext DEF StoreTyped, ProgramTyped
<1>14. CallOK'
  BY <1>2, <1>7 DEF CallOK
<1>15. Owned(Owners', obj', heap', undef')
  <2>1. Owners' = Owners
    BY <1>9, OwnersSame
  <2> QED
    BY <1>2, <2>1 DEF PyInv
<1>16. TempsOK'
  BY <1>2 DEF PyInv, TempsOK, WithTemporary
<1> QED
  BY <1>11, <1>13, <1>14, <1>15, <1>16 DEF PyInv

\* The other statements.
LEMMA StatementKeeps ==
  ASSUME PyInv, Statement
  PROVE  PyInv'
<1>1. ProgramTyped
  BY TypesSplit DEF PyInv
<1>2. Bound \subseteq Cells /\ Bound \subseteq Operands
  BY <1>1 DEF Bound, Operands, ProgramTyped
<1>3. ASSUME NEW op \in {"add", "div", "compare"}, Binary(op) PROVE PyInv'
  <2>1. PICK x \in Names, v \in Operands, w \in Operands :
          Begin(op, x, <<v, w>>,
                IF op # "compare" /\ v \in Cells /\ w \in Cells THEN "alloc" ELSE "convert")
    BY <1>3 DEF Binary
  <2> DEFINE next == IF op # "compare" /\ v \in Cells /\ w \in Cells THEN "alloc"
                     ELSE "convert"
  <2>2. Named(<<v, w>>, names)
    BY <1>1, NamedTwo
  <2>3. (next = "alloc" /\ op # "compare") \/ next = "convert"
    OBVIOUS
  <2> HIDE DEF next
  <2>4. Begin(op, x, <<v, w>>, next)
    BY <2>1 DEF next
  <2>5. pc' = next /\ call' = Called(op, x, <<v, w>>)
    BY <2>2, <2>4, BeginKeeps
  <2>6. CallOK'
    BY <2>3, <2>5, PyConstants DEF CallOK, Called
  <2> QED
    BY <2>2, <2>3, <2>4, <2>6, BeginKeeps
<1>4. ASSUME NEW op \in {"iadd", "idiv"}, Augmented(op) PROVE PyInv'
  <2>1. PICK x \in Names, w \in Bound :
          names[x] # None /\ Begin(op, x, <<names[x], w>>, "in_place")
    BY <1>4 DEF Augmented
  <2>2. names[x] \in Bound
    BY <2>1 DEF Bound
  <2>3. Named(<<names[x], w>>, names)
    BY <1>1, <1>2, <2>2, NamedTwo
  <2>4. pc' = "in_place" /\ call' = Called(op, x, <<names[x], w>>)
    BY <2>1, <2>3, BeginKeeps
  <2>5. CallOK'
    BY <1>2, <2>2, <2>4, PyConstants DEF CallOK, Called
  <2> QED
    BY <2>1, <2>3, <2>5, BeginKeeps
<1>5. CASE Negate
  <2>1. PICK x \in Names, v \in Bound : Begin("neg", x, <<v>>, "alloc")
    BY <1>5 DEF Negate
  <2>2. Named(<<v>>, names)
    BY <1>1, <1>2, NamedOne
  <2>3. pc' = "alloc" /\ call' = Called("neg", x, <<v>>)
    BY <2>1, <2>2, BeginKeeps
  <2>4. CallOK'
    BY <2>3, PyConstants DEF CallOK, Called
  <2> QED
    BY <2>1, <2>2, <2>4, BeginKeeps
<1>6. CASE Sqrt
  <2>1. PICK x \in Names, v \in Operands : Begin("sqrt", x, <<v>>, "convert")
    BY <1>6 DEF Sqrt
  <2>2. Named(<<v>>, names)
    BY <1>1, NamedOne
  <2>3. pc' = "convert" /\ call' = Called("sqrt", x, <<v>>)
    BY <2>1, <2>2, BeginKeeps
  <2>4. CallOK'
    BY <2>3, PyConstants DEF CallOK, Called
  <2> QED
    BY <2>1, <2>2, <2>4, BeginKeeps
<1>7. CASE Fma
  <2>1. PICK x \in Names, a \in Bound, b \in Bound, c \in Bound :
          Begin("fma", x, <<a, b, c>>, "alloc")
    BY <1>7 DEF Fma
  <2>2. Named(<<a, b, c>>, names)
    BY <1>1, NamedThree
  <2>3. pc' = "alloc" /\ call' = Called("fma", x, <<a, b, c>>)
    BY <2>1, <2>2, BeginKeeps
  <2>4. CallOK'
    BY <2>3, PyConstants DEF CallOK, Called
  <2> QED
    BY <2>1, <2>2, <2>4, BeginKeeps
<1>8. CASE Dot
  <2>1. PICK x \in Names : Begin("dot", x, <<>>, "alloc")
    BY <1>8 DEF Dot
  <2>2. Named(<<>>, names)
    BY NamedNone
  <2>3. pc' = "alloc" /\ call' = Called("dot", x, <<>>)
    BY <2>1, <2>2, BeginKeeps
  <2>4. CallOK'
    BY <2>3, PyConstants DEF CallOK, Called
  <2> QED
    BY <2>1, <2>2, <2>4, BeginKeeps
<1>9. CASE New
  <2>1. PICK x \in Names, v \in Operands \cup {None} : Begin("new", x, <<v>>, "alloc")
    BY <1>9 DEF New
  <2>2. Named(<<v>>, names)
    BY <1>1, NamedOne
  <2>3. pc' = "alloc" /\ call' = Called("new", x, <<v>>)
    BY <2>1, <2>2, BeginKeeps
  <2>4. CallOK'
    BY <2>3, PyConstants DEF CallOK, Called
  <2> QED
    BY <2>1, <2>2, <2>4, BeginKeeps
<1>10. CASE InitAgain
  <2>1. PICK y \in Bound, v \in Operands \cup {None} :
          Begin("init", None, <<y, v>>, "precision")
    BY <1>10 DEF InitAgain
  <2>2. Named(<<y, v>>, names)
    BY <1>1, <1>2, NamedTwo
  <2>3. pc' = "precision" /\ call' = Called("init", None, <<y, v>>)
    BY <2>1, <2>2, BeginKeeps
  <2>4. CallOK'
    BY <1>2, <2>3, PyConstants DEF CallOK, Called
  <2> QED
    BY <2>1, <2>2, <2>4, BeginKeeps
<1> QED
  BY <1>3, <1>4, <1>5, <1>6, <1>7, <1>8, <1>9, <1>10, AssignKeeps DEF Statement


-----------------------------------------------------------------------------
(* The steps of a statement. *)

LEMMA InvParts ==
  ASSUME PyInv
  PROVE  /\ StoreTyped /\ ProgramTyped /\ CallOK
         /\ Counted(refs, freelist, names, call)
         /\ Owned(Owners, obj, heap, undef)
         /\ TempsOK
         /\ call \in CallType /\ call.args \in Seq(References)
         /\ call.res \in Cells \cup {None}
         /\ obj \in [Objects -> ObjectType] /\ heap \in [Blocks -> Nat]
         /\ refs \in [Cells -> Nat]
  BY TypesSplit DEF PyInv, StoreTyped, ProgramTyped, CallType

LEMMA InvFromParts ==
  ASSUME StoreTyped', ProgramTyped', CallOK',
         Counted(refs', freelist', names', call'),
         Owned(Owners', obj', heap', undef'), TempsOK'
  PROVE  PyInv'
  BY TypesSplitNext DEF PyInv

\* The result is alive, but has no name; an operand is alive.
LEMMA ResultLives ==
  ASSUME PyInv, call.res \in Cells
  PROVE  /\ call.res \in Owners /\ call.res \in Objects /\ call.res \notin Temps
         /\ \A x \in Names : names[x] # call.res
<1> DEFINE c == call.res
<1>1. refs[c] = 1 /\ refs[c] = Held(names, call, c) /\ call \in CallType
  BY InvParts DEF Counted
<1>2. Same(call.res, c) = 1
  BY DEF Same
<1>3. /\ Cardinality(NamesOf(names, c)) \in Nat
      /\ Occurrences(call.args, c) \in Nat /\ Occurrences(call.drops, c) \in Nat
      /\ Held(names, call, c) =
           Cardinality(NamesOf(names, c)) + Occurrences(call.args, c)
           + Occurrences(call.drops, c) + Same(call.res, c)
  BY <1>1, HeldType
<1>4. Cardinality(NamesOf(names, c)) = 0
  <2>1. 1 = Cardinality(NamesOf(names, c)) + Occurrences(call.args, c)
            + Occurrences(call.drops, c) + 1
    BY <1>1, <1>2, <1>3
  <2> QED
    BY <1>3, <2>1
<1>5. \A x \in Names : names[x] # c
  BY <1>4, Unnamed
<1> QED
  BY <1>1, <1>5, PyConstants DEF Owners

LEMMA OperandLives ==
  ASSUME PyInv, NEW i \in DOMAIN call.args, call.args[i] \in Cells
  PROVE  /\ call.args[i] \in Owners /\ call.args[i] \in Objects
         /\ call.args[i] \notin Temps
<1> DEFINE c == call.args[i]
<1>1. refs[c] = Held(names, call, c) /\ call \in CallType
  BY InvParts DEF Counted
<1>2. Held(names, call, c) > 0
  BY <1>1, HeldLives
<1> QED
  BY <1>1, <1>2, PyConstants DEF Owners

\* The program keeps what it has.
LEMMA StepKeeps ==
  ASSUME PyInv, refs' = refs, freelist' = freelist, names' = names,
         call' \in CallType, call'.args = call.args, call'.res = call.res,
         call'.drops = call.drops,
         pc' \in {"idle", "convert", "alloc", "compute", "temporary", "product", "sum",
                  "items", "next", "clear", "in_place", "precision", "value", "drop"},
         CallOK', StoreTyped', Owned(Owners, obj', heap', undef'), TempsOK'
  PROVE  PyInv'
<1>1. ProgramTyped'
  BY InvParts DEF ProgramTyped
<1>2. Counted(refs', freelist', names', call')
  <2>1. \A c : Held(names, call', c) = Held(names, call, c)
    BY DEF Held
  <2> QED
    BY <2>1, InvParts DEF Counted
<1>3. Owners' = Owners
  BY DEF Owners
<1> QED
  BY <1>1, <1>2, <1>3, InvFromParts

\* The statement ends with its temporaries cleared.
LEMMA EndsKeeps ==
  ASSUME PyInv, pc \notin {"idle", "drop"}, Return \/ Raise,
         StoreTyped', Owned(Owners, obj', heap', undef'),
         \A t \in Temps : obj'[t].limbs \notin Blocks
  PROVE  PyInv'
<1>1. call.drops = <<>> /\ (call.res # None => call.target \in Names)
  BY InvParts DEF CallOK, ProgramTyped
<1>2. /\ ProgramTyped' /\ CallOK'
      /\ Counted(refs', freelist', names', call')
      /\ pc' = "drop" /\ refs' = refs
  BY <1>1, InvParts, ReturnKeeps
<1>3. Owners' = Owners
  BY <1>2 DEF Owners
<1>4. TempsOK'
  BY PyConstants DEF TempsOK
<1> QED
  BY <1>2, <1>3, <1>4, InvFromParts


\* The greatest of up to three numbers is one of them.
LEMMA MaxOfThree ==
  ASSUME NEW a \in Nat, NEW b \in Nat, NEW c \in Nat,
         NEW S \in SUBSET {a, b, c}, S # {}
  PROVE  Max(S) \in Nat
<1>1. \E x \in S : \A y \in S : x >= y
  <2>1. CASE c \in S /\ (a \in S => c >= a) /\ (b \in S => c >= b)
    BY <2>1
  <2>2. CASE b \in S /\ (a \in S => b >= a) /\ (c \in S => b >= c)
    BY <2>2
  <2>3. CASE a \in S /\ (b \in S => a >= b) /\ (c \in S => a >= c)
    BY <2>3
  <2>4. \/ c \in S /\ (a \in S => c >= a) /\ (b \in S => c >= b)
        \/ b \in S /\ (a \in S => b >= a) /\ (c \in S => b >= c)
        \/ a \in S /\ (b \in S => a >= b) /\ (c \in S => a >= c)
    <3>1. a \in S \/ b \in S \/ c \in S
      OBVIOUS
    <3> QED
      BY <3>1
  <2> QED
    BY <2>1, <2>2, <2>3, <2>4
<1>2. Max(S) \in S
  BY <1>1 DEF Max
<1> QED
  BY <1>2

LEMMA PrecisionType ==
  ASSUME PyInv
  PROVE  ResultPrecision \in Nat
<1>1. CASE Floats = {} \/ call.op \in {"new", "dot"}
  BY <1>1, PyConstants DEF ResultPrecision
<1>2. CASE Floats # {} /\ call.op \notin {"new", "dot"}
  <2> DEFINE p(i) == IF i \in DOMAIN call.args /\ call.args[i] \in Cells
                       THEN obj[call.args[i]].precision ELSE 0
             S == {obj[c].precision : c \in Floats}
  <2>1. \A c \in Cells : obj[c].precision \in Nat
    BY InvParts, PyConstants DEF ObjectType
  <2>2. p(1) \in Nat /\ p(2) \in Nat /\ p(3) \in Nat
    BY <2>1
  <2>3. DOMAIN call.args \subseteq 1..3
    <3>1. call.args \in Seq(References) /\ Len(call.args) <= 3
      BY InvParts DEF CallOK
    <3> QED
      BY <3>1
  <2>4. S \in SUBSET {p(1), p(2), p(3)}
    <3>1. ASSUME NEW c \in Floats PROVE obj[c].precision \in {p(1), p(2), p(3)}
      <4>1. PICK i \in DOMAIN call.args : call.args[i] = c /\ c \in Cells
        BY DEF Floats
      <4>2. i \in 1..3 /\ p(i) = obj[c].precision
        BY <2>3, <4>1
      <4>3. i = 1 \/ i = 2 \/ i = 3
        BY <4>2
      <4> QED
        BY <4>2, <4>3
    <3> QED
      BY <3>1
  <2>5. S # {}
    BY <1>2
  <2>6. ResultPrecision = Max(S)
    BY <1>2 DEF ResultPrecision
  <2> HIDE DEF p, S
  <2> QED
    BY <2>2, <2>4, <2>5, <2>6, MaxOfThree
<1> QED
  BY <1>1, <1>2

\* A new object is typed, and has the inline limb.
LEMMA FreshType ==
  ASSUME NEW p \in Nat
  PROVE  /\ Fresh(p) \in ObjectType
         /\ Fresh(p).limbs = Inline /\ Fresh(p).capacity = 1 /\ Fresh(p).used = 0
         /\ \A n \in 0..1 :
              /\ [Fresh(p) EXCEPT !.used = n] \in ObjectType
              /\ [Fresh(p) EXCEPT !.used = n].limbs = Inline
              /\ [Fresh(p) EXCEPT !.used = n].capacity = 1
              /\ [Fresh(p) EXCEPT !.used = n].used = n
<1>1. Fresh(p) = [limbs |-> Inline, capacity |-> 1, precision |-> p, used |-> 0]
  BY DEF Fresh
<1>2. Fresh(p) \in ObjectType
  BY <1>1 DEF ObjectType
<1>3. ASSUME NEW n \in 0..1
      PROVE  /\ [Fresh(p) EXCEPT !.used = n] \in ObjectType
             /\ [Fresh(p) EXCEPT !.used = n].limbs = Inline
             /\ [Fresh(p) EXCEPT !.used = n].capacity = 1
             /\ [Fresh(p) EXCEPT !.used = n].used = n
  BY <1>1 DEF ObjectType
<1> QED
  BY <1>1, <1>2, <1>3

\* Operands are converted into temporaries.
LEMMA ConvertStorage ==
  ASSUME PyInv, pc = "convert", NEW n \in 0..1,
         obj' = [o \in Objects |->
                   IF \E i \in DOMAIN call.args : call.args[i] = Number /\ Place(i) = o
                     THEN [Fresh(ResultPrecision) EXCEPT !.used = n] ELSE obj[o]],
         heap' = heap, status' = status, undef' = undef
  PROVE  /\ StoreTyped'
         /\ Owned(Owners, obj', heap', undef')
         /\ \A o \in Objects \ {V, W} : obj'[o] = obj[o]
         /\ obj'[V].limbs \notin Blocks /\ obj'[W].limbs \notin Blocks
<1> DEFINE f == [Fresh(ResultPrecision) EXCEPT !.used = n]
           Y == {o \in Objects : \E i \in DOMAIN call.args : call.args[i] = Number /\ Place(i) = o}
<1>1. /\ f \in ObjectType /\ f.limbs = Inline /\ f.capacity = 1 /\ f.used = n
  BY PrecisionType, FreshType
<1>2. obj' = [o \in Objects |-> IF o \in Y THEN f ELSE obj[o]]
  OBVIOUS
<1>3. Y \subseteq {V, W}
  <2> SUFFICES ASSUME NEW i \in DOMAIN call.args, call.args[i] = Number
               PROVE  Place(i) \in {V, W}
    OBVIOUS
  <2>1. call.args \in Seq(References) /\ Len(call.args) <= 2
    BY InvParts DEF CallOK
  <2>2. i = 1 \/ i = 2
    BY <2>1
  <2>3. call.args[i] \notin Cells
    BY PyConstants
  <2> QED
    BY <2>2, <2>3 DEF Place
<1> HIDE DEF f, Y
<1>4. {V, W} \subseteq Owners /\ Owners \in SUBSET Objects /\ Inline \notin Blocks
  BY PyConstants
<1>5. \A o \in Objects : obj'[o] = IF o \in Y THEN f ELSE obj[o]
  BY <1>2
<1>6. obj' \in [Objects -> ObjectType]
  <2>1. \A o \in Objects : (IF o \in Y THEN f ELSE obj[o]) \in ObjectType
    BY <1>1, InvParts
  <2> QED
    BY <1>2, <2>1
<1>7. Owned(Owners \cup Y, obj', heap, undef)
  <2>1. /\ Owned(Owners, obj, heap, undef) /\ Y \in SUBSET Objects
        /\ \A y \in Y \cap Owners : obj[y].limbs \notin Blocks
    BY <1>3, <1>4, InvParts DEF TempsOK
  <2>2. \A x \in Owners \ Y : obj'[x] = obj[x]
    BY <1>4, <1>5
  <2>3. \A y \in Y : obj'[y].limbs = Inline /\ obj'[y].capacity = 1 /\ obj'[y].used <= 1
    <3>1. \A y \in Y : obj'[y] = f
      BY <1>3, <1>4, <1>5
    <3>2. f.limbs = Inline /\ f.capacity = 1 /\ f.used <= 1
      BY <1>1
    <3> QED
      BY <3>1, <3>2
  <2> QED
    BY <1>4, <2>1, <2>2, <2>3, OwnedInline
<1>8. Owners \cup Y = Owners
  BY <1>3, <1>4
<1>9. obj'[V].limbs \notin Blocks /\ obj'[W].limbs \notin Blocks
  BY <1>1, <1>4, <1>5, InvParts DEF TempsOK
<1> QED
  BY <1>3, <1>5, <1>6, <1>7, <1>8, <1>9, InvParts DEF StoreTyped

LEMMA ConvertKeeps ==
  ASSUME PyInv, ConvertOperands
  PROVE  PyInv'
<1>1. pc = "convert"
  BY DEF ConvertOperands, At
<1>2. call.op \in {"add", "div", "compare", "sqrt", "dot"}
  BY <1>1, InvParts DEF CallOK
<1>3. CASE ConvertFails
  <2>1. obj' = obj /\ heap' = heap /\ status' = status /\ undef' = undef
    BY <1>3 DEF ConvertFails, storeVars
  <2>2. /\ StoreTyped' /\ Owned(Owners, obj', heap', undef')
    BY <2>1, InvParts DEF StoreTyped
  <2>3. CASE call.op = "dot"
    <3>1. /\ pc' = "next" /\ refs' = refs /\ freelist' = freelist /\ names' = names
          /\ call' = call
      BY <1>3, <2>3 DEF ConvertFails
    <3>2. CallOK'
      BY <1>1, <2>3, <3>1, InvParts DEF CallOK
    <3>3. TempsOK'
      BY <1>1, <2>1, <3>1, InvParts DEF TempsOK, WithTemporary
    <3> QED
      BY <2>2, <3>1, <3>2, <3>3, InvParts, StepKeeps
  <2>4. CASE call.op # "dot"
    <3>1. Raise
      BY <1>3, <2>4 DEF ConvertFails
    <3>2. \A t \in Temps : obj'[t].limbs \notin Blocks
      BY <1>2, <2>1, <2>4, InvParts DEF TempsOK, Temps
    <3> QED
      BY <1>1, <2>2, <3>1, <3>2, EndsKeeps
  <2> QED
    BY <2>3, <2>4
<1>4. ASSUME NEW next, Convert(next),
             \/ call.op = "compare" /\ next = "clear"
             \/ call.op = "dot" /\ next = "product"
             \/ call.op \in {"add", "div", "sqrt"} /\ next = "alloc"
      PROVE  PyInv'
  <2>1. PICK n \in 0..1 :
          obj' = [o \in Objects |->
                    IF \E i \in DOMAIN call.args : call.args[i] = Number /\ Place(i) = o
                      THEN [Fresh(ResultPrecision) EXCEPT !.used = n] ELSE obj[o]]
    BY <1>4 DEF Convert
  <2>2. /\ heap' = heap /\ status' = status /\ undef' = undef
        /\ refs' = refs /\ freelist' = freelist /\ names' = names /\ call' = call
        /\ pc' = next
    BY <1>4 DEF Convert
  <2>3. /\ StoreTyped'
        /\ Owned(Owners, obj', heap', undef')
        /\ \A o \in Objects \ {V, W} : obj'[o] = obj[o]
        /\ obj'[V].limbs \notin Blocks /\ obj'[W].limbs \notin Blocks
    BY <1>1, <2>1, <2>2, ConvertStorage
  <2>4. CallOK'
    BY <1>1, <1>4, <2>2, InvParts DEF CallOK
  <2>5. TempsOK'
    <3>1. obj'[Tmp] = obj[Tmp]
      BY <2>3, PyConstants
    <3> QED
      BY <1>1, <1>4, <2>2, <2>3, <3>1, InvParts DEF TempsOK, WithTemporary
  <2>6. call' \in CallType
    BY <2>2, InvParts
  <2> QED
    BY <1>4, <2>2, <2>3, <2>4, <2>5, <2>6, StepKeeps
<1> QED
  BY <1>2, <1>3, <1>4 DEF ConvertOperands


LEMMA AllocKeeps ==
  ASSUME PyInv, Alloc
  PROVE  PyInv'
<1>1. PICK c \in Cells :
        /\ IF freelist = <<>> THEN refs[c] = 0 ELSE c = Last(freelist)
        /\ refs' = [refs EXCEPT ![c] = 1]
        /\ obj' = [obj EXCEPT ![c] = Reset(c, ResultPrecision)]
        /\ call' = [call EXCEPT !.res = c]
  BY DEF Alloc
<1>2. /\ pc = "alloc"
      /\ freelist' = IF freelist = <<>> THEN <<>> ELSE Front(freelist)
      /\ pc' = CASE call.op = "new"              -> "precision"
                 [] call.op \in {"fma", "dot"}   -> "temporary"
                 [] OTHER                        -> "compute"
      /\ heap' = heap /\ status' = status /\ undef' = undef /\ names' = names
  BY DEF Alloc, At
<1>3. /\ call.op \in {"add", "div", "neg", "sqrt", "fma", "dot", "new"}
      /\ call.res = None /\ call.drops = <<>>
  BY <1>2, InvParts DEF CallOK
<1>4. \/ call.op = "new" /\ pc' = "precision"
      \/ call.op \in {"fma", "dot"} /\ pc' = "temporary"
      \/ call.op \in {"add", "div", "neg", "sqrt"} /\ pc' = "compute"
  BY <1>2, <1>3
<1>5. /\ call' \in CallType /\ call'.op = call.op /\ call'.target = call.target
      /\ call'.args = call.args /\ call'.res = c /\ call'.drops = call.drops
  BY <1>1, InvParts DEF CallType
<1>6. /\ freelist \in Seq(Cells) /\ Len(freelist) <= FreeListMax
      /\ names \in [Names -> Cells \cup {None}]
  BY InvParts DEF ProgramTyped
<1>7. /\ freelist' \in Seq(Cells) /\ Len(freelist') <= Len(freelist)
      /\ refs[c] = 0
      /\ Counted(refs', freelist', names, call')
  <2>1. \A b \in Cells : refs'[b] = IF b = c THEN 1 ELSE refs[b]
    BY <1>1, InvParts
  <2>2. /\ call \in CallType /\ refs \in [Cells -> Nat]
        /\ freelist \in Seq(Cells)
        /\ Counted(refs, freelist, names, call)
    BY <1>6, InvParts
  <2>3. /\ freelist = <<>> => refs[c] = 0
        /\ freelist # <<>> => c = Last(freelist)
        /\ freelist = <<>> => freelist' = <<>>
        /\ freelist # <<>> => freelist' = Front(freelist)
    BY <1>1, <1>2
  <2>4. /\ call.res = None /\ call' \in CallType
        /\ call'.args = call.args /\ call'.drops = call.drops /\ call'.res = c
    BY <1>3, <1>5
  <2> QED
    BY <2>1, <2>2, <2>3, <2>4, HandedOutCounted
<1>8. refs' \in [Cells -> Nat]
  BY <1>1, InvParts
<1>9. ProgramTyped'
  <2>1. Len(freelist') <= FreeListMax
    <3>1. Len(freelist') \in Nat /\ Len(freelist) \in Nat
      BY <1>6, <1>7
    <3> QED
      BY <1>6, <1>7, <3>1, PyConstants
  <2> QED
    BY <1>2, <1>4, <1>5, <1>6, <1>7, <1>8, <2>1 DEF ProgramTyped
<1>10. CallOK'
  BY <1>2, <1>3, <1>4, <1>5, InvParts DEF CallOK
<1>11. Owners' = Owners \cup {c} /\ c \notin Owners
  BY <1>1, <1>7, InvParts, PyConstants DEF Owners
<1> DEFINE r == Fresh(ResultPrecision)
<1>12. r \in ObjectType /\ r.limbs = Inline /\ r.capacity = 1 /\ r.used = 0
  BY PrecisionType, FreshType
<1>13. /\ obj' = [obj EXCEPT ![c] = r] /\ c \in Objects /\ Owners \in SUBSET Objects
  BY <1>1, PyConstants DEF Reset
<1> HIDE DEF r
<1>14. /\ obj' \in [Objects -> ObjectType]
       /\ obj'[c] = r
       /\ \A y \in Objects \ {c} : obj'[y] = obj[y]
  BY <1>12, <1>13, InvParts
<1>15. StoreTyped'
  BY <1>2, <1>14, InvParts DEF StoreTyped
<1>16. Owned(Owners \cup {c}, obj', heap, undef)
  <2>1. Owned(Owners, obj, heap, undef)
    BY InvParts
  <2>2. /\ {c} \in SUBSET Objects
        /\ \A y \in {c} \cap Owners : obj[y].limbs \notin Blocks
        /\ \A x \in Owners \ {c} : obj'[x] = obj[x]
    BY <1>11, <1>13, <1>14
  <2>3. \A y \in {c} : obj'[y].limbs = Inline /\ obj'[y].capacity = 1 /\ obj'[y].used <= 1
    BY <1>12, <1>14
  <2> QED
    BY <1>13, <2>1, <2>2, <2>3, OwnedInline
<1>17. Owned(Owners', obj', heap', undef')
  BY <1>2, <1>11, <1>16
<1>18. TempsOK'
  <2>1. \A t \in Temps : obj'[t] = obj[t]
    BY <1>14, PyConstants
  <2>2. obj[Tmp].limbs \notin Blocks
    BY <1>2, InvParts DEF TempsOK, WithTemporary
  <2> QED
    BY <2>1, <2>2, PyConstants, InvParts DEF TempsOK
<1>19. Counted(refs', freelist', names', call')
  BY <1>2, <1>7
<1> QED
  BY <1>9, <1>10, <1>15, <1>17, <1>18, <1>19, InvFromParts

LEMMA AllocFailsKeeps ==
  ASSUME PyInv, AllocFails
  PROVE  PyInv'
<1>1. /\ pc = "alloc" /\ pc' = "clear"
      /\ call' = [call EXCEPT !.raised = TRUE]
      /\ obj' = obj /\ heap' = heap /\ status' = status /\ undef' = undef
      /\ refs' = refs /\ freelist' = freelist /\ names' = names
  BY DEF AllocFails, At, storeVars
<1>2. /\ call' \in CallType /\ call'.op = call.op /\ call'.target = call.target
      /\ call'.args = call.args /\ call'.res = call.res /\ call'.drops = call.drops
  BY <1>1, InvParts DEF CallType
<1>3. CallOK'
  BY <1>1, <1>2, InvParts DEF CallOK
<1>4. StoreTyped' /\ Owned(Owners, obj', heap', undef')
  BY <1>1, InvParts DEF StoreTyped
<1>5. TempsOK'
  BY <1>1, <1>2, InvParts DEF TempsOK, WithTemporary
<1> QED
  BY <1>1, <1>2, <1>3, <1>4, <1>5, StepKeeps

\* A step that has one call write one object x, no temporary of an operand.
LEMMA WriteKeeps ==
  ASSUME PyInv, NEW x \in Objects \ {V, W}, OnlyWrites(x),
         refs' = refs, freelist' = freelist, names' = names, call' = call,
         pc' \in {"clear", "sum", "next", "product", "items", "value"},
         CallOK',
         x = Tmp \/ obj[Tmp].limbs \in Blocks =>
           call.op \in {"fma", "dot"} /\ pc' \in WithTemporary
  PROVE  PyInv'
<1>1. /\ StoreTyped' /\ Owned(Owners, obj', heap', undef')
      /\ \A y \in Objects \ {x} : obj'[y] = obj[y]
  BY DEF OnlyWrites
<1>2. obj'[V] = obj[V] /\ obj'[W] = obj[W] /\ (x # Tmp => obj'[Tmp] = obj[Tmp])
  BY <1>1, PyConstants
<1>3. TempsOK'
  BY <1>2, InvParts DEF TempsOK
<1>4. call' \in CallType
  BY InvParts
<1> QED
  BY <1>1, <1>3, <1>4, StepKeeps

LEMMA ComputeKeeps ==
  ASSUME PyInv, Compute
  PROVE  PyInv'
<1>1. /\ pc = "compute" /\ pc' = "clear" /\ call' = call
      /\ refs' = refs /\ freelist' = freelist /\ names' = names
  BY DEF Compute, At, Continue
<1>2. /\ call.op \in {"add", "div", "neg", "sqrt"} /\ call.res \in Cells
      /\ (call.op = "neg" => call.args # <<>>)
  BY <1>1, InvParts DEF CallOK
<1>3. /\ call.res \in Owners /\ call.res \in Objects \ {V, W} /\ call.res # Tmp
  BY <1>2, ResultLives, PyConstants DEF Temps
<1>4. StoreTyped /\ Owned(Owners, obj, heap, undef)
  BY InvParts
<1>5. OnlyWrites(call.res)
  <2>1. CASE call.op = "neg"
    <3>1. Copies(call.res, obj[Place(1)].used)
      BY <2>1 DEF Compute
    <3>2. Place(1) \in Objects
      BY PyConstants DEF Place
    <3>3. obj[Place(1)].used \in Nat
      BY <3>2, InvParts DEF ObjectType
    <3> QED
      BY <1>3, <1>4, <3>1, <3>3, CopiesKeeps
  <2>2. CASE call.op = "add"
    <3>1. Computes(call.res)
      BY <2>2 DEF Compute
    <3> QED
      BY <1>3, <1>4, <3>1, ComputesKeeps
  <2>3. CASE call.op = "div"
    <3>1. Computes(call.res) \/ Fails("division_by_zero")
      BY <2>3 DEF Compute
    <3> QED
      BY <1>3, <1>4, <3>1, ComputesKeeps, FailsKeeps
  <2>4. CASE call.op = "sqrt"
    <3>1. Computes(call.res) \/ Fails("invalid_argument")
      BY <2>4 DEF Compute
    <3> QED
      BY <1>3, <1>4, <3>1, ComputesKeeps, FailsKeeps
  <2> QED
    BY <1>2, <2>1, <2>2, <2>3, <2>4
<1>6. CallOK'
  BY <1>1, <1>2, InvParts DEF CallOK
<1>7. ~(call.res = Tmp \/ obj[Tmp].limbs \in Blocks)
  BY <1>1, <1>3, InvParts DEF TempsOK, WithTemporary
<1> QED
  BY <1>1, <1>3, <1>5, <1>6, <1>7, WriteKeeps


LEMMA TemporaryKeeps ==
  ASSUME PyInv, Temporary
  PROVE  PyInv'
<1>1. /\ pc = "temporary" /\ pc' = IF call.op = "fma" THEN "product" ELSE "items"
      /\ call' = call /\ refs' = refs /\ freelist' = freelist /\ names' = names
      /\ heap' = heap /\ undef' = undef /\ status' = "ok"
      /\ obj[Tmp].limbs = Null
      /\ obj' = [obj EXCEPT ![Tmp] = Fresh(obj[call.res].precision)]
  BY DEF Temporary, At, Continue, InitObject, KeepsHeap
<1>2. call.op \in {"fma", "dot"} /\ call.res \in Cells
  BY <1>1, InvParts DEF CallOK
<1> DEFINE r == Fresh(obj[call.res].precision)
<1>3. r \in ObjectType /\ r.limbs = Inline /\ r.capacity = 1 /\ r.used = 0
  <2>1. obj[call.res].precision \in Nat
    BY <1>2, InvParts, PyConstants DEF ObjectType
  <2> QED
    BY <2>1, FreshType
<1>4. obj' = [obj EXCEPT ![Tmp] = r]
  BY <1>1
<1> HIDE DEF r
<1>5. /\ Tmp \in Owners /\ Tmp \in Objects /\ Owners \in SUBSET Objects
      /\ Null \notin Blocks /\ Inline \notin Blocks
  BY PyConstants
<1>6. /\ obj' \in [Objects -> ObjectType] /\ obj'[Tmp] = r
      /\ \A y \in Objects \ {Tmp} : obj'[y] = obj[y]
  BY <1>3, <1>4, <1>5, InvParts
<1>7. StoreTyped'
  BY <1>1, <1>6, InvParts DEF StoreTyped
<1>8. Owned(Owners \cup {Tmp}, obj', heap, undef)
  <2>1. Owned(Owners, obj, heap, undef)
    BY InvParts
  <2>2. /\ {Tmp} \in SUBSET Objects
        /\ \A y \in {Tmp} \cap Owners : obj[y].limbs \notin Blocks
        /\ \A x \in Owners \ {Tmp} : obj'[x] = obj[x]
    BY <1>1, <1>5, <1>6
  <2>3. \A y \in {Tmp} : obj'[y].limbs = Inline /\ obj'[y].capacity = 1 /\ obj'[y].used <= 1
    BY <1>3, <1>6
  <2> QED
    BY <1>5, <2>1, <2>2, <2>3, OwnedInline
<1>9. Owned(Owners, obj', heap', undef')
  <2>1. Owners \cup {Tmp} = Owners
    BY <1>5
  <2> QED
    BY <1>1, <1>8, <2>1
<1>10. CallOK'
  BY <1>1, <1>2, InvParts DEF CallOK
<1>11. TempsOK'
  <2>1. obj'[V] = obj[V] /\ obj'[W] = obj[W]
    BY <1>6, PyConstants
  <2>2. obj'[Tmp].limbs \notin Blocks
    BY <1>3, <1>5, <1>6
  <2> QED
    BY <2>1, <2>2, InvParts DEF TempsOK
<1>12. call' \in CallType
  BY <1>1, InvParts
<1> QED
  BY <1>1, <1>7, <1>9, <1>10, <1>11, <1>12, StepKeeps

LEMMA ProductKeeps ==
  ASSUME PyInv, Product
  PROVE  PyInv'
<1>1. /\ pc = "product" /\ pc' = "sum" /\ call' = call
      /\ refs' = refs /\ freelist' = freelist /\ names' = names
      /\ Computes(Tmp)
  BY DEF Product, At, Continue
<1>2. call.op \in {"fma", "dot"}
  BY <1>1, InvParts DEF CallOK
<1>3. Tmp \in Owners /\ Tmp \in Objects \ {V, W}
  BY PyConstants
<1>4. OnlyWrites(Tmp)
  BY <1>1, <1>3, InvParts, ComputesKeeps
<1>5. CallOK'
  BY <1>1, <1>2, InvParts DEF CallOK
<1>6. pc' \in WithTemporary
  BY <1>1 DEF WithTemporary
<1> QED
  BY <1>1, <1>2, <1>3, <1>4, <1>5, <1>6, WriteKeeps

LEMMA SumKeeps ==
  ASSUME PyInv, Sum
  PROVE  PyInv'
<1>1. /\ pc = "sum" /\ pc' = (IF call.op = "fma" THEN "clear" ELSE "next")
      /\ call' = call /\ refs' = refs /\ freelist' = freelist /\ names' = names
      /\ Computes(call.res)
  BY DEF Sum, At, Continue
<1>2. call.op \in {"fma", "dot"} /\ call.res \in Cells
  BY <1>1, InvParts DEF CallOK
<1>3. call.res \in Owners /\ call.res \in Objects \ {V, W}
  BY <1>2, ResultLives, PyConstants DEF Temps
<1>4. OnlyWrites(call.res)
  BY <1>1, <1>3, InvParts, ComputesKeeps
<1>5. CallOK'
  BY <1>1, <1>2, InvParts DEF CallOK
<1>6. pc' \in WithTemporary /\ pc' \in {"clear", "next"}
  BY <1>1 DEF WithTemporary
<1> QED
  BY <1>1, <1>2, <1>3, <1>4, <1>5, <1>6, WriteKeeps

LEMMA ItemsKeeps ==
  ASSUME PyInv, Items
  PROVE  PyInv'
<1>1. /\ pc = "items"
      /\ obj' = obj /\ heap' = heap /\ status' = status /\ undef' = undef
      /\ freelist' = freelist /\ names' = names
  BY DEF Items, At, storeVars
<1>2. call.op = "dot" /\ call.args = <<>> /\ call.drops = <<>> /\ call.res \in Cells
  BY <1>1, InvParts DEF CallOK
<1>3. StoreTyped' /\ Owned(Owners, obj', heap', undef')
  BY <1>1, InvParts DEF StoreTyped
<1>4. CASE \E v, w \in Operands :
             /\ call' = [call EXCEPT !.args = <<v, w>>]
             /\ refs' = WithRefs(<<v, w>>)
             /\ pc' = "convert"
  <2>1. PICK v \in Operands, w \in Operands :
             /\ call' = [call EXCEPT !.args = <<v, w>>]
             /\ refs' = WithRefs(<<v, w>>)
             /\ pc' = "convert"
    BY <1>4
  <2> DEFINE s == <<v, w>>
  <2>2. Named(s, names)
    BY InvParts, NamedTwo
  <2>3. Len(s) = 2
    OBVIOUS
  <2>4. call' = [call EXCEPT !.args = s] /\ refs' = WithRefs(s)
    BY <2>1
  <2> HIDE DEF s
  <2>5. s \in Seq(References)
    BY <2>2 DEF Named
  <2>6. /\ call' \in CallType /\ call'.op = call.op /\ call'.target = call.target
        /\ call'.args = s /\ call'.res = call.res /\ call'.drops = call.drops
    BY <2>4, <2>5, InvParts DEF CallType
  <2>7. /\ refs' \in [Cells -> Nat]
        /\ Counted(refs', freelist, names, call')
        /\ Owners' = Owners
    BY <1>2, <2>2, <2>4, <2>6, InvParts, TakeKeeps
  <2>8. ProgramTyped'
    BY <1>1, <2>1, <2>6, <2>7, InvParts DEF ProgramTyped
  <2>9. CallOK'
    BY <1>1, <1>2, <2>1, <2>3, <2>6, InvParts DEF CallOK
  <2>10. TempsOK'
    BY <1>1, <1>2, <2>1, <2>6, InvParts DEF TempsOK, WithTemporary
  <2> QED
    BY <1>1, <1>3, <2>7, <2>8, <2>9, <2>10, InvFromParts
<1>5. CASE \E raised \in BOOLEAN :
             /\ call' = [call EXCEPT !.raised = raised]
             /\ pc' = "clear"
             /\ UNCHANGED refs
  <2>1. PICK raised \in BOOLEAN : call' = [call EXCEPT !.raised = raised]
    BY <1>5
  <2>2. /\ call' \in CallType /\ call'.op = call.op /\ call'.target = call.target
        /\ call'.args = call.args /\ call'.res = call.res /\ call'.drops = call.drops
    BY <2>1, InvParts DEF CallType
  <2>3. pc' = "clear" /\ refs' = refs
    BY <1>5
  <2>4. CallOK'
    BY <1>1, <1>2, <2>2, <2>3, InvParts DEF CallOK
  <2>5. TempsOK'
    BY <1>1, <1>2, <2>2, <2>3, InvParts DEF TempsOK, WithTemporary
  <2> QED
    BY <1>1, <1>3, <2>2, <2>3, <2>4, <2>5, StepKeeps
<1> QED
  BY <1>4, <1>5 DEF Items

LEMMA NextItemKeeps ==
  ASSUME PyInv, NextItem
  PROVE  PyInv'
<1>1. /\ pc = "next" /\ pc' = "items"
      /\ Clears({V, W})
      /\ refs' = [c \in Cells |-> refs[c] - Occurrences(call.args, c)]
      /\ call' = [call EXCEPT !.args = <<>>]
      /\ freelist' = freelist /\ names' = names
  BY DEF NextItem, At
<1>2. call.op = "dot" /\ call.drops = <<>> /\ call.res \in Cells
  BY <1>1, InvParts DEF CallOK
<1>3. /\ call' \in CallType /\ call'.op = call.op /\ call'.target = call.target
      /\ call'.args = <<>> /\ call'.res = call.res /\ call'.drops = call.drops
  <2>1. <<>> \in Seq(References)
    OBVIOUS
  <2> QED
    BY <1>1, <2>1, InvParts DEF CallType
<1>4. freelist \in Seq(Cells)
  BY InvParts DEF ProgramTyped
<1>5. /\ \A c \in Cells : refs'[c] \in Nat
      /\ Counted(refs', freelist, names, call')
      /\ \A c \in Cells : refs'[c] > 0 <=> refs[c] > 0
  <2>1. \A c \in Cells : refs'[c] = refs[c] - Occurrences(call.args, c)
    BY <1>1
  <2>2. /\ refs \in [Cells -> Nat] /\ call \in CallType
        /\ Counted(refs, freelist, names, call)
    BY InvParts
  <2> QED
    BY <1>3, <1>4, <2>1, <2>2, GivenBackCounted
<1>6. refs' \in [Cells -> Nat]
  BY <1>1, <1>5
<1>7. ProgramTyped'
  BY <1>1, <1>3, <1>6, InvParts DEF ProgramTyped
<1>8. CallOK'
  BY <1>1, <1>2, <1>3, InvParts DEF CallOK
<1>9. Owners' = Owners
  BY <1>5, OwnersSame
<1>10. /\ StoreTyped'
       /\ Owned(Owners, obj', heap', undef')
       /\ \A y \in Objects \ {V, W} : obj'[y] = obj[y]
       /\ \A y \in {V, W} : obj'[y].limbs \notin Blocks
  <2>1. {V, W} \in SUBSET Temps
    BY PyConstants
  <2> QED
    BY <1>1, <2>1, InvParts, ClearsKeeps
<1>11. TempsOK'
  <2>1. obj'[Tmp] = obj[Tmp]
    BY <1>10, PyConstants
  <2> QED
    BY <1>1, <1>2, <1>3, <1>10, <2>1 DEF TempsOK, WithTemporary
<1> QED
  BY <1>1, <1>5, <1>7, <1>8, <1>9, <1>10, <1>11, InvFromParts

LEMMA ClearKeeps ==
  ASSUME PyInv, Clear
  PROVE  PyInv'
<1>1. pc = "clear" /\ Clears(Temps) /\ (Return \/ Raise)
  BY DEF Clear, At
<1>2. /\ StoreTyped'
      /\ Owned(Owners, obj', heap', undef')
      /\ \A y \in Temps : obj'[y].limbs \notin Blocks
  BY <1>1, InvParts, ClearsKeeps
<1> QED
  BY <1>1, <1>2, EndsKeeps


\* Two Floats, the first of which gets the result.
LEMMA InPlaceOperands ==
  ASSUME PyInv, pc = "in_place"
  PROVE  /\ call.op \in {"iadd", "idiv"} /\ call.res = None /\ call.drops = <<>>
         /\ call.target \in Names
         /\ call.args[1] \in Cells /\ call.args[2] \in Cells
         /\ call.args[1] \in Owners /\ call.args[1] \in Objects
         /\ call.args[1] \notin Temps
         /\ refs[call.args[1]] > 0
         /\ Place(2) = call.args[2]
<1>1. /\ call.op \in {"iadd", "idiv"} /\ call.res = None /\ call.drops = <<>>
      /\ call.target \in Names
      /\ Len(call.args) = 2 /\ call.args[1] \in Cells /\ call.args[2] \in Cells
  BY InvParts DEF CallOK
<1>2. 1 \in DOMAIN call.args
  BY <1>1, InvParts
<1>3. /\ call.args[1] \in Owners /\ call.args[1] \in Objects
      /\ call.args[1] \notin Temps
  BY <1>1, <1>2, OperandLives
<1>4. refs[call.args[1]] > 0
  BY <1>3 DEF Owners
<1> QED
  BY <1>1, <1>3, <1>4 DEF Place

LEMMA InPlaceKeeps ==
  ASSUME PyInv, InPlace
  PROVE  PyInv'
<1> DEFINE self == call.args[1]
<1>1. pc = "in_place"
  BY DEF InPlace, At
<1>2. /\ call.op \in {"iadd", "idiv"} /\ call.res = None /\ call.drops = <<>>
      /\ call.target \in Names /\ self \in Cells
      /\ self \in Owners /\ self \in Objects /\ self \notin Temps
      /\ refs[self] > 0
  BY <1>1, InPlaceOperands
<1>3. \A t \in Temps : obj[t].limbs \notin Blocks
  BY <1>1, InvParts DEF TempsOK, Temps, WithTemporary
<1>4. ASSUME Fails("division_by_zero"), Raise PROVE PyInv'
  <2>1. StoreTyped' /\ Owned(Owners, obj', heap', undef') /\ obj' = obj
    BY <1>4, InvParts, FailsKeeps DEF OnlyWrites
  <2> QED
    BY <1>1, <1>3, <1>4, <2>1, EndsKeeps
<1>5. ASSUME Computes(self), refs' = NewRef(self), Finish(self, <<>>), freelist' = freelist
      PROVE  PyInv'
  <2> HIDE DEF self
  <2>1. /\ refs \in [Cells -> Nat]
        /\ refs' = [refs EXCEPT ![self] = refs[self] + 1]
    BY <1>5, InvParts DEF NewRef
  <2>2. /\ refs' \in [Cells -> Nat]
        /\ \A c \in Cells : refs'[c] = IF c = self THEN refs[c] + 1 ELSE refs[c]
    BY <1>2, <2>1
  <2>3. \A c \in Cells : refs'[c] + Same(call.res, c)
                           = refs[c] + Same(self, c) + Occurrences(<<>>, c)
    <3> TAKE c \in Cells
    <3>1. Occurrences(<<>>, c) = 0 /\ Same(call.res, c) = 0
      BY <1>2, PyConstants, OccurrencesEmpty DEF Same
    <3>2. Same(self, c) = IF c = self THEN 1 ELSE 0
      BY DEF Same
    <3>3. refs[c] \in Nat
      BY <2>1
    <3> QED
      BY <2>2, <3>1, <3>2, <3>3
  <2>4. \A c \in Cells : refs[c] = 0 => refs'[c] = 0
    BY <1>2, <2>2
  <2>5. \A c \in Cells : refs'[c] > 0 <=> refs[c] > 0
    BY <1>2, <2>1, <2>2
  <2>6. /\ ProgramTyped /\ Counted(refs, freelist, names, call)
        /\ self \in Cells \cup {None} /\ <<>> \in Seq(References)
        /\ (self # None => call.target \in Names)
    BY <1>2, InvParts
  <2>7. /\ ProgramTyped' /\ CallOK'
        /\ Counted(refs', freelist', names', call')
    BY <1>2, <1>5, <2>2, <2>3, <2>4, <2>6, FinishKeeps
  <2>8. Owners' = Owners
    BY <2>5, OwnersSame
  <2>9. OnlyWrites(self)
    BY <1>2, <1>5, InvParts, ComputesKeeps
  <2>10. TempsOK'
    <3>1. \A t \in Temps : obj'[t] = obj[t]
      BY <1>2, <2>9, PyConstants DEF OnlyWrites
    <3> QED
      BY <1>3, <3>1, PyConstants DEF TempsOK
  <2> QED
    BY <2>7, <2>8, <2>9, <2>10, InvFromParts DEF OnlyWrites
<1> QED
  BY <1>4, <1>5 DEF InPlace

\* What __init__ works on.
LEMMA SubjectLives ==
  ASSUME PyInv, pc \in {"precision", "value"}
  PROVE  /\ Subject \in Cells /\ Subject \in Owners /\ Subject \in Objects
         /\ Subject \notin Temps
         /\ call.op \in {"new", "init"}
         /\ call.op = "new" => Subject = call.res
         /\ call.op = "init" => Subject = call.args[1] /\ call.res = None
<1>1. /\ call.op \in {"new", "init"}
      /\ call.op = "new" => call.res \in Cells
      /\ call.op = "init" => call.args # <<>> /\ call.args[1] \in Cells
      /\ call.op # "new" => call.res = None
  BY InvParts DEF CallOK
<1>2. CASE call.op = "new"
  BY <1>1, <1>2, ResultLives DEF Subject
<1>3. CASE call.op = "init"
  <2>1. 1 \in DOMAIN call.args
    BY <1>1, <1>3, InvParts
  <2>2. Subject = call.args[1]
    BY <1>3 DEF Subject
  <2> QED
    BY <1>1, <1>3, <2>1, <2>2, OperandLives
<1> QED
  BY <1>1, <1>2, <1>3

\* An object with another precision.
LEMMA PrecisionFields ==
  ASSUME NEW o \in [Objects -> ObjectType], NEW x \in Objects, NEW p \in Nat
  PROVE  /\ [o EXCEPT ![x].precision = p] \in [Objects -> ObjectType]
         /\ \A y \in Objects :
              /\ [o EXCEPT ![x].precision = p][y].limbs = o[y].limbs
              /\ [o EXCEPT ![x].precision = p][y].capacity = o[y].capacity
              /\ [o EXCEPT ![x].precision = p][y].used = o[y].used
              /\ y # x => [o EXCEPT ![x].precision = p][y] = o[y]
<1>1. o[x] \in ObjectType
  OBVIOUS
<1>2. /\ [o[x] EXCEPT !.precision = p] \in ObjectType
      /\ [o[x] EXCEPT !.precision = p].limbs = o[x].limbs
      /\ [o[x] EXCEPT !.precision = p].capacity = o[x].capacity
      /\ [o[x] EXCEPT !.precision = p].used = o[x].used
  BY <1>1 DEF ObjectType
<1> DEFINE r == [o[x] EXCEPT !.precision = p]
<1>3. [o EXCEPT ![x].precision = p] = [o EXCEPT ![x] = r]
  OBVIOUS
<1> HIDE DEF r
<1> QED
  BY <1>2, <1>3 DEF r

LEMMA SetPrecisionKeeps ==
  ASSUME PyInv, SetPrecision
  PROVE  PyInv'
<1>1. PICK p \in Precisions :
        obj' = IF p = 0 THEN obj ELSE [obj EXCEPT ![Subject].precision = p]
  BY DEF SetPrecision
<1>2. /\ pc = "precision" /\ pc' = "value"
      /\ heap' = heap /\ status' = status /\ undef' = undef
      /\ refs' = refs /\ freelist' = freelist /\ names' = names /\ call' = call
  BY DEF SetPrecision, At, Continue
<1>3. Subject \in Objects /\ Subject \notin Temps
  BY <1>2, SubjectLives
<1>4. /\ obj' \in [Objects -> ObjectType]
      /\ \A y \in Objects : /\ obj'[y].limbs = obj[y].limbs
                            /\ obj'[y].capacity = obj[y].capacity
                            /\ obj'[y].used = obj[y].used
  <2>1. p \in Nat /\ obj \in [Objects -> ObjectType]
    BY PyConstants, InvParts
  <2>2. CASE p = 0
    BY <1>1, <2>1, <2>2
  <2>3. CASE p # 0
    <3>1. obj' = [obj EXCEPT ![Subject].precision = p]
      BY <1>1, <2>3
    <3> QED
      BY <1>3, <2>1, <3>1, PrecisionFields
  <2> QED
    BY <2>2, <2>3
<1>5. StoreTyped'
  BY <1>2, <1>4, InvParts DEF StoreTyped
<1>6. Owned(Owners, obj', heap', undef')
  <2>1. Owners \in SUBSET Objects
    BY PyConstants
  <2>2. Owned(Owners, obj, heap, undef)
    BY InvParts
  <2>3. \A x \in Owners : /\ obj'[x].limbs = obj[x].limbs
                          /\ obj'[x].capacity = obj[x].capacity
                          /\ obj'[x].used = obj[x].used
    BY <1>4, <2>1
  <2> QED
    BY <1>2, <2>1, <2>2, <2>3, OwnedSame
<1>7. CallOK'
  BY <1>2, InvParts DEF CallOK
<1>8. TempsOK'
  <2>1. /\ obj'[V].limbs = obj[V].limbs /\ obj'[W].limbs = obj[W].limbs
        /\ obj'[Tmp].limbs = obj[Tmp].limbs
    BY <1>4, PyConstants
  <2> QED
    BY <1>2, <2>1, InvParts DEF TempsOK, WithTemporary
<1>9. call' \in CallType
  BY <1>2, InvParts
<1> QED
  BY <1>2, <1>5, <1>6, <1>7, <1>8, <1>9, StepKeeps

\* A number, a copy or nothing into what __init__ works on.
LEMMA SetValueWrites ==
  ASSUME PyInv, SetValue
  PROVE  OnlyWrites(Subject) /\ (Return \/ Raise) /\ pc = "value"
<1>1. pc = "value"
  BY DEF SetValue, At
<1>2. Subject \in Objects /\ Subject \in Owners
  BY <1>1, SubjectLives
<1>3. StoreTyped /\ Owned(Owners, obj, heap, undef)
  BY InvParts
<1>4. ASSUME NEW n \in 0..1, Fits(Subject, n) PROVE OnlyWrites(Subject)
  <2>1. n \in Nat
    OBVIOUS
  <2> QED
    BY <1>2, <1>3, <1>4, <2>1, FitsKeeps
<1>5. ASSUME Fails("invalid_argument") PROVE OnlyWrites(Subject)
  BY <1>3, <1>5, FailsKeeps
<1>6. ASSUME Value \in Cells, Copies(Subject, obj[Value].used) PROVE OnlyWrites(Subject)
  <2>1. obj[Value].used \in Nat
    BY <1>6, InvParts, PyConstants DEF ObjectType
  <2> QED
    BY <1>2, <1>3, <1>6, <2>1, CopiesKeeps
<1>7. 0 \in 0..1
  OBVIOUS
<1> QED
  BY <1>1, <1>4, <1>5, <1>6, <1>7 DEF SetValue

LEMMA SetValueKeeps ==
  ASSUME PyInv, SetValue
  PROVE  PyInv'
<1>1. OnlyWrites(Subject) /\ (Return \/ Raise) /\ pc = "value"
  BY SetValueWrites
<1>2. \A t \in Temps : obj'[t].limbs \notin Blocks
  <2>1. \A t \in Temps : obj'[t] = obj[t]
    BY <1>1, SubjectLives, PyConstants DEF OnlyWrites
  <2>2. \A t \in Temps : obj[t].limbs \notin Blocks
    BY <1>1, InvParts DEF TempsOK, Temps, WithTemporary
  <2> QED
    BY <2>1, <2>2
<1> QED
  BY <1>1, <1>2, EndsKeeps DEF OnlyWrites

LEMMA EndKeeps ==
  ASSUME PyInv, End
  PROVE  PyInv'
<1>1. /\ pc = "drop" /\ pc' = "idle" /\ call.drops = <<>>
      /\ obj' = obj /\ heap' = heap /\ status' = status /\ undef' = undef
      /\ refs' = refs /\ freelist' = freelist /\ names' = names /\ call' = call
  BY DEF End, At, storeVars
<1>2. CallOK'
  BY <1>1, InvParts DEF CallOK
<1>3. StoreTyped' /\ Owned(Owners, obj', heap', undef')
  BY <1>1, InvParts DEF StoreTyped
<1>4. TempsOK'
  BY <1>1, InvParts DEF TempsOK, WithTemporary
<1>5. call' \in CallType
  BY <1>1, InvParts
<1> QED
  BY <1>1, <1>2, <1>3, <1>4, <1>5, StepKeeps


\* A reference goes, and with the last one the storage.
LEMMA DropKeeps ==
  ASSUME PyInv, Drop
  PROVE  PyInv'
<1> DEFINE c == Head(call.drops)
           gone == c \in Cells /\ refs[c] = 1
<1>1. /\ pc = "drop" /\ pc' = "drop" /\ call.drops # <<>>
      /\ call' = [call EXCEPT !.drops = Tail(call.drops)]
      /\ obj' = obj /\ status' = status /\ undef' = undef /\ names' = names
      /\ refs' = IF c \in Cells THEN [refs EXCEPT ![c] = refs[c] - 1] ELSE refs
  BY DEF Drop, At
<1>2. /\ gone => /\ heap' = FreedOf({c}, obj, heap)
                 /\ freelist' = IF Len(freelist) < FreeListMax THEN Append(freelist, c)
                                ELSE freelist
      /\ ~gone => heap' = heap /\ freelist' = freelist
  BY DEF Drop, Dealloc, Freed, FreedOf, Room
<1>3. call.args = <<>> /\ call.res = None
  BY <1>1, InvParts DEF CallOK
<1>4. /\ call' \in CallType /\ call'.args = call.args /\ call'.res = call.res
      /\ call'.drops = Tail(call.drops)
  <2>1. call.drops \in Seq(References)
    BY InvParts DEF CallType
  <2>2. Tail(call.drops) \in Seq(References)
    BY <1>1, <2>1
  <2> QED
    BY <1>1, <2>2, InvParts DEF CallType
<1>5. /\ freelist \in Seq(Cells) /\ Len(freelist) <= FreeListMax
      /\ names \in [Names -> Cells \cup {None}]
      /\ refs \in [Cells -> Nat] /\ call \in CallType
      /\ Counted(refs, freelist, names, call)
  BY InvParts DEF ProgramTyped
<1>6. \A b \in Cells : refs'[b] = IF b = c THEN refs[b] - 1 ELSE refs[b]
  BY <1>1, <1>5
<1>7. IF c \in Cells /\ refs[c] = 1 /\ Len(freelist) < FreeListMax
        THEN freelist' = Append(freelist, c) ELSE freelist' = freelist
  BY <1>2
<1>8. c = Head(call.drops)
  OBVIOUS
<1> HIDE DEF c
<1>9. /\ \A b \in Cells : refs'[b] \in Nat
      /\ freelist' \in Seq(Cells) /\ Len(freelist') <= FreeListMax
      /\ Counted(refs', freelist', names, call')
      /\ c \in Cells => refs[c] > 0
  <2>1. /\ refs \in [Cells -> Nat] /\ freelist \in Seq(Cells)
        /\ Len(freelist) <= FreeListMax /\ call \in CallType
        /\ Counted(refs, freelist, names, call)
        /\ call.args = <<>> /\ call.res = None /\ call.drops # <<>>
        /\ call' \in CallType /\ call'.args = call.args
        /\ call'.drops = Tail(call.drops) /\ call'.res = call.res
        /\ c = Head(call.drops)
        /\ \A b \in Cells : refs'[b] = IF b = c THEN refs[b] - 1 ELSE refs[b]
        /\ IF c \in Cells /\ refs[c] = 1 /\ Len(freelist) < FreeListMax
             THEN freelist' = Append(freelist, c) ELSE freelist' = freelist
    BY <1>1, <1>3, <1>4, <1>5, <1>6, <1>7, <1>8
  <2> QED
    BY <2>1, DroppedCounted
<1>10. refs' \in [Cells -> Nat]
  BY <1>1, <1>5, <1>9
<1>11. ProgramTyped'
  BY <1>1, <1>4, <1>5, <1>9, <1>10 DEF ProgramTyped
<1>12. CallOK'
  BY <1>1, <1>3, <1>4 DEF CallOK
<1>13. StoreTyped' /\ Owned(Owners', obj', heap', undef')
  <2>1. /\ Owners \in SUBSET Objects /\ \A t \in Temps : t \notin Cells
        /\ Owned(Owners, obj, heap, undef) /\ StoreTyped
        /\ obj \in [Objects -> ObjectType] /\ heap \in [Blocks -> Nat] /\ undef \in BOOLEAN
    BY PyConstants, InvParts DEF StoreTyped
  <2>2. CASE gone
    <3>1. c \in Cells /\ refs[c] = 1
      BY <2>2
    <3>2. Owners' = Owners \ {c} /\ {c} \in SUBSET Owners
      <4>1. refs'[c] = 0
        BY <1>6, <3>1
      <4>2. \A b \in Cells \ {c} : refs'[b] = refs[b]
        BY <1>6
      <4> QED
        BY <2>1, <3>1, <4>1, <4>2 DEF Owners
    <3> DEFINE Q == Owners \ {c}
               X == {c}
    <3>3. Q \in SUBSET Owners /\ Owners \ X \subseteq Q /\ X \in SUBSET Owners
      BY <3>2
    <3>4. \A x \in Q : IF x \in X THEN obj[x] = Unset ELSE obj[x] = obj[x]
      OBVIOUS
    <3>5. Owners' = Q /\ heap' = FreedOf(X, obj, heap)
      BY <1>2, <2>2, <3>2
    <3> HIDE DEF Q, X
    <3>6. Owned(Q, obj, FreedOf(X, obj, heap), undef)
      BY <2>1, <3>3, <3>4, OwnedFreed
    <3>7. heap' \in [Blocks -> Nat]
      BY <2>1, <3>5 DEF FreedOf
    <3> QED
      BY <1>1, <2>1, <3>5, <3>6, <3>7 DEF StoreTyped
  <2>3. CASE ~gone
    <3>1. heap' = heap
      BY <1>2, <2>3
    <3>2. \A b \in Cells : refs'[b] > 0 <=> refs[b] > 0
      BY <1>5, <1>6, <1>9, <2>3
    <3>3. Owners' = Owners
      BY <3>2, OwnersSame
    <3> QED
      BY <1>1, <2>1, <3>1, <3>3 DEF StoreTyped
  <2> QED
    BY <2>2, <2>3
<1>14. TempsOK'
  BY <1>1, InvParts DEF TempsOK, WithTemporary
<1>15. Counted(refs', freelist', names', call')
  BY <1>1, <1>9
<1> QED
  BY <1>11, <1>12, <1>13, <1>14, <1>15, InvFromParts

-----------------------------------------------------------------------------
(* The invariant. *)

LEMMA InitHolds == PyInit => PyInv
<1> SUFFICES ASSUME PyInit PROVE PyInv
  OBVIOUS
<1>1. /\ obj = [x \in Objects |-> Unset]
      /\ heap = [k \in Blocks |-> 0]
      /\ status = "ok" /\ undef = FALSE
      /\ refs = [c \in Cells |-> 0]
      /\ freelist = <<>>
      /\ names = [x \in Names |-> None]
      /\ call = Idle
      /\ pc = "idle"
  BY DEF PyInit, Init
<1>2. call = Dropping(<<>>)
  BY <1>1 DEF Idle, Dropping
<1>3. /\ call \in CallType /\ call.args = <<>> /\ call.res = None /\ call.drops = <<>>
  <2>1. <<>> \in Seq(References)
    OBVIOUS
  <2> QED
    BY <1>2, <2>1, DroppingType
<1>4. /\ Unset \in ObjectType /\ Unset.limbs = Null /\ Unset.capacity = 0 /\ Unset.used = 0
      /\ Null # Inline /\ Null \notin Blocks
  BY PyConstants DEF Unset, ObjectType
<1>5. StoreTyped
  BY <1>1, <1>4 DEF StoreTyped
<1>6. ProgramTyped
  BY <1>1, <1>3, PyConstants DEF ProgramTyped
<1>7. CallOK
  BY <1>1, <1>3 DEF CallOK
<1>8. Counted(refs, freelist, names, call)
  <2>1. ASSUME NEW c \in Cells PROVE refs[c] = Held(names, call, c)
    <3>1. \A x \in Names : names[x] # c
      BY <1>1, PyConstants
    <3>2. Cardinality(NamesOf(names, c)) = 0
      BY <3>1, Unnamed
    <3>3. Occurrences(<<>>, c) = 0 /\ Same(None, c) = 0
      BY PyConstants, OccurrencesEmpty DEF Same
    <3> QED
      BY <1>1, <1>3, <3>2, <3>3 DEF Held
  <2>2. IsInjective(freelist) /\ \A i \in DOMAIN freelist : refs[freelist[i]] = 0
    BY <1>1 DEF IsInjective
  <2> QED
    BY <1>3, <2>1, <2>2, PyConstants DEF Counted
<1>9. Owned(Owners, obj, heap, undef)
  <2>1. \A x \in Owners : obj[x] = Unset
    BY <1>1, PyConstants
  <2>2. \A x \in Owners : obj[x].limbs = Null /\ obj[x].capacity = 0 /\ obj[x].used = 0
    BY <1>4, <2>1
  <2>3. \A k \in Blocks : ~(heap[k] > 0)
    BY <1>1
  <2> QED
    BY <1>4, <2>2, <2>3 DEF Owned
<1>10. TempsOK
  BY <1>1, <1>4, PyConstants DEF TempsOK
<1>11. PyTypeOK
  BY <1>5, <1>6, TypesSplit
<1> QED
  BY <1>7, <1>8, <1>9, <1>10, <1>11 DEF PyInv

LEMMA UnchangedKeeps ==
  ASSUME PyInv, UNCHANGED vars
  PROVE  PyInv'
<1>1. /\ obj' = obj /\ heap' = heap /\ status' = status /\ undef' = undef
      /\ refs' = refs /\ freelist' = freelist /\ names' = names /\ call' = call
      /\ pc' = pc
  BY DEF vars, storeVars, pyVars
<1>2. CallOK' /\ StoreTyped' /\ Owned(Owners, obj', heap', undef') /\ TempsOK'
  BY <1>1, InvParts DEF CallOK, StoreTyped, TempsOK, WithTemporary
<1>3. /\ call' \in CallType
      /\ pc' \in {"idle", "convert", "alloc", "compute", "temporary", "product", "sum",
                  "items", "next", "clear", "in_place", "precision", "value", "drop"}
  BY <1>1, InvParts DEF ProgramTyped
<1> QED
  BY <1>1, <1>2, <1>3, StepKeeps

\* Every step of the program keeps PyInv.
LEMMA NextKeeps == PyInv /\ [PyNext]_vars => PyInv'
  BY StatementKeeps, ConvertKeeps, AllocKeeps, AllocFailsKeeps, ComputeKeeps,
     TemporaryKeeps, ProductKeeps, SumKeeps, ItemsKeeps, NextItemKeeps, ClearKeeps,
     InPlaceKeeps, SetPrecisionKeeps, SetValueKeeps, DropKeeps, EndKeeps,
     UnchangedKeeps DEF PyNext

\* The invariant of the extension holds in every reachable state.
THEOREM PyInvariant == PySpec => []PyInv
  BY InitHolds, NextKeeps, PTL DEF PySpec

\* The fields of every object, dead memory included, the reference counts, the
\* free list, the names and the running statement have their types, and the free
\* list never has more than FreeListMax entries (MantixFloat_dealloc).
THEOREM PyTyped == PySpec => []PyTypeOK
<1>1. PyInv => PyTypeOK
  BY DEF PyInv
<1> QED
  BY <1>1, PyInvariant, PTL

\* Every Float's count is the number of references that the names, the operands,
\* the result and the references still to be dropped make, whatever statements
\* run and however they fail, and the free list has dead memory only, once each.
THEOREM CountsRight == PySpec => []RefCountsRight
<1>1. PyInv => RefCountsRight
  BY InvParts, CountedRight
<1> QED
  BY <1>1, PyInvariant, PTL

\* Every block on the heap belongs to one live Float or temporary, also when dead
\* memory with stale fields is handed out again, and between statements none is
\* a temporary's.
THEOREM PyStorageSound == PySpec => []PyStorageOK
  BY PyInvStorage, PyInvariant, PTL


-----------------------------------------------------------------------------
(* What a name refers to changes only by an augmented assignment or __init__. *)

\* What a name refers to is alive, and no temporary.
LEMMA NamedLives ==
  ASSUME PyInv, NEW x \in Names, names[x] # None
  PROVE  /\ names[x] \in Cells /\ names[x] \in Objects /\ names[x] \notin Temps
         /\ refs[names[x]] > 0
         /\ names[x] # call.res
<1>1. names[x] \in Cells
  BY InvParts DEF ProgramTyped
<1>2. refs[names[x]] = Held(names, call, names[x]) /\ call \in CallType
  BY <1>1, InvParts DEF Counted
<1>3. Held(names, call, names[x]) > 0
  BY <1>2, HeldLives
<1>4. names[x] # call.res
  BY <1>1, ResultLives
<1> QED
  BY <1>1, <1>2, <1>3, <1>4, PyConstants

\* The steps that leave every Float with a name alone.
LEMMA OthersKeepNamed ==
  ASSUME PyInv, NEW x \in Names, names[x] # None,
         \/ Statement \/ ConvertOperands \/ Alloc \/ AllocFails \/ Compute \/ Temporary
         \/ Product \/ Sum \/ Items \/ NextItem \/ Clear \/ Drop \/ End
  PROVE  obj'[names[x]] = obj[names[x]]
<1> DEFINE c == names[x]
<1> SUFFICES obj'[c] = obj[c]
  OBVIOUS
<1>1. /\ c \in Cells /\ c \in Objects /\ c \notin Temps /\ refs[c] > 0
      /\ c # call.res /\ c # V /\ c # W /\ c # Tmp
  BY NamedLives, PyConstants
<1> HIDE DEF c
<1>2. StoreTyped /\ Owned(Owners, obj, heap, undef) /\ obj \in [Objects -> ObjectType]
  BY InvParts
<1>3. CASE Statement
  BY <1>3 DEF Statement, Binary, Augmented, Negate, Sqrt, Fma, Dot, New, InitAgain,
              Assign, Begin, storeVars
<1>4. CASE ConvertOperands
  <2>1. CASE ConvertFails
    BY <2>1 DEF ConvertFails, storeVars
  <2>2. ASSUME NEW next, Convert(next) PROVE obj'[c] = obj[c]
    <3>1. PICK n \in 0..1 :
            obj' = [o \in Objects |->
                      IF \E i \in DOMAIN call.args : call.args[i] = Number /\ Place(i) = o
                        THEN [Fresh(ResultPrecision) EXCEPT !.used = n] ELSE obj[o]]
      BY <2>2 DEF Convert
    <3>2. pc = "convert" /\ heap' = heap /\ status' = status /\ undef' = undef
      BY <1>4, <2>2 DEF ConvertOperands, At, Convert
    <3>3. \A o \in Objects \ {V, W} : obj'[o] = obj[o]
      BY <3>1, <3>2, ConvertStorage
    <3> QED
      BY <1>1, <3>3
  <2> QED
    BY <1>4, <2>1, <2>2 DEF ConvertOperands
<1>5. CASE Alloc
  <2>1. PICK a \in Cells :
          /\ IF freelist = <<>> THEN refs[a] = 0 ELSE a = Last(freelist)
          /\ obj' = [obj EXCEPT ![a] = Reset(a, ResultPrecision)]
    BY <1>5 DEF Alloc
  <2>2. refs[a] = 0
    <3>1. CASE freelist = <<>>
      BY <2>1, <3>1
    <3>2. CASE freelist # <<>>
      <4>1. freelist \in Seq(Cells) /\ \A i \in DOMAIN freelist : refs[freelist[i]] = 0
        BY InvParts DEF ProgramTyped, Counted
      <4>2. Len(freelist) \in DOMAIN freelist /\ a = freelist[Len(freelist)]
        BY <2>1, <3>2, <4>1 DEF Last
      <4> QED
        BY <4>1, <4>2
    <3> QED
      BY <3>1, <3>2
  <2>3. a # c
    BY <1>1, <2>2
  <2> QED
    BY <1>1, <1>2, <2>1, <2>3
<1>6. CASE AllocFails
  BY <1>6 DEF AllocFails, storeVars
<1>7. CASE Compute
  <2>1. /\ pc = "compute" /\ call.op \in {"add", "div", "neg", "sqrt"}
        /\ call.res \in Cells
    BY <1>7, InvParts DEF Compute, At, CallOK
  <2>2. call.res \in Owners
    BY <2>1, ResultLives
  <2>3. Place(1) \in Objects
    BY PyConstants DEF Place
  <2>4. obj[Place(1)].used \in Nat
    BY <2>3, InvParts DEF ObjectType
  <2>5. \/ Copies(call.res, obj[Place(1)].used)
        \/ Computes(call.res)
        \/ \E st \in {"division_by_zero", "invalid_argument"} : Fails(st)
    BY <1>7, <2>1 DEF Compute
  <2>6. OnlyWrites(call.res)
    BY <1>2, <2>2, <2>4, <2>5, CopiesKeeps, ComputesKeeps, FailsKeeps
  <2> QED
    BY <1>1, <2>6 DEF OnlyWrites
<1>8. CASE Temporary
  <2>1. obj' = [obj EXCEPT ![Tmp] = Fresh(obj[call.res].precision)]
    BY <1>8 DEF Temporary, InitObject
  <2> QED
    BY <1>1, <1>2, <2>1
<1>9. CASE Product
  <2>1. Computes(Tmp) /\ Tmp \in Owners
    BY <1>9, PyConstants DEF Product
  <2>2. OnlyWrites(Tmp)
    BY <1>2, <2>1, ComputesKeeps
  <2> QED
    BY <1>1, <2>2 DEF OnlyWrites
<1>10. CASE Sum
  <2>1. pc = "sum" /\ Computes(call.res)
    BY <1>10 DEF Sum, At
  <2>2. call.res \in Owners
    BY <2>1, InvParts, ResultLives DEF CallOK
  <2>3. OnlyWrites(call.res)
    BY <1>2, <2>1, <2>2, ComputesKeeps
  <2> QED
    BY <1>1, <2>3 DEF OnlyWrites
<1>11. CASE Items
  BY <1>11 DEF Items, storeVars
<1>12. CASE NextItem \/ Clear
  <2>1. Clears({V, W}) \/ Clears(Temps)
    BY <1>12 DEF NextItem, Clear
  <2>2. c \notin {V, W} /\ c \notin Temps
    BY <1>1 DEF Temps
  <2> QED
    BY <1>1, <2>1, <2>2 DEF Clears
<1>13. CASE Drop \/ End
  BY <1>13 DEF Drop, End, storeVars
<1> QED
  BY <1>3, <1>4, <1>5, <1>6, <1>7, <1>8, <1>9, <1>10, <1>11, <1>12, <1>13

\* A step that changes what a name refers to.
LEMMA NamedChanges ==
  ASSUME PyInv, PyNext, NEW x \in Names, names[x] # None, obj'[names[x]] # obj[names[x]]
  PROVE  /\ call.op \in {"iadd", "idiv", "init"}
         /\ names[x] = call.args[1]
         /\ call.op = "idiv" => obj[call.args[2]].used # 0
<1>1. /\ names[x] \in Cells /\ names[x] \in Objects /\ names[x] # call.res
  BY NamedLives
<1>2. InPlace \/ SetPrecision \/ SetValue
  BY OthersKeepNamed DEF PyNext
<1>3. CASE InPlace
  <2>1. /\ call.op \in {"iadd", "idiv"} /\ call.args[1] \in Owners
        /\ Place(2) = call.args[2]
    BY <1>3, InPlaceOperands DEF InPlace, At
  <2>2. \/ Fails("division_by_zero")
        \/ ~(call.op = "idiv" /\ ByZero(2)) /\ Computes(call.args[1])
    BY <1>3 DEF InPlace
  <2>3. ~Fails("division_by_zero")
    BY DEF Fails
  <2>4. OnlyWrites(call.args[1])
    BY <2>1, <2>2, <2>3, InvParts, ComputesKeeps
  <2>5. names[x] = call.args[1]
    BY <1>1, <2>4 DEF OnlyWrites
  <2> QED
    BY <2>1, <2>2, <2>3, <2>5 DEF ByZero
<1>4. CASE SetPrecision \/ SetValue
  <2>1. pc \in {"precision", "value"}
    BY <1>4 DEF SetPrecision, SetValue, At
  <2>2. /\ Subject \in Objects /\ call.op \in {"new", "init"}
        /\ call.op = "new" => Subject = call.res
        /\ call.op = "init" => Subject = call.args[1]
    BY <2>1, SubjectLives
  <2>3. \A y \in Objects \ {Subject} : obj'[y] = obj[y]
    <3>1. CASE SetValue
      BY <3>1, SetValueWrites DEF OnlyWrites
    <3>2. CASE SetPrecision
      <4>1. PICK p \in Precisions :
              obj' = IF p = 0 THEN obj ELSE [obj EXCEPT ![Subject].precision = p]
        BY <3>2 DEF SetPrecision
      <4>2. p \in Nat /\ obj \in [Objects -> ObjectType]
        BY PyConstants, InvParts
      <4>3. CASE p = 0
        BY <4>1, <4>3
      <4>4. CASE p # 0
        <5>1. obj' = [obj EXCEPT ![Subject].precision = p]
          BY <4>1, <4>4
        <5> QED
          BY <2>2, <4>2, <5>1, PrecisionFields
      <4> QED
        BY <4>3, <4>4
    <3> QED
      BY <1>4, <3>1, <3>2
  <2>4. names[x] = Subject
    BY <1>1, <2>3
  <2> QED
    BY <1>1, <2>2, <2>4
<1> QED
  BY <1>2, <1>3, <1>4

\* A Float with a name keeps its number, its precision and its storage, whatever
\* the program computes from it: only += and the like on the name's own object,
\* and its __init__, change it, and a division by zero does not.
THEOREM OnlyTargetChangesHolds == PySpec => OnlyTargetChanges
<1>1. PyInv /\ [PyNext]_vars =>
        [\A x \in Names :
           names[x] # None /\ obj'[names[x]] # obj[names[x]] =>
             /\ call.op \in {"iadd", "idiv", "init"}
             /\ names[x] = call.args[1]
             /\ call.op = "idiv" => obj[call.args[2]].used # 0]_vars
  BY NamedChanges
<1> QED
  BY <1>1, PyInvariant, PTL DEF PySpec, OnlyTargetChanges
=============================================================================
