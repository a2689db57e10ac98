--------------------------- MODULE TensorNewProofs ---------------------------
(***************************************************************************)
(* rtorch_api_tensor_new for every word width, cap and shape: no product   *)
(* outgrows a word, and no block outgrows the cap.                         *)
(***************************************************************************)
EXTENDS TensorNew, WellFoundedInduction, SequenceTheorems, TLAPS

\* The loop starts from the first dimension and is repeated only with a dimension
\* left to multiply.
InLoop == (pc = "check" => i = 0) /\ (pc = "multiply" => i < Rank)
LoopInv == TypeOK /\ WithinCap /\ InLoop

\* The shapes a caller passes are sequences of naturals.
LEMMA ArgumentsType ==
    ASSUME NEW a \in Arguments
    PROVE  a \in [null : BOOLEAN, seq : Seq(Nat)]
<1>1. CASE a = NullDims
  BY <1>1 DEF NullDims
<1>2. CASE a \in {[null |-> FALSE, seq |-> d] : d \in DimVectors}
  <2>1. PICK d \in DimVectors : a = [null |-> FALSE, seq |-> d]
    BY <1>2
  <2>2. PICK r \in 0..MaxRank : d \in [1..r -> DimValues]
    BY <2>1 DEF DimVectors
  <2>3. d \in [1..r -> Nat]
    <3>1. DimValues \subseteq Nat
      BY TensorAssumption
    <3>2. \A k \in 1..r : d[k] \in Nat
      BY <2>2, <3>1
    <3> QED
      BY <2>2, <3>2
  <2>4. d \in Seq(Nat)
    BY <2>2, <2>3, TensorAssumption
  <2> QED
    BY <2>1, <2>4
<1> QED
  BY <1>1, <1>2 DEF Arguments

LEMMA InitLoop == Init => LoopInv
<1> SUFFICES ASSUME Init PROVE LoopInv
  OBVIOUS
<1>1. dims \in [null : BOOLEAN, seq : Seq(Nat)]
  BY ArgumentsType DEF Init
<1>2. Rank \in Nat
  BY <1>1 DEF Rank
<1> QED
  BY <1>1, <1>2, TensorAssumption DEF Init, LoopInv, InLoop, TypeOK, WithinCap

\* A round: the product of a word and a dimension is a number; it is stored only
\* if it fits a word, and the loop goes on only if it fits the cap.
LEMMA MultiplyLoop == LoopInv /\ Multiply => LoopInv'
<1> SUFFICES ASSUME LoopInv, Multiply PROVE LoopInv'
  OBVIOUS
<1> DEFINE p == numel * dims.seq[i + 1]
<1>1. /\ dims.seq \in Seq(Nat) /\ Rank \in Nat /\ i \in Nat /\ i < Rank
      /\ dims' = dims /\ Rank' = Rank /\ dtype' = dtype /\ boxed' = boxed
  BY DEF LoopInv, InLoop, TypeOK, Multiply, Rank
<1>2. dims.seq[i + 1] \in Nat
  BY <1>1 DEF Rank
<1>3. numel \in Nat /\ p \in Nat
  <2>1. numel \in Nat
    BY TensorAssumption DEF LoopInv, TypeOK
  <2> QED
    BY <2>1, <1>2
<1> HIDE DEF p
<1>4. CASE p > MaxWord
  <2>1. pc' = "E_PARAM_overflow" /\ i' = i /\ numel' = numel
    BY <1>4 DEF Multiply, p
  <2> QED
    BY <1>1, <2>1 DEF LoopInv, InLoop, TypeOK, WithinCap, Errors
<1>5. CASE ~(p > MaxWord)
  <2>1. /\ i' = i + 1 /\ numel' = p
        /\ pc' = IF p > Cap THEN "E_NOMEM"
                 ELSE IF i' = Rank THEN "allocate" ELSE "multiply"
    BY <1>5 DEF Multiply, p
  <2>2. numel' \in 0..MaxWord /\ i' \in 0..Rank'
    BY <1>1, <1>3, <1>5, <2>1, TensorAssumption
  <2>3. TypeOK'
    BY <1>1, <2>1, <2>2 DEF LoopInv, TypeOK, Errors
  <2>4. WithinCap'
    BY <1>1, <1>3, <2>1, TensorAssumption DEF LoopInv, WithinCap
  <2>5. InLoop'
    BY <1>1, <2>1 DEF InLoop
  <2> QED
    BY <2>3, <2>4, <2>5 DEF LoopInv
<1> QED
  BY <1>4, <1>5

LEMMA NextLoop == LoopInv /\ [Next]_vars => LoopInv'
<1> SUFFICES ASSUME LoopInv, [Next]_vars PROVE LoopInv'
  OBVIOUS
<1>1. CASE Check
  <2>1. Rank \in Nat /\ Rank' = Rank
    BY <1>1 DEF LoopInv, TypeOK, Check, Rank
  <2> QED
    BY <1>1, <2>1, TensorAssumption DEF LoopInv, InLoop, TypeOK, WithinCap, Check, Errors
<1>2. CASE Multiply
  BY <1>2, MultiplyLoop
<1>3. CASE Allocate
  <2>1. Rank' = Rank
    BY <1>3 DEF Allocate, Rank
  <2> QED
    BY <1>3, <2>1 DEF LoopInv, InLoop, TypeOK, WithinCap, Allocate, Errors
<1>4. CASE Returned \/ UNCHANGED vars
  BY <1>4 DEF Returned, vars, LoopInv, InLoop, TypeOK, WithinCap, Rank
<1> QED
  BY <1>1, <1>2, <1>3, <1>4 DEF Next

(***************************************************************************)
(* The accumulator of the loop stays a usize, and every variable its type  *)
(* (ffi.rs:66-76).                                                         *)
(***************************************************************************)
THEOREM TensorTypeOK == Spec => []TypeOK
<1>1. LoopInv => TypeOK
  BY DEF LoopInv
<1> QED
  BY <1>1, InitLoop, NextLoop, PTL DEF Spec

(***************************************************************************)
(* Whatever shape is passed, the block allocated and every number that is  *)
(* multiplied on are within the cap (ffi.rs:66-83).                        *)
(***************************************************************************)
THEOREM TensorWithinCap == Spec => []WithinCap
<1>1. LoopInv => WithinCap
  BY DEF LoopInv
<1> QED
  BY <1>1, InitLoop, NextLoop, PTL DEF Spec

-----------------------------------------------------------------------------
(***************************************************************************)
(* Product is a recursive function.  That it satisfies its equations, and  *)
(* grows with the factors, is proved by induction over the naturals, in    *)
(* the form of their least elements.                                       *)
(***************************************************************************)
LEMMA LeastNat ==
    ASSUME NEW T \in SUBSET Nat, T # {}
    PROVE  \E m \in T : \A n \in T : m <= n
<1>1. IsWellFoundedOn(OpToRel(<, Nat), Nat)
  BY NatLessThanWellFounded
<1>2. PICK m \in T : \A n \in T : ~(<<n, m>> \in OpToRel(<, Nat))
  BY <1>1, WFMin
<1>3. \A n \in T : ~(n < m)
  BY <1>2 DEF OpToRel
<1> QED
  BY <1>3

LEMMA NatSetInduction ==
    ASSUME NEW N \in Nat, NEW S, 0 \in S,
           \A n \in 0..N : n \in S /\ n < N => n + 1 \in S
    PROVE  0..N \subseteq S
<1> DEFINE T == {n \in 0..N : n \notin S}
<1> SUFFICES ASSUME T # {} PROVE FALSE
  OBVIOUS
<1>1. PICK m \in T : \A n \in T : m <= n
  <2>1. T \in SUBSET Nat
    OBVIOUS
  <2> HIDE DEF T
  <2> QED
    BY <2>1, LeastNat
<1>2. m # 0 /\ m \in 0..N /\ m \notin S
  BY <1>1
<1>3. m - 1 \in 0..N /\ m - 1 < N /\ (m - 1) + 1 = m /\ ~(m <= m - 1)
  BY <1>2
<1>4. m - 1 \in S
  BY <1>1, <1>3
<1> QED
  BY <1>2, <1>3, <1>4

\* The equations of the products of the first dimensions, up to n of them.
Products(f, s, n) == f[0] = 1 /\ \A k \in 1..n : f[k] = f[k - 1] * s[k]

LEMMA ProductsExist ==
    ASSUME NEW s, NEW N \in Nat
    PROVE  \E f : Products(f, s, N)
<1> DEFINE S == {n \in 0..N : \E f : Products(f, s, n)}
<1>1. 0 \in S
  <2>1. [k \in {0} |-> 1][0] = 1 /\ 1..0 = {}
    OBVIOUS
  <2>2. Products([k \in {0} |-> 1], s, 0)
    BY <2>1 DEF Products
  <2> QED
    BY <2>2
<1>2. ASSUME NEW n \in 0..N, n \in S, n < N PROVE n + 1 \in S
  <2>1. PICK f : Products(f, s, n)
    BY <1>2
  <2> DEFINE g == [k \in 0..(n + 1) |-> IF k = n + 1 THEN f[n] * s[n + 1] ELSE f[k]]
  <2>2. g[n + 1] = f[n] * s[n + 1] /\ (\A k \in 0..n : g[k] = f[k])
    OBVIOUS
  <2> HIDE DEF g
  <2>3. g[0] = 1
    BY <2>1, <2>2 DEF Products
  <2>4. ASSUME NEW k \in 1..(n + 1) PROVE g[k] = g[k - 1] * s[k]
    <3>1. CASE k = n + 1
      <4>1. k - 1 = n /\ n \in 0..n
        BY <3>1
      <4> QED
        BY <2>2, <3>1, <4>1
    <3>2. CASE k # n + 1
      <4>1. k \in 1..n /\ k \in 0..n /\ k - 1 \in 0..n
        BY <3>2
      <4>2. f[k] = f[k - 1] * s[k]
        BY <2>1, <4>1 DEF Products
      <4> QED
        BY <2>2, <4>1, <4>2
    <3> QED
      BY <3>1, <3>2
  <2>5. Products(g, s, n + 1)
    BY <2>3, <2>4 DEF Products
  <2> QED
    BY <1>2, <2>5
<1> HIDE DEF S
<1>3. 0..N \subseteq S
  BY <1>1, <1>2, NatSetInduction
<1> QED
  BY <1>3 DEF S

LEMMA ProductFact ==
    ASSUME NEW s \in Seq(Nat)
    PROVE  \E P : Products(P, s, Len(s)) /\ Product(s) = P[Len(s)]
<1> DEFINE N == Len(s)
           Eq(P) == P = [k \in 0..N |-> IF k = 0 THEN 1 ELSE P[k - 1] * s[k]]
           R == CHOOSE P : Eq(P)
<1>1. N \in Nat
  OBVIOUS
<1>2. PICK f : Products(f, s, N)
  BY <1>1, ProductsExist
<1> DEFINE g == [k \in 0..N |-> f[k]]
<1>3. Eq(g)
  <2>1. \A k \in 0..N : g[k] = f[k]
    OBVIOUS
  <2>2. ASSUME NEW k \in 0..N
        PROVE  g[k] = IF k = 0 THEN 1 ELSE g[k - 1] * s[k]
    <3>1. k # 0 => k \in 1..N /\ k - 1 \in 0..N
      BY <1>1
    <3> HIDE DEF g
    <3> QED
      BY <1>2, <2>1, <3>1 DEF Products
  <2> QED
    BY <2>2
<1>4. Eq(R)
  BY <1>3
<1>5. Product(s) = R[N]
  BY DEF Product
<1> HIDE DEF R
<1>6. Products(R, s, N)
  <2>1. \A k \in 0..N : R[k] = IF k = 0 THEN 1 ELSE R[k - 1] * s[k]
    BY <1>4
  <2>2. 0 \in 0..N /\ (\A k \in 1..N : k \in 0..N /\ k # 0)
    BY <1>1
  <2> QED
    BY <2>1, <2>2 DEF Products
<1> QED
  BY <1>5, <1>6

\* Factors that are not zero: the products grow.
LEMMA ProductsGrow ==
    ASSUME NEW s, NEW N \in Nat, \A k \in 1..N : s[k] \in Nat \ {0},
           NEW P, Products(P, s, N)
    PROVE  /\ \A k \in 0..N : P[k] \in Nat \ {0}
           /\ \A j \in 0..N : P[j] <= P[N]
<1>1. \A k \in 1..N : P[k] = P[k - 1] * s[k]
  BY DEF Products
<1>2. \A a, b \in Nat \ {0} : a * b \in Nat \ {0} /\ a <= a * b
  OBVIOUS
<1> DEFINE S == {n \in 0..N : \A j \in 0..n : P[j] \in Nat \ {0} /\ P[j] <= P[n]}
<1>3. 0 \in S
  BY DEF Products
<1>4. ASSUME NEW n \in 0..N, n \in S, n < N PROVE n + 1 \in S
  <2>1. n + 1 \in 1..N /\ (n + 1) - 1 = n
    BY <1>4
  <2>2. P[n + 1] = P[n] * s[n + 1] /\ s[n + 1] \in Nat \ {0} /\ P[n] \in Nat \ {0}
    <3>1. n \in 0..n
      BY <1>4
    <3> QED
      BY <1>1, <1>4, <2>1, <3>1
  <2>3. P[n + 1] \in Nat \ {0} /\ P[n] <= P[n + 1]
    BY <1>2, <2>2
  <2>4. ASSUME NEW j \in 0..(n + 1) PROVE P[j] \in Nat \ {0} /\ P[j] <= P[n + 1]
    <3>1. CASE j = n + 1
      BY <2>3, <3>1
    <3>2. CASE j # n + 1
      <4>1. j \in 0..n /\ n \in 0..N
        BY <3>2
      <4>2. P[j] <= P[n] /\ P[j] \in Nat \ {0}
        BY <1>4, <4>1
      <4> QED
        BY <2>2, <2>3, <4>2
    <3> QED
      BY <3>1, <3>2
  <2> QED
    BY <2>1, <2>3, <2>4
<1> HIDE DEF S
<1>5. 0..N \subseteq S
  BY <1>3, <1>4, NatSetInduction
<1> QED
  BY <1>5 DEF S

-----------------------------------------------------------------------------
(***************************************************************************)
(* The accumulator is the product of the dimensions so far, and at most    *)
(* that of the same dimensions with every zero counted as one, which only  *)
(* grows: a shape refused for its size is above the cap however it goes    *)
(* on.                                                                     *)
(***************************************************************************)
ProductInv ==
    /\ pc \in {"multiply", "allocate"} /\ Rank > 0 =>
          \A P : Products(P, dims.seq, Rank) => numel = P[i]
    /\ pc = "multiply" =>
          \A P : Products(P, NonZero(dims.seq), Rank) => numel <= P[i]
    /\ pc = "allocate" => IF Rank = 0 THEN numel = 0 ELSE i = Rank
    /\ NumelIsProduct /\ RefusalsJustified

LEMMA NonZeroType ==
    ASSUME TypeOK
    PROVE  /\ dims.seq \in Seq(Nat) /\ Rank \in Nat
           /\ NonZero(dims.seq) \in Seq(Nat) /\ Len(NonZero(dims.seq)) = Rank
           /\ \A k \in 1..Rank : /\ NonZero(dims.seq)[k] \in Nat \ {0}
                                 /\ dims.seq[k] \in Nat
                                 /\ dims.seq[k] <= NonZero(dims.seq)[k]
<1>1. dims.seq \in Seq(Nat) /\ Rank = Len(dims.seq) /\ Rank \in Nat
  BY DEF TypeOK, Rank
<1> DEFINE z == NonZero(dims.seq)
<1>2. z = [k \in 1..Rank |-> IF dims.seq[k] = 0 THEN 1 ELSE dims.seq[k]]
  BY <1>1 DEF NonZero
<1>3. \A k \in 1..Rank : dims.seq[k] \in Nat
  BY <1>1
<1> HIDE DEF z
<1>4. \A k \in 1..Rank : z[k] \in Nat \ {0} /\ dims.seq[k] <= z[k]
  BY <1>2, <1>3
<1>5. z \in [1..Rank -> Nat]
  BY <1>2, <1>3
<1>6. z \in Seq(Nat) /\ Len(z) = Rank
  BY <1>1, <1>5
<1> QED
  BY <1>1, <1>3, <1>4, <1>6 DEF z

LEMMA MultiplyProduct == LoopInv /\ ProductInv /\ Multiply => ProductInv'
<1> SUFFICES ASSUME LoopInv, ProductInv, Multiply PROVE ProductInv'
  OBVIOUS
<1> DEFINE s == dims.seq
           z == NonZero(dims.seq)
<1>1. /\ Rank \in Nat /\ i \in Nat /\ i < Rank /\ Rank > 0 /\ pc = "multiply"
      /\ dims' = dims /\ Rank' = Rank /\ boxed' = boxed /\ NonZero(dims.seq)' = z
      /\ numel \in Nat
  BY TensorAssumption DEF LoopInv, InLoop, TypeOK, Multiply, Rank, NonZero
<1>2. /\ z \in Seq(Nat) /\ Len(z) = Rank
      /\ i + 1 \in 1..Rank /\ (i + 1) - 1 = i /\ i \in 0..Rank /\ i + 1 \in 0..Rank
      /\ \A k \in 1..Rank : z[k] \in Nat \ {0} /\ s[k] \in Nat /\ s[k] <= z[k]
  BY <1>1, NonZeroType DEF LoopInv
<1> HIDE DEF s, z
<1>3. ASSUME NEW P, Products(P, s, Rank)
      PROVE  numel = P[i] /\ P[i + 1] = numel * s[i + 1]
  BY <1>1, <1>2, <1>3 DEF ProductInv, Products, s
<1>4. ASSUME NEW P, Products(P, z, Rank)
      PROVE  /\ P[i + 1] \in Nat /\ numel * s[i + 1] \in Nat
             /\ numel * s[i + 1] <= P[i + 1] /\ P[i + 1] <= P[Rank] /\ P[Rank] \in Nat
  <2>1. numel <= P[i] /\ P[i + 1] = P[i] * z[i + 1]
    BY <1>1, <1>2, <1>4 DEF ProductInv, Products, z
  <2>2. P[i] \in Nat /\ P[i + 1] \in Nat /\ P[Rank] \in Nat /\ P[i + 1] <= P[Rank]
    <3>1. Rank \in Nat /\ Rank \in 0..Rank /\ \A k \in 1..Rank : z[k] \in Nat \ {0}
      BY <1>1, <1>2
    <3>2. /\ \A k \in 0..Rank : P[k] \in Nat \ {0}
          /\ \A j \in 0..Rank : P[j] <= P[Rank]
      BY <1>4, <3>1, ProductsGrow, Zenon
    <3> QED
      BY <1>2, <3>1, <3>2
  <2>3. \A a, b, c, d \in Nat : a <= b /\ c <= d => a * c \in Nat /\ a * c <= b * d
    OBVIOUS
  <2>4. s[i + 1] \in Nat /\ z[i + 1] \in Nat /\ s[i + 1] <= z[i + 1]
    BY <1>2
  <2>5. numel * s[i + 1] \in Nat /\ numel * s[i + 1] <= P[i] * z[i + 1]
    BY <1>1, <2>1, <2>2, <2>3, <2>4
  <2> QED
    BY <2>1, <2>2, <2>5
<1>5. CASE pc' \in {"E_PARAM_overflow", "E_NOMEM"}
  <2>1. numel * s[i + 1] > Cap
    BY <1>1, <1>2, <1>5, TensorAssumption DEF Multiply, s
  <2>2. PICK P : Products(P, z, Len(z)) /\ Product(z) = P[Len(z)]
    BY <1>2, ProductFact
  <2>3. Product(z) > Cap
    <3>1. Product(z) = P[Rank] /\ Products(P, z, Rank)
      BY <1>2, <2>2
    <3> DEFINE c == numel * s[i + 1]
    <3>2. c \in Nat /\ c <= P[i + 1] /\ P[i + 1] \in Nat /\ P[i + 1] <= P[Rank]
          /\ P[Rank] \in Nat /\ c > Cap
      BY <1>4, <2>1, <3>1
    <3> HIDE DEF c
    <3> QED
      BY <3>1, <3>2, TensorAssumption
  <2>4. RefusalsJustified'
    BY <1>1, <2>3 DEF RefusalsJustified, z, NonZero
  <2> QED
    BY <1>5, <2>4 DEF ProductInv, NumelIsProduct
<1>6. CASE pc' \in {"multiply", "allocate"}
  <2>1. /\ i' = i + 1 /\ numel' = numel * s[i + 1]
        /\ pc' = "allocate" => i' = Rank
    BY <1>1, <1>6 DEF Multiply, s
  <2>2. \A P : Products(P, s, Rank) => numel' = P[i']
    BY <1>3, <2>1
  <2>3. \A P : Products(P, z, Rank) => numel' <= P[i']
    BY <1>4, <2>1
  <2>4. NumelIsProduct' /\ RefusalsJustified'
    BY <1>6 DEF NumelIsProduct, RefusalsJustified
  <2> QED
    BY <1>1, <1>6, <2>1, <2>2, <2>3, <2>4 DEF ProductInv, s, z
<1> QED
  BY <1>5, <1>6 DEF Multiply

LEMMA InitProduct == Init => ProductInv
  BY DEF Init, ProductInv, NumelIsProduct, RefusalsJustified

LEMMA NextProduct == LoopInv /\ ProductInv /\ [Next]_vars => ProductInv'
<1> SUFFICES ASSUME LoopInv, ProductInv, [Next]_vars PROVE ProductInv'
  OBVIOUS
<1>1. CASE Check
  <2>1. /\ Rank \in Nat /\ Rank' = Rank /\ dims' = dims /\ i' = i /\ i = 0
        /\ NonZero(dims.seq)' = NonZero(dims.seq)
        /\ pc' \notin {"done", "E_PARAM_overflow", "E_NOMEM"}
    BY <1>1, TensorAssumption DEF LoopInv, InLoop, TypeOK, Check, Rank, NonZero
  <2>2. /\ pc' = "multiply" => numel' = 1 /\ Rank > 0
        /\ pc' = "allocate" => numel' = 0 /\ Rank = 0
    BY <1>1, <2>1 DEF Check
  <2>3. \A P, v : Products(P, v, Rank) => P[i'] = 1
    BY <2>1 DEF Products
  <2>4. NumelIsProduct' /\ RefusalsJustified'
    BY <2>1 DEF NumelIsProduct, RefusalsJustified
  <2> QED
    BY <2>1, <2>2, <2>3, <2>4 DEF ProductInv
<1>2. CASE Multiply
  BY <1>2, MultiplyProduct
<1>3. CASE Allocate
  <2>1. /\ Rank' = Rank /\ dims' = dims /\ i' = i /\ numel' = numel /\ boxed' = numel
        /\ pc = "allocate" /\ pc' = "done" /\ dims.seq \in Seq(Nat) /\ Rank \in Nat
        /\ Rank = Len(dims.seq)
    BY <1>3 DEF Allocate, Rank, LoopInv, TypeOK
  <2>2. PICK P : Products(P, dims.seq, Rank) /\ Product(dims.seq) = P[Rank]
    BY <2>1, ProductFact
  <2>3. Rank # 0 => numel = P[i] /\ i = Rank
    BY <2>1, <2>2 DEF ProductInv
  <2>4. NumelIsProduct'
    <3>1. Product(dims.seq)' = Product(dims.seq)
      BY <2>1 DEF Product
    <3>2. Rank = 0 => numel = 0
      BY <2>1 DEF ProductInv
    <3> QED
      BY <2>1, <2>2, <2>3, <3>1, <3>2 DEF NumelIsProduct
  <2> QED
    BY <2>1, <2>4 DEF ProductInv, RefusalsJustified
<1>4. CASE Returned \/ UNCHANGED vars
  <2>1. /\ Rank' = Rank /\ dims' = dims /\ i' = i /\ numel' = numel /\ boxed' = boxed
        /\ pc' = pc
    BY <1>4 DEF Returned, vars, Rank
  <2>2. /\ NonZero(dims.seq)' = NonZero(dims.seq)
        /\ Product(dims.seq)' = Product(dims.seq)
        /\ Product(NonZero(dims.seq))' = Product(NonZero(dims.seq))
    BY <2>1 DEF NonZero, Product
  <2>3. NumelIsProduct' /\ RefusalsJustified'
    BY <2>1, <2>2 DEF ProductInv, NumelIsProduct, RefusalsJustified
  <2> QED
    BY <2>1, <2>2, <2>3 DEF ProductInv
<1> QED
  BY <1>1, <1>2, <1>3, <1>4 DEF Next

LEMMA ProductAlways == Spec => []ProductInv
  BY InitLoop, NextLoop, InitProduct, NextProduct, PTL DEF Spec

(***************************************************************************)
(* A tensor that is made has as many elements as its shape says, the       *)
(* product taken without a word's width (ffi.rs:61-83).                    *)
(***************************************************************************)
THEOREM TensorNumelIsProduct == Spec => []NumelIsProduct
<1>1. ProductInv => NumelIsProduct
  BY DEF ProductInv
<1> QED
  BY <1>1, ProductAlways, PTL

(***************************************************************************)
(* Only shapes that hold more than the cap, zero dimensions left out, are  *)
(* refused for their size, at whichever dimension the loop stops.          *)
(***************************************************************************)
THEOREM TensorRefusalsJustified == Spec => []RefusalsJustified
<1>1. ProductInv => RefusalsJustified
  BY DEF ProductInv
<1> QED
  BY <1>1, ProductAlways, PTL

-----------------------------------------------------------------------------
(***************************************************************************)
(* Division: the quotient and the rest are unique, and dividing twice is   *)
(* dividing by the product.                                                *)
(***************************************************************************)
LEMMA DivisionFact ==
    ASSUME NEW n \in Nat, NEW d \in Nat \ {0}
    PROVE  /\ n \div d \in Nat /\ n % d \in 0..(d - 1)
           /\ n = (n \div d) * d + (n % d)
  OBVIOUS

LEMMA DivisionUnique ==
    ASSUME NEW d \in Nat \ {0}, NEW q \in Nat, NEW r \in 0..(d - 1)
    PROVE  (q * d + r) \div d = q
<1> DEFINE n == q * d + r
           p == n \div d
<1>1. n \in Nat /\ p \in Nat /\ n % d \in 0..(d - 1) /\ n = p * d + (n % d)
  <2>1. n \in Nat
    OBVIOUS
  <2> HIDE DEF n
  <2> QED
    BY <2>1, DivisionFact
<1>2. \A a, b \in Nat : a < b => a * d + d <= b * d
  <2>1. \A c \in Nat : c > 0 => d <= c * d
    OBVIOUS
  <2> SUFFICES ASSUME NEW a \in Nat, NEW b \in Nat, a < b PROVE a * d + d <= b * d
    OBVIOUS
  <2>2. b - a \in Nat /\ b - a > 0 /\ (b - a) * d = b * d - a * d
    OBVIOUS
  <2> QED
    BY <2>1, <2>2
<1>3. p * d \in Nat /\ q * d \in Nat /\ n = q * d + r
  BY <1>1
<1> HIDE DEF n, p
<1>4. ~(p < q) /\ ~(q < p)
  BY <1>1, <1>2, <1>3
<1> QED
  BY <1>1, <1>4 DEF n, p

LEMMA DivisionNests ==
    ASSUME NEW n \in Nat, NEW c \in Nat \ {0}, NEW d \in Nat \ {0}
    PROVE  (n \div c) \div d = n \div (d * c)
<1> DEFINE a == n \div c
           q == a \div d
<1>1. /\ a \in Nat /\ n % c \in 0..(c - 1) /\ n = a * c + (n % c)
      /\ q \in Nat /\ a % d \in 0..(d - 1) /\ a = q * d + (a % d)
  <2>1. /\ a \in Nat /\ n % c \in 0..(c - 1) /\ n = a * c + (n % c)
    BY DivisionFact
  <2> HIDE DEF a
  <2> QED
    BY <2>1, DivisionFact
<1> HIDE DEF a, q
<1> DEFINE x == a % d
           y == n % c
<1>2. x \in 0..(d - 1) /\ y \in 0..(c - 1) /\ n = (q * d + x) * c + y
  BY <1>1
<1> HIDE DEF x, y
<1>3. n = q * (d * c) + (x * c + y) /\ d * c \in Nat \ {0}
  BY <1>1, <1>2
<1>4. x * c + y \in 0..(d * c - 1)
  <2>1. x + 1 <= d /\ x \in Nat /\ y \in Nat /\ y < c
    BY <1>2
  <2>2. \A u, v \in Nat : u <= v => u * c <= v * c
    OBVIOUS
  <2>3. (x + 1) * c <= d * c /\ (x + 1) * c = x * c + c /\ x * c \in Nat /\ d * c \in Nat
    BY <2>1, <2>2
  <2> QED
    BY <2>1, <2>3
<1>5. (q * (d * c) + (x * c + y)) \div (d * c) = q
  BY <1>1, <1>3, <1>4, DivisionUnique
<1> QED
  BY <1>3, <1>5 DEF q, a

-----------------------------------------------------------------------------
(***************************************************************************)
(* The product of a sequence is that of its tail times its head, although  *)
(* Product multiplies from the other end.                                  *)
(***************************************************************************)
LEMMA ProductHead ==
    ASSUME NEW s \in Seq(Nat), NEW t \in Seq(Nat), Len(s) = Len(t) + 1,
           \A j \in 1..Len(t) : s[j + 1] = t[j]
    PROVE  Product(t) \in Nat /\ Product(s) = s[1] * Product(t)
<1>1. PICK P : Products(P, s, Len(s)) /\ Product(s) = P[Len(s)]
  BY ProductFact
<1>2. PICK Q : Products(Q, t, Len(t)) /\ Product(t) = Q[Len(t)]
  BY ProductFact
<1> DEFINE N == Len(t)
           a == s[1]
<1>3. /\ N \in Nat /\ Len(s) = N + 1 /\ a \in Nat
      /\ \A j \in 1..N : t[j] \in Nat /\ s[j + 1] = t[j]
  OBVIOUS
<1> HIDE DEF N, a
<1> DEFINE S == {n \in 0..N : Q[n] \in Nat /\ P[n + 1] = a * Q[n]}
<1>4. 0 \in S
  <2>1. Q[0] = 1 /\ P[0] = 1 /\ P[1] = P[0] * s[1]
    BY <1>1, <1>2, <1>3 DEF Products
  <2> QED
    BY <1>3, <2>1 DEF a
<1>5. ASSUME NEW n \in 0..N, n \in S, n < N PROVE n + 1 \in S
  <2>1. n + 1 \in 1..N /\ (n + 1) - 1 = n /\ n + 2 \in 1..(N + 1) /\ (n + 2) - 1 = n + 1
        /\ (n + 1) + 1 = n + 2
    BY <1>3, <1>5
  <2>2. Q[n + 1] = Q[n] * t[n + 1]
    BY <1>2, <2>1 DEF Products, N
  <2>3. P[n + 2] = P[n + 1] * s[n + 2] /\ s[n + 2] = t[n + 1] /\ t[n + 1] \in Nat
    BY <1>1, <1>3, <2>1 DEF Products
  <2>4. Q[n] \in Nat /\ P[n + 1] = a * Q[n]
    BY <1>5
  <2>5. \A b, c, e \in Nat : b * c \in Nat /\ (b * c) * e = b * (c * e)
    OBVIOUS
  <2>6. Q[n + 1] \in Nat /\ P[n + 2] = a * Q[n + 1]
    <3>1. P[n + 2] = (a * Q[n]) * t[n + 1] /\ t[n + 1] \in Nat
      BY <2>3, <2>4, Zenon
    <3>2. Q[n] * t[n + 1] \in Nat /\ (a * Q[n]) * t[n + 1] = a * (Q[n] * t[n + 1])
      <4> DEFINE x == Q[n]
                 y == t[n + 1]
      <4>1. x \in Nat /\ y \in Nat /\ a \in Nat
        BY <1>3, <2>4, <3>1
      <4> HIDE DEF x, y
      <4>2. x * y \in Nat /\ (a * x) * y = a * (x * y)
        BY <2>5, <4>1
      <4> QED
        BY <4>2 DEF x, y
    <3> QED
      BY <2>2, <3>1, <3>2, Zenon
  <2> QED
    BY <2>1, <2>6
<1> HIDE DEF S
<1>6. N \in S
  <2>1. 0..N \subseteq S
    BY <1>3, <1>4, <1>5, NatSetInduction
  <2> QED
    BY <1>3, <2>1
<1> QED
  BY <1>1, <1>2, <1>3, <1>6 DEF S, N, a

\* What the dimensions after the first k hold: the size of the lists at depth k.
Child(s, k) == Product(SubSeq(s, k + 1, Len(s)))

LEMMA TailFact ==
    ASSUME NEW s \in Seq(Nat), NEW k \in 0..Len(s)
    PROVE  /\ SubSeq(s, k + 1, Len(s)) \in Seq(Nat)
           /\ Len(SubSeq(s, k + 1, Len(s))) = Len(s) - k
           /\ \A j \in 1..(Len(s) - k) : SubSeq(s, k + 1, Len(s))[j] = s[k + j]
<1> DEFINE m == k + 1
           n == Len(s)
<1>1. m \in Int /\ n \in Int /\ \A j \in m..n : s[j] \in Nat
  OBVIOUS
<1>2. /\ (IF m <= n THEN n - m + 1 ELSE 0) = n - k /\ n - m + 1 = n - k
      /\ \A j \in 1..(n - k) : m + j - 1 = k + j
  OBVIOUS
<1> HIDE DEF m, n
<1>3. /\ SubSeq(s, m, n) \in Seq(Nat) /\ Len(SubSeq(s, m, n)) = n - k
      /\ \A j \in 1..(n - k) : SubSeq(s, m, n)[j] = s[k + j]
  <2>1. /\ SubSeq(s, m, n) \in Seq(Nat)
        /\ Len(SubSeq(s, m, n)) = IF m <= n THEN n - m + 1 ELSE 0
        /\ \A j \in 1..(n - m + 1) : SubSeq(s, m, n)[j] = s[m + j - 1]
    BY <1>1, SubSeqProperties
  <2> QED
    BY <1>2, <2>1
<1> QED
  BY <1>3 DEF m, n

LEMMA ChildFact ==
    ASSUME NEW s \in Seq(Nat)
    PROVE  /\ Child(s, Len(s)) = 1 /\ Child(s, 0) = Product(s)
           /\ \A k \in 0..Len(s) : Child(s, k) \in Nat
           /\ \A k \in 1..Len(s) : Child(s, k - 1) = s[k] * Child(s, k)
<1>1. Len(s) \in Nat /\ \A k \in 1..Len(s) : k \in 0..Len(s) /\ k - 1 \in 0..Len(s)
  OBVIOUS
<1>2. Child(s, Len(s)) = 1
  <2>1. /\ SubSeq(s, Len(s) + 1, Len(s)) \in Seq(Nat)
        /\ Len(SubSeq(s, Len(s) + 1, Len(s))) = 0
    BY <1>1, TailFact
  <2>2. PICK P : Products(P, SubSeq(s, Len(s) + 1, Len(s)), 0)
                 /\ Product(SubSeq(s, Len(s) + 1, Len(s))) = P[0]
    BY <2>1, ProductFact
  <2> QED
    BY <2>2 DEF Child, Products
<1>3. ASSUME NEW k \in 1..Len(s)
      PROVE  Child(s, k) \in Nat /\ Child(s, k - 1) = s[k] * Child(s, k)
  <2> DEFINE u == SubSeq(s, k, Len(s))
             t == SubSeq(s, k + 1, Len(s))
  <2>1. t \in Seq(Nat) /\ Len(t) = Len(s) - k /\ \A j \in 1..(Len(s) - k) : t[j] = s[k + j]
    BY <1>1, TailFact
  <2>2. /\ u \in Seq(Nat) /\ Len(u) = (Len(s) - k) + 1
        /\ \A j \in 1..((Len(s) - k) + 1) : u[j] = s[(k - 1) + j]
    <3>1. k - 1 \in 0..Len(s) /\ (k - 1) + 1 = k /\ Len(s) - (k - 1) = (Len(s) - k) + 1
      BY <1>1
    <3> QED
      BY <3>1, TailFact
  <2>3. Child(s, k) = Product(t) /\ Child(s, k - 1) = Product(u)
    BY <1>1 DEF Child
  <2> HIDE DEF t, u
  <2>4. u[1] = s[k] /\ Len(u) = Len(t) + 1 /\ \A j \in 1..Len(t) : u[j + 1] = t[j]
    <3>1. /\ 1 \in 1..((Len(s) - k) + 1) /\ (k - 1) + 1 = k
          /\ \A j \in 1..(Len(s) - k) : /\ j + 1 \in 1..((Len(s) - k) + 1)
                                         /\ (k - 1) + (j + 1) = k + j
      BY <1>1
    <3>2. u[1] = s[k]
      BY <2>2, <3>1
    <3>3. ASSUME NEW j \in 1..(Len(s) - k) PROVE u[j + 1] = t[j]
      <4>1. t[j] = s[k + j] /\ u[j + 1] = s[(k - 1) + (j + 1)]
        BY <2>1, <2>2, <3>1, <3>3
      <4> QED
        BY <3>1, <4>1
    <3> QED
      BY <2>1, <2>2, <3>2, <3>3
  <2> QED
    BY <2>1, <2>2, <2>3, <2>4, ProductHead
<1>4. Child(s, 0) = Product(s) /\ Child(s, 0) \in Nat
  <2>1. SubSeq(s, 1, Len(s)) = s /\ 0 + 1 = 1
    BY SubSeqFull
  <2>2. Child(s, 0) = Product(s)
    BY <2>1, Zenon DEF Child
  <2>3. CASE Len(s) = 0
    BY <1>2, <2>2, <2>3
  <2>4. CASE Len(s) # 0
    <3>1. 1 \in 1..Len(s) /\ s[1] \in Nat /\ 1 - 1 = 0
      BY <1>1, <2>4
    <3>2. Child(s, 0) = s[1] * Child(s, 1) /\ Child(s, 1) \in Nat
      BY <1>3, <3>1
    <3> QED
      BY <2>2, <3>1, <3>2
  <2> QED
    BY <2>3, <2>4
<1> QED
  BY <1>1, <1>2, <1>3, <1>4

\* A product that is not zero has no zero among its factors.
LEMMA FactorsNotZero ==
    ASSUME NEW s \in Seq(Nat), Product(s) # 0
    PROVE  /\ \A k \in 0..Len(s) : Child(s, k) \in Nat \ {0}
           /\ \A k \in 1..Len(s) : s[k] \in Nat \ {0}
<1> DEFINE S == {n \in 0..Len(s) : Child(s, n) # 0}
<1>1. /\ \A k \in 0..Len(s) : Child(s, k) \in Nat
      /\ \A k \in 1..Len(s) : Child(s, k - 1) = s[k] * Child(s, k) /\ s[k] \in Nat
  BY ChildFact
<1>2. 0 \in S
  BY ChildFact
<1>3. ASSUME NEW n \in 0..Len(s), n \in S, n < Len(s) PROVE n + 1 \in S
  <2>1. n + 1 \in 1..Len(s) /\ n + 1 \in 0..Len(s) /\ (n + 1) - 1 = n
    BY <1>3
  <2>2. Child(s, n) = s[n + 1] * Child(s, n + 1) /\ s[n + 1] \in Nat /\ Child(s, n) # 0
    BY <1>1, <1>3, <2>1
  <2> QED
    BY <2>1, <2>2
<1>4. 0..Len(s) \subseteq S
  <2> HIDE DEF S
  <2>1. Len(s) \in Nat
    OBVIOUS
  <2> QED
    BY <1>2, <1>3, <2>1, NatSetInduction
<1>5. \A k \in 0..Len(s) : Child(s, k) \in Nat \ {0}
  BY <1>1, <1>4
<1>6. ASSUME NEW k \in 1..Len(s) PROVE s[k] # 0
  <2>1. k \in 0..Len(s) /\ k - 1 \in 0..Len(s)
    OBVIOUS
  <2>2. Child(s, k - 1) = s[k] * Child(s, k) /\ Child(s, k - 1) # 0 /\ Child(s, k) \in Nat
    BY <1>1, <1>5, <2>1
  <2> QED
    BY <2>2
<1> QED
  BY <1>1, <1>5, <1>6

-----------------------------------------------------------------------------
(***************************************************************************)
(* What _reshape computes: its equation at every depth from m on has a     *)
(* solution, so that the recursive function satisfies it.                  *)
(***************************************************************************)
LEMMA SliceFact ==
    ASSUME NEW v \in Seq(Nat), NEW lo \in Nat, NEW hi \in Nat
    PROVE  /\ Slice(v, lo, hi) \in Seq(Nat)
           /\ lo <= hi /\ hi <= Len(v) =>
                 /\ Len(Slice(v, lo, hi)) = hi - lo
                 /\ \A j \in 1..(hi - lo) : Slice(v, lo, hi)[j] = v[lo + j]
<1> DEFINE m == lo + 1
           n == IF hi < Len(v) THEN hi ELSE Len(v)
<1>1. m \in Int /\ n \in Int /\ \A j \in m..n : v[j] \in Nat
  OBVIOUS
<1>2. lo <= hi /\ hi <= Len(v) => /\ (IF m <= n THEN n - m + 1 ELSE 0) = hi - lo
                                  /\ n - m + 1 = hi - lo
                                  /\ \A j \in 1..(hi - lo) : m + j - 1 = lo + j
  OBVIOUS
<1>3. Slice(v, lo, hi) = SubSeq(v, m, n)
  BY DEF Slice
<1> HIDE DEF m, n
<1>4. /\ SubSeq(v, m, n) \in Seq(Nat)
      /\ Len(SubSeq(v, m, n)) = IF m <= n THEN n - m + 1 ELSE 0
      /\ \A j \in 1..(n - m + 1) : SubSeq(v, m, n)[j] = v[m + j - 1]
  BY <1>1, SubSeqProperties
<1> QED
  BY <1>2, <1>3, <1>4

\* The j-th child, at depth k, of a list.
ChildOf(s, k, v, j) == Slice(v, (j - 1) * Child(s, k), j * Child(s, k))

ListsFrom(R, s, m) ==
    \A k \in m..Len(s) : \A v \in Seq(Nat) :
        R[<<k, v>>] = IF k = Len(s) THEN v
                      ELSE [j \in 1..s[k] |-> R[<<k + 1, ChildOf(s, k, v, j)>>]]

LEMMA ChildOfType ==
    ASSUME NEW s \in Seq(Nat), NEW k \in 1..Len(s), NEW v \in Seq(Nat), NEW j \in 1..s[k]
    PROVE  ChildOf(s, k, v, j) \in Seq(Nat)
<1>1. Child(s, k) \in Nat /\ s[k] \in Nat
  BY ChildFact
<1> DEFINE c == Child(s, k)
<1> HIDE DEF c
<1>2. (j - 1) * c \in Nat /\ j * c \in Nat
  <2>1. c \in Nat /\ j \in Nat /\ j - 1 \in Nat
    BY <1>1 DEF c
  <2> QED
    BY <2>1
<1> QED
  BY <1>2, SliceFact DEF ChildOf, c

LEMMA ListsExtend ==
    ASSUME NEW s \in Seq(Nat), NEW m \in 1..(Len(s) - 1), NEW R, ListsFrom(R, s, m + 1)
    PROVE  \E g : ListsFrom(g, s, m)
<1> DEFINE D == (1..Len(s)) \X Seq(Nat)
           New(v) == [j \in 1..s[m] |-> R[<<m + 1, ChildOf(s, m, v, j)>>]]
           g == [p \in D |-> IF p[1] > m THEN R[p] ELSE New(p[2])]
<1>1. ASSUME NEW k \in m..Len(s), NEW v \in Seq(Nat)
      PROVE  g[<<k, v>>] = IF k > m THEN R[<<k, v>>] ELSE New(v)
  <2>1. <<k, v>> \in D /\ <<k, v>>[1] = k /\ <<k, v>>[2] = v
    OBVIOUS
  <2> HIDE DEF New, D
  <2> QED
    BY <2>1
<1> HIDE DEF g
<1>2. ASSUME NEW k \in m..Len(s), NEW v \in Seq(Nat)
      PROVE  g[<<k, v>>] = IF k = Len(s) THEN v
                           ELSE [j \in 1..s[k] |-> g[<<k + 1, ChildOf(s, k, v, j)>>]]
  <2>1. k \in 1..Len(s) /\ k + 1 > m
    OBVIOUS
  <2>2. ASSUME k # Len(s), NEW j \in 1..s[k]
        PROVE  g[<<k + 1, ChildOf(s, k, v, j)>>] = R[<<k + 1, ChildOf(s, k, v, j)>>]
    <3>1. k + 1 \in m..Len(s) /\ ChildOf(s, k, v, j) \in Seq(Nat)
      BY <2>1, <2>2, ChildOfType
    <3> QED
      BY <1>1, <2>1, <3>1
  <2>3. CASE k > m
    <3>1. k \in (m + 1)..Len(s)
      BY <2>3
    <3>2. R[<<k, v>>] = IF k = Len(s) THEN v
                        ELSE [j \in 1..s[k] |-> R[<<k + 1, ChildOf(s, k, v, j)>>]]
      BY <3>1 DEF ListsFrom
    <3> QED
      BY <1>1, <2>2, <2>3, <3>2
  <2>4. CASE k = m
    <3>1. m # Len(s) /\ ~(m > m) /\ m \in m..Len(s)
      OBVIOUS
    <3>2. g[<<m, v>>] = New(v)
      BY <1>1, <3>1
    <3>3. \A j \in 1..s[m] :
             g[<<m + 1, ChildOf(s, m, v, j)>>] = R[<<m + 1, ChildOf(s, m, v, j)>>]
      BY <2>2, <2>4, <3>1
    <3>4. g[<<m, v>>] = [j \in 1..s[m] |-> g[<<m + 1, ChildOf(s, m, v, j)>>]]
      BY <3>2, <3>3
    <3> QED
      BY <2>4, <3>1, <3>4
  <2> QED
    BY <2>3, <2>4
<1>3. ListsFrom(g, s, m)
  BY <1>2 DEF ListsFrom
<1> QED
  BY <1>3

LEMMA ListsExist ==
    ASSUME NEW s \in Seq(Nat), Len(s) > 0
    PROVE  \E R : ListsFrom(R, s, 1)
<1> DEFINE N == Len(s)
           S == {n \in 0..(N - 1) : \E R : ListsFrom(R, s, N - n)}
<1>1. N \in Nat /\ N - 1 \in Nat /\ N - 0 = N /\ N..N = {N} /\ N - (N - 1) = 1
  OBVIOUS
<1>2. 0 \in S
  <2> DEFINE R == [p \in {N} \X Seq(Nat) |-> p[2]]
  <2>1. \A v \in Seq(Nat) : R[<<N, v>>] = v
    OBVIOUS
  <2> HIDE DEF R
  <2>2. ListsFrom(R, s, N)
    BY <1>1, <2>1 DEF ListsFrom
  <2>3. \E Q : ListsFrom(Q, s, N - 0)
    BY <1>1, <2>2
  <2> QED
    BY <1>1, <2>3
<1>3. ASSUME NEW n \in 0..(N - 1), n \in S, n < N - 1 PROVE n + 1 \in S
  <2>1. PICK R : ListsFrom(R, s, N - n)
    BY <1>3
  <2>2. N - (n + 1) \in 1..(Len(s) - 1) /\ N - n = (N - (n + 1)) + 1 /\ n + 1 \in 0..(N - 1)
    BY <1>1, <1>3
  <2>3. \E g : ListsFrom(g, s, N - (n + 1))
    BY <2>1, <2>2, ListsExtend
  <2> QED
    BY <2>2, <2>3
<1> HIDE DEF S
<1>4. 0..(N - 1) \subseteq S
  BY <1>1, <1>2, <1>3, NatSetInduction
<1>5. N - 1 \in S
  BY <1>1, <1>4
<1> QED
  BY <1>1, <1>5 DEF S

LEMMA ReshapeFact ==
    ASSUME NEW s \in Seq(Nat), Len(s) > 0
    PROVE  \E R : ListsFrom(R, s, 1) /\ \A v : Reshape(v, s) = R[<<1, v>>]
<1> DEFINE D == (1..Len(s)) \X Seq(Nat)
           Body(h, p) == LET k == p[1] IN
                IF k = Len(s) THEN p[2]
                ELSE LET child == Product(SubSeq(s, k + 1, Len(s)))
                     IN [j \in 1..s[k] |->
                           h[<<k + 1, Slice(p[2], (j - 1) * child, j * child)>>]]
           Eq(h) == h = [p \in D |-> Body(h, p)]
           R == CHOOSE h : Eq(h)
<1>1. PICK f : ListsFrom(f, s, 1)
  BY ListsExist
<1> DEFINE g == [p \in D |-> f[p]]
<1>2. ASSUME NEW h, NEW k \in 1..Len(s), NEW v \in Seq(Nat)
      PROVE  /\ <<k, v>> \in D
             /\ Body(h, <<k, v>>) =
                   IF k = Len(s) THEN v
                   ELSE [j \in 1..s[k] |-> h[<<k + 1, ChildOf(s, k, v, j)>>]]
  <2>1. <<k, v>>[1] = k /\ <<k, v>>[2] = v /\ <<k, v>> \in D
    OBVIOUS
  <2> QED
    BY <2>1 DEF ChildOf, Child
<1>3. ASSUME NEW k \in 1..Len(s), NEW v \in Seq(Nat)
      PROVE  g[<<k, v>>] = Body(g, <<k, v>>)
  <2>1. \A q \in D : g[q] = f[q]
    OBVIOUS
  <2>2. ASSUME k # Len(s), NEW j \in 1..s[k]
        PROVE  g[<<k + 1, ChildOf(s, k, v, j)>>] = f[<<k + 1, ChildOf(s, k, v, j)>>]
    <3>1. k + 1 \in 1..Len(s) /\ ChildOf(s, k, v, j) \in Seq(Nat)
      BY <2>2, ChildOfType
    <3>2. <<k + 1, ChildOf(s, k, v, j)>> \in D
      BY <3>1
    <3> QED
      BY <2>1, <3>2
  <2>3. f[<<k, v>>] = IF k = Len(s) THEN v
                      ELSE [j \in 1..s[k] |-> f[<<k + 1, ChildOf(s, k, v, j)>>]]
    BY <1>1 DEF ListsFrom
  <2>4. g[<<k, v>>] = f[<<k, v>>]
    BY <1>2, <2>1
  <2> DEFINE value == IF k = Len(s) THEN v
                      ELSE [j \in 1..s[k] |-> g[<<k + 1, ChildOf(s, k, v, j)>>]]
  <2> HIDE DEF g, Body, D
  <2>5. Body(g, <<k, v>>) = value
    <3>1. <<k, v>>[1] = k /\ <<k, v>>[2] = v
      OBVIOUS
    <3> QED
      BY <3>1 DEF Body, ChildOf, Child
  <2>6. g[<<k, v>>] = value
    BY <2>2, <2>3, <2>4
  <2> HIDE DEF value
  <2> QED
    BY <2>5, <2>6
<1> HIDE DEF Body
<1>4. Eq(g)
  <2>1. ASSUME NEW p \in D PROVE g[p] = Body(g, p)
    <3>1. PICK k \in 1..Len(s), v \in Seq(Nat) : p = <<k, v>>
      OBVIOUS
    <3> HIDE DEF g, D
    <3> QED
      BY <1>3, <3>1
  <2>2. g = [p \in D |-> g[p]]
    OBVIOUS
  <2> HIDE DEF g, D
  <2> QED
    BY <2>1, <2>2
<1>5. Eq(R)
  <2> HIDE DEF g, Eq
  <2> QED
    BY <1>4
<1>6. \A v : Reshape(v, s) = R[<<1, v>>]
  BY DEF Reshape, Body
<1> HIDE DEF R
<1>7. ASSUME NEW k \in 1..Len(s), NEW v \in Seq(Nat)
      PROVE  R[<<k, v>>] = IF k = Len(s) THEN v
                           ELSE [j \in 1..s[k] |-> R[<<k + 1, ChildOf(s, k, v, j)>>]]
  <2>1. <<k, v>> \in D
    BY <1>2
  <2> HIDE DEF D
  <2>2. R[<<k, v>>] = Body(R, <<k, v>>)
    BY <1>5, <2>1
  <2>3. Body(R, <<k, v>>) = IF k = Len(s) THEN v
                            ELSE [j \in 1..s[k] |-> R[<<k + 1, ChildOf(s, k, v, j)>>]]
    <3>1. <<k, v>>[1] = k /\ <<k, v>>[2] = v
      OBVIOUS
    <3> QED
      BY <3>1 DEF Body, ChildOf, Child
  <2> QED
    BY <2>2, <2>3, Zenon
<1>8. ListsFrom(R, s, 1)
  BY <1>7 DEF ListsFrom
<1> QED
  BY <1>6, <1>8

-----------------------------------------------------------------------------
(***************************************************************************)
(* The way to the n-th element: at depth k stands the list of the elements *)
(* that share its first k indices, a block of consecutive offsets.         *)
(***************************************************************************)
Block(s, n, k) == [j \in 1..Child(s, k) |-> (n \div Child(s, k)) * Child(s, k) + (j - 1)]
PlaceIn(s, n, k) == ((n \div Child(s, k)) % s[k]) + 1

LEMMA BlockType ==
    ASSUME NEW s \in Seq(Nat), Product(s) # 0, NEW n \in Nat, NEW k \in 0..Len(s)
    PROVE  /\ Block(s, n, k) \in Seq(Nat) /\ Len(Block(s, n, k)) = Child(s, k)
           /\ \A j \in 1..Child(s, k) :
                 Block(s, n, k)[j] = (n \div Child(s, k)) * Child(s, k) + (j - 1)
<1> DEFINE c == Child(s, k)
           e == (n \div c) * c
<1>1. c \in Nat \ {0}
  BY FactorsNotZero
<1> HIDE DEF c
<1>2. e \in Nat
  <2>1. n \div c \in Nat
    BY <1>1, DivisionFact
  <2> QED
    BY <1>1, <2>1
<1>3. Block(s, n, k) = [j \in 1..c |-> e + (j - 1)]
  BY DEF Block, c
<1> HIDE DEF e
<1>4. [j \in 1..c |-> e + (j - 1)] \in [1..c -> Nat]
  BY <1>1, <1>2
<1>5. /\ Block(s, n, k) \in Seq(Nat) /\ Len(Block(s, n, k)) = c
      /\ \A j \in 1..c : Block(s, n, k)[j] = e + (j - 1)
  BY <1>1, <1>3, <1>4
<1> QED
  BY <1>5 DEF c, e

\* The block at depth k is the child, at the element's place, of the one above.
LEMMA BlockNests ==
    ASSUME NEW s \in Seq(Nat), Product(s) # 0, NEW n \in Nat, NEW k \in 1..Len(s)
    PROVE  /\ PlaceIn(s, n, k) \in 1..s[k]
           /\ ChildOf(s, k, Block(s, n, k - 1), PlaceIn(s, n, k)) = Block(s, n, k)
           /\ \A j \in 1..Child(s, k) :
                 Block(s, n, k - 1)[(PlaceIn(s, n, k) - 1) * Child(s, k) + j] = Block(s, n, k)[j]
<1> DEFINE c == Child(s, k)
           d == s[k]
           a == n \div c
           b == a % d
           q == n \div (d * c)
           v == Block(s, n, k - 1)
<1>1. c \in Nat \ {0} /\ d \in Nat \ {0} /\ k \in 0..Len(s) /\ k - 1 \in 0..Len(s)
      /\ Child(s, k - 1) = d * c
  BY FactorsNotZero, ChildFact
<1>2. PlaceIn(s, n, k) = b + 1
  BY DEF PlaceIn
<1>3. /\ v \in Seq(Nat) /\ Len(v) = d * c
      /\ \A j \in 1..(d * c) : v[j] = q * (d * c) + (j - 1)
  <2> HIDE DEF c, d, q
  <2>1. q = n \div Child(s, k - 1)
    BY <1>1 DEF q
  <2>2. /\ v \in Seq(Nat) /\ Len(v) = Child(s, k - 1)
        /\ \A j \in 1..Child(s, k - 1) :
              v[j] = (n \div Child(s, k - 1)) * Child(s, k - 1) + (j - 1)
    BY <1>1, BlockType
  <2> HIDE DEF v
  <2> QED
    BY <1>1, <2>1, <2>2
<1>4. /\ Block(s, n, k) \in Seq(Nat) /\ Len(Block(s, n, k)) = c
      /\ \A j \in 1..c : Block(s, n, k)[j] = a * c + (j - 1)
  BY <1>1, BlockType
<1>5. ChildOf(s, k, v, b + 1) = Slice(v, ((b + 1) - 1) * c, (b + 1) * c)
  BY DEF ChildOf
<1> HIDE DEF c, d, v
<1>6. a \in Nat
  BY <1>1, DivisionFact
<1>7. a \div d = q
  BY <1>1, DivisionNests
<1> HIDE DEF a, q
<1>8. b \in 0..(d - 1) /\ a = q * d + b /\ q \in Nat
  BY <1>1, <1>6, <1>7, DivisionFact
<1> HIDE DEF b
<1>9. /\ b \in Nat /\ (b + 1) - 1 = b /\ b * c \in Nat /\ (b + 1) * c = b * c + c
      /\ (b + 1) * c \in Nat /\ (b + 1) * c <= d * c /\ d * c \in Nat
  <2>1. b \in Nat /\ b + 1 <= d /\ c \in Nat /\ d \in Nat
    BY <1>1, <1>8
  <2>2. \A x, y \in Nat : x <= y => x * c <= y * c /\ x * c \in Nat /\ y * c \in Nat
    BY <1>1
  <2>3. (b + 1) * c = b * c + c
    BY <2>1
  <2> QED
    BY <2>1, <2>2, <2>3
<1>10. a * c = q * (d * c) + b * c
  BY <1>1, <1>8
<1>11. /\ Slice(v, b * c, (b + 1) * c) \in Seq(Nat)
       /\ Len(Slice(v, b * c, (b + 1) * c)) = c
       /\ \A j \in 1..c : Slice(v, b * c, (b + 1) * c)[j] = v[b * c + j]
  <2> DEFINE lo == b * c
             hi == (b + 1) * c
  <2>1. lo \in Nat /\ hi \in Nat /\ lo <= hi /\ hi <= Len(v) /\ hi - lo = c
    BY <1>1, <1>3, <1>9
  <2> HIDE DEF lo, hi
  <2>2. Slice(v, lo, hi) \in Seq(Nat) /\ Len(Slice(v, lo, hi)) = c
        /\ \A j \in 1..c : Slice(v, lo, hi)[j] = v[lo + j]
    BY <1>3, <2>1, SliceFact
  <2> QED
    BY <2>2 DEF lo, hi
<1>12. ASSUME NEW j \in 1..c PROVE v[b * c + j] = Block(s, n, k)[j]
  <2> DEFINE x == b * c
             y == d * c
             z == q * (d * c)
  <2>1. x \in Nat /\ x + c <= y /\ y \in Nat /\ a * c = z + x /\ z \in Nat
    <3>1. \A u, w \in Nat : u * w \in Nat
      OBVIOUS
    <3> QED
      BY <1>8, <1>9, <1>10, <3>1
  <2>2. \A m \in 1..y : v[m] = z + (m - 1)
    BY <1>3
  <2>3. Block(s, n, k)[j] = (a * c) + (j - 1)
    BY <1>4
  <2> HIDE DEF x, y, z
  <2>4. x + j \in 1..y /\ z + ((x + j) - 1) = (z + x) + (j - 1)
    BY <1>1, <2>1
  <2>5. v[x + j] = Block(s, n, k)[j]
    BY <2>1, <2>2, <2>3, <2>4
  <2> QED
    BY <2>5 DEF x
<1>13. Slice(v, b * c, (b + 1) * c) = Block(s, n, k)
  <2> DEFINE w == Slice(v, b * c, (b + 1) * c)
  <2>1. w \in Seq(Nat) /\ Len(w) = c /\ \A j \in 1..c : w[j] = Block(s, n, k)[j]
    BY <1>11, <1>12
  <2> HIDE DEF w
  <2>2. w = Block(s, n, k)
    BY <1>4, <2>1, SeqEqual
  <2> QED
    BY <2>2 DEF w
<1>14. b + 1 \in 1..d
  BY <1>1, <1>8
<1> QED
  BY <1>2, <1>5, <1>9, <1>12, <1>13, <1>14 DEF c, d, v

Walk(R, s, n) ==
    [k \in 0..Len(s) |-> IF k < Len(s) THEN R[<<k + 1, Block(s, n, k)>>] ELSE n]

LEMMA WalkFact ==
    ASSUME NEW s \in Seq(Nat), Len(s) > 0, Product(s) # 0, NEW n \in 0..(Product(s) - 1),
           NEW R, ListsFrom(R, s, 1), NEW W, W = Walk(R, s, n)
    PROVE  /\ W[0] = R[<<1, [j \in 1..Product(s) |-> j - 1]>>] /\ W[Len(s)] = n
           /\ \A k \in 1..Len(s) : /\ Len(W[k - 1]) = s[k]
                                   /\ W[k] = W[k - 1][PlaceIn(s, n, k)]
<1> DEFINE N == Len(s)
<1>1. /\ N \in Nat /\ N > 0 /\ 0 \in 0..N /\ N \in 0..N /\ n \in Nat
      /\ Product(s) \in Nat \ {0} /\ n < Product(s)
  BY FactorsNotZero, ChildFact
<1>2. \A k \in 0..N : W[k] = IF k < N THEN R[<<k + 1, Block(s, n, k)>>] ELSE n
  BY DEF Walk
<1>3. W[N] = n
  <2>1. ~(N < N)
    BY <1>1
  <2> HIDE DEF N
  <2>2. W[N] = IF N < N THEN R[<<N + 1, Block(s, n, N)>>] ELSE n
    BY <1>1, <1>2, Zenon
  <2> QED
    BY <2>1, <2>2
<1>4. W[0] = R[<<1, [j \in 1..Product(s) |-> j - 1]>>]
  <2>1. Child(s, 0) = Product(s)
    BY ChildFact
  <2>2. n \div Product(s) = 0
    <3> DEFINE d == Product(s)
    <3>1. d \in Nat \ {0} /\ n \in 0..(d - 1)
      BY <1>1
    <3> HIDE DEF d
    <3>2. 0 * d + n = n
      BY <1>1, <3>1
    <3>3. (0 * d + n) \div d = 0
      BY <3>1, DivisionUnique
    <3> QED
      BY <3>2, <3>3 DEF d
  <2>3. ASSUME NEW j \in 1..Product(s)
        PROVE  (n \div Child(s, 0)) * Child(s, 0) + (j - 1) = j - 1
    <3>1. 0 * Product(s) = 0 /\ j - 1 \in Nat
      BY <1>1
    <3> QED
      BY <2>1, <2>2, <3>1
  <2>4. Block(s, n, 0) = [j \in 1..Product(s) |-> j - 1]
    BY <2>1, <2>3 DEF Block
  <2>5. W[0] = R[<<0 + 1, Block(s, n, 0)>>] /\ 0 + 1 = 1
    BY <1>1, <1>2
  <2> QED
    BY <2>4, <2>5, Zenon
<1>5. ASSUME NEW k \in 1..N
      PROVE  Len(W[k - 1]) = s[k] /\ W[k] = W[k - 1][PlaceIn(s, n, k)]
  <2> DEFINE v == Block(s, n, k - 1)
             p == PlaceIn(s, n, k)
  <2>1. /\ k \in 0..N /\ k - 1 \in 0..N /\ k - 1 < N /\ (k - 1) + 1 = k
        /\ s[k] \in Nat /\ Child(s, k - 1) = s[k] * Child(s, k)
    BY <1>1, ChildFact
  <2>2. v \in Seq(Nat) /\ Len(v) = Child(s, k - 1)
    BY <1>1, <2>1, BlockType
  <2>3. /\ p \in 1..s[k] /\ ChildOf(s, k, v, p) = Block(s, n, k)
        /\ \A j \in 1..Child(s, k) : v[(p - 1) * Child(s, k) + j] = Block(s, n, k)[j]
    BY <1>1, BlockNests
  <2>4. W[k - 1] = R[<<k, v>>]
    BY <1>2, <2>1
  <2> HIDE DEF v, p
  <2>5. R[<<k, v>>] = IF k = N THEN v
                      ELSE [j \in 1..s[k] |-> R[<<k + 1, ChildOf(s, k, v, j)>>]]
    BY <2>2 DEF ListsFrom
  <2>6. CASE k = N
    <3>1. Child(s, k) = 1 /\ W[k - 1] = v /\ W[k] = n
      BY <1>3, <2>4, <2>5, <2>6, ChildFact
    <3>2. Len(v) = s[k]
      BY <2>1, <2>2, <3>1
    <3>3. v[p] = Block(s, n, k)[1]
      <4>1. 1 \in 1..Child(s, k) /\ (p - 1) * Child(s, k) + 1 = p
        BY <2>1, <2>3, <3>1
      <4> QED
        BY <2>3, <4>1
    <3>4. Block(s, n, k)[1] = n
      <4>1. n \div 1 = n /\ n * 1 = n /\ n + (1 - 1) = n /\ 1 \in 1..1
        BY <1>1
      <4>2. Block(s, n, k)[1] = (n \div 1) * 1 + (1 - 1)
        <5>1. \A j \in 1..Child(s, k) :
                 Block(s, n, k)[j] = (n \div Child(s, k)) * Child(s, k) + (j - 1)
          BY <1>1, <2>1, BlockType
        <5> QED
          BY <3>1, <4>1, <5>1
      <4> QED
        BY <4>1, <4>2
    <3> QED
      BY <3>1, <3>2, <3>3, <3>4 DEF p
  <2>7. CASE k # N
    <3>1. W[k - 1] = [j \in 1..s[k] |-> R[<<k + 1, ChildOf(s, k, v, j)>>]]
      BY <2>4, <2>5, <2>7
    <3>2. W[k] = R[<<k + 1, Block(s, n, k)>>]
      BY <1>1, <1>2, <2>1, <2>7
    <3>3. W[k - 1][p] = R[<<k + 1, ChildOf(s, k, v, p)>>]
      BY <2>3, <3>1
    <3>4. Len(W[k - 1]) = s[k]
      BY <2>1, <3>1
    <3> QED
      BY <2>3, <3>2, <3>3, <3>4 DEF p
  <2> QED
    BY <2>6, <2>7
<1> QED
  BY <1>3, <1>4, <1>5

-----------------------------------------------------------------------------
\* numpy() of a tensor with elements is the list the walks start from.
LEMMA NumpyFact ==
    ASSUME TypeOK, pc = "done", boxed = Product(dims.seq), boxed > 0, Rank > 0
    PROVE  \E R : /\ ListsFrom(R, dims.seq, 1)
                  /\ Numpy = R[<<1, [j \in 1..boxed |-> j - 1]>>]
<1> DEFINE s == dims.seq
           vals == [j \in 1..boxed |-> j - 1]
<1>1. s \in Seq(Nat) /\ Rank = Len(s) /\ Rank \in Nat /\ boxed \in Nat
  BY TensorAssumption DEF TypeOK, Rank
<1>2. Shape = s
  <2>1. TensorRank = Rank /\ \A k \in 1..Rank : TensorDim(k - 1) = s[k]
    <3>1. \A k \in 1..Rank : k - 1 < Rank /\ (k - 1) + 1 = k
      BY <1>1
    <3> QED
      BY <3>1 DEF TensorRank, TensorDim
  <2>2. Shape = [k \in 1..Len(s) |-> s[k]]
    BY <1>1, <2>1 DEF Shape
  <2> QED
    BY <1>1, <2>2
<1>3. TensorNumel = boxed /\ TensorRank = Rank
  BY DEF TensorNumel, TensorRank
<1>4. vals \in Seq(Nat) /\ vals # <<>>
  <2>1. vals \in [1..boxed -> Nat] /\ DOMAIN vals = 1..boxed /\ 1 \in 1..boxed
    BY <1>1
  <2> HIDE DEF vals
  <2>2. vals \in Seq(Nat)
    BY <1>1, <2>1
  <2>3. DOMAIN <<>> = {}
    OBVIOUS
  <2> QED
    BY <2>1, <2>2, <2>3
<1>5. Numpy = IF Rank = 1 THEN vals ELSE Reshape(vals, s)
  BY <1>2, <1>3, <1>4 DEF Numpy
<1> HIDE DEF vals
<1>6. PICK R : ListsFrom(R, s, 1) /\ \A v : Reshape(v, s) = R[<<1, v>>]
  BY <1>1, ReshapeFact
<1>7. Rank = 1 => R[<<1, vals>>] = vals
  BY <1>1, <1>4, <1>6 DEF ListsFrom
<1> QED
  BY <1>5, <1>6, <1>7 DEF vals

LEMMA NodesFact ==
    ASSUME TypeOK, pc = "done", boxed = Product(dims.seq), boxed > 0, Rank > 0,
           NEW n \in 0..(boxed - 1)
    PROVE  LET Node[k \in 0..Rank] == IF k = 0 THEN Numpy ELSE Node[k - 1][Index(n, k) + 1]
           IN /\ \A k \in 1..Rank : Len(Node[k - 1]) = dims.seq[k]
              /\ Node[Rank] = n
<1> DEFINE s == dims.seq
           N == Rank
           Eq(f) == f = [k \in 0..N |-> IF k = 0 THEN Numpy ELSE f[k - 1][Index(n, k) + 1]]
           M == CHOOSE f : Eq(f)
<1>1. s \in Seq(Nat) /\ N = Len(s) /\ N \in Nat /\ N > 0
  BY DEF TypeOK, Rank
<1>2. PICK R : ListsFrom(R, s, 1) /\ Numpy = R[<<1, [j \in 1..boxed |-> j - 1]>>]
  BY NumpyFact
<1> DEFINE W == Walk(R, s, n)
<1>3. /\ W[0] = Numpy /\ W[N] = n
      /\ \A k \in 1..N : Len(W[k - 1]) = s[k] /\ W[k] = W[k - 1][PlaceIn(s, n, k)]
  <2>1. Product(s) # 0 /\ n \in 0..(Product(s) - 1) /\ boxed = Product(s)
    OBVIOUS
  <2> HIDE DEF W, s, N
  <2>2. /\ W[0] = R[<<1, [j \in 1..Product(s) |-> j - 1]>>] /\ W[Len(s)] = n
        /\ \A k \in 1..Len(s) : /\ Len(W[k - 1]) = s[k]
                                /\ W[k] = W[k - 1][PlaceIn(s, n, k)]
    BY <1>1, <1>2, <2>1, WalkFact DEF W
  <2> QED
    BY <1>1, <1>2, <2>1, <2>2
<1>4. \A k : PlaceIn(s, n, k) = Index(n, k) + 1
  BY DEF PlaceIn, Index, Child, Rank
<1>5. W = [k \in 0..N |-> W[k]]
  BY <1>1 DEF Walk
<1> HIDE DEF W, s, N
<1>6. Eq(W)
  <2>1. ASSUME NEW k \in 0..N
        PROVE  W[k] = IF k = 0 THEN Numpy ELSE W[k - 1][Index(n, k) + 1]
    <3>1. k # 0 => k \in 1..N
      BY <1>1
    <3> QED
      BY <1>3, <1>4, <3>1
  <2> QED
    BY <1>5, <2>1
<1>7. Eq(M)
  <2> HIDE DEF Eq
  <2> QED
    BY <1>6
<1> HIDE DEF M
<1>8. \A k \in 0..N : M[k] = IF k = 0 THEN Numpy ELSE M[k - 1][Index(n, k) + 1]
  BY <1>7
<1> HIDE DEF Eq
<1>9. \A k \in 0..N : M[k] = W[k]
  <2> DEFINE S == {k \in 0..N : M[k] = W[k]}
  <2>1. 0 \in S
    BY <1>1, <1>3, <1>8
  <2>2. ASSUME NEW k \in 0..N, k \in S, k < N PROVE k + 1 \in S
    <3>1. k + 1 \in 0..N /\ k + 1 \in 1..N /\ (k + 1) - 1 = k /\ k + 1 # 0 /\ M[k] = W[k]
      BY <1>1, <2>2
    <3>2. M[k + 1] = M[k][Index(n, k + 1) + 1]
      BY <1>8, <3>1
    <3>3. W[k + 1] = W[k][Index(n, k + 1) + 1]
      BY <1>3, <1>4, <3>1
    <3> QED
      BY <3>1, <3>2, <3>3
  <2> HIDE DEF S
  <2>3. 0..N \subseteq S
    BY <1>1, <2>1, <2>2, NatSetInduction
  <2> QED
    BY <2>3 DEF S
<1>10. /\ \A k \in 1..N : Len(M[k - 1]) = s[k]
       /\ M[N] = n
  <2>1. N \in 0..N /\ \A k \in 1..N : k - 1 \in 0..N
    BY <1>1
  <2> QED
    BY <1>3, <1>9, <2>1
<1> QED
  BY <1>10 DEF M, N, s, Eq

(***************************************************************************)
(* Of every tensor that is made, whatever its shape, numpy() is the list   *)
(* of lists of its elements in row-major order (rtorch_for_models_api.py,  *)
(* Tensor.numpy and _reshape).                                             *)
(***************************************************************************)
THEOREM TensorNumpyRowMajor == Spec => []NumpyRowMajor
<1>1. LoopInv /\ ProductInv => NumpyRowMajor
  <2> SUFFICES ASSUME LoopInv, ProductInv, pc = "done", boxed > 0,
                      NEW n \in 0..(boxed - 1)
               PROVE  LET Node[k \in 0..Rank] ==
                            IF k = 0 THEN Numpy ELSE Node[k - 1][Index(n, k) + 1]
                      IN /\ \A k \in 1..Rank : Len(Node[k - 1]) = dims.seq[k]
                         /\ Node[Rank] = n
    BY DEF NumpyRowMajor
  <2>1. TypeOK /\ boxed = Product(dims.seq) /\ Rank > 0
    <3>1. boxed = IF Rank = 0 THEN 0 ELSE Product(dims.seq)
      BY DEF ProductInv, NumelIsProduct
    <3>2. Rank \in Nat /\ TypeOK
      BY DEF LoopInv, TypeOK, Rank
    <3> QED
      BY <3>1, <3>2
  <2> QED
    BY <2>1, NodesFact
<1>2. Spec => []LoopInv
  BY InitLoop, NextLoop, PTL DEF Spec
<1> QED
  BY <1>1, <1>2, ProductAlways, PTL
=============================================================================
