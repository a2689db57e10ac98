------------------------------ MODULE TensorNew ------------------------------
(***************************************************************************)
(* rtorch_api_tensor_new (ffi.rs): the checks on the arguments, the        *)
(* element count computed dimension by dimension in a usize with           *)
(* checked_mul and a cap, and the tensor it boxes; then what Python's      *)
(* Tensor.numpy makes of it through the accessors.                         *)
(***************************************************************************)
EXTENDS Naturals, Sequences

CONSTANTS
    MaxWord,   \* usize::MAX
    Cap,       \* 1 << 29, the most elements a tensor may have
    DimValues, \* dimensions the caller passes
    MaxRank    \* bound on the rank the caller passes

ASSUME TensorAssumption ==
    /\ MaxWord \in Nat \ {0} /\ Cap \in 1..MaxWord
    /\ DimValues \subseteq 0..MaxWord
    /\ MaxRank \in Nat

VARIABLES
    dims,     \* the dimensions, or a null pointer with rank > 0
    dtype,    \* 0 is F32
    pc,       \* "check", "multiply", "allocate", "done" or the error
    i,        \* dimensions already multiplied
    numel,    \* the usize accumulator
    boxed     \* elements of the tensor's data once it exists

vars == <<dims, dtype, pc, i, numel, boxed>>

NullDims == [null |-> TRUE, seq |-> <<>>]
DimVectors == UNION {[1..r -> DimValues] : r \in 0..MaxRank}
Arguments == {[null |-> FALSE, seq |-> d] : d \in DimVectors} \cup {NullDims}

Errors == {"E_PARAM_null", "E_PARAM_dtype", "E_PARAM_overflow", "E_NOMEM"}
Rank == Len(dims.seq)

Init ==
    /\ dims \in Arguments
    /\ dtype \in 0..2
    /\ pc = "check"
    /\ i = 0 /\ numel = 0 /\ boxed = 0

\* A rank of 0 has no elements: the product starts from 0, not 1.
Check ==
    /\ pc = "check"
    /\ \/ dims.null /\ pc' = "E_PARAM_null" /\ UNCHANGED numel
       \/ ~dims.null /\ dtype # 0 /\ pc' = "E_PARAM_dtype" /\ UNCHANGED numel
       \/ /\ ~dims.null /\ dtype = 0
          /\ pc' = IF Rank = 0 THEN "allocate" ELSE "multiply"
          /\ numel' = IF Rank = 0 THEN 0 ELSE 1
    /\ UNCHANGED <<dims, dtype, i, boxed>>

\* Wrong forms: the multiplication wraps; the cap is never tested; the cap is
\* one too low; the product is stored before the test for an overflow.
MultiplyWrapping ==
    /\ pc = "multiply"
    /\ i' = i + 1
    /\ numel' = (numel * dims.seq[i + 1]) % (MaxWord + 1)
    /\ pc' = IF numel' > Cap THEN "E_NOMEM" ELSE IF i' = Rank THEN "allocate" ELSE "multiply"
    /\ UNCHANGED <<dims, dtype, boxed>>

MultiplyUncapped ==
    /\ pc = "multiply"
    /\ LET p == numel * dims.seq[i + 1] IN
          IF p > MaxWord
          THEN pc' = "E_PARAM_overflow" /\ UNCHANGED <<i, numel>>
          ELSE /\ i' = i + 1 /\ numel' = p
               /\ pc' = IF i' = Rank THEN "allocate" ELSE "multiply"
    /\ UNCHANGED <<dims, dtype, boxed>>

MultiplyTooStrict ==
    /\ pc = "multiply"
    /\ LET p == numel * dims.seq[i + 1] IN
          IF p > MaxWord
          THEN pc' = "E_PARAM_overflow" /\ UNCHANGED <<i, numel>>
          ELSE /\ i' = i + 1 /\ numel' = p
               /\ pc' = IF p >= Cap THEN "E_NOMEM"
                        ELSE IF i' = Rank THEN "allocate" ELSE "multiply"
    /\ UNCHANGED <<dims, dtype, boxed>>

MultiplyUnchecked ==
    /\ pc = "multiply"
    /\ i' = i + 1
    /\ numel' = numel * dims.seq[i + 1]
    /\ pc' = IF numel' > MaxWord THEN "E_PARAM_overflow"
             ELSE IF numel' > Cap THEN "E_NOMEM"
             ELSE IF i' = Rank THEN "allocate" ELSE "multiply"
    /\ UNCHANGED <<dims, dtype, boxed>>

\* One round of the loop: checked_mul, then the cap.
Multiply ==
    /\ pc = "multiply"
    /\ LET p == numel * dims.seq[i + 1] IN
          IF p > MaxWord
          THEN pc' = "E_PARAM_overflow" /\ UNCHANGED <<i, numel>>
          ELSE /\ i' = i + 1 /\ numel' = p
               /\ pc' = IF p > Cap THEN "E_NOMEM"
                        ELSE IF i' = Rank THEN "allocate" ELSE "multiply"
    /\ UNCHANGED <<dims, dtype, boxed>>

Allocate ==
    /\ pc = "allocate"
    /\ boxed' = numel
    /\ pc' = "done"
    /\ UNCHANGED <<dims, dtype, i, numel>>

\* The call has returned.
Returned == pc \in {"done"} \cup Errors /\ UNCHANGED vars

Next == Check \/ Multiply \/ Allocate \/ Returned

Spec == Init /\ [][Next]_vars

-----------------------------------------------------------------------------
\* The accessors; of a null handle, and past the rank, they answer 0.
TensorNumel == IF pc = "done" THEN boxed ELSE 0
TensorRank == IF pc = "done" THEN Rank ELSE 0
TensorDim(k) == IF k < TensorRank THEN dims.seq[k + 1] ELSE 0

Shape == [k \in 1..TensorRank |-> TensorDim(k - 1)]

\* v[lo:hi] of Python, which stops at the end of v.
Slice(v, lo, hi) == SubSeq(v, lo + 1, IF hi < Len(v) THEN hi ELSE Len(v))

\* Products over the mathematical integers, of all dimensions of a sequence.
Product(s) ==
    LET P[k \in 0..Len(s)] == IF k = 0 THEN 1 ELSE P[k - 1] * s[k] IN P[Len(s)]

\* Wrong form: a child is as long as the list it is cut from is wide.
ReshapeByWidth(vals, shape) ==
    LET R[p \in (1..Len(shape)) \X Seq(Nat)] ==
          LET k == p[1] IN
          IF k = Len(shape) THEN p[2]
          ELSE LET child == Product(SubSeq(shape, k, Len(shape) - 1))
               IN [j \in 1..shape[k] |-> R[<<k + 1, Slice(p[2], (j - 1) * child, j * child)>>]]
    IN R[<<1, vals>>]

\* _reshape: at each level the list is cut into children of the size of what the
\* remaining dimensions hold.
Reshape(vals, shape) ==
    LET R[p \in (1..Len(shape)) \X Seq(Nat)] ==
          LET k == p[1] IN
          IF k = Len(shape) THEN p[2]
          ELSE LET child == Product(SubSeq(shape, k + 1, Len(shape)))
               IN [j \in 1..shape[k] |-> R[<<k + 1, Slice(p[2], (j - 1) * child, j * child)>>]]
    IN R[<<1, vals>>]

\* numpy() of a tensor whose elements are their own offsets.
Numpy ==
    LET vals == [j \in 1..TensorNumel |-> j - 1]
    IN IF vals = <<>> \/ TensorRank = 1 THEN vals ELSE Reshape(vals, Shape)

-----------------------------------------------------------------------------
TypeOK ==
    /\ dims \in [null : BOOLEAN, seq : Seq(Nat)]
    /\ dtype \in 0..2
    /\ pc \in {"check", "multiply", "allocate", "done"} \cup Errors
    /\ i \in 0..Rank
    /\ numel \in 0..MaxWord
    /\ boxed \in 0..MaxWord

\* A zero dimension counts as one.
NonZero(s) == [k \in 1..Len(s) |-> IF s[k] = 0 THEN 1 ELSE s[k]]

(***************************************************************************)
(* The block that is allocated is never beyond the cap, and the loop never *)
(* multiplies a number beyond the cap (ffi.rs:61-81).                      *)
(***************************************************************************)
WithinCap ==
    /\ boxed <= Cap
    /\ pc \in {"multiply", "allocate", "done"} => numel <= Cap

(***************************************************************************)
(* A tensor that is made has as many elements as its shape says, the       *)
(* product taken without a word's width; a scalar shape has none.          *)
(***************************************************************************)
NumelIsProduct ==
    pc = "done" => boxed = IF Rank = 0 THEN 0 ELSE Product(dims.seq)

(***************************************************************************)
(* Only shapes that are too large are refused for their size: leaving out  *)
(* zero dimensions, they hold more than the cap.  (A shape with a zero may *)
(* be refused or not, by the order of its dimensions.)                     *)
(***************************************************************************)
RefusalsJustified ==
    pc \in {"E_PARAM_overflow", "E_NOMEM"} => Product(NonZero(dims.seq)) > Cap

\* The index, in dimension k, of the n-th element in row-major order.
Index(n, k) == (n \div Product(SubSeq(dims.seq, k + 1, Rank))) % dims.seq[k]

(***************************************************************************)
(* numpy() is "a list-of-lists (row-major)" (python:207): following the    *)
(* indices of an element through the lists leads to that element, and      *)
(* every list on the way is as long as its dimension.                      *)
(***************************************************************************)
NumpyRowMajor ==
    pc = "done" /\ boxed > 0 =>
        \A n \in 0..(boxed - 1) :
            LET Node[k \in 0..Rank] == IF k = 0 THEN Numpy ELSE Node[k - 1][Index(n, k) + 1]
            IN /\ \A k \in 1..Rank : Len(Node[k - 1]) = dims.seq[k]
               /\ Node[Rank] = n
=============================================================================
