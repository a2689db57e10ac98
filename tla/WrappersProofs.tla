--------------------------- MODULE WrappersProofs ---------------------------
(***************************************************************************)
(* Theorems about the output protocol and the handle wrappers around it,   *)
(* for outputs of any length and any number of wrappers, objects and       *)
(* threads that close.                                                     *)
(***************************************************************************)
EXTENDS Wrappers, TLAPS

(***************************************************************************)
(* The protocol.  Once the second call has succeeded the buffer holds the  *)
(* whole output and the result is cut from it; before, all that is known   *)
(* is that the buffer covers what the probe reported.                      *)
(***************************************************************************)
Filled == ~closed /\ native = size /\ outLen = size /\ size <= cap

\* The buffers, besides what is promised: none is held before the first is
\* allocated.
BufferInv ==
    /\ BufferLifetimes
    /\ FreesByHand /\ (pc = "probe" \/ (pc = "alloc" /\ op # "run_rule")) => unmanaged = {}

ProtocolInv ==
    /\ TypeOK
    /\ pc = "probe" => op # "run_rule"
    /\ pc = "fill" /\ op # "run_rule" => want <= cap
    /\ pc \in {"deliver", "done"} => Filled
    /\ RunExactOrThrows
    /\ RtwBytesExact
    /\ BufferInv

\* What the second call of Rtw::bytes relies on: the probe has told the size,
\* unless the wrapper is closed.
ProbeTold == op = "rtw_bytes" /\ pc = "fill" => want = size \/ closed

-----------------------------------------------------------------------------
LEMMA SizesType == 0 \in Sizes /\ RuleCap \in Sizes /\ MaxSize \in Nat
                   /\ \A n \in Sizes : n \in Nat /\ n <= MaxSize
  BY ProtocolAssumption DEF Sizes

LEMMA AtMostSelf == \A n \in Nat : AtMost(n, n) = n
  BY DEF AtMost

LEMMA AtMostType == \A a, b \in Sizes : AtMost(a, b) \in Sizes
  BY DEF AtMost

LEMMA AtLeastOneFact == \A n \in Sizes : AtLeastOne(n) \in 0..(MaxSize + 1) /\ n <= AtLeastOne(n)
  <1> SUFFICES ASSUME NEW n \in Sizes
               PROVE  AtLeastOne(n) \in 0..(MaxSize + 1) /\ n <= AtLeastOne(n)
    OBVIOUS
  <1>1. n \in Nat /\ n <= MaxSize /\ MaxSize \in Nat
    BY SizesType
  <1> QED
    BY <1>1 DEF AtLeastOne

(***************************************************************************)
(* What a call answers.  An output that fits is written and reported in    *)
(* full; a null handle is refused; the size query of an open Rtw tells the *)
(* length, which is all the second call needs to succeed.                  *)
(***************************************************************************)
LEMMA CallFact ==
    ASSUME op \in Ops, closed \in BOOLEAN, NEW n \in Sizes, NEW c \in 0..(MaxSize + 1)
    PROVE  /\ Call(n, c).rc = "OK" =>
                 ~closed /\ n <= c /\ Call(n, c).len = n /\ Call(n, c).written = n
           /\ op = "rtw_bytes" /\ ~closed =>
                 Call(n, c).len = n /\ (n <= c => Call(n, c).rc = "OK")
           /\ c = 0 => Call(n, c).len \in Sizes
  <1>1. n \in Nat /\ c \in Nat
    BY SizesType
  <1>2. CASE closed
    <2>1. Call(n, c) = NullCall(c)
      BY <1>2 DEF Call
    <2>2. NullCall(c).rc = "E_PARAM" /\ (c = 0 => NullCall(c).len = 0)
      BY DEF NullCall
    <2> QED
      BY <1>2, <2>1, <2>2, SizesType
  <1>3. CASE ~closed /\ op = "run_rule"
    BY <1>1, <1>3, SizesType DEF Call, RuleCall
  <1>4. CASE ~closed /\ op = "rtw_bytes"
    BY <1>1, <1>4 DEF Call, RtwBytes
  <1>5. CASE ~closed /\ op = "session_run"
    BY <1>1, <1>5, SizesType DEF Call, SessionExecute
  <1> QED
    BY <1>2, <1>3, <1>4, <1>5 DEF Ops

(***************************************************************************)
(* The buffers.  One by one an allocation adds to what is held, the second *)
(* call has all of it, and only an allocation of RunRule that throws       *)
(* leaves before the finally block can free it.                            *)
(***************************************************************************)
BufferTypes == args \in Inputs /\ unmanaged \subseteq 0..args

LEMMA InputsFact ==
    ASSUME BufferTypes
    PROVE  args \in Nat /\ (op # "run_rule" => args = 0)
  BY ProtocolAssumption DEF BufferTypes, Inputs

LEMMA FinallyFact == BufferTypes => Finally = {}
  BY DEF BufferTypes, Finally

LEMMA BufferInit == Init => BufferTypes /\ BufferInv
  BY DEF Init, BufferTypes, BufferInv, BufferLifetimes, FirstStep, Over

LEMMA BufferStep ==
    ASSUME TypeOK, BufferInv, Next
    PROVE  BufferTypes' /\ BufferInv'
  <1>1. BufferTypes /\ args \in Nat /\ (op # "run_rule" => args = 0) /\ Finally = {}
    BY InputsFact, FinallyFact DEF TypeOK, BufferTypes
  <1>2. UNCHANGED <<binding, op>>
    BY DEF Next, FormulaFails, Probe, AllocateInput, Allocate, OutOfMemory, Fill, Deliver, Again
  <1>3. FreesByHand' = FreesByHand /\ Inputs' = Inputs
    BY <1>2 DEF FreesByHand, Inputs
  <1> HIDE DEF FreesByHand, Inputs
  <1>4. CASE FormulaFails \/ Deliver
    <2>1. pc' \in {"failed", "done"} /\ unmanaged' = {} /\ UNCHANGED args
      BY <1>1, <1>4 DEF FormulaFails, Deliver
    <2> QED
      BY <1>1, <1>2, <1>3, <2>1 DEF BufferTypes, BufferInv, BufferLifetimes, Over
  <1>5. CASE Probe
    <2>1. pc = "probe" /\ pc' = "alloc" /\ UNCHANGED <<args, unmanaged>>
      BY <1>5 DEF Probe
    <2> QED
      BY <1>1, <1>2, <1>3, <2>1 DEF BufferTypes, BufferInv, BufferLifetimes, Over
  <1>6. CASE AllocateInput
    <2>1. pc' = "alloc" /\ UNCHANGED args /\ \E i \in 1..args : unmanaged' = 1..i
      BY <1>6 DEF AllocateInput
    <2>2. op = "run_rule" /\ unmanaged' \subseteq 0..args
      BY <1>1, <2>1
    <2> QED
      BY <1>1, <1>2, <1>3, <2>1, <2>2 DEF BufferTypes, BufferInv, BufferLifetimes, Over
  <1>7. CASE Allocate
    <2>1. /\ pc' = "fill" /\ UNCHANGED args /\ unmanaged = 1..args
          /\ unmanaged' = IF FreesByHand THEN unmanaged \cup {0} ELSE unmanaged
      BY <1>7 DEF Allocate
    <2>2. FreesByHand => unmanaged' = 0..args
      BY <1>1, <2>1
    <2> QED
      BY <1>1, <1>2, <1>3, <2>1, <2>2 DEF BufferTypes, BufferInv, BufferLifetimes, Over
  <1>8. CASE OutOfMemory
    <2>1. UNCHANGED args /\ (\/ pc = "alloc" /\ pc' = "nobuffer" /\ UNCHANGED unmanaged
                             \/ pc' = "nocopy" /\ unmanaged' = {})
      BY <1>1, <1>8 DEF OutOfMemory
    <2> QED
      BY <1>1, <1>2, <1>3, <2>1 DEF BufferTypes, BufferInv, BufferLifetimes, Over
  <1>9. CASE Fill
    <2>1. UNCHANGED args /\ (\/ pc = "fill" /\ pc' = "deliver" /\ UNCHANGED unmanaged
                             \/ pc' = "failed" /\ unmanaged' = {})
      BY <1>1, <1>9 DEF Fill
    <2> QED
      BY <1>1, <1>2, <1>3, <2>1 DEF BufferTypes, BufferInv, BufferLifetimes, Over
  <1>10. CASE Again
    <2>1. /\ pc' \in {"probe", "alloc"} /\ (pc' = "alloc" => op = "run_rule")
          /\ args' \in Inputs /\ unmanaged' = {}
      BY <1>10 DEF Again, FirstStep
    <2> QED
      BY <1>2, <1>3, <2>1 DEF BufferTypes, BufferInv, BufferLifetimes, Over
  <1> QED
    BY <1>4, <1>5, <1>6, <1>7, <1>8, <1>9, <1>10 DEF Next

-----------------------------------------------------------------------------
LEMMA ProtocolInit == Init => ProtocolInv
  <1> SUFFICES ASSUME Init PROVE ProtocolInv
    OBVIOUS
  <1>1. op \in Ops /\ closed \in BOOLEAN
    BY DEF Init
  <1>2. cap \in 0..(MaxSize + 1)
    BY SizesType DEF Init
  <1> QED
    BY <1>1, <1>2, BufferInit, SizesType
       DEF Init, FirstStep, ProtocolInv, TypeOK, Ops, NoResult, RunExactOrThrows,
           RtwBytesExact, BufferTypes

LEMMA FormulaFailsStep == ProtocolInv /\ FormulaFails => ProtocolInv'
  <1> SUFFICES ASSUME ProtocolInv, FormulaFails PROVE ProtocolInv'
    OBVIOUS
  <1>b. BufferTypes' /\ BufferInv'
    BY BufferStep DEF Next, ProtocolInv
  <1>1. /\ pc' = "failed" /\ op # "rtw_bytes"
        /\ UNCHANGED <<binding, op, closed, size, want, cap, native, outLen, result>>
    BY DEF FormulaFails
  <1> QED
    BY <1>b, <1>1
       DEF ProtocolInv, TypeOK, RunExactOrThrows, RtwBytesExact, BufferTypes

LEMMA ProbeStep == ProtocolInv /\ Probe => ProtocolInv'
  <1> SUFFICES ASSUME ProtocolInv, Probe PROVE ProtocolInv'
    OBVIOUS
  <1>b. BufferTypes' /\ BufferInv'
    BY BufferStep DEF Next, ProtocolInv
  <1>1. /\ pc' = "alloc" /\ want' = Call(size, 0).len
        /\ UNCHANGED <<binding, op, closed, cap, native, outLen, result>>
    BY DEF Probe
  <1>2. want' \in Sizes
    BY <1>1, CallFact, SizesType DEF ProtocolInv, TypeOK
  <1>3. size' \in Sizes
    BY DEF Probe, NextSize, ProtocolInv, TypeOK
  <1> QED
    BY <1>b, <1>1, <1>2, <1>3
       DEF ProtocolInv, TypeOK, RunExactOrThrows, RtwBytesExact, BufferTypes

LEMMA AllocateStep == ProtocolInv /\ Allocate => ProtocolInv'
  <1> SUFFICES ASSUME ProtocolInv, Allocate PROVE ProtocolInv'
    OBVIOUS
  <1>b. BufferTypes' /\ BufferInv'
    BY BufferStep DEF Next, ProtocolInv
  <1>1. pc' = "fill" /\ UNCHANGED <<binding, op, closed, size, want, native, outLen, result>>
    BY DEF Allocate
  <1>2. cap' \in 0..(MaxSize + 1) /\ (op # "run_rule" => want <= cap')
    <2>1. want \in Sizes
      BY DEF ProtocolInv, TypeOK
    <2>2. cap' = RuleCap \/ cap' = want \/ cap' = AtLeastOne(want)
      BY DEF Allocate
    <2>3. op # "run_rule" => cap' = want \/ cap' = AtLeastOne(want)
      BY DEF Allocate
    <2> QED
      BY <2>1, <2>2, <2>3, SizesType, AtLeastOneFact
  <1> QED
    BY <1>b, <1>1, <1>2
       DEF ProtocolInv, TypeOK, RunExactOrThrows, RtwBytesExact, BufferTypes

LEMMA AllocateInputStep == ProtocolInv /\ AllocateInput => ProtocolInv'
  <1> SUFFICES ASSUME ProtocolInv, AllocateInput PROVE ProtocolInv'
    OBVIOUS
  <1>1. BufferTypes' /\ BufferInv'
    BY BufferStep DEF Next, ProtocolInv
  <1>2. pc = "alloc"
        /\ UNCHANGED <<binding, op, closed, size, pc, want, cap, native, args, outLen, result>>
    BY DEF AllocateInput
  <1> QED
    BY <1>1, <1>2 DEF ProtocolInv, TypeOK, RunExactOrThrows, RtwBytesExact, BufferTypes

LEMMA OutOfMemoryStep == ProtocolInv /\ OutOfMemory => ProtocolInv'
  <1> SUFFICES ASSUME ProtocolInv, OutOfMemory PROVE ProtocolInv'
    OBVIOUS
  <1>1. BufferTypes' /\ BufferInv'
    BY BufferStep DEF Next, ProtocolInv
  <1>2. pc' \in {"nobuffer", "nocopy"}
        /\ UNCHANGED <<binding, op, closed, size, want, cap, native, args, outLen, result>>
    BY DEF OutOfMemory
  <1> QED
    BY <1>1, <1>2 DEF ProtocolInv, TypeOK, RunExactOrThrows, RtwBytesExact, BufferTypes

LEMMA FillStep == ProtocolInv /\ ProbeTold /\ Fill => ProtocolInv'
  <1> SUFFICES ASSUME ProtocolInv, ProbeTold, Fill PROVE ProtocolInv'
    OBVIOUS
  <1>b. BufferTypes' /\ BufferInv'
    BY BufferStep DEF Next, ProtocolInv
  <1> DEFINE answer == Call(size, cap)
  <1>1. /\ size \in Sizes /\ cap \in 0..(MaxSize + 1) /\ want \in Sizes
        /\ op \in Ops /\ closed \in BOOLEAN
    BY DEF ProtocolInv, TypeOK
  <1>2. UNCHANGED <<binding, op, closed, size, want, cap, result>> /\ pc = "fill"
    BY DEF Fill
  <1>3. CASE answer.rc = "OK"
    <2>1. pc' = "deliver" /\ native' = answer.written /\ outLen' = answer.len
      BY <1>3 DEF Fill
    <2>2. ~closed /\ size <= cap /\ native' = size /\ outLen' = size
      BY <1>1, <1>3, <2>1, CallFact
    <2> QED
      BY <1>b, <1>1, <1>2, <2>1, <2>2
         DEF ProtocolInv, TypeOK, Filled, RunExactOrThrows, RtwBytesExact, BufferTypes
  <1>4. CASE answer.rc # "OK"
    <2>1. pc' = "failed" /\ UNCHANGED <<native, outLen>>
      BY <1>4 DEF Fill
    <2>2. op = "rtw_bytes" => closed
      <3> SUFFICES ASSUME op = "rtw_bytes", ~closed PROVE FALSE
        OBVIOUS
      <3>1. want = size /\ want <= cap
        BY <1>2 DEF ProbeTold, ProtocolInv
      <3> QED
        BY <1>1, <1>4, <3>1, CallFact
    <2> QED
      BY <1>b, <1>1, <1>2, <2>1, <2>2
         DEF ProtocolInv, TypeOK, RunExactOrThrows, RtwBytesExact, BufferTypes
  <1> QED
    BY <1>3, <1>4

LEMMA DeliverStep == ProtocolInv /\ Deliver => ProtocolInv'
  <1> SUFFICES ASSUME ProtocolInv, Deliver PROVE ProtocolInv'
    OBVIOUS
  <1>b. BufferTypes' /\ BufferInv'
    BY BufferStep DEF Next, ProtocolInv
  <1> DEFINE held == IF binding = "csharp" /\ op = "session_run" THEN 0 ELSE native
  <1>1. /\ pc' = "done" /\ pc = "deliver"
        /\ result' = [len |-> outLen, good |-> AtMost(held, outLen)]
        /\ UNCHANGED <<binding, op, closed, size, want, cap, native, outLen>>
    BY DEF Deliver
  <1>2. Filled /\ size \in Sizes
    BY <1>1 DEF ProtocolInv, TypeOK
  <1>3. ~(binding = "csharp" /\ op = "session_run") =>
            result' = [len |-> size, good |-> size]
    BY <1>1, <1>2, AtMostSelf, SizesType DEF Filled
  <1>4. result' \in [len : Sizes, good : Sizes]
    BY <1>1, <1>2, AtMostType, SizesType DEF Filled
  <1> QED
    BY <1>b, <1>1, <1>2, <1>3, <1>4
       DEF ProtocolInv, TypeOK, Filled, RunExactOrThrows, RtwBytesExact, BufferTypes

LEMMA AgainStep == ProtocolInv /\ Again => ProtocolInv'
  <1> SUFFICES ASSUME ProtocolInv, Again PROVE ProtocolInv'
    OBVIOUS
  <1>b. BufferTypes' /\ BufferInv'
    BY BufferStep DEF Next, ProtocolInv
  <1>1. size' \in Sizes
    BY DEF Again, ProtocolInv, TypeOK
  <1>2. /\ want' = 0 /\ cap' = 0 /\ native' = 0 /\ outLen' = 0
        /\ result' = NoResult /\ pc' = FirstStep(op) /\ UNCHANGED <<binding, op, closed>>
    BY DEF Again
  <1> QED
    BY <1>b, <1>1, <1>2, SizesType
       DEF FirstStep, NoResult, ProtocolInv, TypeOK, RunExactOrThrows, RtwBytesExact,
           BufferTypes

LEMMA StutterProtocol == ProtocolInv /\ UNCHANGED vars => ProtocolInv'
  BY DEF vars, ProtocolInv, TypeOK, Filled, RunExactOrThrows, RtwBytesExact, BufferInv,
         BufferLifetimes, FreesByHand, Inputs, Over

LEMMA ProtocolNext == ProtocolInv /\ ProbeTold /\ Next => ProtocolInv'
  BY FormulaFailsStep, ProbeStep, AllocateInputStep, AllocateStep, OutOfMemoryStep, FillStep,
     DeliverStep, AgainStep DEF Next

\* The properties of the runs, from the invariant.
LEMMA ProtocolSafe ==
    ASSUME ProtocolInv
    PROVE  RtwBytesExact /\ WithinCapacity /\ RunExactOrThrows /\ ClosedThrows /\ BufferLifetimes
  BY DEF ProtocolInv, BufferInv, Filled, WithinCapacity, ClosedThrows
(***************************************************************************)
(* By itself, with a wrapper that is open or closed for good, the protocol *)
(* keeps its promises: an output of the formula that changes between the   *)
(* two calls ends in a failure, never in a wrong result.                   *)
(***************************************************************************)
THEOREM ProtocolKeepsPromises ==
    Spec => [](RtwBytesExact /\ WithinCapacity /\ RunExactOrThrows /\ ClosedThrows
               /\ BufferLifetimes)
  <1> DEFINE Told == op = "rtw_bytes" /\ pc \in {"alloc", "fill"} => want = size \/ closed
             I == ProtocolInv /\ Told
  <1>1. Init => I
    BY ProtocolInit DEF Init, FirstStep
  <1>2. I /\ [Next]_vars => I'
    <2> SUFFICES ASSUME I, [Next]_vars PROVE I'
      OBVIOUS
    <2>1. ProbeTold
      BY DEF ProbeTold
    <2>2. CASE UNCHANGED vars
      BY <2>2, StutterProtocol DEF vars
    <2>3. CASE Next
      <3>1. ProtocolInv'
        BY <2>1, <2>3, ProtocolNext
      <3>2. CASE Probe
        <4>1. op = "rtw_bytes" /\ ~closed => want' = size /\ size' = size
          BY <3>2, CallFact, SizesType DEF Probe, NextSize, ProtocolInv, TypeOK
        <4> QED
          BY <3>1, <3>2, <4>1 DEF Probe
      <3>3. CASE Allocate
        BY <3>1, <3>3 DEF Allocate
      <3>4. CASE AllocateInput
        BY <3>1, <3>4 DEF AllocateInput
      <3>5. CASE FormulaFails \/ OutOfMemory \/ Fill \/ Deliver \/ Again
        BY <3>1, <3>5 DEF FormulaFails, OutOfMemory, Fill, Deliver, Again, FirstStep
      <3> QED
        BY <2>3, <3>2, <3>3, <3>4, <3>5 DEF Next
    <2> QED
      BY <2>2, <2>3
  <1>3. I => RtwBytesExact /\ WithinCapacity /\ RunExactOrThrows /\ ClosedThrows
             /\ BufferLifetimes
    BY ProtocolSafe
  <1> HIDE DEF I
  <1> QED
    BY <1>1, <1>2, <1>3, PTL DEF Spec

-----------------------------------------------------------------------------
(***************************************************************************)
(* The wrappers.  A close holds a reference to its wrapper until it is     *)
(* over; a method does while it runs, and what it is doing is where the    *)
(* protocol stands; the probe has told the size, or the handle it will     *)
(* read again is null.                                                     *)
(***************************************************************************)
ClosingInv ==
    \A c \in Closers : \/ closing[c] = NotClosing
                       \/ closing[c].of \in present /\ closing[c].pc # "none"

MethodInv ==
    /\ op # "run_rule" /\ pc \in {"alloc", "fill", "deliver"} =>
          self # Null /\ ~view /\ (inUse = Null \/ inCall)
    /\ op = "run_rule" => self = Null /\ ~inCall
    /\ inCall => self # Null /\ ~view /\ pc \in {"probe", "fill"}
    /\ self # Null /\ ~view => self \in present
    /\ view => self # Null
    /\ self = Null => inUse = Null

RereadInv ==
    op = "rtw_bytes" =>
        /\ inCall /\ closed => handle[self] = Null
        /\ pc \in {"alloc", "fill"} =>
              want = size \/ (handle[self] = Null /\ (inCall => closed))

(***************************************************************************)
(* Ownership, in every order the host is not to blame for: besides the     *)
(* properties, a holder without a wrapper has no handle, what is in use is *)
(* live, and every live object has an owner that no close is about to      *)
(* clear, which is what a close that clears needs.                         *)
(***************************************************************************)
OwnerInv ==
    ~misused =>
        /\ \A w \in Holders \ present : handle[w] = Null
        /\ HandlesOwned
        /\ inUse # Null => inUse \in live
        /\ \A o \in live : o \in lost \/ \E w \in present : handle[w] = o /\ ~Dangling(w)

WrapperInv ==
    /\ WrapperTypeOK /\ ProtocolInv
    /\ ClosingInv /\ MethodInv /\ RereadInv
    /\ OwnerInv /\ NoUseAfterFree
wvars == <<vars, wrapperVars>>

LEMMA WrapperStart == WrapperInit => WrapperInv
  <1> SUFFICES ASSUME WrapperInit PROVE WrapperInv
    OBVIOUS
  <1>1. ProtocolInv
    BY ProtocolInit DEF WrapperInit
  <1>2. handle \in [Holders -> Objects \cup {Null}] /\ \A w \in Holders : handle[w] = Null
    BY DEF WrapperInit
  <1>3. /\ closing \in [Closers -> [of : Holders \cup {Null}, pc : {"none", "free", "clear"}]]
        /\ \A c \in Closers : closing[c] = NotClosing
    BY DEF WrapperInit, NotClosing
  <1>4. /\ present = {} /\ live = {} /\ lost = {} /\ self = Null /\ inUse = Null
        /\ view = FALSE /\ inCall = FALSE /\ misused = FALSE /\ harmed = FALSE
        /\ closed = FALSE /\ pc \in {"probe", "alloc"} /\ (op # "run_rule" => pc = "probe")
    BY DEF WrapperInit, Init, FirstStep
  <1>5. WrapperTypeOK
    BY <1>1, <1>2, <1>3, <1>4 DEF WrapperTypeOK, ProtocolInv
  <1>6. ClosingInv /\ MethodInv /\ NoUseAfterFree
    BY <1>3, <1>4 DEF ClosingInv, MethodInv, NoUseAfterFree
  <1>7. RereadInv
    BY <1>4 DEF RereadInv
  <1>8. OwnerInv
    BY <1>2, <1>4 DEF OwnerInv, HandlesOwned, Dead
  <1> QED
    BY <1>1, <1>5, <1>6, <1>7, <1>8 DEF WrapperInv

-----------------------------------------------------------------------------
(***************************************************************************)
(* Which handles dangle: those of the wrappers whose close is between the  *)
(* free and the reset.                                                     *)
(***************************************************************************)
Closings == [of : Holders \cup {Null}, pc : {"none", "free", "clear"}]

LEMMA DanglingFact ==
    ASSUME closing \in [Closers -> Closings], NEW w
    PROVE  Dangling(w) <=> \E c \in Closers : closing[c].of = w /\ closing[c].pc = "clear"
  <1>1. \A r \in Closings : r = [of |-> r.of, pc |-> r.pc]
    BY DEF Closings
  <1>2. \A c \in Closers : closing[c] = [of |-> w, pc |-> "clear"]
           <=> closing[c].of = w /\ closing[c].pc = "clear"
    BY <1>1
  <1> QED
    BY <1>2 DEF Dangling

\* The same of the next state.
LEMMA DanglingNext ==
    ASSUME closing' \in [Closers -> Closings], NEW w
    PROVE  Dangling(w)' <=> \E c \in Closers : closing'[c].of = w /\ closing'[c].pc = "clear"
  <1>1. \A r \in Closings : r = [of |-> r.of, pc |-> r.pc]
    BY DEF Closings
  <1>2. \A c \in Closers : closing'[c] = [of |-> w, pc |-> "clear"]
           <=> closing'[c].of = w /\ closing'[c].pc = "clear"
    BY <1>1
  <1> QED
    BY <1>2 DEF Dangling

(***************************************************************************)
(* A step of one close: c's record changes, the others stay.  The handle   *)
(* of a wrapper other than c's dangles as before, and c's own does exactly *)
(* if it is freed and not reset yet, or if another close has it so.        *)
(***************************************************************************)
LEMMA DanglingStep ==
    ASSUME closing \in [Closers -> Closings], NEW c \in Closers, NEW r \in Closings,
           closing' = [closing EXCEPT ![c] = r], NEW x
    PROVE  /\ closing' \in [Closers -> Closings]
           /\ closing[c].pc = "clear" => Dangling(closing[c].of)
           /\ Dangling(x)' => Dangling(x) \/ (r.of = x /\ r.pc = "clear")
           /\ r.of = x /\ r.pc = "clear" => Dangling(x)'
           /\ Dangling(x) /\ ~(closing[c].of = x /\ closing[c].pc = "clear") => Dangling(x)'
  <1>1. closing' \in [Closers -> Closings] /\ closing'[c] = r
        /\ \A b \in Closers \ {c} : closing'[b] = closing[b]
    OBVIOUS
  <1>2. closing[c].pc = "clear" => Dangling(closing[c].of)
    BY DanglingFact
  <1>3. Dangling(x) <=> \E b \in Closers : closing[b].of = x /\ closing[b].pc = "clear"
    BY DanglingFact
  <1>4. Dangling(x)' <=> \E b \in Closers : closing'[b].of = x /\ closing'[b].pc = "clear"
    BY <1>1, DanglingNext
  <1> QED
    BY <1>1, <1>2, <1>3, <1>4

-----------------------------------------------------------------------------
(***************************************************************************)
(* The protocol's invariant survives what the wrappers add: a call reads   *)
(* the handle anew, which changes "closed" only before the second call.    *)
(***************************************************************************)
LEMMA EnterCallProtocol == ProtocolInv /\ EnterCall => ProtocolInv'
  <1> SUFFICES ASSUME ProtocolInv, EnterCall PROVE ProtocolInv'
    OBVIOUS
  <1>1. /\ closed' \in BOOLEAN /\ pc \in {"probe", "fill"}
        /\ UNCHANGED <<binding, op, size, pc, want, cap, native, args, unmanaged,
                       outLen, result>>
    BY DEF EnterCall
  <1> QED
    BY <1>1 DEF ProtocolInv, TypeOK, Filled, RunExactOrThrows, RtwBytesExact, BufferInv,
                BufferLifetimes, FreesByHand, Inputs, Over

LEMMA WrapperProtocol == WrapperInv /\ [WrapperNext]_wvars => ProtocolInv'
  <1> SUFFICES ASSUME WrapperInv, [WrapperNext]_wvars PROVE ProtocolInv'
    OBVIOUS
  <1>0. ProtocolInv
    BY DEF WrapperInv
  <1>1. CASE UNCHANGED vars
    BY <1>0, <1>1, StutterProtocol
  <1>2. CASE EnterCall
    BY <1>0, <1>2, EnterCallProtocol
  <1>3. CASE ExitCall
    <2>1. ProbeTold
      BY <1>3 DEF ExitCall, ProbeTold, WrapperInv, RereadInv
    <2> QED
      BY <1>0, <1>3, <2>1, ProtocolNext DEF ExitCall, Next
  <1>4. CASE OwnStep \/ \E w \in Holders : BeginMethod(w)
    BY <1>0, <1>1, <1>4, AllocateStep, OutOfMemoryStep, DeliverStep, AgainStep
       DEF OwnStep, BeginMethod
  <1>5. CASE RunRule
    <2>1. ProbeTold
      BY <1>5 DEF RunRule, ProbeTold
    <2> QED
      BY <1>0, <1>5, <2>1, ProtocolNext DEF RunRule, Next
  <1> QED
    BY <1>1, <1>2, <1>3, <1>4, <1>5
       DEF WrapperNext, wvars, New, Drop, BorrowArray, CloseFree, CloseClear, CloseBegin,
           MoveConstruct, MoveAssign, ReadArray, Undefined
-----------------------------------------------------------------------------
(***************************************************************************)
(* Types, and what a close holds on to.                                    *)
(***************************************************************************)
LEMMA FreeHandleType ==
    ASSUME live \subseteq Objects, NEW w, FreeHandle(w)
    PROVE  live' \subseteq Objects /\ misused' \in BOOLEAN /\ harmed' \in BOOLEAN
  BY DEF FreeHandle, Dangling, Dead

\* The record of a close as it goes through its states.
LEMMA ClosingFact ==
    ASSUME WrapperInv, NEW c \in Closers, closing[c].pc \in {"free", "clear"}
    PROVE  /\ closing \in [Closers -> Closings] /\ NotClosing \in Closings
           /\ closing[c].of \in present /\ closing[c].of \in Holders
           /\ [of |-> closing[c].of, pc |-> "clear"] \in Closings
           /\ [closing EXCEPT ![c].pc = "clear"]
                 = [closing EXCEPT ![c] = [of |-> closing[c].of, pc |-> "clear"]]
  <1>1. closing \in [Closers -> Closings] /\ present \subseteq Holders
    BY DEF WrapperInv, WrapperTypeOK, Closings
  <1>2. closing[c].of \in present
    BY DEF WrapperInv, ClosingInv, NotClosing
  <1>3. ASSUME NEW r \in Closings PROVE [r EXCEPT !.pc = "clear"] = [of |-> r.of, pc |-> "clear"]
    BY DEF Closings
  <1>4. closing[c] \in Closings
    BY <1>1
  <1>5. [closing[c] EXCEPT !.pc = "clear"] = [of |-> closing[c].of, pc |-> "clear"]
    BY <1>3, <1>4
  <1>6. [closing EXCEPT ![c].pc = "clear"]
           = [closing EXCEPT ![c] = [closing[c] EXCEPT !.pc = "clear"]]
    OBVIOUS
  <1>7. NotClosing \in Closings /\ [of |-> closing[c].of, pc |-> "clear"] \in Closings
    BY <1>4 DEF Closings, NotClosing
  <1> HIDE DEF Closings
  <1> QED
    BY <1>1, <1>2, <1>5, <1>6, <1>7

\* WrapperTypeOK without the protocol's part, one conjunct per variable.
HandleTypes ==
    /\ present \subseteq Holders /\ handle \in [Holders -> Objects \cup {Null}]
    /\ live \subseteq Objects /\ lost \subseteq Objects /\ closing \in [Closers -> Closings]
    /\ self \in Holders \cup {Null} /\ inUse \in Objects \cup {Null}
    /\ view \in BOOLEAN /\ inCall \in BOOLEAN /\ misused \in BOOLEAN /\ harmed \in BOOLEAN

LEMMA WrapperTypes == WrapperInv /\ [WrapperNext]_wvars => WrapperTypeOK' /\ ClosingInv'
  <1> SUFFICES ASSUME WrapperInv, [WrapperNext]_wvars PROVE WrapperTypeOK' /\ ClosingInv'
    OBVIOUS
  <1>0. HandleTypes /\ ClosingInv
    BY DEF WrapperInv, WrapperTypeOK, Closings, HandleTypes
  <1>1. TypeOK'
    BY WrapperProtocol DEF ProtocolInv
  <1> SUFFICES HandleTypes' /\ ClosingInv'
    BY <1>1 DEF WrapperTypeOK, Closings, HandleTypes
  <1> USE <1>0 DEF ClosingInv, HandleTypes
  <1>2. CASE UNCHANGED wrapperVars
    BY <1>2 DEF wrapperVars
  <1>3. ASSUME NEW w \in Holders, New(w) PROVE HandleTypes' /\ ClosingInv'
    BY <1>3 DEF New
  <1>4. ASSUME NEW w \in Holders, Drop(w) PROVE HandleTypes' /\ ClosingInv'
    <2>1. CASE binding = "csharp"
      BY <1>4, <2>1 DEF Drop
    <2>2. CASE binding # "csharp"
      BY <1>4, <2>2, FreeHandleType DEF Drop
    <2> QED
      BY <2>1, <2>2
  <1>5. ASSUME NEW w \in Holders, BeginMethod(w) PROVE HandleTypes' /\ ClosingInv'
    BY <1>5 DEF BeginMethod, MayTouch
  <1>6. ASSUME NEW w \in Holders, BorrowArray(w) PROVE HandleTypes' /\ ClosingInv'
    <2>1. view' \in BOOLEAN /\ self' = w /\ inUse' = handle[w]
      BY <1>6 DEF BorrowArray
    <2>2. misused' \in BOOLEAN /\ harmed' \in BOOLEAN
      BY <1>6 DEF BorrowArray, Dangling, Dead
    <2>3. UNCHANGED <<present, handle, live, lost, closing, inCall>>
      BY <1>6 DEF BorrowArray
    <2> QED
      BY <2>1, <2>2, <2>3
  <1>7. ASSUME NEW c \in Closers, NEW w \in Holders, CloseBegin(c, w)
        PROVE  HandleTypes' /\ ClosingInv'
    <2>1. [of |-> w, pc |-> "free"] \in Closings
      BY DEF Closings
    <2> QED
      BY <1>7, <2>1 DEF CloseBegin, MayTouch
  <1>8. ASSUME NEW c \in Closers, CloseFree(c) PROVE HandleTypes' /\ ClosingInv'
    <2>1. closing' = [closing EXCEPT ![c] = [of |-> closing[c].of, pc |-> "clear"]]
      BY <1>8, ClosingFact DEF CloseFree
    <2>2. [of |-> closing[c].of, pc |-> "clear"] \in Closings /\ closing[c].of \in present
      BY <1>8, ClosingFact DEF CloseFree
    <2>3. FreeHandle(closing[c].of)
          /\ UNCHANGED <<present, handle, lost, self, view, inUse, inCall>>
      BY <1>8 DEF CloseFree
    <2> QED
      BY <2>1, <2>2, <2>3, FreeHandleType
  <1>9. ASSUME NEW c \in Closers, CloseClear(c) PROVE HandleTypes' /\ ClosingInv'
    BY <1>9, ClosingFact DEF CloseClear
  <1>10. ASSUME NEW w \in Holders, NEW v \in Holders, MoveConstruct(w, v)
         PROVE  HandleTypes' /\ ClosingInv'
    BY <1>10 DEF MoveConstruct
  <1>11. ASSUME NEW w \in Holders, NEW v \in Holders, MoveAssign(w, v)
         PROVE  HandleTypes' /\ ClosingInv'
    BY <1>11, FreeHandleType DEF MoveAssign
  <1>12. CASE EnterCall
    BY <1>12 DEF EnterCall, Dangling, Dead
  <1>13. CASE ExitCall
    BY <1>13 DEF ExitCall, Dead
  <1>14. CASE OwnStep
    BY <1>14 DEF OwnStep
  <1>15. CASE ReadArray
    BY <1>15 DEF ReadArray, Dead
  <1> QED
    BY <1>2, <1>3, <1>4, <1>5, <1>6, <1>7, <1>8, <1>9, <1>10, <1>11, <1>12, <1>13, <1>14, <1>15
       DEF WrapperNext, wvars, RunRule, Undefined
-----------------------------------------------------------------------------
(***************************************************************************)
(* The method that runs.  While it does not call, other threads may close  *)
(* its wrapper but none can give that wrapper another handle, so a handle  *)
(* read as null stays null.                                                *)
(***************************************************************************)
NullStays == self # Null /\ ~view /\ op = "rtw_bytes" /\ handle[self] = Null

LEMMA StutterMethod ==
    ASSUME MethodInv, RereadInv, UNCHANGED <<vars, self, view, inUse, inCall>>,
           present \subseteq present' \/ view \/ self \notin (present \ present'),
           NullStays => handle'[self] = Null
    PROVE  MethodInv' /\ RereadInv'
  <1>1. UNCHANGED <<op, pc, want, size, closed>>
    BY DEF vars
  <1>2. MethodInv'
    BY <1>1 DEF MethodInv
  <1>3. RereadInv'
    BY <1>1 DEF RereadInv, MethodInv, NullStays
  <1> QED
    BY <1>2, <1>3

LEMMA WrapperMethod == WrapperInv /\ [WrapperNext]_wvars => MethodInv' /\ RereadInv'
  <1> SUFFICES ASSUME WrapperInv, [WrapperNext]_wvars PROVE MethodInv' /\ RereadInv'
    OBVIOUS
  <1>0. HandleTypes /\ ClosingInv /\ MethodInv /\ RereadInv
    BY DEF WrapperInv, WrapperTypeOK, Closings, HandleTypes
  <1>t. op \in Ops /\ pc \in {"probe", "alloc", "fill", "deliver", "done", "failed", "nobuffer", "nocopy"}
        /\ closed \in BOOLEAN /\ size \in Sizes
    BY DEF WrapperInv, ProtocolInv, TypeOK
  <1>h. \A w \in Holders : w # Null
    BY WrapperAssumption
  <1>1. CASE UNCHANGED wvars
    BY <1>0, <1>1, StutterMethod DEF wvars, wrapperVars, NullStays
  <1>2. ASSUME NEW w \in Holders, New(w) PROVE MethodInv' /\ RereadInv'
    <2>1. NullStays => handle'[self] = Null
      BY <1>0, <1>2 DEF New, NullStays, MethodInv, HandleTypes
    <2> QED
      BY <1>0, <1>2, <2>1, StutterMethod DEF New
  <1>3. ASSUME NEW w \in Holders, Drop(w) PROVE MethodInv' /\ RereadInv'
    <2>1. NullStays => handle'[self] = Null
      BY <1>0, <1>3 DEF Drop, NullStays, HandleTypes
    <2> QED
      BY <1>0, <1>3, <2>1, StutterMethod DEF Drop
  <1>4. ASSUME NEW c \in Closers, CloseFree(c) \/ \E w \in Holders : CloseBegin(c, w)
        PROVE  MethodInv' /\ RereadInv'
    <2>1. UNCHANGED <<vars, self, view, inUse, inCall, handle, present>>
      BY <1>4 DEF CloseFree, CloseBegin
    <2> QED
      BY <1>0, <2>1, StutterMethod DEF NullStays
  <1>5. ASSUME NEW c \in Closers, CloseClear(c) PROVE MethodInv' /\ RereadInv'
    <2>1. NullStays => handle'[self] = Null
      BY <1>0, <1>5 DEF CloseClear, NullStays, HandleTypes
    <2> QED
      BY <1>0, <1>5, <2>1, StutterMethod DEF CloseClear
  <1>6. ASSUME NEW w \in Holders, NEW v \in Holders, MoveConstruct(w, v) \/ MoveAssign(w, v)
        PROVE  MethodInv' /\ RereadInv'
    <2>1. ~NullStays
      BY <1>6 DEF MoveConstruct, MoveAssign, Movable, NullStays
    <2> QED
      BY <1>0, <1>6, <2>1, StutterMethod DEF MoveConstruct, MoveAssign
  <1>7. ASSUME NEW w \in Holders, BeginMethod(w) PROVE MethodInv' /\ RereadInv'
    <2>1. pc' = "probe" /\ op' = op /\ op # "run_rule"
      BY <1>7 DEF BeginMethod, MayTouch, Again, FirstStep, vars
    <2>2. /\ self' = w /\ self = Null /\ w \in present
          /\ UNCHANGED <<present, handle, view, inUse, inCall>>
      BY <1>7 DEF BeginMethod, MayTouch
    <2>3. ~inCall /\ ~view
      BY <1>0, <2>2 DEF MethodInv
    <2> QED
      BY <1>0, <1>h, <2>1, <2>2, <2>3 DEF MethodInv, RereadInv
  <1>8. ASSUME NEW w \in Holders, BorrowArray(w) PROVE MethodInv' /\ RereadInv'
    <2>1. /\ self' = w /\ self = Null /\ w \in present /\ op # "run_rule"
          /\ UNCHANGED <<present, handle, inCall, vars>>
      BY <1>8 DEF BorrowArray, MayTouch
    <2>2. ~inCall /\ pc \notin {"alloc", "fill", "deliver"}
      BY <1>0, <2>1 DEF MethodInv
    <2> QED
      BY <1>0, <1>h, <2>1, <2>2 DEF MethodInv, RereadInv, vars
  <1>9. CASE EnterCall
    <2>1. /\ inCall' = TRUE /\ closed' = (handle[self] = Null) /\ self # Null /\ ~view
          /\ UNCHANGED <<present, handle, self, view, op, pc, want, size>>
          /\ pc \in {"probe", "fill"} /\ ~inCall
      BY <1>9 DEF EnterCall
    <2>2. op # "run_rule"
      BY <1>0, <2>1 DEF MethodInv
    <2>3. MethodInv'
      BY <1>0, <2>1, <2>2 DEF MethodInv
    <2>4. RereadInv'
      BY <1>0, <2>1 DEF RereadInv
    <2> QED
      BY <2>3, <2>4
  <1>10. CASE ExitCall
    <2>1. /\ inCall /\ inCall' = FALSE /\ inUse' = Null
          /\ self' = IF pc' = "failed" THEN Null ELSE self
          /\ UNCHANGED <<present, handle, view>>
      BY <1>10 DEF ExitCall
    <2>2. self # Null /\ ~view /\ self \in present /\ op # "run_rule" /\ op' = op
      BY <1>0, <1>10, <2>1 DEF MethodInv, ExitCall, Probe, Fill, FormulaFails
    <2>3. pc' \in {"alloc", "deliver", "failed"}
      BY <1>10 DEF ExitCall, Probe, Fill, FormulaFails
    <2>4. MethodInv'
      BY <2>1, <2>2, <2>3 DEF MethodInv
    <2>5. CASE Probe
      <3>1. op = "rtw_bytes" /\ ~closed => want' = size /\ size' = size
        BY <1>t, <2>5, CallFact, SizesType DEF Probe, NextSize
      <3>2. op = "rtw_bytes" /\ closed => handle[self] = Null
        BY <1>0, <2>1 DEF RereadInv
      <3>3. pc' = "alloc"
        BY <2>5 DEF Probe
      <3> QED
        BY <2>1, <2>2, <2>4, <3>1, <3>2, <3>3 DEF RereadInv
    <2>6. CASE Fill \/ FormulaFails
      BY <2>1, <2>4, <2>6 DEF RereadInv, Fill, FormulaFails
    <2> QED
      BY <1>10, <2>5, <2>6 DEF ExitCall
  <1>11. CASE OwnStep
    <2>1. /\ self # Null /\ ~view
          /\ self' = IF Over' THEN Null ELSE self
          /\ UNCHANGED <<present, handle, view, inUse, inCall, op, want, size, closed>>
      BY <1>11 DEF OwnStep, Allocate, OutOfMemory, Deliver
    <2>2. op # "run_rule" /\ pc \in {"alloc", "deliver"} /\ pc' \in {"fill", "done", "nobuffer", "nocopy"}
      BY <1>0, <1>11, <2>1 DEF MethodInv, OwnStep, Allocate, OutOfMemory, Deliver
    <2>3. ~inCall /\ inUse = Null
      BY <1>0, <2>2 DEF MethodInv
    <2>4. MethodInv'
      BY <1>0, <2>1, <2>2, <2>3 DEF MethodInv, Over
    <2>5. RereadInv'
      <3>1. pc' # "alloc" /\ (pc' = "fill" => pc = "alloc")
        BY <1>11, <2>2 DEF OwnStep, Allocate, OutOfMemory, Deliver
      <3>2. UNCHANGED <<op, want, size, closed, handle>> /\ ~inCall'
        BY <2>1, <2>3
      <3>3. pc' = "fill" => self' = self
        BY <2>1 DEF Over
      <3> QED
        BY <1>0, <2>3, <3>1, <3>2, <3>3 DEF RereadInv
    <2> QED
      BY <2>4, <2>5
  <1>12. CASE ReadArray
    <2>1. /\ self # Null /\ inUse # Null /\ ~inCall
          /\ self' = Null /\ view' = FALSE /\ inUse' = Null
          /\ UNCHANGED <<present, handle, inCall, vars>>
      BY <1>12 DEF ReadArray
    <2>2. pc \notin {"alloc", "fill", "deliver"}
      BY <1>0, <2>1 DEF MethodInv
    <2> QED
      BY <1>0, <2>1, <2>2 DEF MethodInv, RereadInv, vars
  <1>13. CASE RunRule
    <2>1. op = "run_rule" /\ op' = op /\ UNCHANGED <<self, view, inUse, inCall, present>>
      BY <1>13 DEF RunRule, wrapperVars, AllocateInput, Allocate, OutOfMemory, Fill, FormulaFails, Deliver, Again
    <2> QED
      BY <1>0, <2>1 DEF MethodInv, RereadInv
  <1> QED
    BY <1>1, <1>2, <1>3, <1>4, <1>5, <1>6, <1>7, <1>8, <1>9, <1>10, <1>11, <1>12, <1>13
       DEF WrapperNext, wvars, Undefined
-----------------------------------------------------------------------------
(***************************************************************************)
(* Ownership.  Four actions free an object, and each of them frees the one *)
(* its wrapper owns: either nothing else leads to it, or the host is to    *)
(* blame.                                                                  *)
(***************************************************************************)
Dangles == {w \in Holders : Dangling(w)}

\* OwnerInv without its condition, each conjunct by name.
EmptyHolders == \A w \in Holders \ present : handle[w] = Null
InUseLive == inUse # Null => inUse \in live
LiveOwned == \A o \in live : o \in lost \/ \E w \in present \ Dangles : handle[w] = o
HandlesLive == \A w \in Holders \ Dangles : handle[w] = Null \/ handle[w] \in live
HandlesUnique == \A w, v \in Holders \ Dangles :
    handle[w] = handle[v] /\ handle[w] # Null => w = v

Ownership == EmptyHolders /\ InUseLive /\ LiveOwned /\ HandlesLive /\ HandlesUnique

LEMMA OwnerParts == HandleTypes => (OwnerInv <=> (~misused => Ownership))
  <1> SUFFICES ASSUME HandleTypes PROVE OwnerInv <=> (~misused => Ownership)
    OBVIOUS
  <1>1. \A w \in Holders : w \in Dangles <=> Dangling(w)
    BY DEF Dangles
  <1>2. present \subseteq Holders
    BY DEF HandleTypes
  <1> QED
    BY <1>1, <1>2
       DEF OwnerInv, HandlesOwned, Dead, Ownership, EmptyHolders, InUseLive, LiveOwned,
           HandlesLive, HandlesUnique

(***************************************************************************)
(* What the steps of a close do to the handles that dangle.                *)
(***************************************************************************)
LEMMA SameDangles == UNCHANGED closing => Dangles' = Dangles
  BY DEF Dangles, Dangling

LEMMA ClosingDangles ==
    ASSUME WrapperInv, NEW c \in Closers
    PROVE  /\ \A w \in Holders : CloseBegin(c, w) => Dangles' = Dangles
           /\ CloseFree(c) => Dangles' = Dangles \cup {closing[c].of}
           /\ CloseClear(c) => /\ closing[c].of \in Dangles /\ Dangles' \subseteq Dangles
                               /\ Dangles \ {closing[c].of} \subseteq Dangles'
  <1>1. closing \in [Closers -> Closings] /\ NotClosing \in Closings
    BY DEF WrapperInv, WrapperTypeOK, Closings, NotClosing
  <1>2. ASSUME NEW w \in Holders, CloseBegin(c, w) PROVE Dangles' = Dangles
    <2> DEFINE r == [of |-> w, pc |-> "free"]
    <2>1. closing' = [closing EXCEPT ![c] = r] /\ r \in Closings
          /\ closing[c].pc # "clear" /\ r.pc # "clear"
      BY <1>2 DEF CloseBegin, NotClosing, Closings
    <2> HIDE DEF r
    <2>2. ASSUME NEW x \in Holders PROVE Dangling(x)' <=> Dangling(x)
      BY <1>1, <2>1, DanglingStep
    <2> QED
      BY <2>2 DEF Dangles
  <1>3. ASSUME CloseFree(c) PROVE Dangles' = Dangles \cup {closing[c].of}
    <2> DEFINE r == [of |-> closing[c].of, pc |-> "clear"]
    <2>1. closing' = [closing EXCEPT ![c] = r] /\ r \in Closings /\ closing[c].of \in Holders
          /\ closing[c].pc # "clear" /\ r.of = closing[c].of /\ r.pc = "clear"
      BY <1>3, ClosingFact DEF CloseFree
    <2> HIDE DEF r
    <2>2. ASSUME NEW x \in Holders PROVE Dangling(x)' <=> Dangling(x) \/ x = closing[c].of
      BY <1>1, <2>1, DanglingStep
    <2> QED
      BY <2>1, <2>2 DEF Dangles
  <1>4. ASSUME CloseClear(c)
        PROVE  /\ closing[c].of \in Dangles /\ Dangles' \subseteq Dangles
               /\ Dangles \ {closing[c].of} \subseteq Dangles'
    <2>1. closing' = [closing EXCEPT ![c] = NotClosing] /\ closing[c].of \in Holders
          /\ closing[c].pc = "clear" /\ NotClosing.pc # "clear"
      BY <1>4, ClosingFact DEF CloseClear, NotClosing
    <2>2. ASSUME NEW x \in Holders
          PROVE  /\ Dangling(x)' => Dangling(x)
                 /\ Dangling(x) /\ x # closing[c].of => Dangling(x)'
                 /\ Dangling(closing[c].of)
      BY <1>1, <2>1, DanglingStep
    <2> QED
      BY <2>1, <2>2 DEF Dangles
  <1> QED
    BY <1>2, <1>3, <1>4

\* A wrapper nobody closes does not dangle.
LEMMA NobodyCloses ==
    ASSUME WrapperInv, NEW w \in Holders, \A c \in Closers : closing[c].of # w
    PROVE  w \notin Dangles
  <1>1. closing \in [Closers -> Closings]
    BY DEF WrapperInv, WrapperTypeOK, Closings
  <1> QED
    BY <1>1, DanglingFact DEF Dangles

(***************************************************************************)
(* A free hands nothing freed to the allocator twice, and what is freed    *)
(* was in use or on its way out only if the step counts as misuse.         *)
(***************************************************************************)
LEMMA FreeHandleOwner ==
    ASSUME Ownership, NEW w \in Holders, FreeHandle(w), inUse' = inUse
    PROVE  /\ NoUseAfterFree'
           /\ ~misused' => w \notin Dangles /\ InUseLive'
           /\ live' = live \ {handle[w]}
  <1>1. w \in Dangles \/ ~Dead(handle[w])
    BY DEF Ownership, HandlesLive, Dead
  <1>2. misused' <=> (w \in Dangles \/ (handle[w] # Null /\ handle[w] = inUse))
    BY DEF FreeHandle, Dangling, Dangles
  <1>3. harmed' <=> Dead(handle[w])
    BY DEF FreeHandle, Dead
  <1>4. live' = live \ {handle[w]}
    BY DEF FreeHandle
  <1> QED
    BY <1>1, <1>2, <1>3, <1>4 DEF NoUseAfterFree, Ownership, InUseLive

-----------------------------------------------------------------------------
(***************************************************************************)
(* One lemma per way of changing who owns what.                            *)
(***************************************************************************)
LEMMA NewOwner ==
    ASSUME WrapperInv, Ownership, NEW w \in Holders, New(w)
    PROVE  Ownership'
  <1>1. PICK h \in Objects \ live :
           live' = live \cup {h} /\ handle' = [handle EXCEPT ![w] = h]
    BY DEF New
  <1>2. /\ present' = present \cup {w} /\ lost' = lost /\ inUse' = inUse
        /\ w \notin present /\ Dangles' = Dangles
    BY SameDangles DEF New
  <1>3. /\ handle'[w] = h /\ h # Null
        /\ \A v \in Holders \ {w} : handle'[v] = handle[v]
    BY <1>1, WrapperAssumption DEF WrapperInv, WrapperTypeOK
  <1>4. w \notin Dangles
    <2>1. \A c \in Closers : closing[c].of # w
      BY <1>2, WrapperAssumption DEF WrapperInv, ClosingInv, NotClosing
    <2> QED
      BY <2>1, NobodyCloses
  <1>5. present \subseteq Holders
    BY DEF WrapperInv, WrapperTypeOK
  <1>6. EmptyHolders' /\ InUseLive' /\ HandlesLive'
    BY <1>1, <1>2, <1>3 DEF Ownership, EmptyHolders, InUseLive, HandlesLive
  <1>7. LiveOwned'
    BY <1>1, <1>2, <1>3, <1>4, <1>5 DEF Ownership, LiveOwned
  <1>8. HandlesUnique'
    BY <1>1, <1>2, <1>3 DEF Ownership, HandlesUnique, HandlesLive
  <1> QED
    BY <1>6, <1>7, <1>8 DEF Ownership

\* Dropped or cleared: the wrapper w leads nowhere any more, and what it led to is
\* lost or freed.
LEMMA UnlinkOwner ==
    ASSUME WrapperInv, Ownership, NEW w \in Holders, w \notin Dangles,
           handle' = [handle EXCEPT ![w] = Null], Dangles' = Dangles,
           present' = present \ {w}, InUseLive',
           \/ live' = live \ {handle[w]} /\ lost' = lost
           \/ live' = live /\ lost' = lost \cup ({handle[w]} \ {Null})
    PROVE  Ownership'
  <1>1. /\ handle'[w] = Null
        /\ \A v \in Holders \ {w} : handle'[v] = handle[v]
    BY DEF WrapperInv, WrapperTypeOK
  <1>2. present \subseteq Holders /\ Null \notin live
    BY WrapperAssumption DEF WrapperInv, WrapperTypeOK
  <1>3. EmptyHolders'
    BY <1>1 DEF Ownership, EmptyHolders
  <1>4. HandlesUnique'
    BY <1>1 DEF Ownership, HandlesUnique
  <1>5. HandlesLive'
    BY <1>1 DEF Ownership, HandlesLive, HandlesUnique
  <1>6. LiveOwned'
    BY <1>1, <1>2 DEF Ownership, LiveOwned
  <1> QED
    BY <1>3, <1>4, <1>5, <1>6 DEF Ownership

LEMMA CloseFreeOwner ==
    ASSUME WrapperInv, Ownership, NEW c \in Closers, CloseFree(c)
    PROVE  NoUseAfterFree' /\ (~misused' => Ownership')
  <1> DEFINE w == closing[c].of
  <1>1. w \in Holders /\ w \in present
    BY ClosingFact DEF CloseFree
  <1>2. FreeHandle(w) /\ UNCHANGED <<present, handle, lost, inUse>>
    BY DEF CloseFree
  <1>3. Dangles' = Dangles \cup {w}
    BY ClosingDangles
  <1> HIDE DEF w
  <1>4. /\ NoUseAfterFree' /\ live' = live \ {handle[w]}
        /\ ~misused' => w \notin Dangles /\ InUseLive'
    BY <1>1, <1>2, FreeHandleOwner
  <1>5. ASSUME ~misused' PROVE Ownership'
    <2>1. EmptyHolders' /\ InUseLive' /\ HandlesUnique'
      BY <1>2, <1>3, <1>4, <1>5 DEF Ownership, EmptyHolders, HandlesUnique
    <2>2. HandlesLive'
      BY <1>1, <1>2, <1>3, <1>4, <1>5 DEF Ownership, HandlesLive, HandlesUnique
    <2>3. LiveOwned'
      BY <1>2, <1>3, <1>4, <1>5 DEF Ownership, LiveOwned
    <2> QED
      BY <2>1, <2>2, <2>3 DEF Ownership
  <1> QED
    BY <1>4, <1>5

LEMMA CloseClearOwner ==
    ASSUME WrapperInv, Ownership, NEW c \in Closers, CloseClear(c)
    PROVE  Ownership'
  <1> DEFINE w == closing[c].of
  <1>1. w \in Holders /\ w \in present
    BY ClosingFact DEF CloseClear
  <1>2. /\ handle' = [handle EXCEPT ![w] = Null]
        /\ UNCHANGED <<present, live, lost, inUse>>
    BY DEF CloseClear
  <1>3. w \in Dangles /\ Dangles' \subseteq Dangles /\ Dangles \ {w} \subseteq Dangles'
    BY ClosingDangles
  <1> HIDE DEF w
  <1>4. handle'[w] = Null /\ \A v \in Holders \ {w} : handle'[v] = handle[v]
    BY <1>1, <1>2 DEF WrapperInv, WrapperTypeOK
  <1>5. present \subseteq Holders
    BY DEF WrapperInv, WrapperTypeOK
  <1>6. EmptyHolders' /\ InUseLive'
    BY <1>1, <1>2, <1>4 DEF Ownership, EmptyHolders, InUseLive
  <1>7. HandlesLive' /\ HandlesUnique'
    BY <1>2, <1>3, <1>4 DEF Ownership, HandlesLive, HandlesUnique
  <1>8. LiveOwned'
    BY <1>2, <1>3, <1>4, <1>5 DEF Ownership, LiveOwned
  <1> QED
    BY <1>6, <1>7, <1>8 DEF Ownership
\* A dropped wrapper is closed first, or in C# leaves its object behind.
LEMMA DropOwner ==
    ASSUME WrapperInv, Ownership, NEW w \in Holders, Drop(w)
    PROVE  NoUseAfterFree' /\ (~misused' => Ownership')
  <1>1. w \notin Dangles
    BY NobodyCloses DEF Drop
  <1>2. Dangles' = Dangles /\ inUse' = inUse
    BY SameDangles DEF Drop
  <1>3. handle' = [handle EXCEPT ![w] = Null] /\ present' = present \ {w}
    BY DEF Drop
  <1>4. CASE binding = "csharp"
    <2>1. /\ lost' = lost \cup ({handle[w]} \ {Null})
          /\ UNCHANGED <<live, misused, harmed>>
      BY <1>4 DEF Drop
    <2>2. NoUseAfterFree' /\ InUseLive'
      BY <1>2, <2>1 DEF NoUseAfterFree, WrapperInv, Ownership, InUseLive
    <2> QED
      BY <1>1, <1>2, <1>3, <2>1, <2>2, UnlinkOwner
  <1>5. CASE binding # "csharp"
    <2>1. FreeHandle(w) /\ lost' = lost
      BY <1>5 DEF Drop
    <2>2. /\ NoUseAfterFree' /\ live' = live \ {handle[w]}
          /\ ~misused' => InUseLive'
      BY <1>2, <2>1, FreeHandleOwner
    <2> QED
      BY <1>1, <1>2, <1>3, <2>1, <2>2, UnlinkOwner
  <1> QED
    BY <1>4, <1>5

(***************************************************************************)
(* Moves are of C++, where a wrapper that another thread closes may not be *)
(* touched.                                                                *)
(***************************************************************************)
LEMMA MovedNotDangling ==
    ASSUME WrapperInv, NEW v \in Holders, Movable, MayTouch(v)
    PROVE  v \notin Dangles /\ v \in present
  BY NobodyCloses DEF Movable, MayTouch

LEMMA MovedUnique ==
    ASSUME HandlesUnique, NEW w \in Holders, NEW v \in Holders \ Dangles, w # v,
           handle'[v] = Null, handle'[w] = handle[v], Dangles' = Dangles,
           \A u \in Holders \ {w, v} : handle'[u] = handle[u]
    PROVE  HandlesUnique'
  <1> SUFFICES ASSUME NEW a \in Holders \ Dangles, NEW b \in Holders \ Dangles,
                      handle'[a] = handle'[b], handle'[a] # Null
               PROVE  a = b
    BY DEF HandlesUnique
  <1>1. a # v /\ b # v
    OBVIOUS
  <1>2. CASE a = w \/ b = w
    <2>1. \A u \in Holders \ Dangles : handle[u] = handle[v] /\ handle[v] # Null => u = v
      BY DEF HandlesUnique
    <2> QED
      BY <1>1, <1>2, <2>1
  <1>3. CASE a # w /\ b # w
    BY <1>1, <1>3 DEF HandlesUnique
  <1> QED
    BY <1>2, <1>3

LEMMA MoveConstructOwner ==
    ASSUME WrapperInv, Ownership, NEW w \in Holders, NEW v \in Holders, MoveConstruct(w, v)
    PROVE  Ownership'
  <1>1. v \notin Dangles /\ v \in present /\ w \notin present
    BY MovedNotDangling DEF MoveConstruct
  <1>2. w \notin Dangles
    <2>1. \A c \in Closers : closing[c].of # w
      BY <1>1, WrapperAssumption DEF WrapperInv, ClosingInv, NotClosing
    <2> QED
      BY <2>1, NobodyCloses
  <1>3. /\ handle' = [handle EXCEPT ![w] = handle[v], ![v] = Null]
        /\ present' = present \cup {w} /\ UNCHANGED <<live, lost, inUse>>
    BY DEF MoveConstruct
  <1>4. Dangles' = Dangles
    BY SameDangles DEF MoveConstruct
  <1>5. /\ handle'[v] = Null /\ handle'[w] = handle[v] /\ w # v
        /\ \A u \in Holders \ {w, v} : handle'[u] = handle[u]
    BY <1>1, <1>3 DEF WrapperInv, WrapperTypeOK
  <1>6. present \subseteq Holders /\ Null \notin live
    BY WrapperAssumption DEF WrapperInv, WrapperTypeOK
  <1>7. EmptyHolders' /\ InUseLive'
    BY <1>3, <1>5 DEF Ownership, EmptyHolders, InUseLive
  <1>8. HandlesLive'
    <2> SUFFICES ASSUME NEW u \in Holders \ Dangles
                 PROVE  handle'[u] = Null \/ handle'[u] \in live
      BY <1>3, <1>4 DEF HandlesLive
    <2>1. \A x \in Holders \ Dangles : handle[x] = Null \/ handle[x] \in live
      BY DEF Ownership, HandlesLive
    <2> QED
      BY <1>1, <1>5, <2>1
  <1>9. LiveOwned'
    BY <1>1, <1>2, <1>3, <1>4, <1>5, <1>6, ZenonT(60) DEF Ownership, LiveOwned
  <1>10. HandlesUnique'
    BY <1>1, <1>4, <1>5, MovedUnique DEF Ownership
  <1> QED
    BY <1>7, <1>8, <1>9, <1>10 DEF Ownership

LEMMA MoveAssignOwner ==
    ASSUME WrapperInv, Ownership, NEW w \in Holders, NEW v \in Holders, MoveAssign(w, v)
    PROVE  NoUseAfterFree' /\ (~misused' => Ownership')
  <1>1. v \notin Dangles /\ v \in present /\ w \notin Dangles /\ w \in present /\ w # v
    BY MovedNotDangling DEF MoveAssign
  <1>2. /\ FreeHandle(w) /\ UNCHANGED <<present, lost, inUse>>
        /\ handle' = [handle EXCEPT ![w] = handle[v], ![v] = Null]
    BY DEF MoveAssign
  <1>3. Dangles' = Dangles
    BY SameDangles DEF MoveAssign
  <1>4. /\ NoUseAfterFree' /\ live' = live \ {handle[w]}
        /\ ~misused' => InUseLive'
    BY <1>2, FreeHandleOwner
  <1>5. /\ handle'[v] = Null /\ handle'[w] = handle[v]
        /\ \A u \in Holders \ {w, v} : handle'[u] = handle[u]
    BY <1>1, <1>2 DEF WrapperInv, WrapperTypeOK
  <1>6. present \subseteq Holders /\ Null \notin live
    BY WrapperAssumption DEF WrapperInv, WrapperTypeOK
  <1>7. EmptyHolders'
    BY <1>1, <1>2, <1>5 DEF Ownership, EmptyHolders
  <1>8. HandlesUnique'
    BY <1>1, <1>3, <1>5, MovedUnique DEF Ownership
  <1>9. HandlesLive'
    BY <1>1, <1>3, <1>4, <1>5 DEF Ownership, HandlesLive, HandlesUnique
  <1>10. LiveOwned'
    <2> SUFFICES ASSUME NEW o \in live', o \notin lost'
                 PROVE  \E x \in present' \ Dangles' : handle'[x] = o
      BY DEF LiveOwned
    <2>1. o \in live /\ o # handle[w] /\ o \notin lost
      BY <1>2, <1>4
    <2>2. PICK x \in present \ Dangles : handle[x] = o
      BY <2>1 DEF Ownership, LiveOwned
    <2>3. x # w
      BY <2>1, <2>2
    <2>4. CASE x = v
      BY <1>1, <1>2, <1>3, <1>5, <2>2, <2>4
    <2>5. CASE x # v
      <3>1. x \in Holders \ {w, v}
        BY <1>6, <2>2, <2>3, <2>5
      <3> QED
        BY <1>2, <1>3, <1>5, <2>2, <3>1
    <2> QED
      BY <2>4, <2>5
  <1> QED
    BY <1>4, <1>7, <1>8, <1>9, <1>10 DEF Ownership

(***************************************************************************)
(* A call or a loan that begins on a handle that is not dangling has a     *)
(* live object, and keeps it until a step that counts as misuse.           *)
(***************************************************************************)
LEMMA UseOwner ==
    ASSUME WrapperInv, Ownership, NEW w \in Holders,
           UNCHANGED <<present, handle, live, lost, closing>>,
           inUse' = handle[w], misused' = Dangling(w), harmed' = Dead(handle[w])
    PROVE  NoUseAfterFree' /\ (~misused' => Ownership')
  <1>1. Dangles' = Dangles
    BY SameDangles
  <1>2. misused' <=> w \in Dangles
    BY DEF Dangling, Dangles
  <1>3. harmed' <=> Dead(handle[w])
    BY DEF Dead
  <1>4. w \notin Dangles => ~Dead(handle[w])
    BY DEF Ownership, HandlesLive, Dead
  <1>5. EmptyHolders' /\ LiveOwned' /\ HandlesLive' /\ HandlesUnique'
    BY <1>1 DEF Ownership, EmptyHolders, LiveOwned, HandlesLive, HandlesUnique
  <1>6. ~misused' => InUseLive'
    BY <1>2, <1>4 DEF InUseLive, Dead
  <1> QED
    BY <1>2, <1>3, <1>4, <1>5, <1>6 DEF Ownership, NoUseAfterFree

LEMMA UseEndsOwner ==
    ASSUME WrapperInv, Ownership, UNCHANGED <<present, handle, live, lost, closing>>,
           inUse' = Null, misused' = misused, harmed' = Dead(inUse)
    PROVE  NoUseAfterFree' /\ Ownership'
  <1>1. Dangles' = Dangles
    BY SameDangles
  <1>2. ~harmed'
    BY DEF Dead, Ownership, InUseLive
  <1> QED
    BY <1>1, <1>2 DEF Ownership, EmptyHolders, LiveOwned, HandlesLive, HandlesUnique,
                      InUseLive, NoUseAfterFree

LEMMA StutterOwner ==
    ASSUME Ownership, UNCHANGED <<present, handle, live, lost, inUse>>, Dangles' = Dangles
    PROVE  Ownership'
  BY DEF Ownership, EmptyHolders, LiveOwned, HandlesLive, HandlesUnique, InUseLive

LEMMA WrapperOwner == WrapperInv /\ [WrapperNext]_wvars => OwnerInv' /\ NoUseAfterFree'
  <1> SUFFICES ASSUME WrapperInv, [WrapperNext]_wvars PROVE OwnerInv' /\ NoUseAfterFree'
    OBVIOUS
  <1>1. HandleTypes'
    BY WrapperTypes DEF WrapperTypeOK, Closings, HandleTypes
  <1>2. HandleTypes /\ NoUseAfterFree
    BY DEF WrapperInv, WrapperTypeOK, Closings, HandleTypes
  <1>3. OwnerInv' <=> (~misused' => Ownership')
    <2>1. (HandleTypes => (OwnerInv <=> (~misused => Ownership)))'
      BY OwnerParts, PTL
    <2> QED
      BY <1>1, <2>1
  <1>4. ~misused => Ownership
    BY <1>2, OwnerParts DEF WrapperInv
  <1> SUFFICES (~misused' => Ownership') /\ NoUseAfterFree'
    BY <1>3
  <1>5. CASE UNCHANGED wrapperVars
    BY <1>2, <1>4, <1>5, StutterOwner, SameDangles DEF wrapperVars, NoUseAfterFree
  <1>6. ASSUME NEW w \in Holders, New(w) PROVE (~misused' => Ownership') /\ NoUseAfterFree'
    BY <1>2, <1>4, <1>6, NewOwner DEF New, NoUseAfterFree
  <1>7. ASSUME NEW w \in Holders, Drop(w) PROVE (~misused' => Ownership') /\ NoUseAfterFree'
    BY <1>4, <1>7, DropOwner DEF Drop
  <1>8. ASSUME NEW w \in Holders, BeginMethod(w)
        PROVE  (~misused' => Ownership') /\ NoUseAfterFree'
    BY <1>2, <1>4, <1>8, StutterOwner, SameDangles DEF BeginMethod, NoUseAfterFree
  <1>9. ASSUME NEW w \in Holders, BorrowArray(w)
        PROVE  (~misused' => Ownership') /\ NoUseAfterFree'
    BY <1>4, <1>9, UseOwner DEF BorrowArray, MayTouch
  <1>10. ASSUME NEW c \in Closers, NEW w \in Holders, CloseBegin(c, w)
         PROVE  (~misused' => Ownership') /\ NoUseAfterFree'
    BY <1>2, <1>4, <1>10, ClosingDangles, StutterOwner DEF CloseBegin, NoUseAfterFree
  <1>11. ASSUME NEW c \in Closers, CloseFree(c)
         PROVE  (~misused' => Ownership') /\ NoUseAfterFree'
    BY <1>4, <1>11, CloseFreeOwner DEF CloseFree
  <1>12. ASSUME NEW c \in Closers, CloseClear(c)
         PROVE  (~misused' => Ownership') /\ NoUseAfterFree'
    BY <1>2, <1>4, <1>12, CloseClearOwner DEF CloseClear, NoUseAfterFree
  <1>13. ASSUME NEW w \in Holders, NEW v \in Holders, MoveConstruct(w, v)
         PROVE  (~misused' => Ownership') /\ NoUseAfterFree'
    BY <1>2, <1>4, <1>13, MoveConstructOwner DEF MoveConstruct, MayTouch, NoUseAfterFree
  <1>14. ASSUME NEW w \in Holders, NEW v \in Holders, MoveAssign(w, v)
         PROVE  (~misused' => Ownership') /\ NoUseAfterFree'
    BY <1>4, <1>14, MoveAssignOwner DEF MoveAssign, MayTouch
  <1>15. CASE EnterCall
    <2>1. self \in Holders
      BY <1>2, <1>15 DEF EnterCall, HandleTypes
    <2> QED
      BY <1>4, <1>15, <2>1, UseOwner DEF EnterCall
  <1>16. CASE ExitCall
    BY <1>4, <1>16, UseEndsOwner DEF ExitCall
  <1>17. CASE OwnStep
    BY <1>2, <1>4, <1>17, StutterOwner, SameDangles DEF OwnStep, NoUseAfterFree
  <1>18. CASE ReadArray
    BY <1>4, <1>18, UseEndsOwner DEF ReadArray
  <1> QED
    BY <1>5, <1>6, <1>7, <1>8, <1>9, <1>10, <1>11, <1>12, <1>13, <1>14, <1>15, <1>16, <1>17, <1>18
       DEF WrapperNext, wvars, RunRule, Undefined

LEMMA WrapperStep == WrapperInv /\ [WrapperNext]_wvars => WrapperInv'
  BY WrapperProtocol, WrapperTypes, WrapperMethod, WrapperOwner DEF WrapperInv

LEMMA WrapperAlways == WrapperSpec => []WrapperInv
  BY WrapperStart, WrapperStep, PTL DEF WrapperSpec, wvars

-----------------------------------------------------------------------------
\* Every variable of the wrappers and of the calls they make keeps its type
\* (WrapperTypeOK).
THEOREM WrapperTypesHold == WrapperSpec => []WrapperTypeOK
  BY WrapperAlways, PTL DEF WrapperInv

(***************************************************************************)
(* "A C++ caller never manually frees" (hpp:5), for any number of          *)
(* wrappers: through moves, closes on other threads and addresses handed   *)
(* out again, a handle leads to a live object that no other wrapper owns.  *)
(***************************************************************************)
THEOREM HandlesStayOwned == WrapperSpec => []HandlesOwned
  <1>1. WrapperInv => HandlesOwned
    BY DEF WrapperInv, OwnerInv, HandlesOwned
  <1> QED
    BY <1>1, WrapperAlways, PTL

(***************************************************************************)
(* No call gets and no copy reads a freed object, and none is freed twice, *)
(* as long as the host does not free an object in use or close it on two   *)
(* threads at once; the two calls of a method may have any closes, moves   *)
(* and reuses of addresses between them.                                   *)
(***************************************************************************)
THEOREM NoUseAfterFreeHolds == WrapperSpec => []NoUseAfterFree
  BY WrapperAlways, PTL DEF WrapperInv

\* No object is left without a wrapper, save those whose C# wrapper was dropped
\* without Dispose.
THEOREM NothingIsLost == WrapperSpec => []NothingLost
  <1>1. WrapperInv => NothingLost
    BY DEF WrapperInv, OwnerInv, NothingLost
  <1> QED
    BY <1>1, WrapperAlways, PTL

(***************************************************************************)
(* What ProtocolKeepsPromises says of the calls of one thread left alone   *)
(* holds when each call reads the handle again and other threads close,    *)
(* move and drop wrappers between the calls: Rtw::bytes gives the payload  *)
(* or throws, nothing is written past a capacity, a result is the output   *)
(* of the dispatch that filled the buffer, a method of a closed wrapper    *)
(* throws, and the buffers of Rtw.Bytes and RunRule outlive the library's  *)
(* use of them but not the call, unless an allocation of RunRule throws    *)
(* before its try begins.                                                  *)
(***************************************************************************)
THEOREM MethodsKeepPromises ==
    WrapperSpec => [](RtwBytesExact /\ WithinCapacity /\ RunExactOrThrows
                      /\ ClosedThrows /\ BufferLifetimes)
  <1>1. WrapperInv => RtwBytesExact /\ WithinCapacity /\ RunExactOrThrows
                      /\ ClosedThrows /\ BufferLifetimes
    BY ProtocolSafe DEF WrapperInv
  <1> QED
    BY <1>1, WrapperAlways, PTL

(***************************************************************************)
(* What Session::run returns is output (rtorch_api.h:77-78), where the     *)
(* binding lets the library write into the buffer it returns: the copy C#  *)
(* makes is the only reason why ResultIsOutput is violated.                *)
(***************************************************************************)
THEOREM ResultIsOutputWithoutCopy ==
    ASSUME "csharp" \notin Bindings
    PROVE  WrapperSpec => []ResultIsOutput
  <1>1. WrapperInv => ResultIsOutput
    <2> SUFFICES ASSUME WrapperInv, op = "session_run", pc = "done"
                 PROVE  result.good = result.len
      BY DEF ResultIsOutput
    <2>1. binding # "csharp" /\ RunExactOrThrows
      BY DEF WrapperInv, ProtocolInv, TypeOK
    <2>2. result = [len |-> size, good |-> size]
      BY <2>1 DEF RunExactOrThrows
    <2> QED
      BY <2>2
  <1> QED
    BY <1>1, WrapperAlways, PTL
=============================================================================
