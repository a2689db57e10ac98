------------------------- MODULE RuleRegistryProofs -------------------------
(***************************************************************************)
(* Theorems about the rule registry, for every number of threads, names,   *)
(* closures and nested calls.                                              *)
(***************************************************************************)
EXTENDS RuleRegistry, TLAPS

(***************************************************************************)
(* A frame replaced by a frame leaves the other frames of every stack.     *)
(***************************************************************************)
LEMMA SetTopFact ==
    ASSUME TypeOK, NEW t \in Threads, sp[t] > 0, NEW f \in Frames, SetTop(t, f)
    PROVE  /\ frame' \in [Threads -> [Depths -> Frames]]
           /\ frame'[t][sp[t]] = f
           /\ \A u \in Threads : \A d \in Depths :
                 (u # t \/ d # sp[t]) => frame'[u][d] = frame[u][d]
  <1>1. sp[t] \in Depths
    BY ConstantsAssumption DEF TypeOK, Depths
  <1>2. frame \in [Threads -> [Depths -> Frames]]
    BY DEF TypeOK
  <1> QED
    BY <1>1, <1>2 DEF SetTop

(***************************************************************************)
(* The newest frame of a thread that has calls in progress is a frame.     *)
(***************************************************************************)
LEMMA TopFact ==
    ASSUME TypeOK, NEW t \in Threads, sp[t] > 0
    PROVE  Top(t) \in Frames /\ sp[t] \in Depths
  BY ConstantsAssumption DEF TypeOK, Depths, Top

(***************************************************************************)
(* A call pushes its frame on the stack of the calling thread.             *)
(***************************************************************************)
LEMMA PushFact ==
    ASSUME TypeOK, NEW t \in Threads, NEW f \in Frames, Push(t, f)
    PROVE  /\ frame' \in [Threads -> [Depths -> Frames]]
           /\ sp' \in [Threads -> 0..MaxDepth]
           /\ calls' \in 0..MaxCalls
           /\ sp'[t] = sp[t] + 1
           /\ \A u \in Threads : u # t => sp'[u] = sp[u]
           /\ frame'[t][sp[t] + 1] = f
           /\ \A u \in Threads : \A d \in Depths :
                 (u # t \/ d # sp[t] + 1) => frame'[u][d] = frame[u][d]
  <1>1. sp[t] + 1 \in Depths
    BY ConstantsAssumption DEF TypeOK, Depths, Push
  <1>2. frame \in [Threads -> [Depths -> Frames]]
    BY DEF TypeOK
  <1>3. calls' \in 0..MaxCalls
    BY ConstantsAssumption DEF TypeOK, Push
  <1>4. sp' \in [Threads -> 0..MaxDepth] /\ sp'[t] = sp[t] + 1
        /\ \A u \in Threads : u # t => sp'[u] = sp[u]
    BY <1>1 DEF TypeOK, Push, Depths
  <1> QED
    BY <1>1, <1>2, <1>3, <1>4 DEF Push
(***************************************************************************)
(* The initial state is well typed.                                        *)
(***************************************************************************)
LEMMA InitType == Init => TypeOK
  <1> SUFFICES ASSUME Init PROVE TypeOK
    OBVIOUS
  <1>1. NoFrame \in Frames
    BY DEF NoFrame, NewFrame, Frames, AllNames, MaybeRule, Pcs, Ops, Codes
  <1>2. frame \in [Threads -> [Depths -> Frames]]
    BY <1>1 DEF Init
  <1>3. sp \in [Threads -> 0..MaxDepth] /\ calls \in 0..MaxCalls
    BY ConstantsAssumption DEF Init
  <1>4. registry \in [AllNames -> MaybeRule]
    BY DEF Init, MaybeRule
  <1>5. lock \in Threads \cup {Free} /\ poisoned \in BOOLEAN
    BY DEF Init
  <1>6. /\ refs \in [Rules -> Int]
        /\ status \in [Rules -> {"unused", "live", "dropped", "leaked"}]
        /\ lastErr \in [Threads -> Reasons]
    BY DEF Init, Reasons
  <1> QED
    BY <1>2, <1>3, <1>4, <1>5, <1>6 DEF TypeOK

(***************************************************************************)
(* A call of the host leaves the state well typed, whichever entry point   *)
(* it goes to and whatever it passes.                                      *)
(***************************************************************************)
LEMMA HostCallType ==
    ASSUME TypeOK, NEW t \in Threads, HostCall(t)
    PROVE  TypeOK'
  <1> USE DEF AllNames, MaybeRule, Reasons
  <1>0. \A op \in Ops, n \in AllNames, arc \in MaybeRule, pc \in Pcs, rc \in Codes :
            /\ NewFrame(op, n, arc, pc, rc) \in Frames
            /\ [NewFrame(op, n, arc, pc, rc) EXCEPT !.reported = TRUE] \in Frames
    BY ZenonT(60) DEF NewFrame, Frames
  <1>1. CASE CallRegisterC(t)
    <2>1. PICK n \in Names, r \in Rules \ NativeRules :
            /\ Push(t, NewFrame("register_c", n, r, "wait", "none"))
            /\ BoxClosure(r)
            /\ UNCHANGED <<store, lastErr>>
      BY <1>1 DEF CallRegisterC
    <2>2. NewFrame("register_c", n, r, "wait", "none") \in Frames
      BY <1>0 DEF Ops, Pcs, Codes
    <2> QED
      BY <2>1, <2>2, PushFact DEF TypeOK, BoxClosure, store
  <1>2. CASE CallRegister(t)
    <2>1. PICK r \in NativeRules :
            /\ BoxClosure(r)
            /\ \/ \E n \in Names :
                     /\ Push(t, NewFrame("register", n, r, "wait", "none"))
                     /\ UNCHANGED lastErr
               \/ /\ Push(t, [NewFrame("rejected", EmptyName, r, "release", "E_PARAM")
                                EXCEPT !.reported = TRUE])
                  /\ SetLastError(t, "bad_argument")
            /\ UNCHANGED store
      BY <1>2 DEF CallRegister
    <2>2. r \in Rules
      BY ConstantsAssumption
    <2>3. /\ \A n \in Names : NewFrame("register", n, r, "wait", "none") \in Frames
          /\ [NewFrame("rejected", EmptyName, r, "release", "E_PARAM")
                EXCEPT !.reported = TRUE] \in Frames
      BY <1>0, <2>2 DEF Ops, Pcs, Codes
    <2> QED
      BY <2>1, <2>2, <2>3, PushFact DEF TypeOK, BoxClosure, store, SetLastError
  <1>3. CASE CallExists(t) \/ CallRun(t) \/ CallClear(t)
    <2>1. PICK op \in {"exists", "run", "clear"}, n \in AllNames :
            Push(t, NewFrame(op, n, NoRule, "wait", "none"))
      BY <1>3 DEF CallExists, CallRun, CallClear
    <2>2. NewFrame(op, n, NoRule, "wait", "none") \in Frames
      BY <1>0 DEF Ops, Pcs, Codes
    <2>3. UNCHANGED <<store, heap, lastErr>>
      BY <1>3 DEF CallExists, CallRun, CallClear
    <2> QED
      BY <2>1, <2>2, <2>3, PushFact DEF TypeOK, store, heap
  <1>4. CASE CallBadArgument(t)
    <2>1. /\ [NewFrame("rejected", EmptyName, NoRule, "return", "E_PARAM")
                EXCEPT !.reported = TRUE] \in Frames
          /\ NewFrame("rejected", EmptyName, NoRule, "return", "NO") \in Frames
      BY <1>0 DEF Ops, Pcs, Codes
    <2> QED
      BY <1>4, <2>1, PushFact DEF CallBadArgument, TypeOK, store, heap, SetLastError
  <1> QED
    BY <1>1, <1>2, <1>3, <1>4 DEF HostCall

(***************************************************************************)
(* So does every step of the library: the critical section and what comes  *)
(* after it.                                                               *)
(***************************************************************************)
LEMMA LibraryStepType ==
    ASSUME TypeOK, NEW t \in Threads, LibraryStep(t)
    PROVE  TypeOK'
  <1> USE DEF At, MaybeRule, Reasons, store, heap
  <1>0. sp[t] > 0 /\ Top(t) \in Frames /\ sp[t] \in Depths
    BY TopFact DEF LibraryStep, Acquire, RefusePoisoned, Insert, ContainsKey, CloneRule,
       RuleNotFound, ClearAll, DropOld, Unlock, Release, CatchPanic, Return
  <1>1. CASE Acquire(t)
    <2>1. [Top(t) EXCEPT !.pc = "locked"] \in Frames
      BY <1>0 DEF Frames, Pcs, UnderLock
    <2> QED
      BY <1>0, <1>1, <2>1, SetTopFact DEF Acquire, TypeOK
  <1>2. CASE RefusePoisoned(t)
    <2>1. /\ [Top(t) EXCEPT !.pc = "unlock", !.rc = "E_RT", !.reported = TRUE] \in Frames
          /\ [Top(t) EXCEPT !.pc = "unlock",
                 !.rc = IF Top(t).op = "exists" THEN "NO" ELSE "OK"] \in Frames
      BY <1>0 DEF Frames, Pcs, UnderLock, Codes
    <2> QED
      BY <1>0, <1>2, <2>1, SetTopFact DEF RefusePoisoned, TypeOK, SetLastError
  <1>3. CASE Insert(t)
    <2>1. registry[Top(t).name] \in MaybeRule /\ Top(t).arc \in MaybeRule
      BY <1>0 DEF TypeOK, Frames
    <2>2. {registry[Top(t).name]} \ {NoRule} \in SUBSET Rules
      BY <2>1
    <2>3. [Top(t) EXCEPT !.pc = "drop_old", !.rc = "OK", !.arc = NoRule,
                         !.old = {registry[Top(t).name]} \ {NoRule}] \in Frames
      BY <1>0, <2>2 DEF Frames, Pcs, UnderLock, Codes
    <2>4. registry' \in [AllNames -> MaybeRule]
      BY <1>3, <2>1 DEF Insert, TypeOK
    <2> QED
      BY <1>0, <1>3, <2>3, <2>4, SetTopFact DEF Insert, TypeOK
  <1>4. CASE ContainsKey(t)
    <2>1. [Top(t) EXCEPT !.pc = "unlock",
             !.rc = IF registry[Top(t).name] # NoRule THEN "YES" ELSE "NO"] \in Frames
      BY <1>0 DEF Frames, Pcs, UnderLock, Codes
    <2> QED
      BY <1>0, <1>4, <2>1, SetTopFact DEF ContainsKey, TypeOK
  <1>5. CASE CloneRule(t)
    <2> DEFINE r == registry[Top(t).name]
    <2>1. r \in Rules
      BY <1>0, <1>5 DEF CloneRule, TypeOK, Frames
    <2>2. [Top(t) EXCEPT !.pc = "unlock", !.arc = r, !.hit = r] \in Frames
      BY <1>0, <2>1 DEF Frames, Pcs, UnderLock
    <2>3. refs' \in [Rules -> Int]
      BY <1>5, <2>1 DEF CloneRule, TypeOK
    <2> QED
      BY <1>0, <1>5, <2>2, <2>3, SetTopFact DEF CloneRule, TypeOK
  <1>6. CASE RuleNotFound(t)
    <2>1. [Top(t) EXCEPT !.pc = "unlock", !.rc = "E_PARAM", !.reported = TRUE] \in Frames
      BY <1>0 DEF Frames, Pcs, UnderLock, Codes
    <2> QED
      BY <1>0, <1>6, <2>1, SetTopFact DEF RuleNotFound, TypeOK, SetLastError
  <1>7. CASE ClearAll(t)
    <2> DEFINE o == {registry[n] : n \in AllNames} \ {NoRule}
    <2>1. o \in SUBSET Rules
      BY DEF TypeOK
    <2>2. [Top(t) EXCEPT !.pc = "drop_old", !.rc = "OK", !.old = o] \in Frames
      BY <1>0, <2>1 DEF Frames, Pcs, UnderLock, Codes
    <2> QED
      BY <1>0, <1>7, <2>2, SetTopFact DEF ClearAll, TypeOK
  <1>8. CASE DropOld(t)
    <2>1. PICK r \in Top(t).old :
            /\ DropOwner(r)
            /\ SetTop(t, [Top(t) EXCEPT !.old = @ \ {r},
                              !.pc = IF RunsDestructor(r) THEN "destroy_old" ELSE @])
      BY <1>8 DEF DropOld
    <2>2. r \in Rules
      BY <1>0 DEF Frames
    <2>3. [Top(t) EXCEPT !.old = @ \ {r},
             !.pc = IF RunsDestructor(r) THEN "destroy_old" ELSE @] \in Frames
      BY <1>0, <2>2 DEF Frames, Pcs, UnderLock
    <2> QED
      BY <1>0, <1>8, <2>1, <2>2, <2>3, SetTopFact, SMTT(30) DEF DropOld, DropOwner, TypeOK
  <1>9. CASE Unlock(t)
    <2>1. [Top(t) EXCEPT !.pc = IF Top(t).hit # NoRule THEN "callback"
                                                       ELSE "release"] \in Frames
      BY <1>0 DEF Frames, Pcs, UserCode
    <2> QED
      BY <1>0, <1>9, <2>1, SetTopFact DEF Unlock, TypeOK
  <1>10. CASE Release(t)
    <2>1. CASE Top(t).arc = NoRule
      <3>1. [Top(t) EXCEPT !.pc = "return"] \in Frames
        BY <1>0 DEF Frames, Pcs
      <3> QED
        BY <1>0, <1>10, <2>1, <3>1, SetTopFact DEF Release, TypeOK
    <2>2. CASE Top(t).arc # NoRule
      <3> DEFINE r == Top(t).arc
                 f == [Top(t) EXCEPT !.arc = NoRule,
                          !.pc = IF RunsDestructor(r) THEN "destroy" ELSE "return"]
      <3>1. r \in Rules
        BY <1>0, <2>2 DEF Frames
      <3>2. f \in Frames
        BY <1>0 DEF Frames, Pcs, UserCode
      <3>3. DropOwner(r) /\ SetTop(t, f) /\ UNCHANGED <<store, sp, lastErr, calls>>
        BY <1>10, <2>2 DEF Release
      <3> HIDE DEF r, f
      <3> QED
        BY <1>0, <3>1, <3>2, <3>3, SetTopFact DEF DropOwner, TypeOK
    <2> QED
      BY <2>1, <2>2
  <1>11. CASE CatchPanic(t)
    <2>1. [Top(t) EXCEPT !.rc = "E_RT", !.reported = TRUE] \in Frames
      BY <1>0 DEF Frames, Codes
    <2> QED
      BY <1>0, <1>11, <2>1, SetTopFact DEF CatchPanic, TypeOK, SetLastError
  <1>12. CASE Return(t)
    <2>1. NoFrame \in Frames
      BY DEF NoFrame, NewFrame, Frames, AllNames, Pcs, Ops, Codes
    <2>2. sp' \in [Threads -> 0..MaxDepth]
      BY <1>0, <1>12, ConstantsAssumption DEF Return, TypeOK, Depths
    <2> QED
      BY <1>0, <1>12, <2>1, <2>2, SetTopFact DEF Return, TypeOK
  <1> QED
    BY <1>1, <1>2, <1>3, <1>4, <1>5, <1>6, <1>7, <1>8, <1>9, <1>10, <1>11, <1>12
       DEF LibraryStep

(***************************************************************************)
(* And every way a callback or a destructor can end.                       *)
(***************************************************************************)
LEMMA UserStepType ==
    ASSUME TypeOK, NEW t \in Threads, UserStep(t)
    PROVE  TypeOK'
  <1> USE DEF At, store, heap
  <1>0. sp[t] > 0 /\ Top(t) \in Frames
    BY TopFact DEF UserStep, CallbackReturns, CallbackPanics, DestructorReturns,
       DestructorPanicsUnderLock, DestructorPanics
  <1>1. CASE CallbackReturns(t) \/ CallbackPanics(t) \/ DestructorReturns(t)
             \/ DestructorPanics(t)
    <2>1. /\ \A rc \in Codes : [Top(t) EXCEPT !.pc = "release", !.rc = rc] \in Frames
          /\ [Top(t) EXCEPT !.pc = "drop_old"] \in Frames
          /\ [Top(t) EXCEPT !.pc = "return"] \in Frames
          /\ [Top(t) EXCEPT !.pc = "return", !.rc = "PANIC"] \in Frames
      BY <1>0 DEF Frames, Pcs, UnderLock, Codes
    <2>2. PICK f \in Frames : SetTop(t, f)
      BY <1>1, <2>1
         DEF CallbackReturns, CallbackPanics, DestructorReturns, DestructorPanics, Codes
    <2>3. UNCHANGED <<store, heap, sp, lastErr, calls>>
      BY <1>1 DEF CallbackReturns, CallbackPanics, DestructorReturns, DestructorPanics
    <2> QED
      BY <1>0, <2>2, <2>3, SetTopFact DEF TypeOK
  <1>2. CASE DestructorPanicsUnderLock(t)
    <2>1. [Top(t) EXCEPT !.pc = "release", !.rc = "PANIC", !.old = {}] \in Frames
      BY <1>0 DEF Frames, Pcs, Codes
    <2> QED
      BY <1>0, <1>2, <2>1, SetTopFact DEF DestructorPanicsUnderLock, TypeOK
  <1> QED
    BY <1>1, <1>2 DEF UserStep

LEMMA NextType == TypeOK /\ [Next]_vars => TypeOK'
  <1> SUFFICES ASSUME TypeOK, [Next]_vars PROVE TypeOK'
    OBVIOUS
  <1>1. CASE UNCHANGED vars
    BY <1>1 DEF vars, store, heap, TypeOK
  <1>2. CASE \E t \in Threads : HostCall(t) \/ LibraryStep(t) \/ UserStep(t)
    BY <1>2, HostCallType, LibraryStepType, UserStepType
  <1> QED
    BY <1>1, <1>2 DEF Next, Quiesced

(***************************************************************************)
(* Type correctness of the registry: every reachable state is well typed,  *)
(* panics of rules and of destructors included.                            *)
(***************************************************************************)
THEOREM RegistryTypeOK == Spec => []TypeOK
  BY InitType, NextType, PTL DEF Spec
-----------------------------------------------------------------------------
(***************************************************************************)
(* Exclusion.  CriticalSection is not inductive: a return makes the frame  *)
(* below the newest, which may hold anything.  What is below the newest    *)
(* frame is always a callback (a call is only made by user code), and      *)
(* without destructors of the host no other user code exists.              *)
(***************************************************************************)
OnlyCallbacks ==
    \A t \in Threads : \A d \in Depths :
        /\ frame[t][d].pc \notin {"destroy_old", "destroy"}
        /\ d < sp[t] => frame[t][d].pc = "callback"

LockInv == TypeOK /\ OnlyCallbacks /\ CriticalSection

LEMMA InitLock == Init => LockInv
  <1> SUFFICES ASSUME Init PROVE OnlyCallbacks /\ CriticalSection
    BY InitType DEF LockInv
  <1>1. \A t \in Threads : \A d \in Depths : frame[t][d].pc = "none" /\ sp[t] = 0
    BY DEF Init, NoFrame, NewFrame
  <1>2. lock \notin Threads
    BY ConstantsAssumption DEF Init
  <1> QED
    BY <1>1, <1>2 DEF OnlyCallbacks, CriticalSection, UnderLock, Depths

(***************************************************************************)
(* A step of a thread that replaces its newest frame keeps the exclusion   *)
(* when the frame enters the critical section with a free lock, leaves it  *)
(* freeing the lock, or does neither and leaves the lock alone.            *)
(***************************************************************************)
LEMMA TopStep ==
    ASSUME LockInv, NEW t \in Threads, sp[t] > 0, sp' = sp, TypeOK',
           NEW f \in Frames, SetTop(t, f), f.pc \notin {"destroy_old", "destroy"},
           \/ lock' = lock /\ (f.pc \in UnderLock <=> Top(t).pc \in UnderLock)
           \/ lock = Free /\ lock' = t /\ f.pc \in UnderLock
           \/ Top(t).pc \in UnderLock /\ lock' = Free /\ f.pc \notin UnderLock
    PROVE  LockInv'
  <1>1. /\ frame'[t][sp[t]] = f
        /\ \A u \in Threads : \A d \in Depths :
              (u # t \/ d # sp[t]) => frame'[u][d] = frame[u][d]
    BY SetTopFact DEF LockInv
  <1>2. \A u \in Threads : sp[u] \in 0..MaxDepth /\ (sp[u] > 0 => sp[u] \in Depths)
    BY ConstantsAssumption DEF LockInv, TypeOK, Depths
  <1>3. OnlyCallbacks'
    BY <1>1, <1>2 DEF LockInv, OnlyCallbacks, Depths
  <1>4. Top(t).pc \in UnderLock <=> lock = t
    BY <1>2 DEF LockInv, CriticalSection, Top
  <1>5. ASSUME NEW u \in Threads, NEW d \in Depths, d <= sp[u],
               frame'[u][d].pc \in UnderLock
        PROVE  lock' = u /\ d = sp[u]
    <2>1. CASE u = t /\ d = sp[t]
      BY <1>1, <1>4, <1>5, <2>1 DEF Top
    <2>2. CASE u # t \/ d # sp[t]
      <3>1. frame[u][d].pc \in UnderLock
        BY <1>1, <1>5, <2>2
      <3>2. lock = u /\ d = sp[u] /\ u # t
        BY <1>5, <2>2, <3>1 DEF LockInv, CriticalSection
      <3> QED
        BY <1>4, <3>2, ConstantsAssumption
    <2> QED
      BY <2>1, <2>2
  <1>6. ASSUME NEW u \in Threads, lock' = u
        PROVE  sp[u] > 0 /\ frame'[u][sp[u]].pc \in UnderLock
    <2>1. CASE u = t
      BY <1>1, <1>4, <1>6, <2>1, ConstantsAssumption
    <2>2. CASE u # t
      <3>1. lock = u
        BY <1>6, <2>2, ConstantsAssumption
      <3> QED
        BY <1>1, <1>2, <2>2, <3>1 DEF LockInv, CriticalSection, Top
    <2> QED
      BY <2>1, <2>2
  <1>7. CriticalSection'
    BY <1>5, <1>6 DEF CriticalSection, Top
  <1> QED
    BY <1>3, <1>7 DEF LockInv

(***************************************************************************)
(* A call can be made only by a thread that does not own the lock.         *)
(***************************************************************************)
LEMMA PushStep ==
    ASSUME LockInv, TypeOK', NEW t \in Threads, NEW f \in Frames, Push(t, f),
           f.pc \in {"wait", "release", "return"}, lock' = lock
    PROVE  LockInv'
  <1>1. /\ sp'[t] = sp[t] + 1
        /\ \A u \in Threads : u # t => sp'[u] = sp[u]
        /\ frame'[t][sp[t] + 1] = f
        /\ \A u \in Threads : \A d \in Depths :
              (u # t \/ d # sp[t] + 1) => frame'[u][d] = frame[u][d]
    BY PushFact DEF LockInv
  <1>2. \A u \in Threads : sp[u] \in 0..MaxDepth /\ (sp[u] > 0 => sp[u] \in Depths)
    BY ConstantsAssumption DEF LockInv, TypeOK, Depths
  <1>3. sp[t] > 0 => frame[t][sp[t]].pc = "callback"
    BY <1>2 DEF LockInv, OnlyCallbacks, Push, InUserCode, UserCode, Top
  <1>4. lock # t
    BY <1>3 DEF LockInv, CriticalSection, Top, UnderLock
  <1>5. OnlyCallbacks'
    BY <1>1, <1>2, <1>3 DEF LockInv, OnlyCallbacks, Depths
  <1>6. ASSUME NEW u \in Threads, NEW d \in Depths, d <= sp'[u],
               frame'[u][d].pc \in UnderLock
        PROVE  lock' = u /\ d = sp'[u]
    <2>1. ~(u = t /\ d = sp[t] + 1)
      BY <1>1, <1>6 DEF UnderLock
    <2>2. frame[u][d].pc \in UnderLock /\ d <= sp[u]
      BY <1>1, <1>2, <1>6, <2>1 DEF Depths
    <2>3. lock = u /\ d = sp[u]
      BY <2>2 DEF LockInv, CriticalSection
    <2> QED
      BY <1>1, <1>4, <2>3
  <1>7. ASSUME NEW u \in Threads, lock' = u
        PROVE  sp'[u] > 0 /\ frame'[u][sp'[u]].pc \in UnderLock
    BY <1>1, <1>2, <1>4, <1>7 DEF LockInv, CriticalSection, Top
  <1> QED
    BY <1>5, <1>6, <1>7 DEF LockInv, CriticalSection, Top

(***************************************************************************)
(* A call that returns uncovers the callback that made it.                 *)
(***************************************************************************)
LEMMA ReturnStep ==
    ASSUME LockInv, TypeOK', NEW t \in Threads, Return(t)
    PROVE  LockInv'
  <1>1. \A u \in Threads : sp[u] \in 0..MaxDepth /\ (sp[u] > 0 => sp[u] \in Depths)
    BY ConstantsAssumption DEF LockInv, TypeOK, Depths
  <1>2. sp[t] > 0 /\ Top(t).pc = "return" /\ lock' = lock
        /\ sp'[t] = sp[t] - 1 /\ \A u \in Threads : u # t => sp'[u] = sp[u]
    BY DEF Return, At, store, LockInv, TypeOK
  <1>3. NoFrame \in Frames /\ NoFrame.pc = "none"
    BY DEF NoFrame, NewFrame, Frames, AllNames, MaybeRule, Pcs, Ops, Codes
  <1>4. /\ frame'[t][sp[t]] = NoFrame
        /\ \A u \in Threads : \A d \in Depths :
              (u # t \/ d # sp[t]) => frame'[u][d] = frame[u][d]
    BY <1>2, <1>3, SetTopFact DEF Return, LockInv
  <1>5. lock # t
    BY <1>2 DEF LockInv, CriticalSection, UnderLock
  <1>6. OnlyCallbacks'
    BY <1>1, <1>2, <1>3, <1>4 DEF LockInv, OnlyCallbacks, Depths
  <1>7. ASSUME NEW u \in Threads, NEW d \in Depths, d <= sp'[u],
               frame'[u][d].pc \in UnderLock
        PROVE  lock' = u /\ d = sp'[u]
    <2>1. frame'[u][d] = frame[u][d] /\ d <= sp[u]
      BY <1>1, <1>2, <1>4, <1>7 DEF Depths
    <2>2. lock = u /\ d = sp[u]
      BY <1>7, <2>1 DEF LockInv, CriticalSection
    <2> QED
      BY <1>2, <1>5, <2>2
  <1>8. ASSUME NEW u \in Threads, lock' = u
        PROVE  sp'[u] > 0 /\ frame'[u][sp'[u]].pc \in UnderLock
    BY <1>1, <1>2, <1>4, <1>5, <1>8 DEF LockInv, CriticalSection, Top
  <1> QED
    BY <1>6, <1>7, <1>8 DEF LockInv, CriticalSection, Top
(***************************************************************************)
(* A call of the host keeps the exclusion: it is made without the lock.    *)
(***************************************************************************)
LEMMA HostCallLock ==
    ASSUME LockInv, TypeOK', NEW t \in Threads, HostCall(t)
    PROVE  LockInv'
  <1>1. \A op \in Ops, n \in AllNames, arc \in MaybeRule, pc \in Pcs, rc \in Codes :
            /\ NewFrame(op, n, arc, pc, rc) \in Frames
            /\ [NewFrame(op, n, arc, pc, rc) EXCEPT !.reported = TRUE] \in Frames
    BY ZenonT(60) DEF NewFrame, Frames, MaybeRule
  <1>2. PICK op \in Ops, n \in AllNames, arc \in MaybeRule,
             pc \in {"wait", "release", "return"}, rc \in Codes :
            \/ Push(t, NewFrame(op, n, arc, pc, rc))
            \/ Push(t, [NewFrame(op, n, arc, pc, rc) EXCEPT !.reported = TRUE])
    <2> USE DEF Ops, AllNames, MaybeRule, Codes
    <2>1. CASE CallRegisterC(t)
      BY <2>1 DEF CallRegisterC
    <2>2. CASE CallRegister(t)
      <3>1. PICK r \in Rules :
              \/ \E n \in Names : Push(t, NewFrame("register", n, r, "wait", "none"))
              \/ Push(t, [NewFrame("rejected", EmptyName, r, "release", "E_PARAM")
                            EXCEPT !.reported = TRUE])
        BY <2>2, ConstantsAssumption DEF CallRegister
      <3> QED
        BY <3>1
    <2>3. CASE CallExists(t)
      BY <2>3 DEF CallExists
    <2>4. CASE CallRun(t)
      BY <2>4 DEF CallRun
    <2>5. CASE CallClear(t)
      BY <2>5 DEF CallClear
    <2>6. CASE CallBadArgument(t)
      <3>1. CASE Push(t, [NewFrame("rejected", EmptyName, NoRule, "return", "E_PARAM")
                            EXCEPT !.reported = TRUE])
        BY <3>1
      <3>2. CASE Push(t, NewFrame("rejected", EmptyName, NoRule, "return", "NO"))
        BY <3>2
      <3> QED
        BY <2>6, <3>1, <3>2 DEF CallBadArgument
    <2> QED
      BY <2>1, <2>2, <2>3, <2>4, <2>5, <2>6 DEF HostCall
  <1>3. pc \in Pcs
    BY DEF Pcs
  <1>4. lock' = lock
    BY DEF HostCall, CallRegisterC, CallRegister, CallExists, CallRun, CallClear,
           CallBadArgument, store
  <1>5. PICK f \in Frames : Push(t, f) /\ f.pc = pc
    <2>1. CASE Push(t, NewFrame(op, n, arc, pc, rc))
      <3>1. NewFrame(op, n, arc, pc, rc) \in Frames
        BY <1>1, <1>3
      <3>2. NewFrame(op, n, arc, pc, rc).pc = pc
        BY DEF NewFrame
      <3> QED
        BY <2>1, <3>1, <3>2
    <2>2. CASE Push(t, [NewFrame(op, n, arc, pc, rc) EXCEPT !.reported = TRUE])
      <3> DEFINE f == [NewFrame(op, n, arc, pc, rc) EXCEPT !.reported = TRUE]
      <3>1. f \in Frames
        BY <1>1, <1>3
      <3>2. f.pc = pc
        BY DEF NewFrame
      <3> QED
        BY <2>2, <3>1, <3>2
    <2> QED
      BY <1>2, <2>1, <2>2
  <1> QED
    BY <1>4, <1>5, PushStep

(***************************************************************************)
(* Every step inside the library keeps it.                                 *)
(***************************************************************************)
LEMMA LibraryStepLock ==
    ASSUME UserDrop = {}, LockInv, TypeOK', NEW t \in Threads, LibraryStep(t)
    PROVE  LockInv'
  <1> USE DEF At, store
  <1>0. sp[t] > 0 /\ Top(t) \in Frames
    BY TopFact DEF LockInv, LibraryStep, Acquire, RefusePoisoned, Insert, ContainsKey,
       CloneRule, RuleNotFound, ClearAll, DropOld, Unlock, Release, CatchPanic, Return
  <1>1. sp[t] \in Depths
    BY <1>0, TopFact DEF LockInv
  <1>2. ASSUME NEW f, SetTop(t, f) PROVE f \in Frames
    BY <1>1, <1>2 DEF SetTop, TypeOK, LockInv
  <1>3. CASE Acquire(t)
    BY <1>0, <1>2, <1>3, TopStep DEF Acquire, UnderLock, Frames
  <1>4. CASE RefusePoisoned(t)
    BY <1>0, <1>2, <1>4, TopStep DEF RefusePoisoned, UnderLock, Frames
  <1>5. CASE Insert(t)
    BY <1>0, <1>2, <1>5, TopStep DEF Insert, UnderLock, Frames
  <1>6. CASE ContainsKey(t)
    BY <1>0, <1>2, <1>6, TopStep DEF ContainsKey, UnderLock, Frames
  <1>7. CASE CloneRule(t)
    BY <1>0, <1>2, <1>7, TopStep DEF CloneRule, UnderLock, Frames
  <1>8. CASE RuleNotFound(t)
    BY <1>0, <1>2, <1>8, TopStep DEF RuleNotFound, UnderLock, Frames
  <1>9. CASE ClearAll(t)
    BY <1>0, <1>2, <1>9, TopStep DEF ClearAll, UnderLock, Frames
  <1>10. CASE DropOld(t)
    <2>1. PICK r \in Top(t).old :
            SetTop(t, [Top(t) EXCEPT !.old = @ \ {r},
                           !.pc = IF RunsDestructor(r) THEN "destroy_old" ELSE @])
      BY <1>10 DEF DropOld
    <2>2. ~RunsDestructor(r)
      BY DEF RunsDestructor
    <2> QED
      BY <1>0, <1>2, <1>10, <2>1, <2>2, TopStep DEF DropOld, UnderLock, Frames
  <1>11. CASE Unlock(t)
    BY <1>0, <1>2, <1>11, TopStep DEF Unlock, UnderLock, Frames
  <1>12. CASE Release(t)
    <2>1. \A r : ~RunsDestructor(r)
      BY DEF RunsDestructor
    <2> QED
      BY <1>0, <1>2, <1>12, <2>1, TopStep DEF Release, UnderLock, Frames
  <1>13. CASE CatchPanic(t)
    BY <1>0, <1>2, <1>13, TopStep DEF CatchPanic, UnderLock, Frames
  <1>14. CASE Return(t)
    BY <1>14, ReturnStep
  <1> QED
    BY <1>3, <1>4, <1>5, <1>6, <1>7, <1>8, <1>9, <1>10, <1>11, <1>12, <1>13, <1>14
       DEF LibraryStep

(***************************************************************************)
(* And so does the end of a callback, the only user code there is.         *)
(***************************************************************************)
LEMMA UserStepLock ==
    ASSUME LockInv, TypeOK', NEW t \in Threads, UserStep(t)
    PROVE  LockInv'
  <1> USE DEF At, store
  <1>0. sp[t] > 0 /\ Top(t) \in Frames /\ sp[t] \in Depths
    BY TopFact DEF LockInv, UserStep, CallbackReturns, CallbackPanics, DestructorReturns,
       DestructorPanicsUnderLock, DestructorPanics
  <1>1. Top(t).pc \notin {"destroy_old", "destroy"}
    BY <1>0 DEF LockInv, OnlyCallbacks, Top
  <1>2. ASSUME NEW f, SetTop(t, f) PROVE f \in Frames
    BY <1>0, <1>2 DEF SetTop, TypeOK, LockInv
  <1>3. CASE CallbackReturns(t)
    <2>1. PICK rc \in {"OK", "RULE_ERR"} :
            SetTop(t, [Top(t) EXCEPT !.pc = "release", !.rc = rc])
      BY <1>3 DEF CallbackReturns
    <2> QED
      BY <1>0, <1>2, <1>3, <2>1, TopStep DEF CallbackReturns, UnderLock, Frames
  <1>4. CASE CallbackPanics(t)
    BY <1>0, <1>2, <1>4, TopStep DEF CallbackPanics, UnderLock, Frames
  <1> QED
    BY <1>1, <1>3, <1>4
       DEF UserStep, DestructorReturns, DestructorPanicsUnderLock, DestructorPanics

LEMMA NextLock == UserDrop = {} /\ LockInv /\ [Next]_vars => LockInv'
  <1> SUFFICES ASSUME UserDrop = {}, LockInv, [Next]_vars PROVE LockInv'
    OBVIOUS
  <1>1. TypeOK'
    BY NextType DEF LockInv
  <1>2. CASE UNCHANGED vars
    BY <1>2 DEF vars, store, heap, LockInv, TypeOK, OnlyCallbacks, CriticalSection, Top
  <1>3. CASE \E t \in Threads : HostCall(t) \/ LibraryStep(t) \/ UserStep(t)
    BY <1>1, <1>3, HostCallLock, LibraryStepLock, UserStepLock
  <1> QED
    BY <1>2, <1>3 DEF Next, Quiesced

(***************************************************************************)
(* The Mutex is owned by a thread exactly when its newest call is inside   *)
(* the critical section of rule.rs, for any number of threads, names,      *)
(* rules and nested calls, when no rule has a destructor of the host's.    *)
(***************************************************************************)
THEOREM RegistryExclusion ==
    ASSUME UserDrop = {}
    PROVE  Spec => []CriticalSection
  <1>1. LockInv => CriticalSection
    BY DEF LockInv
  <1>2. LockInv /\ [Next]_vars => LockInv'
    BY NextLock
  <1> QED
    BY <1>1, <1>2, InitLock, PTL DEF Spec

(***************************************************************************)
(* The lock is never held while code of the host runs on the thread that   *)
(* owns it: the reason a callback may re-enter the registry and a long one *)
(* blocks nobody.                                                          *)
(***************************************************************************)
THEOREM RegistryReleasedForCallbacks ==
    ASSUME UserDrop = {}
    PROVE  Spec => []NoUserCodeUnderLock
  <1>1. LockInv => NoUserCodeUnderLock
    <2> SUFFICES ASSUME LockInv, NEW t \in Threads, lock = t PROVE ~InUserCode(t)
      BY DEF NoUserCodeUnderLock
    <2>1. sp[t] > 0 /\ Top(t).pc \in UnderLock
      BY DEF LockInv, CriticalSection
    <2>2. Top(t).pc # "destroy_old"
      BY <2>1, TopFact DEF LockInv, OnlyCallbacks, Top
    <2> QED
      BY <2>1, <2>2 DEF InUserCode, UserCode, UnderLock
  <1>2. LockInv /\ [Next]_vars => LockInv'
    BY NextLock
  <1> QED
    BY <1>1, <1>2, InitLock, PTL DEF Spec
=============================================================================
