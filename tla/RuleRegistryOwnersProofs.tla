---------------------- MODULE RuleRegistryOwnersProofs ----------------------
(***************************************************************************)
(* Theorems about who owns what in the rule registry: the Mutex, the map's *)
(* closures and the Arc counts, with destructors that run code of the host *)
(* and may panic.                                                          *)
(***************************************************************************)
EXTENDS RuleRegistryProofs, FiniteSetTheorems

(***************************************************************************)
(* What a frame holds depends on how far its call has come: a closure to   *)
(* insert before the critical section is over, a clone to call after it,   *)
(* the closures it took out of the map until they are dropped.             *)
(***************************************************************************)
Registers(f) == f.op \in {"register_c", "register"}

Shape(f) ==
    /\ f.arc # NoRule => f.pc \in {"wait", "locked", "unlock", "callback", "release"}
    /\ f.old # {} => f.pc \in {"drop_old", "destroy_old"}
    /\ f.hit # NoRule => f.op = "run"
    /\ f.pc \in {"wait", "locked"} => f.hit = NoRule /\ (f.arc # NoRule <=> Registers(f))
    /\ f.pc \in {"drop_old", "destroy_old"} => f.op # "run"
    /\ f.pc \in {"unlock", "callback"} /\ f.hit # NoRule => f.arc = f.hit
    /\ f.pc = "callback" => f.hit # NoRule
    /\ f.op = "rejected" => f.pc \in {"release", "destroy", "return"}

\* Calls come from user code, and above the newest call there is nothing.
StackInv ==
    \A t \in Threads : \A d \in Depths :
        /\ Shape(frame[t][d])
        /\ d < sp[t] => frame[t][d].pc \in UserCode
        /\ d > sp[t] => frame[t][d] = NoFrame
        /\ d <= sp[t] => frame[t][d].pc # "none"

(***************************************************************************)
(* The owner of the Mutex has one call in the critical section, not        *)
(* necessarily its newest: a destructor may have made others.              *)
(***************************************************************************)
HolderInv ==
    /\ \A t \in Threads : \A d \in Depths : frame[t][d].pc \in UnderLock => lock = t
    /\ \A t \in Threads : \A d, e \in Depths :
          frame[t][d].pc \in UnderLock /\ frame[t][e].pc \in UnderLock => d = e
    /\ \A t \in Threads : lock = t => \E d \in Depths : frame[t][d].pc \in UnderLock

\* With the Mutex poisoned no call takes a closure out of the map or clones one.
PoisonInv ==
    \A t \in Threads : \A d \in Depths :
        \/ frame[t][d].pc \in {"drop_old", "destroy_old"}
        \/ frame[t][d].pc = "unlock" /\ frame[t][d].hit # NoRule
        => ~poisoned

(***************************************************************************)
(* A closure is boxed for one registration: until that takes effect it is  *)
(* in no other call that registers and not in the map, where it will be    *)
(* under one name.                                                         *)
(***************************************************************************)
Pending(f) == f.pc \in {"wait", "locked"} /\ Registers(f)

BoxedOnce ==
    /\ \A n, m \in AllNames : registry[n] = registry[m] /\ registry[n] # NoRule => n = m
    /\ \A a \in Activations : Pending(frame[a[1]][a[2]]) =>
          /\ \A n \in AllNames : registry[n] # frame[a[1]][a[2]].arc
          /\ \A b \in Activations : Pending(frame[b[1]][b[2]])
                /\ frame[a[1]][a[2]].arc = frame[b[1]][b[2]].arc => a = b

(***************************************************************************)
(* A closure that was taken out of the map never comes back: it is not in  *)
(* the map and in no registration, and once leaked no call will drop it.   *)
(***************************************************************************)
Removed(r) ==
    \/ status[r] = "leaked"
    \/ \E a \in Activations : r \in frame[a[1]][a[2]].old

RemovedInv ==
    \A r \in Rules :
        /\ Removed(r) =>
              /\ \A n \in AllNames : registry[n] # r
              /\ \A a \in Activations :
                    Pending(frame[a[1]][a[2]]) => frame[a[1]][a[2]].arc # r
        /\ status[r] = "leaked" => \A a \in Activations : r \notin frame[a[1]][a[2]].old

CountInv ==
    /\ RefsCountOwners
    /\ \A r \in Rules : status[r] \in {"live", "leaked"} => refs[r] >= 1
    /\ \A r \in Rules : status[r] \in {"unused", "dropped"} => refs[r] = 0

OwnersInv ==
    /\ TypeOK /\ StackInv /\ HolderInv /\ PoisonInv /\ BoxedOnce /\ RemovedInv /\ CountInv

-----------------------------------------------------------------------------
(***************************************************************************)
(* The steps of a thread, by what they do to its newest frame.             *)
(***************************************************************************)
Moves(t, f) ==
    /\ sp[t] > 0 /\ sp[t] \in Depths /\ sp' = sp
    /\ f \in Frames /\ frame'[t][sp[t]] = f
    /\ \A u \in Threads : \A d \in Depths :
          (u # t \/ d # sp[t]) => frame'[u][d] = frame[u][d]

Keeps(f, g) ==
    /\ f.op = g.op /\ f.name = g.name /\ f.arc = g.arc /\ f.hit = g.hit /\ f.old = g.old

LEMMA MovesFact ==
    ASSUME TypeOK, NEW t \in Threads, sp[t] > 0, sp' = sp, NEW f, f \in Frames, SetTop(t, f)
    PROVE  Moves(t, f)
  BY SetTopFact, TopFact DEF Moves

\* A step that changes no owner: neither the map, nor the counts, nor what the
\* call holds.  In the critical section it goes on, enters or leaves.
PcStep(t, g, f) ==
    \/ g.pc = "wait" /\ f.pc = "locked" /\ lock = Free /\ lock' = t
    \/ g.pc = "locked" /\ f.pc = "unlock" /\ lock' = lock
    \/ /\ g.pc = "unlock" \/ (g.pc = "drop_old" /\ g.old = {})
       /\ f.pc = (IF g.hit # NoRule THEN "callback" ELSE "release") /\ lock' = Free
    \/ g.pc = "callback" /\ f.pc = "release" /\ lock' = lock
    \/ g.pc = "destroy_old" /\ f.pc = "drop_old" /\ lock' = lock
    \/ g.pc = "release" /\ g.arc = NoRule /\ f.pc = "return" /\ lock' = lock
    \/ g.pc \in {"destroy", "return"} /\ f.pc = "return" /\ lock' = lock

KeepingStep(t) ==
    \/ Acquire(t) \/ RefusePoisoned(t) \/ ContainsKey(t) \/ RuleNotFound(t) \/ Unlock(t)
    \/ CallbackReturns(t) \/ CallbackPanics(t) \/ DestructorReturns(t) \/ DestructorPanics(t)
    \/ CatchPanic(t) \/ (Release(t) /\ Top(t).arc = NoRule)

LEMMA KeepingForm ==
    ASSUME TypeOK, NEW t \in Threads, KeepingStep(t)
    PROVE  /\ UNCHANGED <<registry, poisoned, refs, status>>
           /\ \E f \in Frames : Moves(t, f) /\ Keeps(f, Top(t)) /\ PcStep(t, Top(t), f)
  <1> USE DEF At, store, heap
  <1>0. sp[t] > 0 /\ sp' = sp /\ Top(t) \in Frames
        /\ UNCHANGED <<registry, poisoned, refs, status>>
    BY TopFact DEF KeepingStep, Acquire, RefusePoisoned, ContainsKey, RuleNotFound, Unlock,
       CallbackReturns, CallbackPanics, DestructorReturns, DestructorPanics, CatchPanic, Release
  <1>1. ASSUME NEW pc \in Pcs, NEW rc \in Codes
        PROVE  \A f \in {[Top(t) EXCEPT !.pc = pc], [Top(t) EXCEPT !.pc = pc, !.rc = rc],
                         [Top(t) EXCEPT !.pc = pc, !.rc = rc, !.reported = TRUE]} :
                  f \in Frames /\ Keeps(f, Top(t)) /\ f.pc = pc
    BY <1>0 DEF Frames, Keeps
  <1>2. ASSUME NEW f, f \in Frames, Keeps(f, Top(t)), SetTop(t, f), PcStep(t, Top(t), f)
        PROVE  \E g \in Frames : Moves(t, g) /\ Keeps(g, Top(t)) /\ PcStep(t, Top(t), g)
    BY <1>0, <1>2, MovesFact
  <1> USE DEF Pcs, UnderLock, UserCode, Codes
  <1>3. CASE Acquire(t)
    <2> DEFINE f == [Top(t) EXCEPT !.pc = "locked"]
    <2>1. f \in Frames /\ Keeps(f, Top(t)) /\ f.pc = "locked"
      BY <1>1
    <2> QED
      BY <1>2, <1>3, <2>1 DEF Acquire, PcStep
  <1>4. CASE RefusePoisoned(t)
    <2>1. PICK rc \in Codes :
             \/ SetTop(t, [Top(t) EXCEPT !.pc = "unlock", !.rc = rc, !.reported = TRUE])
             \/ SetTop(t, [Top(t) EXCEPT !.pc = "unlock", !.rc = rc])
      BY <1>4 DEF RefusePoisoned
    <2>2. PICK f : f \in Frames /\ Keeps(f, Top(t)) /\ f.pc = "unlock" /\ SetTop(t, f)
      BY <1>1, <2>1, ZenonT(60)
    <2> QED
      BY <1>2, <1>4, <2>2 DEF RefusePoisoned, PcStep
  <1>5. CASE ContainsKey(t)
    <2>1. PICK rc \in Codes : SetTop(t, [Top(t) EXCEPT !.pc = "unlock", !.rc = rc])
      BY <1>5 DEF ContainsKey
    <2>2. PICK f : f \in Frames /\ Keeps(f, Top(t)) /\ f.pc = "unlock" /\ SetTop(t, f)
      BY <1>1, <2>1
    <2> QED
      BY <1>2, <1>5, <2>2 DEF ContainsKey, PcStep
  <1>6. CASE RuleNotFound(t)
    <2>1. PICK f : f \in Frames /\ Keeps(f, Top(t)) /\ f.pc = "unlock" /\ SetTop(t, f)
      BY <1>1, <1>6 DEF RuleNotFound
    <2> QED
      BY <1>2, <1>6, <2>1 DEF RuleNotFound, PcStep
  <1>7. CASE Unlock(t)
    <2> DEFINE next == IF Top(t).hit # NoRule THEN "callback" ELSE "release"
               f == [Top(t) EXCEPT !.pc = next]
    <2>1. f \in Frames /\ Keeps(f, Top(t)) /\ f.pc = next
      <3>1. next \in Pcs
        OBVIOUS
      <3> QED
        BY <1>1, <3>1
    <2>2. SetTop(t, f)
      BY <1>7 DEF Unlock
    <2> QED
      BY <1>2, <1>7, <2>1, <2>2 DEF Unlock, PcStep
  <1>8. CASE CallbackReturns(t) \/ CallbackPanics(t)
    <2>1. PICK rc \in Codes : SetTop(t, [Top(t) EXCEPT !.pc = "release", !.rc = rc])
      BY <1>8 DEF CallbackReturns, CallbackPanics
    <2>2. PICK f : f \in Frames /\ Keeps(f, Top(t)) /\ f.pc = "release" /\ SetTop(t, f)
      BY <1>1, <2>1
    <2> QED
      BY <1>2, <1>8, <2>2 DEF CallbackReturns, CallbackPanics, PcStep
  <1>9. CASE DestructorReturns(t)
    <2>1. CASE Top(t).pc = "destroy_old" /\ SetTop(t, [Top(t) EXCEPT !.pc = "drop_old"])
      <3>1. PICK f : f \in Frames /\ Keeps(f, Top(t)) /\ f.pc = "drop_old" /\ SetTop(t, f)
        BY <1>1, <2>1
      <3> QED
        BY <1>2, <1>9, <2>1, <3>1 DEF DestructorReturns, PcStep
    <2>2. CASE Top(t).pc = "destroy" /\ SetTop(t, [Top(t) EXCEPT !.pc = "return"])
      <3>1. PICK f : f \in Frames /\ Keeps(f, Top(t)) /\ f.pc = "return" /\ SetTop(t, f)
        BY <1>1, <2>2
      <3> QED
        BY <1>2, <1>9, <2>2, <3>1 DEF DestructorReturns, PcStep
    <2> QED
      BY <1>9, <2>1, <2>2 DEF DestructorReturns
  <1>10. CASE DestructorPanics(t)
    <2>1. PICK f : f \in Frames /\ Keeps(f, Top(t)) /\ f.pc = "return" /\ SetTop(t, f)
      BY <1>1, <1>10 DEF DestructorPanics
    <2> QED
      BY <1>2, <1>10, <2>1 DEF DestructorPanics, PcStep
  <1>11. CASE CatchPanic(t)
    <2> DEFINE f == [Top(t) EXCEPT !.rc = "E_RT", !.reported = TRUE]
    <2>1. f \in Frames /\ Keeps(f, Top(t)) /\ f.pc = Top(t).pc
      BY <1>0 DEF Frames, Keeps
    <2> QED
      BY <1>2, <1>11, <2>1 DEF CatchPanic, PcStep
  <1>12. CASE Release(t) /\ Top(t).arc = NoRule
    <2>1. SetTop(t, [Top(t) EXCEPT !.pc = "return"]) /\ Top(t).pc = "release"
      BY <1>12 DEF Release
    <2>2. PICK f : f \in Frames /\ Keeps(f, Top(t)) /\ f.pc = "return" /\ SetTop(t, f)
      BY <1>1, <2>1
    <2> QED
      BY <1>2, <1>12, <2>1, <2>2 DEF Release, PcStep
  <1> QED
    BY <1>3, <1>4, <1>5, <1>6, <1>7, <1>8, <1>9, <1>10, <1>11, <1>12 DEF KeepingStep


(***************************************************************************)
(* The steps that change an owner.                                         *)
(***************************************************************************)
LEMMA InsertForm ==
    ASSUME TypeOK, NEW t \in Threads, Insert(t)
    PROVE  /\ UNCHANGED <<lock, poisoned, refs, status>> /\ ~poisoned
           /\ Top(t).pc = "locked" /\ Registers(Top(t)) /\ Top(t).name \in AllNames
           /\ registry' = [registry EXCEPT ![Top(t).name] = Top(t).arc]
           /\ \E f \in Frames :
                 /\ Moves(t, f) /\ f.pc = "drop_old" /\ f.op = Top(t).op /\ f.arc = NoRule
                 /\ f.hit = Top(t).hit /\ f.old = {registry[Top(t).name]} \ {NoRule}
  <1> DEFINE f == [Top(t) EXCEPT !.pc = "drop_old", !.rc = "OK", !.arc = NoRule,
                                 !.old = {registry[Top(t).name]} \ {NoRule}]
  <1>1. sp[t] > 0 /\ sp' = sp /\ Top(t) \in Frames /\ SetTop(t, f)
    BY TopFact DEF Insert, At
  <1>2. Top(t).name \in AllNames
    BY <1>1 DEF Frames
  <1>3. {registry[Top(t).name]} \ {NoRule} \in SUBSET Rules
    BY <1>2 DEF TypeOK, MaybeRule
  <1>4. f \in Frames /\ f.pc = "drop_old" /\ f.op = Top(t).op /\ f.arc = NoRule
        /\ f.hit = Top(t).hit /\ f.old = {registry[Top(t).name]} \ {NoRule}
    BY <1>1, <1>3 DEF Frames, Pcs, UnderLock, Codes, MaybeRule
  <1> HIDE DEF f
  <1>5. Moves(t, f)
    BY <1>1, <1>4, MovesFact
  <1> QED
    BY <1>2, <1>4, <1>5 DEF Insert, At, heap, Registers

LEMMA CloneForm ==
    ASSUME TypeOK, NEW t \in Threads, CloneRule(t)
    PROVE  /\ UNCHANGED <<registry, lock, poisoned, status>> /\ ~poisoned
           /\ Top(t).pc = "locked" /\ Top(t).op = "run" /\ Top(t).name \in AllNames
           /\ registry[Top(t).name] \in Rules
           /\ refs' = [refs EXCEPT ![registry[Top(t).name]] = @ + 1]
           /\ \E f \in Frames :
                 /\ Moves(t, f) /\ f.pc = "unlock" /\ f.op = Top(t).op
                 /\ f.arc = registry[Top(t).name] /\ f.hit = registry[Top(t).name]
                 /\ f.old = Top(t).old
  <1> DEFINE r == registry[Top(t).name]
             f == [Top(t) EXCEPT !.pc = "unlock", !.arc = r, !.hit = r]
  <1>1. sp[t] > 0 /\ sp' = sp /\ Top(t) \in Frames /\ SetTop(t, f)
    BY TopFact DEF CloneRule, At
  <1>2. Top(t).name \in AllNames
    BY <1>1 DEF Frames
  <1>3. r \in Rules
    BY <1>2 DEF CloneRule, TypeOK, MaybeRule
  <1>4. f \in Frames /\ f.pc = "unlock" /\ f.op = Top(t).op /\ f.arc = r /\ f.hit = r
        /\ f.old = Top(t).old
    BY <1>1, <1>3 DEF Frames, Pcs, UnderLock, MaybeRule
  <1> HIDE DEF f
  <1>5. Moves(t, f)
    BY <1>1, <1>4, MovesFact
  <1> QED
    BY <1>2, <1>3, <1>4, <1>5 DEF CloneRule, At, store

LEMMA ClearForm ==
    ASSUME TypeOK, NEW t \in Threads, ClearAll(t)
    PROVE  /\ UNCHANGED <<lock, poisoned, refs, status>> /\ ~poisoned
           /\ Top(t).pc = "locked" /\ Top(t).op = "clear"
           /\ registry' = [n \in AllNames |-> NoRule]
           /\ \E f \in Frames :
                 /\ Moves(t, f) /\ f.pc = "drop_old" /\ f.op = Top(t).op
                 /\ f.arc = Top(t).arc /\ f.hit = Top(t).hit
                 /\ f.old = {registry[n] : n \in AllNames} \ {NoRule}
  <1> DEFINE o == {registry[n] : n \in AllNames} \ {NoRule}
             f == [Top(t) EXCEPT !.pc = "drop_old", !.rc = "OK", !.old = o]
  <1>1. sp[t] > 0 /\ sp' = sp /\ Top(t) \in Frames /\ SetTop(t, f)
    BY TopFact DEF ClearAll, At
  <1>2. o \in SUBSET Rules
    BY DEF TypeOK, MaybeRule
  <1> HIDE DEF o
  <1>3. f \in Frames /\ f.pc = "drop_old" /\ f.op = Top(t).op /\ f.arc = Top(t).arc
        /\ f.hit = Top(t).hit /\ f.old = o
    BY <1>1, <1>2 DEF Frames, Pcs, UnderLock, Codes
  <1> HIDE DEF f
  <1>4. Moves(t, f)
    BY <1>1, <1>3, MovesFact
  <1> QED
    BY <1>3, <1>4 DEF ClearAll, At, heap, o

LEMMA DropOldForm ==
    ASSUME TypeOK, NEW t \in Threads, DropOld(t)
    PROVE  /\ UNCHANGED <<registry, lock, poisoned>>
           /\ Top(t).pc = "drop_old"
           /\ \E f \in Frames, r \in Rules \cap Top(t).old :
                 /\ DropOwner(r)
                 /\ Moves(t, f) /\ f.pc \in {"drop_old", "destroy_old"}
                 /\ f.op = Top(t).op /\ f.arc = Top(t).arc /\ f.hit = Top(t).hit
                 /\ f.old = Top(t).old \ {r}
  <1>1. sp[t] > 0 /\ sp' = sp /\ Top(t) \in Frames
    BY TopFact DEF DropOld, At
  <1>2. PICK r \in Top(t).old :
           /\ DropOwner(r)
           /\ SetTop(t, [Top(t) EXCEPT !.old = @ \ {r},
                             !.pc = IF RunsDestructor(r) THEN "destroy_old" ELSE @])
    BY DEF DropOld
  <1> DEFINE pc == IF RunsDestructor(r) THEN "destroy_old" ELSE Top(t).pc
             f == [Top(t) EXCEPT !.old = Top(t).old \ {r}, !.pc = pc]
  <1>3. r \in Rules /\ Top(t).pc = "drop_old" /\ pc \in {"drop_old", "destroy_old"}
    BY <1>1 DEF Frames, DropOld, At
  <1>4. SetTop(t, f)
    BY <1>2
  <1> HIDE DEF pc
  <1>5. f \in Frames /\ f.pc = pc /\ f.op = Top(t).op /\ f.arc = Top(t).arc
        /\ f.hit = Top(t).hit /\ f.old = Top(t).old \ {r}
    BY <1>1, <1>3 DEF Frames, Pcs, UnderLock
  <1> HIDE DEF f
  <1>6. Moves(t, f)
    BY <1>1, <1>4, <1>5, MovesFact
  <1> QED
    BY <1>2, <1>3, <1>5, <1>6 DEF DropOld, store

LEMMA ReleaseForm ==
    ASSUME TypeOK, NEW t \in Threads, Release(t), Top(t).arc # NoRule
    PROVE  /\ UNCHANGED <<registry, lock, poisoned>>
           /\ Top(t).pc = "release" /\ Top(t).arc \in Rules /\ DropOwner(Top(t).arc)
           /\ \E f \in Frames :
                 /\ Moves(t, f) /\ f.pc \in {"destroy", "return"}
                 /\ f.op = Top(t).op /\ f.arc = NoRule /\ f.hit = Top(t).hit
                 /\ f.old = Top(t).old
  <1> DEFINE r == Top(t).arc
             pc == IF RunsDestructor(r) THEN "destroy" ELSE "return"
             f == [Top(t) EXCEPT !.arc = NoRule, !.pc = pc]
  <1>1. sp[t] > 0 /\ sp' = sp /\ Top(t) \in Frames
    BY TopFact DEF Release, At
  <1>2. SetTop(t, f) /\ DropOwner(r)
    BY DEF Release
  <1>3. r \in Rules
    BY <1>1 DEF Frames, MaybeRule
  <1>4. pc \in {"destroy", "return"}
    OBVIOUS
  <1> HIDE DEF pc
  <1>5. f \in Frames /\ f.pc = pc /\ f.op = Top(t).op /\ f.arc = NoRule
        /\ f.hit = Top(t).hit /\ f.old = Top(t).old
    BY <1>1, <1>4 DEF Frames, Pcs, UserCode, MaybeRule
  <1> HIDE DEF f
  <1>6. Moves(t, f)
    BY <1>1, <1>2, <1>5, MovesFact
  <1> QED
    BY <1>2, <1>3, <1>4, <1>5, <1>6 DEF Release, At, store

LEMMA PanicForm ==
    ASSUME TypeOK, NEW t \in Threads, DestructorPanicsUnderLock(t)
    PROVE  /\ UNCHANGED <<registry, refs>> /\ lock' = Free
           /\ Top(t).pc = "destroy_old"
           /\ status' = [r \in Rules |-> IF r \in Top(t).old THEN "leaked" ELSE status[r]]
           /\ \E f \in Frames :
                 /\ Moves(t, f) /\ f.pc = "release" /\ f.op = Top(t).op
                 /\ f.arc = Top(t).arc /\ f.hit = Top(t).hit /\ f.old = {}
  <1> DEFINE f == [Top(t) EXCEPT !.pc = "release", !.rc = "PANIC", !.old = {}]
  <1>1. sp[t] > 0 /\ sp' = sp /\ Top(t) \in Frames /\ SetTop(t, f)
    BY TopFact DEF DestructorPanicsUnderLock, At
  <1>2. f \in Frames /\ f.pc = "release" /\ f.op = Top(t).op /\ f.arc = Top(t).arc
        /\ f.hit = Top(t).hit /\ f.old = {}
    BY <1>1 DEF Frames, Pcs, Codes
  <1> HIDE DEF f
  <1>3. Moves(t, f)
    BY <1>1, <1>2, MovesFact
  <1> QED
    BY <1>2, <1>3 DEF DestructorPanicsUnderLock, At


(***************************************************************************)
(* A call that begins, with a closure of its own or with none, and one     *)
(* that comes back.                                                        *)
(***************************************************************************)
Begins(t, f) ==
    /\ sp[t] + 1 \in Depths /\ sp'[t] = sp[t] + 1
    /\ \A u \in Threads : u # t => sp'[u] = sp[u]
    /\ f \in Frames /\ frame'[t][sp[t] + 1] = f
    /\ \A u \in Threads : \A d \in Depths :
          (u # t \/ d # sp[t] + 1) => frame'[u][d] = frame[u][d]

BeginsOwning(f) ==
    \/ f.arc = NoRule /\ UNCHANGED <<refs, status>>
    \/ f.arc \in Rules /\ BoxClosure(f.arc)

IsNew(f, op, n, arc, pc, rc) ==
    /\ f \in Frames /\ f.op = op /\ f.name = n /\ f.arc = arc /\ f.pc = pc
    /\ f.hit = NoRule /\ f.old = {} /\ f.rc = rc

LEMMA NewFrameFact ==
    ASSUME NEW op \in Ops, NEW n \in AllNames, NEW arc \in MaybeRule, NEW pc \in Pcs,
           NEW rc \in Codes
    PROVE  /\ IsNew(NewFrame(op, n, arc, pc, rc), op, n, arc, pc, rc)
           /\ IsNew([NewFrame(op, n, arc, pc, rc) EXCEPT !.reported = TRUE],
                    op, n, arc, pc, rc)
  <1>1. NoRule \in MaybeRule /\ {} \in SUBSET Rules
    BY DEF MaybeRule
  <1> QED
    BY <1>1 DEF NewFrame, IsNew, Frames

LEMMA BeginsFact ==
    ASSUME TypeOK, NEW t \in Threads, NEW f \in Frames, Push(t, f)
    PROVE  Begins(t, f) /\ InUserCode(t)
  <1>1. sp[t] + 1 \in Depths
    BY ConstantsAssumption DEF TypeOK, Depths, Push
  <1> QED
    BY <1>1, PushFact DEF Begins, Push

LEMMA CallForm ==
    ASSUME TypeOK, NEW t \in Threads, HostCall(t)
    PROVE  /\ UNCHANGED <<registry, lock, poisoned>> /\ InUserCode(t)
           /\ \E f \in Frames : /\ Begins(t, f) /\ BeginsOwning(f) /\ Shape(f)
                                /\ f.pc \in {"wait", "release", "return"}
                                /\ f.old = {} /\ f.hit = NoRule
  <1>1. ASSUME NEW f \in Frames, Push(t, f), BeginsOwning(f), Shape(f),
               f.pc \in {"wait", "release", "return"}, f.old = {}, f.hit = NoRule,
               UNCHANGED store
        PROVE  /\ UNCHANGED <<registry, lock, poisoned>> /\ InUserCode(t)
               /\ \E g \in Frames : /\ Begins(t, g) /\ BeginsOwning(g) /\ Shape(g)
                                    /\ g.pc \in {"wait", "release", "return"}
                                    /\ g.old = {} /\ g.hit = NoRule
    BY <1>1, BeginsFact DEF store
  <1>2. CASE CallRegisterC(t)
    <2>1. PICK n \in Names, r \in Rules \ NativeRules :
             /\ Push(t, NewFrame("register_c", n, r, "wait", "none"))
             /\ BoxClosure(r) /\ UNCHANGED store
      BY <1>2 DEF CallRegisterC
    <2>2. "register_c" \in Ops /\ n \in AllNames /\ r \in MaybeRule /\ "wait" \in Pcs
          /\ "none" \in Codes
      BY DEF Ops, AllNames, MaybeRule, Pcs, Codes
    <2> DEFINE f == NewFrame("register_c", n, r, "wait", "none")
    <2>3. IsNew(f, "register_c", n, r, "wait", "none")
      BY <2>2, NewFrameFact
    <2> HIDE DEF f
    <2>4. BeginsOwning(f) /\ Shape(f)
      BY <2>1, <2>3, ConstantsAssumption DEF BeginsOwning, Shape, Registers, IsNew
    <2> QED
      BY <1>1, <2>1, <2>3, <2>4 DEF f, IsNew
  <1>3. CASE CallRegister(t)
    <2>1. PICK r \in NativeRules :
             /\ BoxClosure(r) /\ UNCHANGED store
             /\ \/ \E n \in Names : Push(t, NewFrame("register", n, r, "wait", "none"))
                \/ Push(t, [NewFrame("rejected", EmptyName, r, "release", "E_PARAM")
                              EXCEPT !.reported = TRUE])
      BY <1>3 DEF CallRegister
    <2>2. /\ r \in Rules /\ {"register", "rejected"} \subseteq Ops /\ r \in MaybeRule
          /\ {"wait", "release"} \subseteq Pcs /\ {"none", "E_PARAM"} \subseteq Codes
          /\ EmptyName \in AllNames /\ Names \subseteq AllNames
      BY ConstantsAssumption DEF Ops, AllNames, MaybeRule, Pcs, Codes
    <2>3. \E f : /\ Push(t, f)
                 /\ \/ \E n \in Names : IsNew(f, "register", n, r, "wait", "none")
                    \/ IsNew(f, "rejected", EmptyName, r, "release", "E_PARAM")
      <3>1. \A n \in Names : IsNew(NewFrame("register", n, r, "wait", "none"),
                                   "register", n, r, "wait", "none")
        BY <2>2, NewFrameFact
      <3>2. IsNew([NewFrame("rejected", EmptyName, r, "release", "E_PARAM")
                     EXCEPT !.reported = TRUE],
                  "rejected", EmptyName, r, "release", "E_PARAM")
        BY <2>2, NewFrameFact
      <3> QED
        BY <2>1, <3>1, <3>2
    <2>4. PICK f : /\ Push(t, f)
                   /\ \/ \E n \in Names : IsNew(f, "register", n, r, "wait", "none")
                      \/ IsNew(f, "rejected", EmptyName, r, "release", "E_PARAM")
      BY <2>3
    <2>5. f \in Frames /\ f.arc = r /\ f.hit = NoRule /\ f.old = {}
          /\ \/ f.op = "register" /\ f.pc = "wait"
             \/ f.op = "rejected" /\ f.pc = "release"
      BY <2>4 DEF IsNew
    <2>6. BeginsOwning(f) /\ Shape(f)
      BY <2>1, <2>2, <2>5, ConstantsAssumption DEF BeginsOwning, Shape, Registers
    <2> QED
      BY <1>1, <2>1, <2>4, <2>5, <2>6
  <1>4. CASE CallExists(t) \/ CallRun(t) \/ CallClear(t)
    <2>1. PICK op \in {"exists", "run", "clear"}, n \in AllNames :
             Push(t, NewFrame(op, n, NoRule, "wait", "none"))
      BY <1>4 DEF CallExists, CallRun, CallClear, AllNames
    <2>2. op \in Ops /\ NoRule \in MaybeRule /\ "wait" \in Pcs /\ "none" \in Codes
      BY DEF Ops, MaybeRule, Pcs, Codes
    <2> DEFINE f == NewFrame(op, n, NoRule, "wait", "none")
    <2>3. IsNew(f, op, n, NoRule, "wait", "none")
      BY <2>2, NewFrameFact
    <2> HIDE DEF f
    <2>4. UNCHANGED <<store, heap>>
      BY <1>4 DEF CallExists, CallRun, CallClear
    <2>5. BeginsOwning(f) /\ Shape(f)
      BY <2>3, <2>4 DEF BeginsOwning, Shape, Registers, heap, IsNew
    <2> QED
      BY <1>1, <2>1, <2>3, <2>4, <2>5 DEF f, IsNew
  <1>5. CASE CallBadArgument(t)
    <2>1. UNCHANGED <<store, heap>>
      BY <1>5 DEF CallBadArgument
    <2>2. PICK f : Push(t, f) /\ \E rc \in Codes :
                                    IsNew(f, "rejected", EmptyName, NoRule, "return", rc)
      <3>1. "rejected" \in Ops /\ EmptyName \in AllNames /\ NoRule \in MaybeRule
            /\ "return" \in Pcs /\ {"E_PARAM", "NO"} \subseteq Codes
        BY DEF Ops, AllNames, MaybeRule, Pcs, Codes
      <3>2. /\ IsNew([NewFrame("rejected", EmptyName, NoRule, "return", "E_PARAM")
                        EXCEPT !.reported = TRUE],
                     "rejected", EmptyName, NoRule, "return", "E_PARAM")
            /\ IsNew(NewFrame("rejected", EmptyName, NoRule, "return", "NO"),
                     "rejected", EmptyName, NoRule, "return", "NO")
        BY <3>1, NewFrameFact
      <3> QED
        BY <1>5, <3>1, <3>2 DEF CallBadArgument
    <2>3. BeginsOwning(f) /\ Shape(f)
      BY <2>1, <2>2 DEF BeginsOwning, Shape, Registers, heap, IsNew
    <2> QED
      BY <1>1, <2>1, <2>2, <2>3 DEF IsNew
  <1> QED
    BY <1>2, <1>3, <1>4, <1>5 DEF HostCall

LEMMA NoFrameFact ==
    /\ NoFrame \in Frames /\ NoFrame.pc = "none" /\ NoFrame.op = "none" /\ NoFrame.old = {}
    /\ NoFrame.arc = NoRule /\ NoFrame.hit = NoRule /\ Shape(NoFrame)
  BY DEF NoFrame, NewFrame, Frames, AllNames, MaybeRule, Pcs, Ops, Codes, Shape, Registers

Ends(t) ==
    /\ sp[t] > 0 /\ sp[t] \in Depths /\ sp'[t] = sp[t] - 1
    /\ \A u \in Threads : u # t => sp'[u] = sp[u]
    /\ frame'[t][sp[t]] = NoFrame
    /\ \A u \in Threads : \A d \in Depths :
          (u # t \/ d # sp[t]) => frame'[u][d] = frame[u][d]

LEMMA ReturnForm ==
    ASSUME TypeOK, NEW t \in Threads, Return(t)
    PROVE  /\ UNCHANGED <<registry, lock, poisoned, refs, status>>
           /\ Ends(t) /\ Top(t).pc = "return"
  <1>1. sp[t] > 0 /\ sp[t] \in Depths /\ sp'[t] = sp[t] - 1
        /\ \A u \in Threads : u # t => sp'[u] = sp[u]
    BY TopFact DEF Return, At, TypeOK
  <1>2. /\ frame'[t][sp[t]] = NoFrame
        /\ \A u \in Threads : \A d \in Depths :
              (u # t \/ d # sp[t]) => frame'[u][d] = frame[u][d]
    BY <1>1, SetTopFact, NoFrameFact DEF Return
  <1> QED
    BY <1>1, <1>2 DEF Ends, Return, At, store, heap

-----------------------------------------------------------------------------
(***************************************************************************)
(* Every step changes one frame, that of the newest call or of a new one.  *)
(***************************************************************************)
Changes(t, e, f) ==
    /\ e \in Depths /\ f \in Frames /\ frame'[t][e] = f
    /\ \A u \in Threads : \A d \in Depths : (u # t \/ d # e) => frame'[u][d] = frame[u][d]

LEMMA MovesChange ==
    ASSUME NEW t \in Threads, NEW f, Moves(t, f), Top(t).pc # "none", Shape(f),
           f.pc # "none", StackInv, TypeOK
    PROVE  Changes(t, sp[t], f) /\ StackInv'
  <1>1. Changes(t, sp[t], f)
    BY DEF Moves, Changes
  <1>2. ASSUME NEW u \in Threads, NEW d \in Depths
        PROVE  /\ Shape(frame'[u][d])
               /\ d < sp'[u] => frame'[u][d].pc \in UserCode
               /\ d > sp'[u] => frame'[u][d] = NoFrame
               /\ d <= sp'[u] => frame'[u][d].pc # "none"
    <2>1. sp' = sp /\ sp[t] \in Nat
      BY DEF Moves, TypeOK
    <2>2. CASE u = t /\ d = sp[t]
      BY <1>1, <2>1, <2>2 DEF Changes
    <2>3. CASE u # t \/ d # sp[t]
      BY <1>1, <2>1, <2>3 DEF Changes, StackInv
    <2> QED
      BY <2>2, <2>3
  <1> QED
    BY <1>1, <1>2 DEF StackInv, Shape, Registers

LEMMA BeginsChange ==
    ASSUME NEW t \in Threads, NEW f, Begins(t, f), InUserCode(t), Shape(f),
           f.pc # "none", StackInv, TypeOK
    PROVE  Changes(t, sp[t] + 1, f) /\ frame[t][sp[t] + 1] = NoFrame /\ StackInv'
  <1>1. Changes(t, sp[t] + 1, f) /\ sp[t] \in Nat /\ Depths \subseteq Nat
    BY ConstantsAssumption DEF Begins, Changes, TypeOK, Depths
  <1>2. frame[t][sp[t] + 1] = NoFrame
    BY <1>1 DEF Changes, StackInv
  <1>3. ASSUME NEW u \in Threads, NEW d \in Depths
        PROVE  /\ Shape(frame'[u][d])
               /\ d < sp'[u] => frame'[u][d].pc \in UserCode
               /\ d > sp'[u] => frame'[u][d] = NoFrame
               /\ d <= sp'[u] => frame'[u][d].pc # "none"
    <2>1. sp'[t] = sp[t] + 1 /\ (u # t => sp'[u] = sp[u])
      BY DEF Begins
    <2>2. CASE u = t /\ d = sp[t] + 1
      BY <1>1, <2>1, <2>2 DEF Changes
    <2>3. CASE u = t /\ d # sp[t] + 1
      <3>1. frame'[u][d] = frame[u][d]
        BY <1>1, <2>3 DEF Changes
      <3>2. d = sp[t] => frame[t][d].pc \in UserCode
        BY <1>1 DEF InUserCode, Top, Depths
      <3>3. d \in Nat
        BY <1>1
      <3>4. d < sp[t] \/ d = sp[t] \/ d > sp[t] + 1
        BY <1>1, <2>3, <3>3
      <3> QED
        BY <1>1, <2>1, <2>3, <3>1, <3>2, <3>3, <3>4 DEF StackInv
    <2>4. CASE u # t
      BY <1>1, <2>1, <2>4 DEF Changes, StackInv
    <2> QED
      BY <2>2, <2>3, <2>4
  <1> QED
    BY <1>1, <1>2, <1>3 DEF StackInv, Shape, Registers

LEMMA EndsChange ==
    ASSUME NEW t \in Threads, Ends(t), StackInv, TypeOK
    PROVE  Changes(t, sp[t], NoFrame) /\ StackInv'
  <1>1. Changes(t, sp[t], NoFrame) /\ sp[t] \in Nat /\ Depths \subseteq Nat
    BY ConstantsAssumption, NoFrameFact DEF Ends, Changes, TypeOK, Depths
  <1>2. ASSUME NEW u \in Threads, NEW d \in Depths
        PROVE  /\ Shape(frame'[u][d])
               /\ d < sp'[u] => frame'[u][d].pc \in UserCode
               /\ d > sp'[u] => frame'[u][d] = NoFrame
               /\ d <= sp'[u] => frame'[u][d].pc # "none"
    <2>1. sp'[t] = sp[t] - 1 /\ (u # t => sp'[u] = sp[u]) /\ d \in Nat
      BY <1>1 DEF Ends
    <2>2. CASE u = t /\ d = sp[t]
      BY <1>1, <2>1, <2>2, NoFrameFact DEF Changes
    <2>3. CASE u = t /\ d # sp[t]
      <3>1. frame'[u][d] = frame[u][d]
        BY <1>1, <2>3 DEF Changes
      <3>2. d < sp[t] \/ d > sp[t]
        BY <1>1, <2>1, <2>3
      <3> QED
        BY <1>1, <2>1, <2>3, <3>1, <3>2 DEF StackInv
    <2>4. CASE u # t
      BY <1>1, <2>1, <2>4 DEF Changes, StackInv
    <2> QED
      BY <2>2, <2>3, <2>4
  <1> QED
    BY <1>1, <1>2 DEF StackInv, Shape, Registers

(***************************************************************************)
(* The Mutex: the frame enters the critical section with a free lock,      *)
(* leaves it freeing the lock, or does neither and leaves the lock alone.  *)
(***************************************************************************)
LockStep(t, g, f) ==
    \/ lock' = lock /\ (f.pc \in UnderLock <=> g.pc \in UnderLock)
    \/ lock = Free /\ lock' = t /\ f.pc \in UnderLock
    \/ g.pc \in UnderLock /\ lock' = Free /\ f.pc \notin UnderLock

LEMMA ChangeHolder ==
    ASSUME HolderInv, NEW t \in Threads, NEW e, NEW f, Changes(t, e, f),
           LockStep(t, frame[t][e], f)
    PROVE  HolderInv'
  <1> DEFINE In(u, d) == frame[u][d].pc \in UnderLock
             Now(u, d) == frame'[u][d].pc \in UnderLock
  <1>1. e \in Depths /\ (Now(t, e) <=> f.pc \in UnderLock) /\ Free \notin Threads
        /\ \A u \in Threads : \A d \in Depths : (u # t \/ d # e) => (Now(u, d) <=> In(u, d))
    BY ConstantsAssumption DEF Changes
  <1>2. /\ \A u \in Threads : \A d \in Depths : In(u, d) => lock = u
        /\ \A u \in Threads : \A d, c \in Depths : In(u, d) /\ In(u, c) => d = c
        /\ \A u \in Threads : lock = u => \E d \in Depths : In(u, d)
    BY DEF HolderInv
  <1>3. \/ lock' = lock /\ (f.pc \in UnderLock <=> In(t, e))
        \/ lock = Free /\ lock' = t /\ f.pc \in UnderLock
        \/ In(t, e) /\ lock' = Free /\ f.pc \notin UnderLock
    BY DEF LockStep
  <1> HIDE DEF In, Now
  <1>4. \A u \in Threads : \A d \in Depths : Now(u, d) => lock' = u
    BY <1>1, <1>2, <1>3
  <1>5. \A u \in Threads : \A d, c \in Depths : Now(u, d) /\ Now(u, c) => d = c
    BY <1>1, <1>2, <1>3
  <1>6. \A u \in Threads : lock' = u => \E d \in Depths : Now(u, d)
    BY <1>1, <1>2, <1>3
  <1> QED
    BY <1>4, <1>5, <1>6 DEF HolderInv, Now

(***************************************************************************)
(* The poison: only a panic under the lock brings it, and no call takes a  *)
(* closure out of the map, or clones one, after it.                        *)
(***************************************************************************)
Busy(f) ==
    f.pc \in {"drop_old", "destroy_old"} \/ (f.pc = "unlock" /\ f.hit # NoRule)

LEMMA ChangePoison ==
    ASSUME PoisonInv, NEW t \in Threads, NEW e, NEW f, Changes(t, e, f),
           poisoned' = poisoned, Busy(f) => ~poisoned
    PROVE  PoisonInv'
  <1>1. ASSUME NEW u \in Threads, NEW d \in Depths, Busy(frame'[u][d])
        PROVE  ~poisoned'
    <2>1. CASE u = t /\ d = e
      BY <1>1, <2>1 DEF Changes
    <2>2. CASE u # t \/ d # e
      <3>1. Busy(frame[u][d])
        BY <1>1, <2>2 DEF Changes
      <3> QED
        BY <3>1 DEF PoisonInv, Busy
    <2> QED
      BY <2>1, <2>2
  <1> QED
    BY <1>1 DEF PoisonInv, Busy

(***************************************************************************)
(* A closure that waits to be registered: nothing but a registration that  *)
(* begins makes one, and only its insertion puts it in the map.            *)
(***************************************************************************)
LEMMA ChangeBoxed ==
    ASSUME BoxedOnce, NEW t \in Threads, NEW e, NEW f, Changes(t, e, f),
           Pending(f) => Pending(frame[t][e]) /\ f.arc = frame[t][e].arc,
           \A n \in AllNames : registry'[n] # NoRule => registry'[n] = registry[n],
           \A a \in Activations : Pending(frame[a[1]][a[2]]) => frame[a[1]][a[2]].arc # NoRule
    PROVE  BoxedOnce'
  <1>1. ASSUME NEW a \in Activations, Pending(frame'[a[1]][a[2]])
        PROVE  /\ Pending(frame[a[1]][a[2]])
               /\ frame'[a[1]][a[2]].arc = frame[a[1]][a[2]].arc
    <2>1. a[1] \in Threads /\ a[2] \in Depths
      BY DEF Activations
    <2>2. CASE a[1] = t /\ a[2] = e
      BY <1>1, <2>2 DEF Changes
    <2>3. CASE a[1] # t \/ a[2] # e
      BY <1>1, <2>1, <2>3 DEF Changes
    <2> QED
      BY <2>2, <2>3
  <1>2. \A n, m \in AllNames : registry'[n] = registry'[m] /\ registry'[n] # NoRule => n = m
    BY DEF BoxedOnce
  <1>3. ASSUME NEW a \in Activations, Pending(frame'[a[1]][a[2]])
        PROVE  /\ \A n \in AllNames : registry'[n] # frame'[a[1]][a[2]].arc
               /\ \A b \in Activations : Pending(frame'[b[1]][b[2]])
                     /\ frame'[a[1]][a[2]].arc = frame'[b[1]][b[2]].arc => a = b
    BY <1>1, <1>3 DEF BoxedOnce
  <1> QED
    BY <1>2, <1>3 DEF BoxedOnce, Pending, Registers

LEMMA BeginBoxed ==
    ASSUME BoxedOnce, NEW t \in Threads, NEW e, NEW f, Changes(t, e, f),
           registry' = registry, \A n \in AllNames : registry[n] # f.arc,
           \A a \in Activations : Pending(frame[a[1]][a[2]]) => frame[a[1]][a[2]].arc # f.arc
    PROVE  BoxedOnce'
  <1>1. ASSUME NEW a \in Activations
        PROVE  \/ a = <<t, e>> /\ frame'[a[1]][a[2]] = f
               \/ frame'[a[1]][a[2]] = frame[a[1]][a[2]]
    <2>1. a[1] \in Threads /\ a[2] \in Depths /\ a = <<a[1], a[2]>>
      BY DEF Activations
    <2>2. CASE a[1] = t /\ a[2] = e
      BY <2>1, <2>2 DEF Changes
    <2>3. CASE a[1] # t \/ a[2] # e
      BY <2>1, <2>3 DEF Changes
    <2> QED
      BY <2>2, <2>3
  <1>2. ASSUME NEW a \in Activations, Pending(frame'[a[1]][a[2]])
        PROVE  /\ \A n \in AllNames : registry[n] # frame'[a[1]][a[2]].arc
               /\ \A b \in Activations : Pending(frame'[b[1]][b[2]])
                     /\ frame'[a[1]][a[2]].arc = frame'[b[1]][b[2]].arc => a = b
    <2>1. CASE a = <<t, e>> /\ frame'[a[1]][a[2]] = f
      BY <1>1, <2>1
    <2>2. CASE frame'[a[1]][a[2]] = frame[a[1]][a[2]]
      <3>1. \A n \in AllNames : registry[n] # frame'[a[1]][a[2]].arc
        BY <1>2, <2>2 DEF BoxedOnce
      <3>2. ASSUME NEW b \in Activations, Pending(frame'[b[1]][b[2]]),
                   frame'[a[1]][a[2]].arc = frame'[b[1]][b[2]].arc
            PROVE  a = b
        BY <1>1, <1>2, <2>2, <3>2 DEF BoxedOnce
      <3> QED
        BY <3>1, <3>2
    <2> QED
      BY <1>1, <2>1, <2>2
  <1> QED
    BY <1>2 DEF BoxedOnce, Pending, Registers

LEMMA InsertBoxed ==
    ASSUME BoxedOnce, TypeOK, NEW t \in Threads, NEW e, NEW f, Changes(t, e, f), ~Pending(f),
           Pending(frame[t][e]), NEW n \in AllNames,
           registry' = [registry EXCEPT ![n] = frame[t][e].arc]
    PROVE  BoxedOnce'
  <1> DEFINE r == frame[t][e].arc
  <1>1. <<t, e>> \in Activations /\ \A m \in AllNames : registry[m] # r
    BY DEF Changes, Activations, BoxedOnce
  <1>2. \A m \in AllNames : registry'[m] = IF m = n THEN r ELSE registry[m]
    BY DEF TypeOK
  <1>3. ASSUME NEW a \in Activations, Pending(frame'[a[1]][a[2]])
        PROVE  /\ Pending(frame[a[1]][a[2]]) /\ frame[a[1]][a[2]].arc # r
               /\ frame'[a[1]][a[2]].arc = frame[a[1]][a[2]].arc
    <2>1. a[1] \in Threads /\ a[2] \in Depths
      BY DEF Activations
    <2>2. a[1] # t \/ a[2] # e
      BY <1>3 DEF Changes
    <2>3. frame'[a[1]][a[2]] = frame[a[1]][a[2]]
      BY <2>1, <2>2 DEF Changes
    <2>4. a # <<t, e>>
      BY <2>2
    <2> QED
      BY <1>1, <1>3, <2>3, <2>4 DEF BoxedOnce
  <1> HIDE DEF r
  <1>4. \A m, k \in AllNames : registry'[m] = registry'[k] /\ registry'[m] # NoRule => m = k
    BY <1>1, <1>2 DEF BoxedOnce
  <1>5. ASSUME NEW a \in Activations, Pending(frame'[a[1]][a[2]])
        PROVE  /\ \A m \in AllNames : registry'[m] # frame'[a[1]][a[2]].arc
               /\ \A b \in Activations : Pending(frame'[b[1]][b[2]])
                     /\ frame'[a[1]][a[2]].arc = frame'[b[1]][b[2]].arc => a = b
    <2>1. \A m \in AllNames : registry[m] # frame[a[1]][a[2]].arc
      BY <1>3, <1>5 DEF BoxedOnce
    <2>2. \A m \in AllNames : registry'[m] # frame'[a[1]][a[2]].arc
      BY <1>2, <1>3, <1>5, <2>1
    <2>3. \A b \in Activations : Pending(frame'[b[1]][b[2]])
              /\ frame'[a[1]][a[2]].arc = frame'[b[1]][b[2]].arc => a = b
      BY <1>3, <1>5 DEF BoxedOnce
    <2> QED
      BY <2>2, <2>3
  <1> QED
    BY <1>4, <1>5 DEF BoxedOnce, Pending, Registers

(***************************************************************************)
(* A closure on its way out: a step of a call that leaves the map alone    *)
(* takes none out and registers none that is on its way; one that writes   *)
(* the map takes out closures no name leads to any more.                   *)
(***************************************************************************)
LEMMA ChangeActivations ==
    ASSUME NEW t \in Threads, NEW e, NEW f, Changes(t, e, f), NEW a \in Activations
    PROVE  \/ a = <<t, e>> /\ frame'[a[1]][a[2]] = f /\ frame[a[1]][a[2]] = frame[t][e]
           \/ frame'[a[1]][a[2]] = frame[a[1]][a[2]]
  <1>1. a[1] \in Threads /\ a[2] \in Depths /\ a = <<a[1], a[2]>>
    BY DEF Activations
  <1> QED
    BY <1>1 DEF Changes

LEMMA ChangeRemoved ==
    ASSUME RemovedInv, NEW t \in Threads, NEW e, NEW f, Changes(t, e, f),
           registry' = registry, f.old \subseteq frame[t][e].old,
           \A r \in Rules : status'[r] = "leaked" => status[r] = "leaked",
           Pending(f) => \/ Pending(frame[t][e]) /\ f.arc = frame[t][e].arc
                         \/ \A r \in Rules : Removed(r) => f.arc # r
    PROVE  RemovedInv'
  <1> SUFFICES ASSUME NEW r \in Rules
               PROVE  /\ Removed(r)' =>
                            /\ \A n \in AllNames : registry'[n] # r
                            /\ \A a \in Activations :
                                  Pending(frame'[a[1]][a[2]]) => frame'[a[1]][a[2]].arc # r
                      /\ status'[r] = "leaked" =>
                            \A a \in Activations : r \notin frame'[a[1]][a[2]].old
    BY DEF RemovedInv, Pending, Registers
  <1>1. <<t, e>> \in Activations
    BY DEF Changes, Activations
  <1>2. ASSUME NEW a \in Activations, r \in frame'[a[1]][a[2]].old
        PROVE  r \in frame[a[1]][a[2]].old
    BY <1>2, ChangeActivations
  <1>3. Removed(r)' => Removed(r)
    BY <1>2 DEF Removed, Activations
  <1>4. ASSUME NEW a \in Activations, Pending(frame'[a[1]][a[2]]), Removed(r)
        PROVE  frame'[a[1]][a[2]].arc # r
    <2>1. CASE frame'[a[1]][a[2]] = frame[a[1]][a[2]]
      BY <1>4, <2>1 DEF RemovedInv
    <2>2. CASE frame'[a[1]][a[2]] = f /\ frame[a[1]][a[2]] = frame[t][e]
      BY <1>4, <2>2 DEF RemovedInv
    <2> QED
      BY <2>1, <2>2, ChangeActivations
  <1> QED
    BY <1>2, <1>3, <1>4 DEF RemovedInv

LEMMA TakeRemoved ==
    ASSUME RemovedInv, BoxedOnce, NEW t \in Threads, NEW e, NEW f, Changes(t, e, f),
           status' = status, ~Pending(f),
           \A r \in f.old : /\ \E n \in AllNames : registry[n] = r
                           /\ \A n \in AllNames : registry'[n] # r,
           \A n \in AllNames :
              \/ registry'[n] \in {registry[n], NoRule}
              \/ Pending(frame[t][e]) /\ registry'[n] = frame[t][e].arc
    PROVE  RemovedInv'
  <1> SUFFICES ASSUME NEW r \in Rules
               PROVE  /\ Removed(r)' =>
                            /\ \A n \in AllNames : registry'[n] # r
                            /\ \A a \in Activations :
                                  Pending(frame'[a[1]][a[2]]) => frame'[a[1]][a[2]].arc # r
                      /\ status'[r] = "leaked" =>
                            \A a \in Activations : r \notin frame'[a[1]][a[2]].old
    BY DEF RemovedInv, Pending, Registers
  <1>1. <<t, e>> \in Activations /\ r # NoRule
    BY ConstantsAssumption DEF Changes, Activations
  <1>2. ASSUME NEW a \in Activations, r \in frame'[a[1]][a[2]].old
        PROVE  r \in frame[a[1]][a[2]].old \/ r \in f.old
    BY <1>2, ChangeActivations
  <1>3. ASSUME NEW a \in Activations, Pending(frame'[a[1]][a[2]])
        PROVE  frame'[a[1]][a[2]] = frame[a[1]][a[2]]
    BY <1>3, ChangeActivations
  <1>4. Removed(r)' => Removed(r) \/ r \in f.old
    BY <1>2 DEF Removed, Activations
  <1>5. CASE Removed(r)
    <2>1. /\ \A n \in AllNames : registry[n] # r
          /\ Pending(frame[t][e]) => frame[t][e].arc # r
      BY <1>1, <1>5 DEF RemovedInv
    <2>2. \A n \in AllNames : registry'[n] # r
      BY <1>1, <2>1
    <2>3. r \notin f.old
      BY <2>1
    <2> QED
      BY <1>2, <1>3, <1>5, <2>2, <2>3 DEF RemovedInv
  <1>6. CASE ~Removed(r) /\ r \in f.old
    <2>1. status'[r] # "leaked"
      BY <1>6 DEF Removed
    <2>2. \A a \in Activations : Pending(frame[a[1]][a[2]]) => frame[a[1]][a[2]].arc # r
      BY <1>6 DEF BoxedOnce
    <2> QED
      BY <1>3, <1>6, <2>1, <2>2
  <1>7. CASE ~Removed(r) /\ r \notin f.old
    BY <1>4, <1>7 DEF Removed
  <1> QED
    BY <1>5, <1>6, <1>7

-----------------------------------------------------------------------------
(***************************************************************************)
(* Counting owners: the names that lead to a closure, the calls that hold  *)
(* it, and the calls about to drop it.                                     *)
(***************************************************************************)
Named(r) == {n \in AllNames : registry[n] = r}
Held(r) == {a \in Activations : frame[a[1]][a[2]].arc = r}
Doomed(r) == {a \in Activations : r \in frame[a[1]][a[2]].old}

One(b) == IF b THEN 1 ELSE 0

LEMMA CardWithout ==
    ASSUME NEW S, IsFiniteSet(S), NEW x
    PROVE  Cardinality(S) \in Nat /\ Cardinality(S) = Cardinality(S \ {x}) + One(x \in S)
  <1>1. Cardinality(S) \in Nat
    BY FS_CardinalityType
  <1>2. Cardinality(S \ {x}) = IF x \in S THEN Cardinality(S) - 1 ELSE Cardinality(S)
    BY FS_RemoveElement
  <1>3. CASE x \in S
    BY <1>1, <1>2, <1>3 DEF One
  <1>4. CASE x \notin S
    BY <1>1, <1>2, <1>4 DEF One
  <1> QED
    BY <1>3, <1>4

LEMMA SameButOne ==
    ASSUME NEW S, NEW T, NEW x, IsFiniteSet(S), IsFiniteSet(T), S \ {x} = T \ {x}
    PROVE  /\ Cardinality(S) \in Nat /\ Cardinality(T) \in Nat
           /\ Cardinality(S) + One(x \in T) = Cardinality(T) + One(x \in S)
  <1>1. /\ Cardinality(S) \in Nat /\ Cardinality(T) \in Nat
        /\ Cardinality(S) = Cardinality(S \ {x}) + One(x \in S)
        /\ Cardinality(T) = Cardinality(T \ {x}) + One(x \in T)
    BY CardWithout
  <1>2. IsFiniteSet(S \ {x})
    BY FS_RemoveElement
  <1>3. Cardinality(S \ {x}) \in Nat /\ Cardinality(T \ {x}) = Cardinality(S \ {x})
    BY <1>2, FS_CardinalityType
  <1>4. One(x \in S) \in Nat /\ One(x \in T) \in Nat
    BY DEF One
  <1> QED
    BY <1>1, <1>3, <1>4

LEMMA FiniteOwners ==
    IsFiniteSet(AllNames) /\ IsFiniteSet(Activations)
  <1>1. IsFiniteSet(AllNames)
    BY FiniteAssumption, FS_AddElement DEF AllNames
  <1>2. IsFiniteSet(Depths)
    BY ConstantsAssumption, FS_Interval DEF Depths
  <1> QED
    BY <1>1, <1>2, FiniteAssumption, FS_Product DEF Activations

\* The three numbers of owners are numbers, and an owner counts.
LEMMA OwnersFact ==
    ASSUME NEW r
    PROVE  /\ Cardinality(Named(r)) \in Nat /\ Cardinality(Held(r)) \in Nat
           /\ Cardinality(Doomed(r)) \in Nat
           /\ Owners(r) = Cardinality(Named(r)) + Cardinality(Held(r)) + Cardinality(Doomed(r))
           /\ (\E n \in AllNames : registry[n] = r) => Owners(r) > 0
           /\ (\E a \in Activations : frame[a[1]][a[2]].arc = r) => Owners(r) > 0
           /\ (\E a \in Activations : r \in frame[a[1]][a[2]].old) => Owners(r) > 0
  <1>1. IsFiniteSet(Named(r)) /\ IsFiniteSet(Held(r)) /\ IsFiniteSet(Doomed(r))
    BY FiniteOwners, FS_Subset DEF Named, Held, Doomed
  <1>2. /\ Cardinality(Named(r)) \in Nat /\ Cardinality(Held(r)) \in Nat
        /\ Cardinality(Doomed(r)) \in Nat
    BY <1>1, FS_CardinalityType
  <1>3. Owners(r) = Cardinality(Named(r)) + Cardinality(Held(r)) + Cardinality(Doomed(r))
    BY DEF Owners, Named, Held, Doomed
  <1>4. /\ Named(r) # {} => Cardinality(Named(r)) # 0
        /\ Held(r) # {} => Cardinality(Held(r)) # 0
        /\ Doomed(r) # {} => Cardinality(Doomed(r)) # 0
    BY <1>1, FS_EmptySet
  <1>5. /\ (\E n \in AllNames : registry[n] = r) => Named(r) # {}
        /\ (\E a \in Activations : frame[a[1]][a[2]].arc = r) => Held(r) # {}
        /\ (\E a \in Activations : r \in frame[a[1]][a[2]].old) => Doomed(r) # {}
    BY DEF Named, Held, Doomed
  <1> QED
    BY <1>2, <1>3, <1>4, <1>5

(***************************************************************************)
(* What a step adds to the owners of a closure and what it takes away, the *)
(* frame and the name it writes being the only ones that change.           *)
(***************************************************************************)
LEMMA ChangeHeld ==
    ASSUME NEW t \in Threads, NEW e, NEW f, Changes(t, e, f), NEW r
    PROVE  /\ Cardinality(Held(r))' \in Nat /\ Cardinality(Doomed(r))' \in Nat
           /\ Cardinality(Held(r))' + One(frame[t][e].arc = r)
                = Cardinality(Held(r)) + One(f.arc = r)
           /\ Cardinality(Doomed(r))' + One(r \in frame[t][e].old)
                = Cardinality(Doomed(r)) + One(r \in f.old)
  <1> DEFINE H == {a \in Activations : frame'[a[1]][a[2]].arc = r}
             D == {a \in Activations : r \in frame'[a[1]][a[2]].old}
  <1>1. Held(r)' = H /\ Doomed(r)' = D
    BY DEF Held, Doomed, Activations
  <1>2. IsFiniteSet(Held(r)) /\ IsFiniteSet(Doomed(r)) /\ IsFiniteSet(H) /\ IsFiniteSet(D)
    BY FiniteOwners, FS_Subset DEF Held, Doomed
  <1>3. \A a \in Activations : a # <<t, e>> => frame'[a[1]][a[2]] = frame[a[1]][a[2]]
    <2> SUFFICES ASSUME NEW a \in Activations, a # <<t, e>>
                 PROVE  frame'[a[1]][a[2]] = frame[a[1]][a[2]]
      OBVIOUS
    <2>1. a[1] \in Threads /\ a[2] \in Depths /\ a = <<a[1], a[2]>>
      BY DEF Activations
    <2> QED
      BY <2>1 DEF Changes
  <1>4. H \ {<<t, e>>} = Held(r) \ {<<t, e>>} /\ D \ {<<t, e>>} = Doomed(r) \ {<<t, e>>}
    BY <1>3 DEF Held, Doomed
  <1>5. /\ <<t, e>> \in Held(r) <=> frame[t][e].arc = r
        /\ <<t, e>> \in Doomed(r) <=> r \in frame[t][e].old
        /\ <<t, e>> \in H <=> f.arc = r
        /\ <<t, e>> \in D <=> r \in f.old
    BY DEF Held, Doomed, Changes, Activations
  <1> HIDE DEF H, D
  <1>6. /\ Cardinality(H) \in Nat /\ Cardinality(D) \in Nat
        /\ Cardinality(H) + One(<<t, e>> \in Held(r)) = Cardinality(Held(r)) + One(<<t, e>> \in H)
        /\ Cardinality(D) + One(<<t, e>> \in Doomed(r))
             = Cardinality(Doomed(r)) + One(<<t, e>> \in D)
    BY <1>2, <1>4, SameButOne
  <1> QED
    BY <1>1, <1>5, <1>6 DEF One

LEMMA ChangeNamed ==
    ASSUME NEW n \in AllNames, NEW r,
           \A m \in AllNames : m # n => registry'[m] = registry[m]
    PROVE  /\ Cardinality(Named(r))' \in Nat
           /\ Cardinality(Named(r))' + One(registry[n] = r)
                = Cardinality(Named(r)) + One(registry'[n] = r)
  <1> DEFINE N == {m \in AllNames : registry'[m] = r}
  <1>1. Named(r)' = N
    BY DEF Named, AllNames
  <1>2. IsFiniteSet(Named(r)) /\ IsFiniteSet(N)
    BY FiniteOwners, FS_Subset DEF Named
  <1>3. N \ {n} = Named(r) \ {n}
    BY DEF Named
  <1>4. (n \in Named(r) <=> registry[n] = r) /\ (n \in N <=> registry'[n] = r)
    BY DEF Named
  <1> HIDE DEF N
  <1>5. /\ Cardinality(N) \in Nat
        /\ Cardinality(N) + One(n \in Named(r)) = Cardinality(Named(r)) + One(n \in N)
    BY <1>2, <1>3, SameButOne
  <1> QED
    BY <1>1, <1>4, <1>5 DEF One

LEMMA SameNamed ==
    ASSUME NEW r, registry' = registry
    PROVE  Cardinality(Named(r))' = Cardinality(Named(r))
  BY DEF Named, AllNames

LEMMA ClearedNamed ==
    ASSUME BoxedOnce, NEW r \in Rules, registry' = [n \in AllNames |-> NoRule]
    PROVE  /\ Cardinality(Named(r))' = 0
           /\ Cardinality(Named(r)) = One(r \in {registry[n] : n \in AllNames} \ {NoRule})
  <1>1. r # NoRule
    BY ConstantsAssumption
  <1>2. Named(r)' = {}
    BY <1>1 DEF Named, AllNames
  <1>3. CASE \E n \in AllNames : registry[n] = r
    <2>1. PICK n \in AllNames : registry[n] = r
      BY <1>3
    <2>2. Named(r) = {n}
      BY <1>1, <2>1 DEF Named, BoxedOnce
    <2>3. Cardinality(Named(r)) = 1
      BY <2>2, FS_Singleton
    <2> QED
      BY <1>1, <1>2, <2>1, <2>3, FS_EmptySet DEF One
  <1>4. CASE ~ \E n \in AllNames : registry[n] = r
    <2>1. Named(r) = {}
      BY <1>4 DEF Named
    <2> QED
      BY <1>2, <1>4, <2>1, FS_EmptySet DEF One
  <1> QED
    BY <1>3, <1>4

LEMMA CountFact ==
    ASSUME CountInv, TypeOK, NEW r \in Rules
    PROVE  /\ Cardinality(Named(r)) \in Nat /\ Cardinality(Held(r)) \in Nat
           /\ Cardinality(Doomed(r)) \in Nat
           /\ refs[r] = Cardinality(Named(r)) + Cardinality(Held(r)) + Cardinality(Doomed(r))
                          + One(status[r] = "leaked")
           /\ refs[r] \in Nat
           /\ status[r] \in {"live", "leaked"} => refs[r] >= 1
           /\ status[r] \in {"unused", "dropped"} => refs[r] = 0
  <1>1. refs[r] = Owners(r) + One(status[r] = "leaked")
    BY DEF CountInv, RefsCountOwners, One
  <1>2. One(status[r] = "leaked") \in Nat
    BY DEF One
  <1>3. /\ status[r] \in {"live", "leaked"} => refs[r] >= 1
        /\ status[r] \in {"unused", "dropped"} => refs[r] = 0
    BY DEF CountInv
  <1> QED
    BY <1>1, <1>2, <1>3, OwnersFact

\* A closure with an owner has been boxed and not dropped.
LEMMA OwnedFact ==
    ASSUME CountInv, TypeOK, NEW r \in Rules,
           \/ \E n \in AllNames : registry[n] = r
           \/ \E a \in Activations : frame[a[1]][a[2]].arc = r
           \/ \E a \in Activations : r \in frame[a[1]][a[2]].old
    PROVE  /\ refs[r] >= 1 + One(status[r] = "leaked") /\ status[r] \in {"live", "leaked"}
  <1>1. Owners(r) > 0 /\ Owners(r) \in Nat
    BY OwnersFact
  <1>2. refs[r] = Owners(r) + One(status[r] = "leaked") /\ One(status[r] = "leaked") \in Nat
    BY DEF CountInv, RefsCountOwners, One
  <1>3. refs[r] # 0
    BY <1>1, <1>2
  <1>4. status[r] \in {"unused", "live", "dropped", "leaked"}
    BY DEF TypeOK
  <1> QED
    BY <1>1, <1>2, <1>3, <1>4 DEF CountInv

LEMMA CountNext ==
    ASSUME \A r \in Rules :
              /\ refs'[r] = Cardinality(Named(r))' + Cardinality(Held(r))'
                              + Cardinality(Doomed(r))' + One(status'[r] = "leaked")
              /\ status'[r] \in {"live", "leaked"} => refs'[r] >= 1
              /\ status'[r] \in {"unused", "dropped"} => refs'[r] = 0
    PROVE  CountInv'
  <1>1. ASSUME NEW r \in Rules
        PROVE  Owners(r)' = Cardinality(Named(r))' + Cardinality(Held(r))' + Cardinality(Doomed(r))'
    BY DEF Owners, Named, Held, Doomed
  <1>2. RefsCountOwners'
    <2> SUFFICES ASSUME NEW r \in Rules
                 PROVE  refs'[r] = Owners(r)' + (IF status'[r] = "leaked" THEN 1 ELSE 0)
      BY DEF RefsCountOwners
    <2> QED
      BY <1>1 DEF One
  <1> QED
    BY <1>2 DEF CountInv

-----------------------------------------------------------------------------
(***************************************************************************)
(* A step that changes no owner.                                           *)
(***************************************************************************)
LEMMA KeepingOwners ==
    ASSUME OwnersInv, TypeOK', NEW t \in Threads, KeepingStep(t)
    PROVE  OwnersInv'
  <1>1. PICK f \in Frames : Moves(t, f) /\ Keeps(f, Top(t)) /\ PcStep(t, Top(t), f)
    BY KeepingForm DEF OwnersInv
  <1>2. UNCHANGED <<registry, poisoned, refs, status>>
    BY KeepingForm DEF OwnersInv
  <1> DEFINE g == Top(t)
  <1>3. g = frame[t][sp[t]] /\ Shape(g) /\ sp[t] \in Depths
    BY <1>1 DEF OwnersInv, StackInv, Moves, Top
  <1> HIDE DEF g
  <1>4. Keeps(f, g) /\ PcStep(t, g, f) /\ g.pc # "none"
    BY <1>1 DEF g, PcStep
  <1>5. Shape(f) /\ f.pc # "none"
    <2>1. \/ g.pc = "wait" /\ f.pc = "locked"
          \/ g.pc = "locked" /\ f.pc = "unlock"
          \/ g.pc = "unlock" /\ g.hit # NoRule /\ f.pc = "callback"
          \/ g.pc = "unlock" /\ g.hit = NoRule /\ f.pc = "release"
          \/ g.pc = "drop_old" /\ g.old = {} /\ g.hit = NoRule /\ f.pc = "release"
          \/ g.pc = "callback" /\ f.pc = "release"
          \/ g.pc = "destroy_old" /\ f.pc = "drop_old"
          \/ g.pc = "release" /\ g.arc = NoRule /\ f.pc = "return"
          \/ g.pc \in {"destroy", "return"} /\ f.pc = "return"
      BY <1>3, <1>4 DEF PcStep, Shape
    <2> QED
      BY <1>3, <1>4, <2>1 DEF Keeps, Shape, Registers
  <1>6. Changes(t, sp[t], f) /\ StackInv'
    BY <1>1, <1>4, <1>5, MovesChange DEF OwnersInv, g
  <1>7. HolderInv'
    <2>1. LockStep(t, g, f)
      BY <1>3, <1>4 DEF PcStep, LockStep, UnderLock
    <2> QED
      BY <1>3, <1>6, <2>1, ChangeHolder DEF OwnersInv
  <1>8. PoisonInv'
    <2>1. Busy(f) => f.pc = "drop_old" /\ g.pc = "destroy_old"
      BY <1>3, <1>4 DEF PcStep, Busy, Shape, Keeps
    <2>2. Busy(f) => ~poisoned
      BY <1>3, <2>1 DEF OwnersInv, PoisonInv
    <2> QED
      BY <1>2, <1>6, <2>2, ChangePoison DEF OwnersInv
  <1>9. BoxedOnce'
    <2>1. Pending(f) => Pending(g) /\ f.arc = g.arc
      BY <1>4 DEF Pending, Registers, Keeps, PcStep
    <2>2. \A a \in Activations : Pending(frame[a[1]][a[2]]) => frame[a[1]][a[2]].arc # NoRule
      BY DEF OwnersInv, StackInv, Shape, Pending, Activations
    <2> QED
      BY <1>2, <1>3, <1>6, <2>1, <2>2, ChangeBoxed DEF OwnersInv
  <1>10. CountInv'
    <2> SUFFICES ASSUME NEW r \in Rules
                 PROVE  /\ refs'[r] = Cardinality(Named(r))' + Cardinality(Held(r))'
                                        + Cardinality(Doomed(r))' + One(status'[r] = "leaked")
                        /\ status'[r] \in {"live", "leaked"} => refs'[r] >= 1
                        /\ status'[r] \in {"unused", "dropped"} => refs'[r] = 0
      BY CountNext
    <2>1. f.arc = g.arc /\ f.old = g.old
      BY <1>4 DEF Keeps
    <2>2. /\ Cardinality(Held(r))' \in Nat /\ Cardinality(Doomed(r))' \in Nat
          /\ Cardinality(Held(r))' + One(g.arc = r) = Cardinality(Held(r)) + One(f.arc = r)
          /\ Cardinality(Doomed(r))' + One(r \in g.old) = Cardinality(Doomed(r)) + One(r \in f.old)
      BY <1>3, <1>6, ChangeHeld
    <2>3. Cardinality(Named(r))' = Cardinality(Named(r))
      BY <1>2, SameNamed
    <2> QED
      BY <1>2, <2>1, <2>2, <2>3, CountFact DEF OwnersInv, One
  <1>11. RemovedInv'
    <2>1. f.old = g.old /\ (Pending(f) => Pending(g) /\ f.arc = g.arc)
      BY <1>4 DEF Pending, Registers, Keeps, PcStep
    <2> QED
      BY <1>2, <1>3, <1>6, <2>1, ChangeRemoved DEF OwnersInv
  <1> QED
    BY <1>6, <1>7, <1>8, <1>9, <1>10, <1>11 DEF OwnersInv

(***************************************************************************)
(* Insertion: the closure of the call moves to the map, the one it         *)
(* replaces to the call.                                                   *)
(***************************************************************************)
LEMMA InsertOwners ==
    ASSUME OwnersInv, TypeOK', NEW t \in Threads, Insert(t)
    PROVE  OwnersInv'
  <1> DEFINE g == Top(t)
             n == g.name
             x == registry[n]
  <1>1. /\ UNCHANGED <<lock, poisoned, refs, status>> /\ ~poisoned
        /\ g.pc = "locked" /\ Registers(g) /\ n \in AllNames
        /\ registry' = [registry EXCEPT ![n] = g.arc]
    BY InsertForm DEF OwnersInv
  <1>2. PICK f \in Frames :
           /\ Moves(t, f) /\ f.pc = "drop_old" /\ f.op = g.op /\ f.arc = NoRule
           /\ f.hit = g.hit /\ f.old = {x} \ {NoRule}
    BY InsertForm DEF OwnersInv
  <1>3. g = frame[t][sp[t]] /\ Shape(g) /\ sp[t] \in Depths
    BY <1>2 DEF OwnersInv, StackInv, Moves, Top
  <1>4. TypeOK /\ BoxedOnce /\ CountInv
    BY DEF OwnersInv
  <1>5. Changes(t, sp[t], f) /\ StackInv'
    <2>1. Shape(f) /\ f.pc # "none"
      BY <1>1, <1>2, <1>3 DEF Shape, Registers
    <2> QED
      BY <1>1, <1>2, <2>1, MovesChange DEF OwnersInv
  <1> HIDE DEF g, n, x
  <1>6. HolderInv'
    BY <1>1, <1>2, <1>3, <1>5, ChangeHolder DEF OwnersInv, LockStep, UnderLock
  <1>7. PoisonInv'
    BY <1>1, <1>5, ChangePoison DEF OwnersInv
  <1>8. BoxedOnce'
    <2>1. ~Pending(f) /\ Pending(g)
      BY <1>1, <1>2 DEF Pending
    <2> QED
      BY <1>1, <1>3, <1>4, <1>5, <2>1, InsertBoxed
  <1>9. CountInv'
    <2> SUFFICES ASSUME NEW r \in Rules
                 PROVE  /\ refs'[r] = Cardinality(Named(r))' + Cardinality(Held(r))'
                                        + Cardinality(Doomed(r))' + One(status'[r] = "leaked")
                        /\ status'[r] \in {"live", "leaked"} => refs'[r] >= 1
                        /\ status'[r] \in {"unused", "dropped"} => refs'[r] = 0
      BY CountNext
    <2>1. /\ Cardinality(Held(r))' \in Nat /\ Cardinality(Doomed(r))' \in Nat
          /\ Cardinality(Held(r))' + One(g.arc = r) = Cardinality(Held(r)) + One(f.arc = r)
          /\ Cardinality(Doomed(r))' + One(r \in g.old) = Cardinality(Doomed(r)) + One(r \in f.old)
      BY <1>3, <1>5, ChangeHeld
    <2>2. /\ Cardinality(Named(r))' \in Nat
          /\ Cardinality(Named(r))' + One(x = r) = Cardinality(Named(r)) + One(g.arc = r)
      <3>1. registry'[n] = g.arc /\ \A m \in AllNames : m # n => registry'[m] = registry[m]
        BY <1>1, <1>4 DEF TypeOK
      <3>2. /\ Cardinality(Named(r))' \in Nat
            /\ Cardinality(Named(r))' + One(registry[n] = r)
                  = Cardinality(Named(r)) + One(registry'[n] = r)
        BY <1>1, <3>1, ChangeNamed
      <3> QED
        BY <3>1, <3>2 DEF x
    <2>3. One(f.arc = r) = 0 /\ One(r \in g.old) = 0 /\ One(r \in f.old) = One(x = r)
      BY <1>1, <1>2, <1>3, ConstantsAssumption DEF One, Shape
    <2>4. One(x = r) \in Nat /\ One(g.arc = r) \in Nat
      BY DEF One
    <2> QED
      BY <1>1, <1>4, <2>1, <2>2, <2>3, <2>4, CountFact
  <1>10. RemovedInv'
    <2>1. /\ ~Pending(f) /\ Pending(g) /\ <<t, sp[t]>> \in Activations
          /\ \A m \in AllNames : registry'[m] = IF m = n THEN g.arc ELSE registry[m]
      BY <1>1, <1>2, <1>3, <1>4 DEF Pending, Activations, TypeOK
    <2>2. \A m \in AllNames : registry[m] # g.arc
      BY <1>3, <1>4, <2>1 DEF BoxedOnce
    <2>3. ASSUME NEW r \in f.old
          PROVE  /\ \E m \in AllNames : registry[m] = r
                 /\ \A m \in AllNames : registry'[m] # r
      <3>1. r = registry[n] /\ r # NoRule
        BY <1>2 DEF x
      <3> QED
        BY <1>1, <1>4, <2>1, <2>2, <3>1 DEF BoxedOnce
    <2> QED
      BY <1>1, <1>3, <1>4, <1>5, <2>1, <2>3, TakeRemoved DEF OwnersInv
  <1> QED
    BY <1>5, <1>6, <1>7, <1>8, <1>9, <1>10 DEF OwnersInv

(***************************************************************************)
(* Cloning: the call becomes one more owner of the closure it found.       *)
(***************************************************************************)
LEMMA CloneOwners ==
    ASSUME OwnersInv, TypeOK', NEW t \in Threads, CloneRule(t)
    PROVE  OwnersInv'
  <1> DEFINE g == Top(t)
             n == g.name
             x == registry[n]
  <1>1. /\ UNCHANGED <<registry, lock, poisoned, status>> /\ ~poisoned
        /\ g.pc = "locked" /\ g.op = "run" /\ n \in AllNames /\ x \in Rules
        /\ refs' = [refs EXCEPT ![x] = @ + 1]
    BY CloneForm DEF OwnersInv
  <1>2. PICK f \in Frames :
           /\ Moves(t, f) /\ f.pc = "unlock" /\ f.op = g.op
           /\ f.arc = x /\ f.hit = x /\ f.old = g.old
    BY CloneForm DEF OwnersInv
  <1>3. g = frame[t][sp[t]] /\ Shape(g) /\ sp[t] \in Depths
    BY <1>2 DEF OwnersInv, StackInv, Moves, Top
  <1>4. TypeOK /\ BoxedOnce /\ CountInv
    BY DEF OwnersInv
  <1>5. Changes(t, sp[t], f) /\ StackInv'
    <2>1. Shape(f) /\ f.pc # "none"
      BY <1>1, <1>2, <1>3 DEF Shape, Registers
    <2> QED
      BY <1>1, <1>2, <2>1, MovesChange DEF OwnersInv
  <1>6. \E m \in AllNames : registry[m] = x
    BY <1>1
  <1> HIDE DEF g, n, x
  <1>7. HolderInv'
    BY <1>1, <1>2, <1>3, <1>5, ChangeHolder DEF OwnersInv, LockStep, UnderLock
  <1>8. PoisonInv'
    BY <1>1, <1>5, ChangePoison DEF OwnersInv
  <1>9. BoxedOnce'
    <2>1. ~Pending(f)
      BY <1>2 DEF Pending
    <2>2. \A a \in Activations : Pending(frame[a[1]][a[2]]) => frame[a[1]][a[2]].arc # NoRule
      BY DEF OwnersInv, StackInv, Shape, Pending, Activations
    <2> QED
      BY <1>1, <1>4, <1>5, <2>1, <2>2, ChangeBoxed
  <1>10. CountInv'
    <2> SUFFICES ASSUME NEW r \in Rules
                 PROVE  /\ refs'[r] = Cardinality(Named(r))' + Cardinality(Held(r))'
                                        + Cardinality(Doomed(r))' + One(status'[r] = "leaked")
                        /\ status'[r] \in {"live", "leaked"} => refs'[r] >= 1
                        /\ status'[r] \in {"unused", "dropped"} => refs'[r] = 0
      BY CountNext
    <2>1. /\ Cardinality(Held(r))' \in Nat /\ Cardinality(Doomed(r))' \in Nat
          /\ Cardinality(Held(r))' + One(g.arc = r) = Cardinality(Held(r)) + One(f.arc = r)
          /\ Cardinality(Doomed(r))' + One(r \in g.old) = Cardinality(Doomed(r)) + One(r \in f.old)
      BY <1>3, <1>5, ChangeHeld
    <2>2. Cardinality(Named(r))' = Cardinality(Named(r))
      BY <1>1, SameNamed
    <2>3. One(g.arc = r) = 0 /\ One(r \in g.old) \in Nat
      BY <1>1, <1>3, ConstantsAssumption DEF One, Shape, Registers
    <2>4. refs'[r] = refs[r] + One(f.arc = r) /\ One(f.arc = r) \in Nat
      BY <1>1, <1>2, <1>4 DEF One, TypeOK
    <2>5. status[x] \in {"live", "leaked"}
      BY <1>1, <1>4, <1>6, OwnedFact
    <2>6. /\ refs[r] = Cardinality(Named(r)) + Cardinality(Held(r)) + Cardinality(Doomed(r))
                          + One(status[r] = "leaked")
          /\ Cardinality(Named(r)) \in Nat /\ Cardinality(Held(r)) \in Nat
          /\ Cardinality(Doomed(r)) \in Nat /\ refs[r] \in Nat
          /\ status[r] \in {"live", "leaked"} => refs[r] >= 1
          /\ status[r] \in {"unused", "dropped"} => refs[r] = 0
      BY <1>4, CountFact
    <2>7. One(status[r] = "leaked") \in Nat
      BY DEF One
    <2>8. status[r] \in {"unused", "dropped"} => One(f.arc = r) = 0
      BY <1>2, <2>5 DEF One
    <2>9. refs'[r] = Cardinality(Named(r))' + Cardinality(Held(r))'
                        + Cardinality(Doomed(r))' + One(status'[r] = "leaked")
      BY <1>1, <1>2, <2>1, <2>2, <2>3, <2>4, <2>6, <2>7
    <2> QED
      BY <1>1, <2>4, <2>6, <2>8, <2>9
  <1>11. RemovedInv'
    <2>1. ~Pending(f) /\ f.old = g.old
      BY <1>2 DEF Pending
    <2> QED
      BY <1>1, <1>3, <1>5, <2>1, ChangeRemoved DEF OwnersInv
  <1> QED
    BY <1>5, <1>7, <1>8, <1>9, <1>10, <1>11 DEF OwnersInv

(***************************************************************************)
(* Clearing: every closure of the map becomes one the call has to drop.    *)
(***************************************************************************)
LEMMA ClearOwners ==
    ASSUME OwnersInv, TypeOK', NEW t \in Threads, ClearAll(t)
    PROVE  OwnersInv'
  <1> DEFINE g == Top(t)
             o == {registry[n] : n \in AllNames} \ {NoRule}
  <1>1. /\ UNCHANGED <<lock, poisoned, refs, status>> /\ ~poisoned
        /\ g.pc = "locked" /\ g.op = "clear" /\ registry' = [n \in AllNames |-> NoRule]
    BY ClearForm DEF OwnersInv
  <1>2. PICK f \in Frames :
           /\ Moves(t, f) /\ f.pc = "drop_old" /\ f.op = g.op /\ f.arc = g.arc
           /\ f.hit = g.hit /\ f.old = o
    BY ClearForm DEF OwnersInv
  <1>3. g = frame[t][sp[t]] /\ Shape(g) /\ sp[t] \in Depths
    BY <1>2 DEF OwnersInv, StackInv, Moves, Top
  <1>4. TypeOK /\ BoxedOnce /\ CountInv
    BY DEF OwnersInv
  <1> HIDE DEF o
  <1>5. Changes(t, sp[t], f) /\ StackInv'
    <2>1. Shape(f) /\ f.pc # "none"
      BY <1>1, <1>2, <1>3 DEF Shape, Registers
    <2> QED
      BY <1>1, <1>2, <2>1, MovesChange DEF OwnersInv
  <1> HIDE DEF g
  <1>6. HolderInv'
    BY <1>1, <1>2, <1>3, <1>5, ChangeHolder DEF OwnersInv, LockStep, UnderLock
  <1>7. PoisonInv'
    BY <1>1, <1>5, ChangePoison DEF OwnersInv
  <1>8. BoxedOnce'
    <2>1. ~Pending(f)
      BY <1>2 DEF Pending
    <2>2. \A a \in Activations : Pending(frame[a[1]][a[2]]) => frame[a[1]][a[2]].arc # NoRule
      BY DEF OwnersInv, StackInv, Shape, Pending, Activations
    <2>3. \A n \in AllNames : registry'[n] # NoRule => registry'[n] = registry[n]
      BY <1>1
    <2> QED
      BY <1>4, <1>5, <2>1, <2>2, <2>3, ChangeBoxed
  <1>9. CountInv'
    <2> SUFFICES ASSUME NEW r \in Rules
                 PROVE  /\ refs'[r] = Cardinality(Named(r))' + Cardinality(Held(r))'
                                        + Cardinality(Doomed(r))' + One(status'[r] = "leaked")
                        /\ status'[r] \in {"live", "leaked"} => refs'[r] >= 1
                        /\ status'[r] \in {"unused", "dropped"} => refs'[r] = 0
      BY CountNext
    <2>1. /\ Cardinality(Held(r))' \in Nat /\ Cardinality(Doomed(r))' \in Nat
          /\ Cardinality(Held(r))' + One(g.arc = r) = Cardinality(Held(r)) + One(f.arc = r)
          /\ Cardinality(Doomed(r))' + One(r \in g.old) = Cardinality(Doomed(r)) + One(r \in f.old)
      BY <1>3, <1>5, ChangeHeld
    <2>2. Cardinality(Named(r))' = 0 /\ Cardinality(Named(r)) = One(r \in o)
      BY <1>1, <1>4, ClearedNamed DEF o
    <2>3. One(f.arc = r) = One(g.arc = r) /\ One(r \in g.old) = 0 /\ One(r \in f.old) = One(r \in o)
      BY <1>1, <1>2, <1>3 DEF One, Shape
    <2>4. One(g.arc = r) \in Nat
      BY DEF One
    <2> QED
      BY <1>1, <1>4, <2>1, <2>2, <2>3, <2>4, CountFact
  <1>10. RemovedInv'
    <2>1. ~Pending(f)
      BY <1>2 DEF Pending
    <2>2. \A n \in AllNames : registry'[n] = NoRule
      BY <1>1
    <2>3. \A r \in f.old : r # NoRule /\ \E n \in AllNames : registry[n] = r
      BY <1>2 DEF o
    <2> QED
      BY <1>1, <1>4, <1>5, <2>1, <2>2, <2>3, TakeRemoved DEF OwnersInv
  <1> QED
    BY <1>5, <1>6, <1>7, <1>8, <1>9, <1>10 DEF OwnersInv

(***************************************************************************)
(* An owner goes: the count falls, to zero only for the last one.          *)
(***************************************************************************)
LEMMA DropFact ==
    ASSUME CountInv, TypeOK, NEW x \in Rules, DropOwner(x), status[x] \in {"live", "leaked"},
           refs[x] >= 1 + One(status[x] = "leaked"), NEW r \in Rules
    PROVE  /\ refs'[r] = refs[r] - One(x = r)
           /\ One(status'[r] = "leaked") = One(status[r] = "leaked")
           /\ status'[r] = "leaked" => status[r] = "leaked"
           /\ status'[r] \in {"live", "leaked"} => refs'[r] >= 1
           /\ status'[r] \in {"unused", "dropped"} => refs'[r] = 0
  <1>1. /\ refs[r] \in Nat /\ refs[x] \in Nat
        /\ status[r] \in {"live", "leaked"} => refs[r] >= 1
        /\ status[r] \in {"unused", "dropped"} => refs[r] = 0
    BY CountFact
  <1>2. refs' = [refs EXCEPT ![x] = @ - 1]
        /\ status' = IF refs[x] = 1 THEN [status EXCEPT ![x] = "dropped"] ELSE status
    BY DEF DropOwner
  <1>3. status[x] = "leaked" => refs[x] # 1
    BY <1>1 DEF One
  <1>4. refs \in [Rules -> Int] /\ status \in [Rules -> {"unused", "live", "dropped", "leaked"}]
    BY DEF TypeOK
  <1>5. CASE r = x
    <2>1. refs'[r] = refs[r] - 1 /\ One(x = r) = 1
      BY <1>2, <1>4, <1>5 DEF One
    <2>2. CASE refs[x] = 1
      BY <1>2, <1>3, <1>4, <1>5, <2>1, <2>2 DEF One
    <2>3. CASE refs[x] # 1
      <3>1. status' = status /\ refs[r] >= 2
        BY <1>1, <1>2, <1>5, <2>3
      <3> QED
        BY <1>1, <1>5, <2>1, <3>1
    <2> QED
      BY <2>2, <2>3
  <1>6. CASE r # x
    <2>1. refs'[r] = refs[r] /\ One(x = r) = 0 /\ status'[r] = status[r]
      BY <1>2, <1>4, <1>6 DEF One
    <2> QED
      BY <1>1, <2>1
  <1> QED
    BY <1>5, <1>6

LEMMA DropOldOwners ==
    ASSUME OwnersInv, TypeOK', NEW t \in Threads, DropOld(t)
    PROVE  OwnersInv'
  <1> DEFINE g == Top(t)
  <1>1. UNCHANGED <<registry, lock, poisoned>> /\ g.pc = "drop_old"
    BY DropOldForm DEF OwnersInv
  <1>2. PICK f \in Frames, x \in Rules \cap g.old :
           /\ DropOwner(x) /\ Moves(t, f) /\ f.pc \in {"drop_old", "destroy_old"}
           /\ f.op = g.op /\ f.arc = g.arc /\ f.hit = g.hit /\ f.old = g.old \ {x}
    BY DropOldForm DEF OwnersInv
  <1>3. g = frame[t][sp[t]] /\ Shape(g) /\ sp[t] \in Depths
    BY <1>2 DEF OwnersInv, StackInv, Moves, Top
  <1>4. TypeOK /\ BoxedOnce /\ CountInv
    BY DEF OwnersInv
  <1>5. Changes(t, sp[t], f) /\ StackInv'
    <2>1. Shape(f) /\ f.pc # "none"
      BY <1>1, <1>2, <1>3 DEF Shape, Registers
    <2> QED
      BY <1>1, <1>2, <2>1, MovesChange DEF OwnersInv
  <1> HIDE DEF g
  <1>6. ~poisoned
    BY <1>1, <1>3 DEF OwnersInv, PoisonInv
  <1>7. refs[x] >= 1 + One(status[x] = "leaked") /\ status[x] \in {"live", "leaked"}
    <2>1. <<t, sp[t]>> \in Activations /\ x \in frame[<<t, sp[t]>>[1]][<<t, sp[t]>>[2]].old
      BY <1>2, <1>3 DEF Activations
    <2> QED
      BY <1>2, <1>4, <2>1, OwnedFact
  <1>8. HolderInv'
    BY <1>1, <1>2, <1>3, <1>5, ChangeHolder DEF OwnersInv, LockStep, UnderLock
  <1>9. PoisonInv'
    BY <1>1, <1>5, <1>6, ChangePoison DEF OwnersInv
  <1>10. BoxedOnce'
    <2>1. ~Pending(f)
      BY <1>2 DEF Pending
    <2>2. \A a \in Activations : Pending(frame[a[1]][a[2]]) => frame[a[1]][a[2]].arc # NoRule
      BY DEF OwnersInv, StackInv, Shape, Pending, Activations
    <2> QED
      BY <1>1, <1>4, <1>5, <2>1, <2>2, ChangeBoxed
  <1>11. CountInv'
    <2> SUFFICES ASSUME NEW r \in Rules
                 PROVE  /\ refs'[r] = Cardinality(Named(r))' + Cardinality(Held(r))'
                                        + Cardinality(Doomed(r))' + One(status'[r] = "leaked")
                        /\ status'[r] \in {"live", "leaked"} => refs'[r] >= 1
                        /\ status'[r] \in {"unused", "dropped"} => refs'[r] = 0
      BY CountNext
    <2>1. /\ Cardinality(Held(r))' \in Nat /\ Cardinality(Doomed(r))' \in Nat
          /\ Cardinality(Held(r))' + One(g.arc = r) = Cardinality(Held(r)) + One(f.arc = r)
          /\ Cardinality(Doomed(r))' + One(r \in g.old) = Cardinality(Doomed(r)) + One(r \in f.old)
      BY <1>3, <1>5, ChangeHeld
    <2>2. Cardinality(Named(r))' = Cardinality(Named(r))
      BY <1>1, SameNamed
    <2>3. /\ refs'[r] = refs[r] - One(x = r)
          /\ One(status'[r] = "leaked") = One(status[r] = "leaked")
          /\ status'[r] \in {"live", "leaked"} => refs'[r] >= 1
          /\ status'[r] \in {"unused", "dropped"} => refs'[r] = 0
      BY <1>2, <1>4, <1>7, DropFact
    <2>4. One(f.arc = r) = One(g.arc = r) /\ One(r \in g.old) = One(r \in f.old) + One(x = r)
      BY <1>2 DEF One
    <2>5. /\ One(g.arc = r) \in Nat /\ One(r \in f.old) \in Nat /\ One(x = r) \in Nat
          /\ One(status[r] = "leaked") \in Nat
      BY DEF One
    <2>6. refs'[r] = Cardinality(Named(r))' + Cardinality(Held(r))'
                        + Cardinality(Doomed(r))' + One(status'[r] = "leaked")
      BY <1>4, <2>1, <2>2, <2>3, <2>4, <2>5, CountFact
    <2> QED
      BY <2>3, <2>6
  <1>12. RemovedInv'
    <2>1. ~Pending(f) /\ f.old \subseteq g.old
      BY <1>2 DEF Pending
    <2>2. \A r \in Rules : status'[r] = "leaked" => status[r] = "leaked"
      BY <1>2, <1>4, <1>7, DropFact
    <2> QED
      BY <1>1, <1>3, <1>5, <2>1, <2>2, ChangeRemoved DEF OwnersInv
  <1> QED
    BY <1>5, <1>8, <1>9, <1>10, <1>11, <1>12 DEF OwnersInv

LEMMA ReleaseOwners ==
    ASSUME OwnersInv, TypeOK', NEW t \in Threads, Release(t), Top(t).arc # NoRule
    PROVE  OwnersInv'
  <1> DEFINE g == Top(t)
             x == g.arc
  <1>1. UNCHANGED <<registry, lock, poisoned>> /\ g.pc = "release" /\ x \in Rules /\ DropOwner(x)
    BY ReleaseForm DEF OwnersInv
  <1>2. PICK f \in Frames :
           /\ Moves(t, f) /\ f.pc \in {"destroy", "return"}
           /\ f.op = g.op /\ f.arc = NoRule /\ f.hit = g.hit /\ f.old = g.old
    BY ReleaseForm DEF OwnersInv
  <1>3. g = frame[t][sp[t]] /\ Shape(g) /\ sp[t] \in Depths
    BY <1>2 DEF OwnersInv, StackInv, Moves, Top
  <1>4. TypeOK /\ BoxedOnce /\ CountInv
    BY DEF OwnersInv
  <1>5. Changes(t, sp[t], f) /\ StackInv'
    <2>1. Shape(f) /\ f.pc # "none"
      BY <1>1, <1>2, <1>3 DEF Shape, Registers
    <2> QED
      BY <1>1, <1>2, <2>1, MovesChange DEF OwnersInv
  <1>6. refs[x] >= 1 + One(status[x] = "leaked") /\ status[x] \in {"live", "leaked"}
    <2>1. <<t, sp[t]>> \in Activations /\ x = frame[<<t, sp[t]>>[1]][<<t, sp[t]>>[2]].arc
      BY <1>2, <1>3 DEF Activations
    <2> QED
      BY <1>1, <1>4, <2>1, OwnedFact
  <1> HIDE DEF g
  <1>7. HolderInv'
    BY <1>1, <1>2, <1>3, <1>5, ChangeHolder DEF OwnersInv, LockStep, UnderLock
  <1>8. PoisonInv'
    <2>1. ~Busy(f)
      BY <1>2 DEF Busy
    <2> QED
      BY <1>1, <1>5, <2>1, ChangePoison DEF OwnersInv
  <1>9. BoxedOnce'
    <2>1. ~Pending(f)
      BY <1>2 DEF Pending
    <2>2. \A a \in Activations : Pending(frame[a[1]][a[2]]) => frame[a[1]][a[2]].arc # NoRule
      BY DEF OwnersInv, StackInv, Shape, Pending, Activations
    <2> QED
      BY <1>1, <1>4, <1>5, <2>1, <2>2, ChangeBoxed
  <1>10. CountInv'
    <2> SUFFICES ASSUME NEW r \in Rules
                 PROVE  /\ refs'[r] = Cardinality(Named(r))' + Cardinality(Held(r))'
                                        + Cardinality(Doomed(r))' + One(status'[r] = "leaked")
                        /\ status'[r] \in {"live", "leaked"} => refs'[r] >= 1
                        /\ status'[r] \in {"unused", "dropped"} => refs'[r] = 0
      BY CountNext
    <2>1. /\ Cardinality(Held(r))' \in Nat /\ Cardinality(Doomed(r))' \in Nat
          /\ Cardinality(Held(r))' + One(x = r) = Cardinality(Held(r)) + One(f.arc = r)
          /\ Cardinality(Doomed(r))' + One(r \in g.old) = Cardinality(Doomed(r)) + One(r \in f.old)
      BY <1>3, <1>5, ChangeHeld
    <2>2. Cardinality(Named(r))' = Cardinality(Named(r))
      BY <1>1, SameNamed
    <2>3. /\ refs'[r] = refs[r] - One(x = r)
          /\ One(status'[r] = "leaked") = One(status[r] = "leaked")
          /\ status'[r] \in {"live", "leaked"} => refs'[r] >= 1
          /\ status'[r] \in {"unused", "dropped"} => refs'[r] = 0
      BY <1>1, <1>4, <1>6, DropFact
    <2>4. One(f.arc = r) = 0 /\ One(r \in g.old) = One(r \in f.old)
      BY <1>2, ConstantsAssumption DEF One
    <2>5. /\ One(r \in g.old) \in Nat /\ One(x = r) \in Nat
          /\ One(status[r] = "leaked") \in Nat
      BY DEF One
    <2>6. refs'[r] = Cardinality(Named(r))' + Cardinality(Held(r))'
                        + Cardinality(Doomed(r))' + One(status'[r] = "leaked")
      BY <1>4, <2>1, <2>2, <2>3, <2>4, <2>5, CountFact
    <2> QED
      BY <2>3, <2>6
  <1>11. RemovedInv'
    <2>1. ~Pending(f) /\ f.old = g.old
      BY <1>2 DEF Pending
    <2>2. \A r \in Rules : status'[r] = "leaked" => status[r] = "leaked"
      BY <1>1, <1>4, <1>6, DropFact
    <2> QED
      BY <1>1, <1>3, <1>5, <2>1, <2>2, ChangeRemoved DEF OwnersInv
  <1> QED
    BY <1>5, <1>7, <1>8, <1>9, <1>10, <1>11 DEF OwnersInv

(***************************************************************************)
(* A panic under the lock: what the call had still to drop is leaked, and  *)
(* keeps a count nobody will ever bring down.                              *)
(***************************************************************************)
LEMMA PanicOwners ==
    ASSUME OwnersInv, TypeOK', NEW t \in Threads, DestructorPanicsUnderLock(t)
    PROVE  OwnersInv'
  <1> DEFINE g == Top(t)
  <1>1. /\ UNCHANGED <<registry, refs>> /\ lock' = Free
        /\ g.pc = "destroy_old"
        /\ status' = [r \in Rules |-> IF r \in g.old THEN "leaked" ELSE status[r]]
    BY PanicForm DEF OwnersInv
  <1>2. PICK f \in Frames :
           /\ Moves(t, f) /\ f.pc = "release" /\ f.op = g.op
           /\ f.arc = g.arc /\ f.hit = g.hit /\ f.old = {}
    BY PanicForm DEF OwnersInv
  <1>3. g = frame[t][sp[t]] /\ Shape(g) /\ sp[t] \in Depths
    BY <1>2 DEF OwnersInv, StackInv, Moves, Top
  <1>4. TypeOK /\ BoxedOnce /\ CountInv
    BY DEF OwnersInv
  <1>5. Changes(t, sp[t], f) /\ StackInv'
    <2>1. Shape(f) /\ f.pc # "none"
      BY <1>1, <1>2, <1>3 DEF Shape, Registers
    <2> QED
      BY <1>1, <1>2, <2>1, MovesChange DEF OwnersInv
  <1> HIDE DEF g
  <1>6. <<t, sp[t]>> \in Activations /\ \A r \in g.old \cap Rules : status[r] # "leaked"
    <2>1. <<t, sp[t]>> \in Activations
      BY <1>3 DEF Activations
    <2> QED
      BY <1>3, <2>1 DEF OwnersInv, RemovedInv
  <1>7. HolderInv'
    BY <1>1, <1>2, <1>3, <1>5, ChangeHolder DEF OwnersInv, LockStep, UnderLock
  <1>8. \A u \in Threads : \A d \in Depths : frame'[u][d].pc \notin UnderLock
    BY <1>1, <1>7, ConstantsAssumption DEF HolderInv
  <1>9. PoisonInv'
    <2>1. ASSUME NEW u \in Threads, NEW d \in Depths,
                 \/ frame'[u][d].pc = "unlock" /\ frame'[u][d].hit # NoRule
                 \/ frame'[u][d].pc \in {"drop_old", "destroy_old"}
          PROVE  FALSE
      BY <1>8, <2>1 DEF UnderLock
    <2> QED
      BY <2>1 DEF PoisonInv
  <1>10. BoxedOnce'
    <2>1. ~Pending(f)
      BY <1>2 DEF Pending
    <2>2. \A a \in Activations : Pending(frame[a[1]][a[2]]) => frame[a[1]][a[2]].arc # NoRule
      BY DEF OwnersInv, StackInv, Shape, Pending, Activations
    <2> QED
      BY <1>1, <1>4, <1>5, <2>1, <2>2, ChangeBoxed
  <1>11. CountInv'
    <2> SUFFICES ASSUME NEW r \in Rules
                 PROVE  /\ refs'[r] = Cardinality(Named(r))' + Cardinality(Held(r))'
                                        + Cardinality(Doomed(r))' + One(status'[r] = "leaked")
                        /\ status'[r] \in {"live", "leaked"} => refs'[r] >= 1
                        /\ status'[r] \in {"unused", "dropped"} => refs'[r] = 0
      BY CountNext
    <2>1. /\ Cardinality(Held(r))' \in Nat /\ Cardinality(Doomed(r))' \in Nat
          /\ Cardinality(Held(r))' + One(g.arc = r) = Cardinality(Held(r)) + One(f.arc = r)
          /\ Cardinality(Doomed(r))' + One(r \in g.old) = Cardinality(Doomed(r)) + One(r \in f.old)
      BY <1>3, <1>5, ChangeHeld
    <2>2. Cardinality(Named(r))' = Cardinality(Named(r))
      BY <1>1, SameNamed
    <2>3. /\ One(f.arc = r) = One(g.arc = r) /\ One(r \in f.old) = 0
          /\ One(status'[r] = "leaked") = One(status[r] = "leaked") + One(r \in g.old)
      BY <1>1, <1>2, <1>6 DEF One
    <2>4. /\ One(g.arc = r) \in Nat /\ One(r \in g.old) \in Nat
          /\ One(status[r] = "leaked") \in Nat
      BY DEF One
    <2>5. refs'[r] = Cardinality(Named(r))' + Cardinality(Held(r))'
                        + Cardinality(Doomed(r))' + One(status'[r] = "leaked")
      BY <1>1, <1>4, <2>1, <2>2, <2>3, <2>4, CountFact
    <2>6. CASE r \in g.old
      <3>1. r \in frame[<<t, sp[t]>>[1]][<<t, sp[t]>>[2]].old
        BY <1>3, <2>6
      <3>2. status[r] \in {"live", "leaked"}
        BY <1>4, <1>6, <3>1, OwnedFact
      <3>3. refs[r] >= 1
        BY <1>4, <3>2, CountFact
      <3> QED
        BY <1>1, <2>5, <2>6, <3>3
    <2>7. CASE r \notin g.old
      <3>1. status'[r] = status[r]
        BY <1>1, <2>7
      <3> QED
        BY <1>1, <1>4, <2>5, <3>1, CountFact
    <2> QED
      BY <2>6, <2>7
  <1>12. RemovedInv'
    <2> SUFFICES ASSUME NEW r \in Rules
                 PROVE  /\ Removed(r)' =>
                              /\ \A n \in AllNames : registry'[n] # r
                              /\ \A a \in Activations :
                                    Pending(frame'[a[1]][a[2]]) => frame'[a[1]][a[2]].arc # r
                        /\ status'[r] = "leaked" =>
                              \A a \in Activations : r \notin frame'[a[1]][a[2]].old
      BY DEF RemovedInv, Pending, Registers
    <2>1. ASSUME NEW a \in Activations PROVE frame'[a[1]][a[2]].old = {}
      <3>1. a[1] \in Threads /\ a[2] \in Depths
        BY DEF Activations
      <3> QED
        BY <1>5, <1>8, <3>1 DEF StackInv, Shape, UnderLock
    <2>2. Removed(r)' => Removed(r)
      <3>1. r \in g.old => r \in frame[<<t, sp[t]>>[1]][<<t, sp[t]>>[2]].old
        BY <1>3
      <3>2. Removed(r)' => status'[r] = "leaked"
        BY <2>1 DEF Removed, Activations
      <3> QED
        BY <1>1, <1>6, <3>1, <3>2 DEF Removed
    <2>3. ASSUME NEW a \in Activations, Pending(frame'[a[1]][a[2]])
          PROVE  frame'[a[1]][a[2]] = frame[a[1]][a[2]]
      <3>1. ~Pending(f)
        BY <1>2 DEF Pending
      <3> QED
        BY <1>5, <2>3, <3>1, ChangeActivations
    <2> QED
      BY <1>1, <2>1, <2>2, <2>3 DEF OwnersInv, RemovedInv
  <1> QED
    BY <1>5, <1>7, <1>9, <1>10, <1>11, <1>12 DEF OwnersInv

(***************************************************************************)
(* A call begins, owning nothing or a closure boxed for it.                *)
(***************************************************************************)
LEMMA CallOwners ==
    ASSUME OwnersInv, TypeOK', NEW t \in Threads, HostCall(t)
    PROVE  OwnersInv'
  <1>1. UNCHANGED <<registry, lock, poisoned>> /\ InUserCode(t)
    BY CallForm DEF OwnersInv
  <1>2. PICK f \in Frames : /\ Begins(t, f) /\ BeginsOwning(f) /\ Shape(f)
                            /\ f.pc \in {"wait", "release", "return"}
                            /\ f.old = {} /\ f.hit = NoRule
    BY CallForm DEF OwnersInv
  <1>3. Changes(t, sp[t] + 1, f) /\ frame[t][sp[t] + 1] = NoFrame /\ StackInv'
    BY <1>1, <1>2, BeginsChange DEF OwnersInv
  <1>4. TypeOK /\ BoxedOnce /\ CountInv
    BY DEF OwnersInv
  <1>5. HolderInv'
    <2>1. LockStep(t, frame[t][sp[t] + 1], f)
      BY <1>1, <1>2, <1>3, NoFrameFact DEF LockStep, UnderLock
    <2> QED
      BY <1>3, <2>1, ChangeHolder DEF OwnersInv
  <1>6. PoisonInv'
    <2>1. ~Busy(f)
      BY <1>2 DEF Busy
    <2> QED
      BY <1>1, <1>3, <2>1, ChangePoison DEF OwnersInv
  <1>7. RemovedInv'
    <2>1. \A r \in Rules : status'[r] = "leaked" => status[r] = "leaked"
      BY <1>2, <1>4 DEF BeginsOwning, BoxClosure, TypeOK
    <2>2. Pending(f) => \A r \in Rules : Removed(r) => f.arc # r
      <3> SUFFICES ASSUME Pending(f), NEW r \in Rules, Removed(r), f.arc = r PROVE FALSE
        OBVIOUS
      <3>1. status[r] = "unused"
        BY <1>2, ConstantsAssumption DEF BeginsOwning, BoxClosure
      <3>2. \E a \in Activations : r \in frame[a[1]][a[2]].old
        BY <3>1 DEF Removed
      <3> QED
        BY <1>4, <3>1, <3>2, OwnedFact
    <2> QED
      BY <1>1, <1>2, <1>3, <2>1, <2>2, ChangeRemoved DEF OwnersInv
  <1>8. CASE f.arc = NoRule /\ UNCHANGED <<refs, status>>
    <2>1. BoxedOnce'
      <3>1. ~Pending(f)
        BY <1>2, <1>8 DEF Pending, Shape
      <3>2. \A a \in Activations : Pending(frame[a[1]][a[2]]) => frame[a[1]][a[2]].arc # NoRule
        BY DEF OwnersInv, StackInv, Shape, Pending, Activations
      <3> QED
        BY <1>1, <1>3, <1>4, <3>1, <3>2, ChangeBoxed
    <2>2. CountInv'
      <3> SUFFICES ASSUME NEW r \in Rules
                   PROVE  /\ refs'[r] = Cardinality(Named(r))' + Cardinality(Held(r))'
                                          + Cardinality(Doomed(r))' + One(status'[r] = "leaked")
                          /\ status'[r] \in {"live", "leaked"} => refs'[r] >= 1
                          /\ status'[r] \in {"unused", "dropped"} => refs'[r] = 0
        BY CountNext
      <3>1. /\ Cardinality(Held(r))' \in Nat /\ Cardinality(Doomed(r))' \in Nat
            /\ Cardinality(Held(r))' + One(NoFrame.arc = r) = Cardinality(Held(r)) + One(f.arc = r)
            /\ Cardinality(Doomed(r))' + One(r \in NoFrame.old)
                 = Cardinality(Doomed(r)) + One(r \in f.old)
        BY <1>3, ChangeHeld
      <3>2. Cardinality(Named(r))' = Cardinality(Named(r))
        BY <1>1, SameNamed
      <3>3. One(NoFrame.arc = r) = One(f.arc = r) /\ One(r \in NoFrame.old) = One(r \in f.old)
        BY <1>2, <1>8, NoFrameFact DEF One
      <3>4. One(f.arc = r) \in Nat /\ One(r \in f.old) \in Nat
        BY DEF One
      <3> QED
        BY <1>4, <1>8, <3>1, <3>2, <3>3, <3>4, CountFact
    <2> QED
      BY <1>3, <1>5, <1>6, <1>7, <2>1, <2>2 DEF OwnersInv
  <1>9. CASE f.arc \in Rules /\ BoxClosure(f.arc)
    <2> DEFINE x == f.arc
    <2>1. /\ x \in Rules /\ status[x] = "unused" /\ refs[x] = 0
          /\ status' = [status EXCEPT ![x] = "live"] /\ refs' = [refs EXCEPT ![x] = 1]
      BY <1>4, <1>9, CountFact DEF BoxClosure
    <2>2. /\ \A n \in AllNames : registry[n] # x
          /\ \A a \in Activations : frame[a[1]][a[2]].arc # x
      BY <1>4, <2>1, OwnedFact
    <2>3. BoxedOnce'
      BY <1>1, <1>3, <1>4, <2>2, BeginBoxed
    <2> HIDE DEF x
    <2>4. CountInv'
      <3> SUFFICES ASSUME NEW r \in Rules
                   PROVE  /\ refs'[r] = Cardinality(Named(r))' + Cardinality(Held(r))'
                                          + Cardinality(Doomed(r))' + One(status'[r] = "leaked")
                          /\ status'[r] \in {"live", "leaked"} => refs'[r] >= 1
                          /\ status'[r] \in {"unused", "dropped"} => refs'[r] = 0
        BY CountNext
      <3>1. /\ Cardinality(Held(r))' \in Nat /\ Cardinality(Doomed(r))' \in Nat
            /\ Cardinality(Held(r))' + One(NoFrame.arc = r) = Cardinality(Held(r)) + One(x = r)
            /\ Cardinality(Doomed(r))' + One(r \in NoFrame.old)
                 = Cardinality(Doomed(r)) + One(r \in f.old)
        BY <1>3, ChangeHeld DEF x
      <3>2. Cardinality(Named(r))' = Cardinality(Named(r))
        BY <1>1, SameNamed
      <3>3. One(NoFrame.arc = r) = 0 /\ One(r \in NoFrame.old) = 0 /\ One(r \in f.old) = 0
        BY <1>2, NoFrameFact, ConstantsAssumption DEF One
      <3>4. /\ One(x = r) \in Nat /\ One(status[r] = "leaked") \in Nat
            /\ One(status'[r] = "leaked") = One(status[r] = "leaked")
            /\ refs'[r] = refs[r] + One(x = r)
        BY <1>4, <2>1 DEF One, TypeOK
      <3>5. refs'[r] = Cardinality(Named(r))' + Cardinality(Held(r))'
                          + Cardinality(Doomed(r))' + One(status'[r] = "leaked")
        BY <1>4, <3>1, <3>2, <3>3, <3>4, CountFact
      <3>6. /\ status'[r] \in {"live", "leaked"} => refs'[r] >= 1
            /\ status'[r] \in {"unused", "dropped"} => refs'[r] = 0
        <4>1. CASE r = x
          BY <1>4, <2>1, <4>1 DEF TypeOK
        <4>2. CASE r # x
          <5>1. refs'[r] = refs[r] /\ status'[r] = status[r]
            BY <1>4, <2>1, <4>2 DEF TypeOK
          <5> QED
            BY <1>4, <5>1, CountFact
        <4> QED
          BY <4>1, <4>2
      <3> QED
        BY <3>5, <3>6
    <2> QED
      BY <1>3, <1>5, <1>6, <1>7, <2>3, <2>4 DEF OwnersInv
  <1> QED
    BY <1>2, <1>8, <1>9 DEF BeginsOwning

(***************************************************************************)
(* And comes back, owning nothing.                                         *)
(***************************************************************************)
LEMMA ReturnOwners ==
    ASSUME OwnersInv, TypeOK', NEW t \in Threads, Return(t)
    PROVE  OwnersInv'
  <1> DEFINE g == Top(t)
  <1>1. UNCHANGED <<registry, lock, poisoned, refs, status>> /\ Ends(t) /\ g.pc = "return"
    BY ReturnForm DEF OwnersInv
  <1>2. Changes(t, sp[t], NoFrame) /\ StackInv'
    BY <1>1, EndsChange DEF OwnersInv
  <1>3. g = frame[t][sp[t]] /\ Shape(g) /\ sp[t] \in Depths
    BY <1>1 DEF OwnersInv, StackInv, Ends, Top
  <1>4. TypeOK /\ BoxedOnce /\ CountInv
    BY DEF OwnersInv
  <1> HIDE DEF g
  <1>5. HolderInv'
    BY <1>1, <1>2, <1>3, NoFrameFact, ChangeHolder DEF OwnersInv, LockStep, UnderLock
  <1>6. PoisonInv'
    BY <1>1, <1>2, NoFrameFact, ChangePoison DEF OwnersInv, Busy
  <1>7. BoxedOnce'
    <2>1. ~Pending(NoFrame)
      BY NoFrameFact DEF Pending
    <2>2. \A a \in Activations : Pending(frame[a[1]][a[2]]) => frame[a[1]][a[2]].arc # NoRule
      BY DEF OwnersInv, StackInv, Shape, Pending, Activations
    <2> QED
      BY <1>1, <1>2, <1>4, <2>1, <2>2, ChangeBoxed
  <1>8. CountInv'
    <2> SUFFICES ASSUME NEW r \in Rules
                 PROVE  /\ refs'[r] = Cardinality(Named(r))' + Cardinality(Held(r))'
                                        + Cardinality(Doomed(r))' + One(status'[r] = "leaked")
                        /\ status'[r] \in {"live", "leaked"} => refs'[r] >= 1
                        /\ status'[r] \in {"unused", "dropped"} => refs'[r] = 0
      BY CountNext
    <2>1. /\ Cardinality(Held(r))' \in Nat /\ Cardinality(Doomed(r))' \in Nat
          /\ Cardinality(Held(r))' + One(g.arc = r) = Cardinality(Held(r)) + One(NoFrame.arc = r)
          /\ Cardinality(Doomed(r))' + One(r \in g.old)
               = Cardinality(Doomed(r)) + One(r \in NoFrame.old)
      BY <1>2, <1>3, ChangeHeld
    <2>2. Cardinality(Named(r))' = Cardinality(Named(r))
      BY <1>1, SameNamed
    <2>3. /\ One(g.arc = r) = 0 /\ One(NoFrame.arc = r) = 0
          /\ One(r \in g.old) = 0 /\ One(r \in NoFrame.old) = 0
      BY <1>1, <1>3, NoFrameFact, ConstantsAssumption DEF One, Shape
    <2> QED
      BY <1>1, <1>4, <2>1, <2>2, <2>3, CountFact
  <1>9. RemovedInv'
    <2>1. ~Pending(NoFrame) /\ NoFrame.old = {}
      BY NoFrameFact DEF Pending
    <2> QED
      BY <1>1, <1>2, <2>1, ChangeRemoved DEF OwnersInv
  <1> QED
    BY <1>2, <1>5, <1>6, <1>7, <1>8, <1>9 DEF OwnersInv

LEMMA NextOwners == OwnersInv /\ [Next]_vars => OwnersInv'
  <1> SUFFICES ASSUME OwnersInv, [Next]_vars PROVE OwnersInv'
    OBVIOUS
  <1>1. TypeOK'
    BY NextType DEF OwnersInv
  <1>2. CASE UNCHANGED vars
    <2>1. StackInv' /\ HolderInv' /\ PoisonInv'
      BY <1>2 DEF vars, OwnersInv, TypeOK, StackInv, Shape, Registers, HolderInv, PoisonInv
    <2>2. BoxedOnce' /\ RemovedInv'
      BY <1>2 DEF vars, OwnersInv, BoxedOnce, RemovedInv, Removed, Pending
    <2>3. CountInv'
      BY <1>2 DEF vars, OwnersInv, CountInv, RefsCountOwners, Owners, Activations
    <2> QED
      BY <1>1, <2>1, <2>2, <2>3 DEF OwnersInv
  <1>3. ASSUME NEW t \in Threads, HostCall(t) \/ LibraryStep(t) \/ UserStep(t)
        PROVE  OwnersInv'
    <2>1. \/ HostCall(t) \/ KeepingStep(t) \/ Insert(t) \/ CloneRule(t) \/ ClearAll(t)
          \/ DropOld(t) \/ (Release(t) /\ Top(t).arc # NoRule) \/ Return(t)
          \/ DestructorPanicsUnderLock(t)
      BY <1>3 DEF LibraryStep, UserStep, KeepingStep
    <2> QED
      BY <1>1, <2>1, CallOwners, KeepingOwners, InsertOwners, CloneOwners, ClearOwners,
         DropOldOwners, ReleaseOwners, ReturnOwners, PanicOwners
  <1> QED
    BY <1>2, <1>3 DEF Next, Quiesced

LEMMA InitOwners == Init => OwnersInv
  <1> SUFFICES ASSUME Init PROVE OwnersInv
    OBVIOUS
  <1>1. TypeOK
    BY InitType
  <1>2. /\ \A t \in Threads : sp[t] = 0 /\ \A d \in Depths : frame[t][d] = NoFrame
        /\ \A n \in AllNames : registry[n] = NoRule
        /\ \A r \in Rules : refs[r] = 0 /\ status[r] = "unused" /\ r # NoRule
        /\ lock \notin Threads /\ ~poisoned
    BY ConstantsAssumption DEF Init
  <1>3. StackInv
    BY <1>2, NoFrameFact, ConstantsAssumption DEF StackInv, Depths
  <1>4. HolderInv
    BY <1>2, NoFrameFact DEF HolderInv, UnderLock
  <1>5. PoisonInv
    BY <1>2 DEF PoisonInv
  <1>6. \A a \in Activations : frame[a[1]][a[2]] = NoFrame
    BY <1>2 DEF Activations
  <1>7. BoxedOnce
    BY <1>2, <1>6, NoFrameFact DEF BoxedOnce, Pending
  <1>8. CountInv
    <2>1. ASSUME NEW r \in Rules PROVE Owners(r) = 0
      <3>1. Named(r) = {} /\ Held(r) = {} /\ Doomed(r) = {}
        BY <1>2, <1>6, NoFrameFact DEF Named, Held, Doomed
      <3>2. Cardinality(Named(r)) = 0 /\ Cardinality(Held(r)) = 0 /\ Cardinality(Doomed(r)) = 0
        BY <3>1, FS_EmptySet
      <3> QED
        BY <3>2, OwnersFact
    <2> QED
      BY <1>2, <2>1 DEF CountInv, RefsCountOwners
  <1>9. RemovedInv
    BY <1>2, <1>6, NoFrameFact DEF RemovedInv, Removed
  <1> QED
    BY <1>1, <1>3, <1>4, <1>5, <1>7, <1>8, <1>9 DEF OwnersInv

(***************************************************************************)
(* The ownership of the registry is right in every reachable state.        *)
(***************************************************************************)
THEOREM OwnersAlways == Spec => []OwnersInv
  BY InitOwners, NextOwners, PTL DEF Spec

(***************************************************************************)
(* The Arc counts are right: each closure has as many counted owners as    *)
(* there are map entries, calls executing it and calls about to drop it    *)
(* (rule.rs:101-112), destructors that panic under the lock included.      *)
(***************************************************************************)
THEOREM CountsAreRight == Spec => []RefsCountOwners
  <1>1. OwnersInv => RefsCountOwners
    BY DEF OwnersInv, CountInv
  <1> QED
    BY <1>1, OwnersAlways, PTL

(***************************************************************************)
(* A rule that a call is about to run or running, and every rule in the    *)
(* map, has not been dropped, whatever other threads and nested calls      *)
(* replace or clear (rule.rs:28-30).                                       *)
(***************************************************************************)
THEOREM RulesOutliveTheirCalls == Spec => []NoUseAfterDrop
  <1>1. OwnersInv => NoUseAfterDrop
    <2> SUFFICES ASSUME OwnersInv PROVE NoUseAfterDrop
      OBVIOUS
    <2>1. ASSUME NEW a \in Activations, frame[a[1]][a[2]].pc \in {"unlock", "callback"},
                 frame[a[1]][a[2]].hit # NoRule
          PROVE  /\ frame[a[1]][a[2]].arc = frame[a[1]][a[2]].hit
                 /\ status[frame[a[1]][a[2]].hit] \in {"live", "leaked"}
      <3> DEFINE f == frame[a[1]][a[2]]
      <3>1. Shape(f) /\ f \in Frames
        BY DEF OwnersInv, StackInv, TypeOK, Activations
      <3>2. f.arc = f.hit /\ f.hit \in Rules
        BY <2>1, <3>1 DEF Shape, Frames, MaybeRule
      <3> QED
        BY <3>2, OwnedFact DEF OwnersInv
    <2>2. ASSUME NEW n \in AllNames, registry[n] # NoRule
          PROVE  status[registry[n]] \in {"live", "leaked"}
      <3>1. registry[n] \in Rules
        BY <2>2 DEF OwnersInv, TypeOK, MaybeRule
      <3> QED
        BY <3>1, OwnedFact DEF OwnersInv
    <2> QED
      BY <2>1, <2>2 DEF NoUseAfterDrop
  <1> QED
    BY <1>1, OwnersAlways, PTL

(***************************************************************************)
(* When no call is in progress every closure alive is under some name:     *)
(* replacing, clearing and failing to register free the others.            *)
(***************************************************************************)
THEOREM IdleRegistryLeaksNothing == Spec => []NothingLeaks
  <1>1. OwnersInv => NothingLeaks
    <2> SUFFICES ASSUME OwnersInv, \A t \in Threads : sp[t] = 0, NEW r \in Rules,
                        status[r] = "live"
                 PROVE  \E n \in AllNames : registry[n] = r
      BY DEF NothingLeaks
    <2>1. \A a \in Activations : frame[a[1]][a[2]] = NoFrame
      <3> SUFFICES ASSUME NEW a \in Activations PROVE frame[a[1]][a[2]] = NoFrame
        OBVIOUS
      <3>1. a[1] \in Threads /\ a[2] \in Depths /\ a[2] > sp[a[1]]
        BY ConstantsAssumption DEF Activations, Depths
      <3> QED
        BY <3>1 DEF OwnersInv, StackInv
    <2>2. Held(r) = {} /\ Doomed(r) = {}
      BY <2>1, NoFrameFact, ConstantsAssumption DEF Held, Doomed
    <2>3. Cardinality(Held(r)) = 0 /\ Cardinality(Doomed(r)) = 0
      BY <2>2, FS_EmptySet
    <2>4. /\ Cardinality(Named(r)) \in Nat /\ refs[r] >= 1
          /\ refs[r] = Cardinality(Named(r)) + Cardinality(Held(r)) + Cardinality(Doomed(r))
                          + One(status[r] = "leaked")
      BY CountFact DEF OwnersInv
    <2>5. Cardinality(Named(r)) # 0
      BY <2>3, <2>4 DEF One
    <2>6. Named(r) # {}
      BY <2>5, FS_EmptySet
    <2> QED
      BY <2>6 DEF Named
  <1> QED
    BY <1>1, OwnersAlways, PTL

(***************************************************************************)
(* A thread that waits for the Mutex it owns is, at some depth, inside the *)
(* destructor of a rule that was replaced or cleared: nothing else a rule  *)
(* does can deadlock (rule.rs:28-30).                                      *)
(***************************************************************************)
THEOREM DeadlockComesFromDestructors == Spec => []OnlyDestructorsDeadlock
  <1>1. OwnersInv => OnlyDestructorsDeadlock
    <2> SUFFICES ASSUME OwnersInv, NEW t \in Threads, At(t, "wait"), lock = t
                 PROVE  \E d \in Depths : d < sp[t] /\ frame[t][d].pc = "destroy_old"
      BY DEF OnlyDestructorsDeadlock
    <2>1. PICK d \in Depths : frame[t][d].pc \in UnderLock
      BY DEF OwnersInv, HolderInv
    <2>2. d # sp[t]
      BY <2>1 DEF At, Top, UnderLock
    <2>3. ~(d > sp[t])
      BY <2>1, NoFrameFact DEF OwnersInv, StackInv, UnderLock
    <2>4. d \in Nat /\ sp[t] \in Nat
      BY ConstantsAssumption DEF OwnersInv, TypeOK, Depths
    <2>5. d < sp[t]
      BY <2>2, <2>3, <2>4
    <2>6. frame[t][d].pc \in UserCode
      BY <2>5 DEF OwnersInv, StackInv
    <2> QED
      BY <2>1, <2>5, <2>6 DEF UserCode, UnderLock
  <1> QED
    BY <1>1, OwnersAlways, PTL

(***************************************************************************)
(* Once the Mutex is poisoned the map never changes and no call reaches a  *)
(* rule, for good.                                                         *)
(***************************************************************************)
THEOREM PoisonIsFinal == Spec => PoisonStopsRules
  <1> DEFINE Frozen ==
               poisoned => /\ registry' = registry
                           /\ \A t \in Threads : At(t, "callback")' =>
                                 At(t, "callback") \/ sp'[t] < sp[t]
  <1>1. OwnersInv /\ [Next]_vars => [Frozen]_vars
    <2> SUFFICES ASSUME OwnersInv, NEW s \in Threads, poisoned,
                        HostCall(s) \/ LibraryStep(s) \/ UserStep(s)
                 PROVE  Frozen
      BY DEF Next, Quiesced
    <2>1. \/ HostCall(s) \/ KeepingStep(s)
          \/ DropOld(s) \/ (Release(s) /\ Top(s).arc # NoRule) \/ Return(s)
          \/ DestructorPanicsUnderLock(s)
      BY DEF LibraryStep, UserStep, KeepingStep, Insert, CloneRule, ClearAll
    <2>2. registry' = registry
      BY <2>1, CallForm, KeepingForm, DropOldForm, ReleaseForm, ReturnForm, PanicForm
         DEF OwnersInv
    <2>3. CASE \E f \in Frames : Moves(s, f) /\ f.pc # "callback"
      BY <2>2, <2>3, SMTT(30) DEF Moves, At, Top, OwnersInv, TypeOK, Depths
    <2>4. CASE \E f \in Frames : Begins(s, f) /\ f.pc # "callback"
      BY <2>2, <2>4 DEF Begins, At, Top, OwnersInv, TypeOK, Depths
    <2>5. CASE Ends(s)
      BY <2>2, <2>5 DEF Ends, At, Top, OwnersInv, TypeOK, Depths
    <2>6. CASE KeepingStep(s)
      <3>1. PICK f \in Frames : Moves(s, f) /\ PcStep(s, Top(s), f)
        BY <2>6, KeepingForm DEF OwnersInv
      <3>2. Top(s) = frame[s][sp[s]] /\ sp[s] \in Depths
        BY <3>1 DEF Moves, Top
      <3>3. ~Busy(Top(s))
        BY <3>2 DEF OwnersInv, PoisonInv, Busy
      <3>4. Shape(Top(s))
        BY <3>2 DEF OwnersInv, StackInv
      <3>5. f.pc # "callback"
        BY <3>1, <3>3, <3>4 DEF PcStep, Busy, Shape
      <3> QED
        BY <2>3, <3>1, <3>5
    <2> QED
      BY <2>1, <2>3, <2>4, <2>5, <2>6, CallForm, DropOldForm, ReleaseForm, ReturnForm, PanicForm
         DEF OwnersInv
  <1> QED
    BY <1>1, OwnersAlways, PTL DEF Spec, PoisonStopsRules

(***************************************************************************)
(* The Mutex excludes whatever destructors of the host do under it: of all *)
(* calls of all threads, nested ones included, at most one is between      *)
(* lock() and the end of the guard (rule.rs:61-68, 91-120), and it is a    *)
(* call of the owner.                                                      *)
(***************************************************************************)
InCriticalSection(a) == frame[a[1]][a[2]].pc \in UnderLock

OneCallUnderLock ==
    \A a, b \in Activations :
        InCriticalSection(a) /\ InCriticalSection(b) => a = b /\ lock = a[1]

THEOREM DestructorsKeepExclusion == Spec => []OneCallUnderLock
  <1>1. OwnersInv => OneCallUnderLock
    <2> SUFFICES ASSUME OwnersInv, NEW a \in Activations, NEW b \in Activations,
                        InCriticalSection(a), InCriticalSection(b)
                 PROVE  a = b /\ lock = a[1]
      BY DEF OneCallUnderLock
    <2>1. /\ a = <<a[1], a[2]>> /\ a[1] \in Threads /\ a[2] \in Depths
          /\ b = <<b[1], b[2]>> /\ b[1] \in Threads /\ b[2] \in Depths
      BY DEF Activations
    <2>2. lock = a[1] /\ lock = b[1]
      BY <2>1 DEF InCriticalSection, OwnersInv, HolderInv
    <2>3. a[2] = b[2]
      BY <2>1, <2>2 DEF InCriticalSection, OwnersInv, HolderInv
    <2> QED
      BY <2>1, <2>2, <2>3
  <1> QED
    BY <1>1, OwnersAlways, PTL
=============================================================================
