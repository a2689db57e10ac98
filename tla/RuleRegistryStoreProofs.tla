----------------------- MODULE RuleRegistryStoreProofs -----------------------
(***************************************************************************)
(* The rule registry implements the atomic store, and its errors are those *)
(* of the calls that report them, when no rule has a destructor of the     *)
(* host's.  Whatever destructors there are, it implements the store whose  *)
(* calls may fail half way and whose Mutex such a failure may poison.      *)
(***************************************************************************)
EXTENDS RuleRegistryOwnersProofs

(***************************************************************************)
(* A call has no code yet as long as it may run code of the host, so the   *)
(* newest call is the only one that may have failed; a panic caught by     *)
(* ffi_guard can only come from a rule that was run.                       *)
(***************************************************************************)
CodeLate(f) ==
    /\ f.pc \in {"wait", "locked", "callback"} => f.rc = "none"
    /\ f.pc = "unlock" /\ f.hit # NoRule => f.rc = "none"
    /\ f.rc = "PANIC" => f.op = "run"

Explained(rc, why) ==
    /\ rc = "E_PARAM" => why \in {"bad_argument", "not_found"}
    /\ rc = "E_RT" => why \in {"poisoned", "panic"}

ReportInv ==
    \A t \in Threads : \A d \in Depths :
        /\ CodeLate(frame[t][d])
        /\ d = sp[t] => Explained(frame[t][d].rc, lastErr[t])

StoreInv == OwnersInv /\ LockInv /\ ~poisoned /\ ReportInv

-----------------------------------------------------------------------------
(***************************************************************************)
(* The steps of a call, by what they mean to the store: nothing before the *)
(* critical section, one effect in it or a refusal, nothing after it but   *)
(* a panic under the lock, which may poison the Mutex.                     *)
(***************************************************************************)
Enters(t, g, f) ==
    /\ g.pc = "wait" /\ f.pc = "locked" /\ f.rc = g.rc /\ f.hit = g.hit /\ f.arc = g.arc
    /\ UNCHANGED <<registry, poisoned, lastErr>>

Takes(t, g, f) ==
    /\ g.pc = "locked" /\ ~poisoned /\ poisoned' = poisoned
    /\ \/ /\ Registers(g) /\ f.pc = "drop_old" /\ f.rc = "OK" /\ f.hit = g.hit
          /\ f.arc = NoRule /\ UNCHANGED lastErr
          /\ registry' = [registry EXCEPT ![g.name] = g.arc]
       \/ /\ g.op = "exists" /\ f.pc = "unlock" /\ f.hit = g.hit /\ f.arc = g.arc
          /\ UNCHANGED <<registry, lastErr>>
          /\ f.rc = IF registry[g.name] # NoRule THEN "YES" ELSE "NO"
       \/ /\ g.op = "run" /\ registry[g.name] # NoRule /\ f.pc = "unlock"
          /\ f.hit = registry[g.name] /\ f.arc = f.hit
          /\ f.rc = g.rc /\ UNCHANGED <<registry, lastErr>>
       \/ /\ g.op = "run" /\ registry[g.name] = NoRule /\ f.pc = "unlock" /\ f.hit = g.hit
          /\ f.arc = g.arc /\ f.rc = "E_PARAM"
          /\ lastErr' = [lastErr EXCEPT ![t] = "not_found"]
          /\ UNCHANGED registry
       \/ /\ g.op = "clear" /\ f.pc = "drop_old" /\ f.rc = "OK" /\ f.hit = g.hit
          /\ f.arc = g.arc /\ UNCHANGED lastErr
          /\ registry' = [n \in AllNames |-> NoRule]

Refused(g, f) ==
    /\ g.pc = "locked" /\ f.pc = "unlock" /\ poisoned /\ UNCHANGED <<registry, poisoned>>
    /\ f.hit = g.hit /\ f.arc = g.arc
    /\ \/ g.op \in {"register_c", "register", "run"} /\ f.rc = "E_RT"
       \/ g.op = "exists" /\ f.rc = "NO"
       \/ g.op = "clear" /\ f.rc = "OK"

Later == {"drop_old", "destroy_old", "unlock", "callback", "release", "destroy", "return"}

\* How a frame goes on after its critical section, and the code it then has.
Onward(g, f) ==
    \/ g.pc \in {"drop_old", "destroy_old"} /\ f.pc \in {"drop_old", "destroy_old"}
    \/ g.pc \in {"unlock", "drop_old"} /\ f.pc = "callback" /\ g.hit # NoRule
    \/ g.pc \in {"unlock", "drop_old", "callback"} /\ f.pc = "release"
    \/ g.pc = "release" /\ g.arc # NoRule /\ f.pc = "destroy"
    \/ g.pc \in {"release", "destroy", "return"} /\ f.pc = "return"

Follows(t, g, f) ==
    /\ Onward(g, f) /\ f.hit = g.hit /\ f.arc \in {g.arc, NoRule}
    /\ UNCHANGED <<registry, poisoned>>
    /\ \/ g.pc # "callback" /\ f.rc = g.rc /\ UNCHANGED lastErr
       \/ /\ g.pc = "callback" /\ f.rc \in {"OK", "RULE_ERR", "PANIC"} /\ UNCHANGED lastErr
       \/ /\ g.pc = "return" /\ g.rc = "PANIC" /\ f.rc = "E_RT"
          /\ lastErr' = [lastErr EXCEPT ![t] = "panic"]
       \/ g.pc = "destroy" /\ f.rc = "PANIC" /\ UNCHANGED lastErr

Unwinds(g, f) ==
    /\ g.pc = "destroy_old" /\ f.pc = "release" /\ f.rc = "PANIC"
    /\ f.hit = g.hit /\ f.arc = g.arc /\ poisoned' \in BOOLEAN /\ UNCHANGED registry

Within(t, f) ==
    LET g == Top(t) IN
    /\ Moves(t, f) /\ f.op = g.op /\ f.name = g.name
    /\ \/ Enters(t, g, f) \/ Takes(t, g, f) \/ Refused(g, f)
       \/ Follows(t, g, f) \/ Unwinds(g, f)

LEMMA WithinForm ==
    ASSUME TypeOK, TypeOK', NEW t \in Threads, LibraryStep(t) \/ UserStep(t), ~Return(t)
    PROVE  \E f \in Frames : Within(t, f)
  <1> USE DEF At, store, heap
  <1>1. sp[t] > 0 /\ sp' = sp
    BY DEF LibraryStep, UserStep, Acquire, RefusePoisoned, Insert, ContainsKey, CloneRule,
           RuleNotFound, ClearAll, DropOld, Unlock, Release, CatchPanic, CallbackReturns,
           CallbackPanics, DestructorReturns, DestructorPanicsUnderLock, DestructorPanics
  <1>2. Top(t) \in Frames /\ sp[t] \in Depths
    BY <1>1, TopFact
  <1>3. ASSUME NEW f, SetTop(t, f)
        PROVE  f \in Frames /\ Moves(t, f)
    <2>1. f \in Frames
      BY <1>2, <1>3 DEF SetTop, TypeOK
    <2> QED
      BY <1>1, <1>3, <2>1, MovesFact
  <1>4. CASE Acquire(t)
    <2> DEFINE f == [Top(t) EXCEPT !.pc = "locked"]
    <2>1. SetTop(t, f) /\ Top(t).pc = "wait" /\ UNCHANGED <<registry, poisoned, lastErr>>
      BY <1>4 DEF Acquire
    <2>2. f.pc = "locked" /\ f.op = Top(t).op /\ f.name = Top(t).name /\ f.rc = Top(t).rc
          /\ f.hit = Top(t).hit /\ f.arc = Top(t).arc
      BY <1>2 DEF Frames
    <2> HIDE DEF f
    <2> QED
      BY <1>3, <2>1, <2>2 DEF Within, Enters
  <1>5. CASE RefusePoisoned(t)
    <2> DEFINE c == IF Top(t).op = "exists" THEN "NO"
                    ELSE IF Top(t).op = "clear" THEN "OK" ELSE "E_RT"
    <2>1. /\ Top(t).pc = "locked" /\ poisoned /\ UNCHANGED <<registry, poisoned>>
          /\ Top(t).op \in {"register_c", "register", "run", "exists", "clear"}
          /\ \/ SetTop(t, [Top(t) EXCEPT !.pc = "unlock", !.rc = c, !.reported = TRUE])
             \/ SetTop(t, [Top(t) EXCEPT !.pc = "unlock", !.rc = c])
      BY <1>5 DEF RefusePoisoned
    <2> HIDE DEF c
    <2>2. \A f \in {[Top(t) EXCEPT !.pc = "unlock", !.rc = c, !.reported = TRUE],
                    [Top(t) EXCEPT !.pc = "unlock", !.rc = c]} :
             f.pc = "unlock" /\ f.op = Top(t).op /\ f.name = Top(t).name /\ f.rc = c
             /\ f.hit = Top(t).hit /\ f.arc = Top(t).arc
      BY <1>2 DEF Frames
    <2>3. PICK f : /\ SetTop(t, f)
                   /\ f.pc = "unlock" /\ f.op = Top(t).op /\ f.name = Top(t).name /\ f.rc = c
                   /\ f.hit = Top(t).hit /\ f.arc = Top(t).arc
      BY <2>1, <2>2
    <2>4. Refused(Top(t), f)
      BY <2>1, <2>3 DEF Refused, c
    <2> QED
      BY <1>3, <2>3, <2>4 DEF Within
  <1>6. CASE Insert(t)
    <2> DEFINE f == [Top(t) EXCEPT !.pc = "drop_old", !.rc = "OK", !.arc = NoRule,
                                   !.old = {registry[Top(t).name]} \ {NoRule}]
    <2>1. SetTop(t, f) /\ Top(t).pc = "locked" /\ Registers(Top(t)) /\ ~poisoned
          /\ UNCHANGED <<poisoned, lastErr>>
          /\ registry' = [registry EXCEPT ![Top(t).name] = Top(t).arc]
      BY <1>6 DEF Insert, Registers
    <2>2. f.pc = "drop_old" /\ f.op = Top(t).op /\ f.name = Top(t).name /\ f.rc = "OK"
          /\ f.hit = Top(t).hit /\ f.arc = NoRule
      BY <1>2 DEF Frames
    <2> HIDE DEF f
    <2> QED
      BY <1>3, <2>1, <2>2 DEF Within, Takes
  <1>7. CASE ContainsKey(t)
    <2> DEFINE c == IF registry[Top(t).name] # NoRule THEN "YES" ELSE "NO"
               f == [Top(t) EXCEPT !.pc = "unlock", !.rc = c]
    <2>1. SetTop(t, f) /\ Top(t).pc = "locked" /\ Top(t).op = "exists" /\ ~poisoned
          /\ UNCHANGED <<registry, poisoned, lastErr>>
      BY <1>7 DEF ContainsKey
    <2>2. f.pc = "unlock" /\ f.op = Top(t).op /\ f.name = Top(t).name /\ f.rc = c
          /\ f.hit = Top(t).hit /\ f.arc = Top(t).arc
      BY <1>2 DEF Frames
    <2> HIDE DEF f
    <2> QED
      BY <1>3, <2>1, <2>2 DEF Within, Takes
  <1>8. CASE CloneRule(t)
    <2> DEFINE r == registry[Top(t).name]
               f == [Top(t) EXCEPT !.pc = "unlock", !.arc = r, !.hit = r]
    <2>1. SetTop(t, f) /\ Top(t).pc = "locked" /\ Top(t).op = "run" /\ r # NoRule /\ ~poisoned
          /\ UNCHANGED <<registry, poisoned, lastErr>>
      BY <1>8 DEF CloneRule
    <2>2. f.pc = "unlock" /\ f.op = Top(t).op /\ f.name = Top(t).name /\ f.rc = Top(t).rc
          /\ f.hit = r /\ f.arc = r
      BY <1>2 DEF Frames
    <2> HIDE DEF f
    <2> QED
      BY <1>3, <2>1, <2>2 DEF Within, Takes
  <1>9. CASE RuleNotFound(t)
    <2> DEFINE f == [Top(t) EXCEPT !.pc = "unlock", !.rc = "E_PARAM", !.reported = TRUE]
    <2>1. SetTop(t, f) /\ Top(t).pc = "locked" /\ Top(t).op = "run" /\ ~poisoned
          /\ registry[Top(t).name] = NoRule /\ UNCHANGED <<registry, poisoned>>
          /\ lastErr' = [lastErr EXCEPT ![t] = "not_found"]
      BY <1>9 DEF RuleNotFound, SetLastError
    <2>2. f.pc = "unlock" /\ f.op = Top(t).op /\ f.name = Top(t).name /\ f.rc = "E_PARAM"
          /\ f.hit = Top(t).hit /\ f.arc = Top(t).arc
      BY <1>2 DEF Frames
    <2> HIDE DEF f
    <2> QED
      BY <1>3, <2>1, <2>2 DEF Within, Takes
  <1>10. CASE ClearAll(t)
    <2> DEFINE f == [Top(t) EXCEPT !.pc = "drop_old", !.rc = "OK",
                        !.old = {registry[n] : n \in AllNames} \ {NoRule}]
    <2>1. SetTop(t, f) /\ Top(t).pc = "locked" /\ Top(t).op = "clear" /\ ~poisoned
          /\ UNCHANGED <<poisoned, lastErr>> /\ registry' = [n \in AllNames |-> NoRule]
      BY <1>10 DEF ClearAll
    <2>2. f.pc = "drop_old" /\ f.op = Top(t).op /\ f.name = Top(t).name /\ f.rc = "OK"
          /\ f.hit = Top(t).hit /\ f.arc = Top(t).arc
      BY <1>2 DEF Frames
    <2> HIDE DEF f
    <2> QED
      BY <1>3, <2>1, <2>2 DEF Within, Takes
  <1> HIDE DEF At, heap
  <1>11. ASSUME NEW f, SetTop(t, f), Onward(Top(t), f), Top(t).pc # "callback",
               f.op = Top(t).op, f.name = Top(t).name, f.rc = Top(t).rc,
               f.hit = Top(t).hit, f.arc \in {Top(t).arc, NoRule},
               UNCHANGED <<registry, poisoned, lastErr>>
        PROVE  \E g \in Frames : Within(t, g)
    BY <1>3, <1>11 DEF Within, Follows
  <1>12. CASE DropOld(t) \/ (DestructorReturns(t) /\ Top(t).pc = "destroy_old")
    <2>1. PICK old \in SUBSET Rules, pc \in {"drop_old", "destroy_old"} :
             SetTop(t, [Top(t) EXCEPT !.old = old, !.pc = pc])
      <3>1. CASE DropOld(t)
        <4>1. PICK r \in Top(t).old :
                 SetTop(t, [Top(t) EXCEPT !.old = @ \ {r},
                                !.pc = IF RunsDestructor(r) THEN "destroy_old" ELSE @])
          BY <3>1 DEF DropOld
        <4> DEFINE pc == IF RunsDestructor(r) THEN "destroy_old" ELSE Top(t).pc
        <4>2. pc \in {"drop_old", "destroy_old"} /\ Top(t).old \ {r} \in SUBSET Rules
          BY <1>2, <3>1 DEF DropOld, At, Frames
        <4>3. SetTop(t, [Top(t) EXCEPT !.old = Top(t).old \ {r}, !.pc = pc])
          BY <4>1
        <4> HIDE DEF pc
        <4> QED
          BY <4>2, <4>3
      <3>2. CASE DestructorReturns(t) /\ Top(t).pc = "destroy_old"
        <4>1. SetTop(t, [Top(t) EXCEPT !.pc = "drop_old"])
          BY <3>2 DEF DestructorReturns, At
        <4>2. [Top(t) EXCEPT !.pc = "drop_old"]
              = [Top(t) EXCEPT !.old = Top(t).old, !.pc = "drop_old"]
          BY <1>2 DEF Frames
        <4>3. Top(t).old \in SUBSET Rules
          BY <1>2 DEF Frames
        <4> QED
          BY <4>1, <4>2, <4>3
      <3> QED
        BY <1>12, <3>1, <3>2
    <2> DEFINE f == [Top(t) EXCEPT !.old = old, !.pc = pc]
    <2>2. SetTop(t, f) /\ Top(t).pc \in {"drop_old", "destroy_old"}
          /\ UNCHANGED <<registry, poisoned, lastErr>>
      BY <1>12, <2>1 DEF DropOld, DestructorReturns, At
    <2>3. f.pc = pc /\ f.op = Top(t).op /\ f.name = Top(t).name /\ f.rc = Top(t).rc
          /\ f.hit = Top(t).hit /\ f.arc = Top(t).arc
      BY <1>2 DEF Frames
    <2> HIDE DEF f
    <2> QED
      BY <1>11, <2>1, <2>2, <2>3 DEF Onward
  <1>13. CASE Unlock(t)
    <2> DEFINE next == IF Top(t).hit # NoRule THEN "callback" ELSE "release"
               f == [Top(t) EXCEPT !.pc = next]
    <2>1. SetTop(t, f) /\ Top(t).pc \in {"unlock", "drop_old"}
          /\ UNCHANGED <<registry, poisoned, lastErr>>
      BY <1>13 DEF Unlock, At
    <2>2. f.pc = next /\ f.op = Top(t).op /\ f.name = Top(t).name /\ f.rc = Top(t).rc
          /\ f.hit = Top(t).hit /\ f.arc = Top(t).arc
      BY <1>2 DEF Frames
    <2> HIDE DEF f
    <2> QED
      BY <1>11, <2>1, <2>2 DEF Onward
  <1>14. CASE Release(t) \/ (DestructorReturns(t) /\ Top(t).pc = "destroy")
    <2>1. PICK arc \in {Top(t).arc, NoRule}, pc \in {"return", "destroy"} :
             /\ SetTop(t, [Top(t) EXCEPT !.arc = arc, !.pc = pc])
             /\ Top(t).pc \in {"release", "destroy"}
             /\ pc = "destroy" => Top(t).pc = "release" /\ Top(t).arc # NoRule
      <3>1. [Top(t) EXCEPT !.pc = "return"] = [Top(t) EXCEPT !.arc = Top(t).arc, !.pc = "return"]
        BY <1>2 DEF Frames
      <3>2. CASE Release(t) /\ Top(t).arc # NoRule
        BY <3>2 DEF Release, At
      <3>3. CASE Release(t) /\ Top(t).arc = NoRule
        BY <3>1, <3>3 DEF Release, At
      <3>4. CASE DestructorReturns(t) /\ Top(t).pc = "destroy"
        BY <3>1, <3>4 DEF DestructorReturns, At
      <3> QED
        BY <1>14, <3>2, <3>3, <3>4
    <2> DEFINE f == [Top(t) EXCEPT !.arc = arc, !.pc = pc]
    <2>2. SetTop(t, f) /\ UNCHANGED <<registry, poisoned, lastErr>>
      BY <1>14, <2>1 DEF Release, DestructorReturns
    <2>3. f.pc = pc /\ f.op = Top(t).op /\ f.name = Top(t).name /\ f.rc = Top(t).rc
          /\ f.hit = Top(t).hit /\ f.arc = arc
      BY <1>2 DEF Frames
    <2> HIDE DEF f
    <2> QED
      BY <1>11, <2>1, <2>2, <2>3 DEF Onward
  <1>15. CASE CatchPanic(t)
    <2> DEFINE f == [Top(t) EXCEPT !.rc = "E_RT", !.reported = TRUE]
    <2>1. SetTop(t, f) /\ Top(t).pc = "return" /\ Top(t).rc = "PANIC"
          /\ UNCHANGED <<registry, poisoned>> /\ lastErr' = [lastErr EXCEPT ![t] = "panic"]
      BY <1>15 DEF CatchPanic, SetLastError, At
    <2>2. f.pc = Top(t).pc /\ f.op = Top(t).op /\ f.name = Top(t).name /\ f.rc = "E_RT"
          /\ f.hit = Top(t).hit /\ f.arc = Top(t).arc
      BY <1>2 DEF Frames
    <2> HIDE DEF f
    <2> QED
      BY <1>3, <2>1, <2>2 DEF Within, Follows, Onward
  <1>16. CASE CallbackReturns(t) \/ CallbackPanics(t)
    <2>1. PICK rc \in {"OK", "RULE_ERR", "PANIC"} :
             SetTop(t, [Top(t) EXCEPT !.pc = "release", !.rc = rc])
      BY <1>16 DEF CallbackReturns, CallbackPanics
    <2> DEFINE f == [Top(t) EXCEPT !.pc = "release", !.rc = rc]
    <2>2. SetTop(t, f) /\ Top(t).pc = "callback" /\ UNCHANGED <<registry, poisoned, lastErr>>
      BY <1>16, <2>1 DEF CallbackReturns, CallbackPanics, At
    <2>3. f.pc = "release" /\ f.op = Top(t).op /\ f.name = Top(t).name /\ f.rc = rc
          /\ f.hit = Top(t).hit /\ f.arc = Top(t).arc
      BY <1>2 DEF Frames
    <2> HIDE DEF f
    <2> QED
      BY <1>3, <2>1, <2>2, <2>3 DEF Within, Follows, Onward
  <1>17. CASE DestructorPanics(t)
    <2> DEFINE f == [Top(t) EXCEPT !.pc = "return", !.rc = "PANIC"]
    <2>1. SetTop(t, f) /\ Top(t).pc = "destroy" /\ UNCHANGED <<registry, poisoned, lastErr>>
      BY <1>17 DEF DestructorPanics, At
    <2>2. f.pc = "return" /\ f.op = Top(t).op /\ f.name = Top(t).name /\ f.rc = "PANIC"
          /\ f.hit = Top(t).hit /\ f.arc = Top(t).arc
      BY <1>2 DEF Frames
    <2> HIDE DEF f
    <2> QED
      BY <1>3, <2>1, <2>2 DEF Within, Follows, Onward
  <1>18. CASE DestructorPanicsUnderLock(t)
    <2> DEFINE f == [Top(t) EXCEPT !.pc = "release", !.rc = "PANIC", !.old = {}]
    <2>1. SetTop(t, f) /\ Top(t).pc = "destroy_old" /\ UNCHANGED registry
          /\ poisoned' \in BOOLEAN
      BY <1>18 DEF DestructorPanicsUnderLock, At
    <2>2. f.pc = "release" /\ f.op = Top(t).op /\ f.name = Top(t).name /\ f.rc = "PANIC"
          /\ f.hit = Top(t).hit /\ f.arc = Top(t).arc
      BY <1>2 DEF Frames
    <2> HIDE DEF f
    <2> QED
      BY <1>3, <2>1, <2>2 DEF Within, Unwinds
  <1>19. DestructorReturns(t) => Top(t).pc \in {"destroy_old", "destroy"}
    BY DEF DestructorReturns, At
  <1> QED
    BY <1>4, <1>5, <1>6, <1>7, <1>8, <1>9, <1>10, <1>12, <1>13, <1>14, <1>15, <1>16, <1>17,
       <1>18, <1>19
       DEF LibraryStep, UserStep

(***************************************************************************)
(* Without destructors only the first, second and fourth of these happen.  *)
(***************************************************************************)
LEMMA PlainWithin ==
    ASSUME StoreInv, NEW t \in Threads, NEW f \in Frames, Within(t, f)
    PROVE  /\ Top(t) = frame[t][sp[t]] /\ sp[t] \in Depths
           /\ Top(t).pc \notin {"destroy_old", "destroy"}
           /\ Enters(t, Top(t), f) \/ Takes(t, Top(t), f) \/ Follows(t, Top(t), f)
  <1>1. Top(t) = frame[t][sp[t]] /\ sp[t] \in Depths
    BY DEF Within, Moves, Top
  <1>2. Top(t).pc \notin {"destroy_old", "destroy"} /\ ~poisoned
    BY <1>1 DEF StoreInv, LockInv, OnlyCallbacks
  <1> QED
    BY <1>1, <1>2 DEF Within, Refused, Unwinds

(***************************************************************************)
(* A call begins by waiting for the Mutex, or is rejected at once.         *)
(***************************************************************************)
Called(t, f) ==
    /\ Begins(t, f) /\ f.hit = NoRule /\ UNCHANGED <<registry, poisoned>>
    /\ \/ /\ f.pc = "wait" /\ f.rc = "none" /\ UNCHANGED lastErr
          /\ f.op \in {"register_c", "register", "exists", "run", "clear"}
       \/ /\ f.pc \in {"release", "return"} /\ f.op = "rejected"
          /\ \/ f.rc = "E_PARAM" /\ lastErr' = [lastErr EXCEPT ![t] = "bad_argument"]
             \/ f.rc = "NO" /\ UNCHANGED lastErr

LEMMA CalledForm ==
    ASSUME TypeOK, NEW t \in Threads, HostCall(t)
    PROVE  InUserCode(t) /\ \E f \in Frames : Called(t, f)
  <1> USE DEF store, heap
  <1>1. ASSUME NEW op \in Ops, NEW n \in AllNames, NEW arc \in MaybeRule, NEW pc \in Pcs,
               NEW rc \in Codes
        PROVE  /\ IsNew(NewFrame(op, n, arc, pc, rc), op, n, arc, pc, rc)
               /\ IsNew([NewFrame(op, n, arc, pc, rc) EXCEPT !.reported = TRUE],
                        op, n, arc, pc, rc)
    BY <1>1, NewFrameFact
  <1>2. ASSUME NEW f, f \in Frames, Push(t, f), Begins(t, f) => Called(t, f)
        PROVE  InUserCode(t) /\ \E g \in Frames : Called(t, g)
    BY <1>2, BeginsFact
  <1>3. CASE CallRegisterC(t) \/ CallExists(t) \/ CallRun(t) \/ CallClear(t)
    <2>1. PICK op \in {"register_c", "exists", "run", "clear"}, n \in AllNames, arc \in MaybeRule :
             Push(t, NewFrame(op, n, arc, "wait", "none"))
      BY <1>3 DEF CallRegisterC, CallExists, CallRun, CallClear, AllNames, MaybeRule
    <2>2. UNCHANGED <<registry, poisoned, lastErr>>
      BY <1>3 DEF CallRegisterC, CallExists, CallRun, CallClear
    <2> DEFINE f == NewFrame(op, n, arc, "wait", "none")
    <2>3. IsNew(f, op, n, arc, "wait", "none")
      BY <1>1 DEF Ops, Pcs, Codes
    <2> HIDE DEF f
    <2>4. Push(t, f)
      BY <2>1 DEF f
    <2> QED
      BY <1>2, <2>2, <2>3, <2>4 DEF IsNew, Called
  <1>4. CASE CallRegister(t)
    <2>1. PICK r \in NativeRules :
             /\ UNCHANGED <<registry, poisoned>>
             /\ \/ /\ \E n \in Names : Push(t, NewFrame("register", n, r, "wait", "none"))
                   /\ UNCHANGED lastErr
                \/ /\ Push(t, [NewFrame("rejected", EmptyName, r, "release", "E_PARAM")
                                 EXCEPT !.reported = TRUE])
                   /\ lastErr' = [lastErr EXCEPT ![t] = "bad_argument"]
      BY <1>4 DEF CallRegister, SetLastError
    <2>2. /\ {"register", "rejected"} \subseteq Ops /\ r \in MaybeRule
          /\ {"wait", "release"} \subseteq Pcs /\ {"none", "E_PARAM"} \subseteq Codes
          /\ EmptyName \in AllNames /\ Names \subseteq AllNames
      BY ConstantsAssumption DEF Ops, AllNames, MaybeRule, Pcs, Codes
    <2>3. CASE \E n \in Names : Push(t, NewFrame("register", n, r, "wait", "none"))
                                /\ UNCHANGED lastErr
      <3>1. PICK n \in Names : Push(t, NewFrame("register", n, r, "wait", "none"))
        BY <2>3
      <3> DEFINE f == NewFrame("register", n, r, "wait", "none")
      <3>2. IsNew(f, "register", n, r, "wait", "none")
        BY <1>1, <2>2
      <3> HIDE DEF f
      <3>3. Push(t, f)
        BY <3>1 DEF f
      <3> QED
        BY <1>2, <2>1, <2>3, <3>2, <3>3 DEF IsNew, Called
    <2>4. CASE /\ Push(t, [NewFrame("rejected", EmptyName, r, "release", "E_PARAM")
                             EXCEPT !.reported = TRUE])
               /\ lastErr' = [lastErr EXCEPT ![t] = "bad_argument"]
      <3> DEFINE f == [NewFrame("rejected", EmptyName, r, "release", "E_PARAM")
                         EXCEPT !.reported = TRUE]
      <3>1. IsNew(f, "rejected", EmptyName, r, "release", "E_PARAM")
        BY <1>1, <2>2
      <3>2. Push(t, f)
        BY <2>4
      <3> HIDE DEF f
      <3> QED
        BY <1>2, <2>1, <2>4, <3>1, <3>2 DEF IsNew, Called
    <2> QED
      BY <2>1, <2>3, <2>4
  <1>5. CASE CallBadArgument(t)
    <2>1. "rejected" \in Ops /\ EmptyName \in AllNames /\ NoRule \in MaybeRule
          /\ "return" \in Pcs /\ {"E_PARAM", "NO"} \subseteq Codes
      BY DEF Ops, AllNames, MaybeRule, Pcs, Codes
    <2>2. CASE /\ Push(t, [NewFrame("rejected", EmptyName, NoRule, "return", "E_PARAM")
                             EXCEPT !.reported = TRUE])
               /\ lastErr' = [lastErr EXCEPT ![t] = "bad_argument"]
      <3> DEFINE f == [NewFrame("rejected", EmptyName, NoRule, "return", "E_PARAM")
                         EXCEPT !.reported = TRUE]
      <3>1. IsNew(f, "rejected", EmptyName, NoRule, "return", "E_PARAM")
        BY <1>1, <2>1
      <3>2. Push(t, f)
        BY <2>2
      <3> HIDE DEF f
      <3> QED
        BY <1>2, <1>5, <2>2, <3>1, <3>2 DEF IsNew, Called, CallBadArgument
    <2>3. CASE Push(t, NewFrame("rejected", EmptyName, NoRule, "return", "NO"))
               /\ UNCHANGED lastErr
      <3> DEFINE f == NewFrame("rejected", EmptyName, NoRule, "return", "NO")
      <3>1. IsNew(f, "rejected", EmptyName, NoRule, "return", "NO")
        BY <1>1, <2>1
      <3>2. Push(t, f)
        BY <2>3
      <3> HIDE DEF f
      <3> QED
        BY <1>2, <1>5, <2>3, <3>1, <3>2 DEF IsNew, Called, CallBadArgument
    <2> QED
      BY <1>5, <2>2, <2>3 DEF CallBadArgument, SetLastError
  <1> QED
    BY <1>3, <1>4, <1>5 DEF HostCall

-----------------------------------------------------------------------------
(***************************************************************************)
(* The invariant: each kind of step keeps it.                              *)
(***************************************************************************)
LEMMA ChangeReport ==
    ASSUME ReportInv, TypeOK, NEW t \in Threads, NEW e, NEW f, Changes(t, e, f), CodeLate(f),
           \A u \in Threads : u # t => sp'[u] = sp[u] /\ lastErr'[u] = lastErr[u],
           \A d \in Depths : d = sp'[t] => Explained(frame'[t][d].rc, lastErr'[t])
    PROVE  ReportInv'
  <1>1. ASSUME NEW u \in Threads, NEW d \in Depths
        PROVE  /\ CodeLate(frame'[u][d])
               /\ d = sp'[u] => Explained(frame'[u][d].rc, lastErr'[u])
    <2>1. CASE u = t /\ d = e
      BY <2>1 DEF Changes
    <2>2. CASE u # t \/ d # e
      <3>1. frame'[u][d] = frame[u][d]
        BY <2>2 DEF Changes
      <3> QED
        BY <3>1 DEF ReportInv
    <2> QED
      BY <2>1, <2>2
  <1> QED
    BY <1>1 DEF ReportInv, CodeLate, Explained

LEMMA WithinReport ==
    ASSUME StoreInv, NEW t \in Threads, NEW f \in Frames, Within(t, f)
    PROVE  ReportInv'
  <1> DEFINE g == Top(t)
  <1>1. TypeOK /\ ReportInv /\ Moves(t, f) /\ f.op = g.op
        /\ g.pc \notin {"destroy_old", "destroy"}
        /\ (Enters(t, g, f) \/ Takes(t, g, f) \/ Follows(t, g, f))
    BY PlainWithin DEF StoreInv, OwnersInv, Within
  <1>2. g = frame[t][sp[t]] /\ sp[t] \in Depths /\ Shape(g) /\ CodeLate(g)
        /\ Explained(g.rc, lastErr[t])
    BY <1>1 DEF Moves, Top, StoreInv, OwnersInv, StackInv, ReportInv
  <1> HIDE DEF g
  <1>3. CodeLate(f)
    <2>1. CASE Enters(t, g, f)
      BY <1>1, <1>2, <2>1 DEF Enters, CodeLate
    <2>2. CASE Takes(t, g, f)
      BY <1>1, <1>2, <2>2 DEF Takes, CodeLate, Shape
    <2>3. CASE Follows(t, g, f)
      BY <1>1, <1>2, <2>3 DEF Follows, Onward, CodeLate, Shape
    <2> QED
      BY <1>1, <2>1, <2>2, <2>3
  <1>4. /\ \A u \in Threads : u # t => lastErr'[u] = lastErr[u]
        /\ \/ lastErr' = lastErr
           \/ lastErr'[t] = "not_found" /\ f.rc = "E_PARAM"
           \/ lastErr'[t] = "panic" /\ f.rc = "E_RT"
    BY <1>1 DEF TypeOK, Enters, Takes, Follows
  <1>5. Explained(f.rc, lastErr'[t])
    <2>1. \/ f.rc \in {g.rc, "OK", "YES", "NO", "RULE_ERR", "PANIC"} /\ lastErr' = lastErr
          \/ lastErr'[t] = "not_found" /\ f.rc = "E_PARAM"
          \/ lastErr'[t] = "panic" /\ f.rc = "E_RT"
      BY <1>1 DEF TypeOK, Enters, Takes, Follows
    <2> QED
      BY <1>2, <1>4, <2>1 DEF Explained
  <1>6. Changes(t, sp[t], f) /\ sp' = sp /\ frame'[t][sp[t]] = f
    BY <1>1 DEF Moves, Changes
  <1> QED
    BY <1>1, <1>3, <1>4, <1>5, <1>6, ChangeReport

LEMMA CalledReport ==
    ASSUME StoreInv, NEW t \in Threads, NEW f \in Frames, Called(t, f)
    PROVE  ReportInv'
  <1>1. TypeOK /\ ReportInv
    BY DEF StoreInv, OwnersInv
  <1>2. Changes(t, sp[t] + 1, f) /\ sp'[t] = sp[t] + 1 /\ frame'[t][sp[t] + 1] = f
        /\ \A u \in Threads : u # t => sp'[u] = sp[u]
    BY DEF Called, Begins, Changes
  <1>3. CodeLate(f)
    BY DEF Called, CodeLate
  <1>4. \A u \in Threads : u # t => lastErr'[u] = lastErr[u]
    BY <1>1 DEF Called, TypeOK
  <1>5. Explained(f.rc, lastErr'[t])
    BY <1>1 DEF Called, TypeOK, Explained
  <1> QED
    BY <1>1, <1>2, <1>3, <1>4, <1>5, ChangeReport

LEMMA ReturnReport ==
    ASSUME StoreInv, NEW t \in Threads, Return(t)
    PROVE  ReportInv'
  <1>1. TypeOK /\ ReportInv /\ Ends(t) /\ lastErr' = lastErr
    BY ReturnForm DEF StoreInv, OwnersInv, Return
  <1>2. Changes(t, sp[t], NoFrame) /\ \A u \in Threads : u # t => sp'[u] = sp[u]
    BY <1>1, NoFrameFact DEF Ends, Changes
  <1>3. NoFrame.rc = "none" /\ CodeLate(NoFrame)
    BY DEF NoFrame, NewFrame, CodeLate
  <1>4. ASSUME NEW d \in Depths, d = sp'[t]
        PROVE  frame'[t][d].rc = "none"
    <2>1. d = sp[t] - 1 /\ sp[t] \in Nat /\ d \in Nat
      BY <1>1, <1>4, ConstantsAssumption DEF Ends, TypeOK, Depths
    <2>2. frame'[t][d] = frame[t][d]
      BY <1>1, <2>1 DEF Ends
    <2>3. frame[t][d].pc = "callback"
      BY <2>1 DEF StoreInv, LockInv, OnlyCallbacks
    <2> QED
      BY <1>1, <2>2, <2>3 DEF ReportInv, CodeLate
  <1> QED
    BY <1>1, <1>2, <1>3, <1>4, ChangeReport DEF Explained

LEMMA NextStore == UserDrop = {} /\ StoreInv /\ [Next]_vars => StoreInv'
  <1> SUFFICES ASSUME UserDrop = {}, StoreInv, [Next]_vars PROVE StoreInv'
    OBVIOUS
  <1>1. OwnersInv' /\ LockInv' /\ TypeOK'
    BY NextOwners, NextLock DEF StoreInv, LockInv
  <1>2. CASE UNCHANGED vars
    BY <1>1, <1>2 DEF vars, StoreInv, ReportInv, CodeLate, Explained
  <1>3. ASSUME NEW t \in Threads, HostCall(t) \/ LibraryStep(t) \/ UserStep(t)
        PROVE  ~poisoned' /\ ReportInv'
    <2>1. CASE HostCall(t)
      BY <2>1, CalledForm, CalledReport DEF StoreInv, OwnersInv, Called
    <2>2. CASE Return(t)
      BY <2>2, ReturnReport, ReturnForm DEF StoreInv, OwnersInv
    <2>3. CASE (LibraryStep(t) \/ UserStep(t)) /\ ~Return(t)
      <3>1. ReportInv'
        BY <1>1, <2>3, WithinForm, WithinReport DEF StoreInv, OwnersInv
      <3>2. ~DestructorPanicsUnderLock(t)
        BY TopFact DEF DestructorPanicsUnderLock, At, StoreInv, LockInv, OnlyCallbacks, Top
      <3>3. poisoned' = poisoned
        BY <2>3, <3>2 DEF LibraryStep, UserStep, Acquire, RefusePoisoned, Insert, ContainsKey,
           CloneRule, RuleNotFound, ClearAll, DropOld, Unlock, Release, CatchPanic,
           CallbackReturns, CallbackPanics, DestructorReturns, DestructorPanics, store
      <3> QED
        BY <3>1, <3>3 DEF StoreInv
    <2> QED
      BY <1>3, <2>1, <2>2, <2>3
  <1> QED
    BY <1>1, <1>2, <1>3 DEF Next, Quiesced, StoreInv

LEMMA InitStore == Init => StoreInv
  <1> SUFFICES ASSUME Init PROVE ReportInv
    BY InitOwners, InitLock DEF StoreInv, Init
  <1>1. \A t \in Threads : \A d \in Depths : frame[t][d].rc = "none"
    BY DEF Init, NoFrame, NewFrame
  <1> QED
    BY <1>1 DEF ReportInv, CodeLate, Explained

(***************************************************************************)
(* The last-error a thread reads after a failed call is the message of     *)
(* that very failure, whatever its callbacks and other threads did         *)
(* meanwhile (err.rs:15-24).                                               *)
(***************************************************************************)
THEOREM FailuresAreExplained ==
    ASSUME UserDrop = {}
    PROVE  Spec => []FailureExplained
  <1>1. StoreInv => FailureExplained
    <2> SUFFICES ASSUME StoreInv, NEW t \in Threads, At(t, "return")
                 PROVE  Explained(Top(t).rc, lastErr[t])
      BY DEF FailureExplained, Explained
    <2>1. sp[t] \in Depths
      BY TopFact DEF At, StoreInv, OwnersInv
    <2> QED
      BY <2>1 DEF StoreInv, ReportInv, Top
  <1>2. StoreInv /\ [Next]_vars => StoreInv'
    BY NextStore
  <1> QED
    BY <1>1, <1>2, InitStore, PTL DEF Spec

-----------------------------------------------------------------------------
(***************************************************************************)
(* The refinement.  The calls of the store are those of the registry, seen *)
(* through StoreCall; a step changes one.                                  *)
(***************************************************************************)
CallBar == [t \in Threads |-> [d \in Depths |-> StoreCall(frame[t][d])]]

Kind(op) == IF op = "register_c" THEN "register" ELSE op

LEMMA CallFact ==
    ASSUME NEW f
    PROVE  /\ f.pc \in {"wait", "locked"} /\ f.op # "rejected" =>
                StoreCall(f) = [phase |-> "pending", op |-> Kind(f.op), name |-> f.name,
                                arg |-> f.arc, answer |-> NoRule]
           /\ f.pc \in Later /\ f.op # "rejected" =>
                StoreCall(f) = [phase |-> "done", op |-> Kind(f.op), name |-> f.name,
                                arg |-> NoRule,
                                answer |-> IF f.op = "run" THEN f.hit ELSE f.rc]
           /\ f.pc # "none" /\ f.op = "rejected" =>
                StoreCall(f) = [phase |-> "rejected", op |-> "rejected", name |-> f.name,
                                arg |-> NoRule, answer |-> NoRule]
           /\ f.pc = "none" => StoreCall(f) = Store!NoCall
  <1>1. ASSUME f.pc \in {"wait", "locked"}, f.op # "rejected"
        PROVE  StoreCall(f) = [phase |-> "pending", op |-> Kind(f.op), name |-> f.name,
                               arg |-> f.arc, answer |-> NoRule]
    BY <1>1 DEF StoreCall, Kind
  <1>2. ASSUME f.pc \in Later, f.op # "rejected"
        PROVE  StoreCall(f) = [phase |-> "done", op |-> Kind(f.op), name |-> f.name,
                               arg |-> NoRule,
                               answer |-> IF f.op = "run" THEN f.hit ELSE f.rc]
    BY <1>2 DEF StoreCall, Kind, Later
  <1>3. ASSUME f.pc # "none", f.op = "rejected"
        PROVE  StoreCall(f) = [phase |-> "rejected", op |-> "rejected", name |-> f.name,
                               arg |-> NoRule, answer |-> NoRule]
    BY <1>3 DEF StoreCall
  <1>4. ASSUME f.pc = "none" PROVE StoreCall(f) = Store!NoCall
    BY <1>4 DEF StoreCall, Store!NoCall
  <1> QED
    BY <1>1, <1>2, <1>3, <1>4

LEMMA CallChange ==
    ASSUME NEW t \in Threads, NEW e, NEW f, Changes(t, e, f)
    PROVE  /\ CallBar' = [CallBar EXCEPT ![t][e] = StoreCall(f)]
           /\ StoreCall(f) = StoreCall(frame[t][e]) => CallBar' = CallBar
  <1>1. CallBar' = [u \in Threads |-> [d \in Depths |-> StoreCall(frame'[u][d])]]
    BY DEF CallBar, StoreCall, Depths
  <1>2. \A u \in Threads : \A d \in Depths :
           StoreCall(frame'[u][d])
             = IF u = t /\ d = e THEN StoreCall(f) ELSE StoreCall(frame[u][d])
    BY DEF Changes
  <1>3. CallBar' = [u \in Threads |-> [d \in Depths |->
                      IF u = t /\ d = e THEN StoreCall(f) ELSE StoreCall(frame[u][d])]]
    BY <1>1, <1>2
  <1>4. \A x : [CallBar EXCEPT ![t][e] = x]
                = [u \in Threads |-> [d \in Depths |->
                      IF u = t /\ d = e THEN x ELSE StoreCall(frame[u][d])]]
    BY DEF CallBar, Changes
  <1>5. StoreCall(f) = StoreCall(frame[t][e]) => CallBar' = CallBar
    BY <1>3 DEF CallBar
  <1> QED
    BY <1>3, <1>4, <1>5

LEMMA CurrentFact ==
    ASSUME NEW t \in Threads, sp[t] \in Depths
    PROVE  Store!Current(t) = StoreCall(Top(t)) /\ Top(t) = frame[t][sp[t]]
  BY DEF Store!Current, Top

LEMMA EffectFact ==
    ASSUME StoreInv, NEW t \in Threads, NEW f \in Frames, Within(t, f), Takes(t, Top(t), f)
    PROVE  Store!Effect(t)
  <1> DEFINE g == Top(t)
             c == StoreCall(g)
  <1>1. /\ TypeOK /\ Moves(t, f) /\ f.op = g.op /\ f.name = g.name /\ Takes(t, g, f)
    BY DEF StoreInv, OwnersInv, Within
  <1>2. sp[t] \in Depths /\ sp[t] > 0 /\ sp' = sp /\ Shape(g) /\ g \in Frames
        /\ Changes(t, sp[t], f)
    BY <1>1, TopFact DEF Moves, Changes, Top, StoreInv, OwnersInv, StackInv
  <1>3. c = Store!Current(t)
    BY <1>2, CurrentFact
  <1> HIDE DEF g
  <1>4. g.op # "rejected" /\ g.pc = "locked" /\ f.pc \in Later
    BY <1>1, <1>2 DEF Takes, Shape, Later
  <1>5. c = [phase |-> "pending", op |-> Kind(g.op), name |-> g.name, arg |-> g.arc,
             answer |-> NoRule]
    BY <1>4, CallFact
  <1>6. StoreCall(f) = [phase |-> "done", op |-> Kind(g.op), name |-> g.name, arg |-> NoRule,
                        answer |-> IF g.op = "run" THEN f.hit ELSE f.rc]
    BY <1>1, <1>4, CallFact
  <1> HIDE DEF c
  <1>7. c.op = Kind(g.op) /\ c.name = g.name /\ c.arg = g.arc /\ c.phase = "pending"
    BY <1>5
  <1>8. registry' = Store!After(c)
    BY <1>1, <1>7 DEF Takes, Registers, Kind, Store!After
  <1>9. Store!Answer(c) = IF g.op = "run" THEN f.hit ELSE f.rc
    <2>1. g.hit = NoRule
      BY <1>2, <1>4 DEF Shape
    <2> QED
      BY <1>1, <1>7, <2>1 DEF Takes, Registers, Kind, Store!Answer
  <1>10. StoreCall(f) = [c EXCEPT !.phase = "done", !.arg = NoRule, !.answer = Store!Answer(c)]
    <2> DEFINE a == IF g.op = "run" THEN f.hit ELSE f.rc
               k == Kind(g.op)
    <2>1. /\ StoreCall(f) = [phase |-> "done", op |-> k, name |-> g.name, arg |-> NoRule,
                             answer |-> a]
          /\ c = [phase |-> "pending", op |-> k, name |-> g.name, arg |-> g.arc,
                  answer |-> NoRule]
          /\ Store!Answer(c) = a
      BY <1>5, <1>6, <1>9
    <2> HIDE DEF a, k
    <2> DEFINE Only == [phase : {"done"}, op : {k}, name : {g.name}, arg : {NoRule}, answer : {a}]
    <2>2. StoreCall(f) \in Only
      BY <2>1
    <2>3. [c EXCEPT !.phase = "done", !.arg = NoRule, !.answer = a] \in Only
      BY <2>1
    <2> QED
      BY <2>1, <2>2, <2>3, ZenonT(60)
  <1>11. CallBar' = [CallBar EXCEPT ![t][sp[t]] =
                       [c EXCEPT !.phase = "done", !.arg = NoRule, !.answer = Store!Answer(c)]]
    BY <1>2, <1>10, CallChange
  <1> QED
    BY <1>2, <1>3, <1>7, <1>8, <1>11 DEF Store!Effect, CallBar

\* What comes before and after the effect is invisible to the store.
LEMMA QuietFact ==
    ASSUME StoreInv, NEW t \in Threads, NEW f \in Frames, Within(t, f),
           Enters(t, Top(t), f) \/ Follows(t, Top(t), f)
    PROVE  UNCHANGED <<registry, sp, CallBar>>
  <1> DEFINE g == Top(t)
  <1>1. /\ TypeOK /\ Moves(t, f) /\ f.op = g.op /\ f.name = g.name
        /\ g.pc \notin {"destroy_old", "destroy"}
        /\ Enters(t, g, f) \/ Follows(t, g, f)
    BY PlainWithin DEF StoreInv, OwnersInv, Within
  <1>2. sp[t] \in Depths /\ sp' = sp /\ Shape(g) /\ CodeLate(g) /\ g = frame[t][sp[t]]
        /\ Changes(t, sp[t], f)
    BY <1>1 DEF Moves, Changes, Top, StoreInv, OwnersInv, StackInv, ReportInv
  <1> HIDE DEF g
  <1>3. StoreCall(f) = StoreCall(g)
    <2>1. CASE Enters(t, g, f)
      <3>1. g.op # "rejected" /\ g.pc \in {"wait", "locked"} /\ f.pc \in {"wait", "locked"}
            /\ f.arc = g.arc
        BY <1>2, <2>1 DEF Enters, Shape
      <3> QED
        BY <1>1, <3>1, CallFact
    <2>2. CASE Follows(t, g, f) /\ g.op = "rejected"
      BY <1>1, <2>2, CallFact DEF Follows, Onward
    <2>3. CASE Follows(t, g, f) /\ g.op # "rejected"
      <3>1. g.pc \in Later /\ f.pc \in Later /\ f.hit = g.hit /\ (g.op = "run" \/ f.rc = g.rc)
        BY <1>1, <1>2, <2>3 DEF Follows, Onward, Later, Shape, CodeLate
      <3> QED
        BY <1>1, <2>3, <3>1, CallFact
    <2> QED
      BY <1>1, <2>1, <2>2, <2>3
  <1>4. CallBar' = CallBar
    BY <1>2, <1>3, CallChange
  <1> QED
    BY <1>1, <1>2, <1>4 DEF Enters, Follows

\* A call that begins is an invocation, made at top level or by a rule that runs.
LEMMA InvokeFact ==
    ASSUME StoreInv, NEW t \in Threads, HostCall(t)
    PROVE  Store!Invoke(t)
  <1>1. TypeOK /\ InUserCode(t)
    BY CalledForm DEF StoreInv, OwnersInv
  <1>2. PICK f \in Frames : Called(t, f)
    BY <1>1, CalledForm
  <1>3. sp' = [sp EXCEPT ![t] = @ + 1] /\ sp[t] < MaxDepth
    BY DEF HostCall, CallRegisterC, CallRegister, CallExists, CallRun, CallClear,
           CallBadArgument, Push
  <1>4. /\ registry' = registry /\ f.name \in AllNames /\ f.arc \in Rules \cup {NoRule}
        /\ Changes(t, sp[t] + 1, f) /\ f.hit = NoRule
    BY <1>2 DEF Called, Begins, Changes, Frames, MaybeRule
  <1>5. Store!MayCall(t)
    <2> SUFFICES ASSUME sp[t] > 0
                 PROVE  /\ Store!Current(t).phase = "done" /\ Store!Current(t).op = "run"
                        /\ Store!Current(t).answer # NoRule
      BY DEF Store!MayCall
    <2> DEFINE g == Top(t)
    <2>1. Store!Current(t) = StoreCall(g) /\ g = frame[t][sp[t]] /\ sp[t] \in Depths
      BY <1>1, TopFact, CurrentFact
    <2>2. g.pc = "callback" /\ Shape(g)
      BY <1>1, <2>1 DEF InUserCode, UserCode, StoreInv, OwnersInv, StackInv, LockInv,
                        OnlyCallbacks
    <2> HIDE DEF g
    <2>3. g.hit # NoRule /\ g.op = "run" /\ g.pc \in Later
      BY <2>2 DEF Shape, Later
    <2>4. StoreCall(g) = [phase |-> "done", op |-> Kind(g.op), name |-> g.name,
                          arg |-> NoRule, answer |-> IF g.op = "run" THEN g.hit ELSE g.rc]
      BY <2>3, CallFact
    <2> QED
      BY <2>1, <2>3, <2>4 DEF Kind
  <1>6. PICK phase \in {"pending", "rejected"},
             op \in {"register", "exists", "run", "clear", "rejected"}, arg \in Rules \cup {NoRule} :
           StoreCall(f) = [phase |-> phase, op |-> op, name |-> f.name, arg |-> arg,
                           answer |-> NoRule]
    <2>1. CASE f.op = "rejected"
      <3>1. f.pc # "none"
        BY <1>2 DEF Called
      <3> QED
        BY <2>1, <3>1, CallFact
    <2>2. CASE f.op # "rejected"
      <3>1. f.pc = "wait" /\ Kind(f.op) \in {"register", "exists", "run", "clear"}
        BY <1>2, <2>2 DEF Called, Kind
      <3> QED
        BY <1>4, <2>2, <3>1, CallFact
    <2> QED
      BY <2>1, <2>2
  <1>7. CallBar' = [CallBar EXCEPT ![t][sp[t] + 1] =
                      [phase |-> phase, op |-> op, name |-> f.name, arg |-> arg,
                       answer |-> NoRule]]
    BY <1>4, <1>6, CallChange
  <1>8. Store!InvokeWith(t, phase, op, f.name, arg)
    BY <1>3, <1>4, <1>5, <1>7 DEF Store!InvokeWith, CallBar
  <1> QED
    BY <1>4, <1>8 DEF Store!Invoke

\* A call that comes back responds.
LEMMA RespondFact ==
    ASSUME StoreInv, NEW t \in Threads, Return(t)
    PROVE  Store!Respond(t)
  <1>1. TypeOK /\ Ends(t) /\ registry' = registry /\ sp' = [sp EXCEPT ![t] = @ - 1]
    BY ReturnForm DEF StoreInv, OwnersInv, Return
  <1> DEFINE g == Top(t)
  <1>2. sp[t] \in Depths /\ sp[t] > 0 /\ g.pc = "return" /\ Store!Current(t) = StoreCall(g)
    BY <1>1, ReturnForm, CurrentFact DEF Ends
  <1>3. Changes(t, sp[t], NoFrame)
    BY <1>1, NoFrameFact DEF Ends, Changes
  <1> HIDE DEF g
  <1>4. StoreCall(g).phase \in {"done", "rejected"}
    <2>1. CASE g.op = "rejected"
      BY <1>2, <2>1, CallFact
    <2>2. CASE g.op # "rejected"
      <3>1. g.pc \in Later
        BY <1>2 DEF Later
      <3>2. StoreCall(g) = [phase |-> "done", op |-> Kind(g.op), name |-> g.name,
                            arg |-> NoRule, answer |-> IF g.op = "run" THEN g.hit ELSE g.rc]
        BY <2>2, <3>1, CallFact
      <3> QED
        BY <3>2
    <2> QED
      BY <2>1, <2>2
  <1>5. CallBar' = [CallBar EXCEPT ![t][sp[t]] = Store!NoCall]
    BY <1>3, NoFrameFact, CallFact, CallChange
  <1> QED
    BY <1>1, <1>2, <1>4, <1>5 DEF Store!Respond, CallBar

LEMMA InitRefines == Init => Store!StoreInit
  <1> SUFFICES ASSUME Init PROVE Store!StoreInit
    OBVIOUS
  <1>1. \A t \in Threads : \A d \in Depths : StoreCall(frame[t][d]) = Store!NoCall
    BY NoFrameFact, CallFact DEF Init
  <1>2. CallBar = [t \in Threads |-> [d \in 1..MaxDepth |-> Store!NoCall]]
    BY <1>1 DEF CallBar, Depths
  <1> QED
    BY <1>2 DEF Init, Store!StoreInit, CallBar

LEMMA NextRefines ==
    UserDrop = {} /\ StoreInv /\ StoreInv' /\ [Next]_vars => [Store!StoreNext]_Store!storeVars
  <1> SUFFICES ASSUME UserDrop = {}, StoreInv, StoreInv', [Next]_vars
               PROVE  Store!StoreNext \/ UNCHANGED <<registry, sp, CallBar>>
    BY DEF Store!storeVars, CallBar
  <1>1. CASE UNCHANGED vars
    BY <1>1 DEF vars, CallBar, StoreCall, Depths
  <1>2. ASSUME NEW t \in Threads, HostCall(t) \/ LibraryStep(t) \/ UserStep(t)
        PROVE  Store!StoreNext \/ UNCHANGED <<registry, sp, CallBar>>
    <2>1. CASE HostCall(t)
      BY <2>1, InvokeFact DEF Store!StoreNext
    <2>2. CASE Return(t)
      BY <2>2, RespondFact DEF Store!StoreNext
    <2>3. CASE (LibraryStep(t) \/ UserStep(t)) /\ ~Return(t)
      <3>1. PICK f \in Frames : Within(t, f)
        BY <2>3, WithinForm DEF StoreInv, OwnersInv
      <3>2. Enters(t, Top(t), f) \/ Takes(t, Top(t), f) \/ Follows(t, Top(t), f)
        BY <3>1, PlainWithin
      <3>3. CASE Takes(t, Top(t), f)
        BY <3>1, <3>3, EffectFact DEF Store!StoreNext
      <3> QED
        BY <3>1, <3>2, <3>3, QuietFact
    <2> QED
      BY <1>2, <2>1, <2>2, <2>3
  <1> QED
    BY <1>1, <1>2 DEF Next, Quiesced

(***************************************************************************)
(* The registry implements the atomic store: every call, re-entrant ones   *)
(* included, takes effect in one step between its invocation and its       *)
(* response (rule.rs:27-30, 101-112).                                      *)
(***************************************************************************)
THEOREM RegistryImplementsStore ==
    ASSUME UserDrop = {}
    PROVE  Spec => ImplementsStore
  <1>1. StoreInv /\ [Next]_vars => StoreInv'
    BY NextStore
  <1>2. StoreInv /\ StoreInv' /\ [Next]_vars => [Store!StoreNext]_Store!storeVars
    BY NextRefines
  <1> QED
    BY <1>1, <1>2, InitStore, InitRefines, PTL DEF Spec, ImplementsStore, Store!StoreSpec

-----------------------------------------------------------------------------
(***************************************************************************)
(* Rules with destructors.  The code of a call is settled when it leaves   *)
(* the critical section, except that a panic turns success into failure;   *)
(* so a call that runs a destructor outside the lock has failed already,   *)
(* or is a run, whose answer is the rule it found.                         *)
(***************************************************************************)
Settled(f) ==
    /\ f.op = "none" => f.pc = "none"
    /\ f.pc \in {"drop_old", "destroy_old"} => f.rc = "OK" /\ (Registers(f) \/ f.op = "clear")
    /\ f.op \in {"exists", "clear"} => f.arc = NoRule /\ f.pc # "destroy"
    /\ f.op = "exists" => f.rc \in {"none", "YES", "NO"}
    /\ Registers(f) /\ f.pc = "destroy" => f.rc = "E_RT"
    /\ Registers(f) /\ f.pc \in {"unlock", "release"} /\ f.arc # NoRule => f.rc = "E_RT"
    /\ f.op = "run" /\ f.pc = "destroy" => f.hit # NoRule
    /\ f.op = "run" /\ f.pc \in {"unlock", "release"} /\ f.arc # NoRule => f.hit # NoRule

PoisonableInv == OwnersInv /\ \A t \in Threads : \A d \in Depths : Settled(frame[t][d])

LEMMA WithinSettled ==
    ASSUME NEW t \in Threads, NEW f \in Frames, Within(t, f), Shape(Top(t)), Settled(Top(t))
    PROVE  Settled(f)
  <1> DEFINE g == Top(t)
  <1>1. /\ f.op = g.op /\ Shape(g) /\ Settled(g)
        /\ \/ Enters(t, g, f) \/ Takes(t, g, f) \/ Refused(g, f)
           \/ Follows(t, g, f) \/ Unwinds(g, f)
    BY DEF Within
  <1> HIDE DEF g
  <1>2. CASE Enters(t, g, f)
    BY <1>1, <1>2 DEF Enters, Settled, Registers
  <1>3. CASE Takes(t, g, f)
    <2>1. g.op \in {"exists", "run", "clear"} => g.arc = NoRule
      BY <1>1, <1>3 DEF Takes, Shape, Registers
    <2> QED
      BY <1>1, <1>3, <2>1 DEF Takes, Settled, Registers
  <1>4. CASE Refused(g, f)
    <2>1. ~Registers(g) => g.arc = NoRule
      BY <1>1, <1>4 DEF Refused, Shape
    <2> QED
      BY <1>1, <1>4, <2>1 DEF Refused, Settled, Registers
  <1>5. CASE Follows(t, g, f)
    <2>1. \/ g.pc # "callback" /\ f.rc = g.rc
          \/ g.pc = "callback" /\ f.rc \in {"OK", "RULE_ERR", "PANIC"}
          \/ g.pc = "return" /\ g.rc = "PANIC" /\ f.rc = "E_RT"
          \/ g.pc = "destroy" /\ f.rc = "PANIC"
      BY <1>5 DEF Follows
    <2>2. Onward(g, f) /\ f.hit = g.hit /\ f.arc \in {g.arc, NoRule}
      BY <1>5 DEF Follows
    <2>3. f.pc \in {"drop_old", "destroy_old"} => f.rc = "OK" /\ (Registers(f) \/ f.op = "clear")
      BY <1>1, <2>1, <2>2 DEF Onward, Settled, Registers
    <2>4. f.op \in {"exists", "clear"} => f.arc = NoRule /\ f.pc # "destroy"
      BY <1>1, <2>2 DEF Onward, Settled
    <2>5. f.op = "exists" => f.rc \in {"none", "YES", "NO"}
      BY <1>1, <2>1 DEF Settled, Shape
    <2>6. Registers(f) /\ f.pc = "destroy" => f.rc = "E_RT"
      BY <1>1, <2>1, <2>2 DEF Onward, Settled, Registers
    <2>7. Registers(f) /\ f.pc \in {"unlock", "release"} /\ f.arc # NoRule => f.rc = "E_RT"
      BY <1>1, <2>1, <2>2 DEF Onward, Settled, Shape, Registers
    <2>8. f.op = "run" /\ f.pc = "destroy" => f.hit # NoRule
      BY <1>1, <2>2 DEF Onward, Settled
    <2>9. f.op = "run" /\ f.pc \in {"unlock", "release"} /\ f.arc # NoRule => f.hit # NoRule
      BY <1>1, <2>2 DEF Onward, Settled, Shape
    <2>10. f.op # "none"
      BY <1>1, <2>2 DEF Onward, Settled
    <2> QED
      BY <2>3, <2>4, <2>5, <2>6, <2>7, <2>8, <2>9, <2>10 DEF Settled
  <1>6. CASE Unwinds(g, f)
    BY <1>1, <1>6 DEF Unwinds, Settled, Shape, Registers
  <1> QED
    BY <1>1, <1>2, <1>3, <1>4, <1>5, <1>6

LEMMA CalledSettled ==
    ASSUME NEW t \in Threads, NEW f, Called(t, f), Shape(f)
    PROVE  Settled(f)
  BY DEF Called, Settled, Shape, Registers

LEMMA ChangeSettled ==
    ASSUME PoisonableInv, NEW t \in Threads, NEW e, NEW f, Changes(t, e, f), Settled(f)
    PROVE  \A u \in Threads : \A d \in Depths : Settled(frame'[u][d])
  <1>1. ASSUME NEW u \in Threads, NEW d \in Depths
        PROVE  Settled(frame'[u][d])
    <2>1. frame'[u][d] = f \/ frame'[u][d] = frame[u][d]
      BY DEF Changes
    <2> QED
      BY <2>1 DEF PoisonableInv
  <1> QED
    BY <1>1

LEMMA NextPoisonable == PoisonableInv /\ [Next]_vars => PoisonableInv'
  <1> SUFFICES ASSUME PoisonableInv, [Next]_vars PROVE PoisonableInv'
    OBVIOUS
  <1>1. OwnersInv /\ TypeOK /\ StackInv /\ OwnersInv' /\ TypeOK' /\ StackInv'
    BY NextOwners DEF PoisonableInv, OwnersInv
  <1>2. ASSUME \A u \in Threads : \A d \in Depths : Settled(frame'[u][d])
        PROVE  PoisonableInv'
    BY <1>1, <1>2 DEF PoisonableInv, Settled, Registers
  <1>3. CASE UNCHANGED vars
    BY <1>2, <1>3 DEF vars, PoisonableInv
  <1>4. ASSUME NEW t \in Threads, HostCall(t) \/ LibraryStep(t) \/ UserStep(t)
        PROVE  PoisonableInv'
    <2>1. CASE HostCall(t)
      <3>1. PICK f \in Frames : Called(t, f)
        BY <1>1, <2>1, CalledForm
      <3>2. Changes(t, sp[t] + 1, f)
        BY <3>1 DEF Called, Begins, Changes
      <3>3. Shape(f)
        <4>1. Shape(frame'[t][sp[t] + 1])
          BY <1>1, <3>2 DEF StackInv, Changes, Shape, Registers
        <4> QED
          BY <3>2, <4>1 DEF Changes
      <3> QED
        BY <1>2, <3>1, <3>2, <3>3, CalledSettled, ChangeSettled
    <2>2. CASE Return(t)
      <3>1. Changes(t, sp[t], NoFrame)
        BY <1>1, <2>2, ReturnForm, NoFrameFact DEF Ends, Changes
      <3>2. Settled(NoFrame)
        BY NoFrameFact DEF Settled, Registers
      <3> QED
        BY <1>2, <3>1, <3>2, ChangeSettled
    <2>3. CASE (LibraryStep(t) \/ UserStep(t)) /\ ~Return(t)
      <3>1. PICK f \in Frames : Within(t, f)
        BY <1>1, <2>3, WithinForm
      <3>2. Changes(t, sp[t], f) /\ Top(t) = frame[t][sp[t]] /\ sp[t] \in Depths
        BY <3>1 DEF Within, Moves, Changes, Top
      <3>3. Shape(Top(t)) /\ Settled(Top(t))
        BY <1>1, <3>2 DEF StackInv, PoisonableInv
      <3> QED
        BY <1>2, <3>1, <3>2, <3>3, WithinSettled, ChangeSettled
    <2> QED
      BY <1>4, <2>1, <2>2, <2>3
  <1> QED
    BY <1>3, <1>4 DEF Next, Quiesced

LEMMA InitPoisonable == Init => PoisonableInv
  <1> SUFFICES ASSUME Init PROVE \A t \in Threads : \A d \in Depths : Settled(frame[t][d])
    BY InitOwners DEF PoisonableInv
  <1>1. Settled(NoFrame)
    BY NoFrameFact DEF Settled, Registers
  <1> QED
    BY <1>1 DEF Init

(***************************************************************************)
(* The calls of the store that can break are those of the registry, seen   *)
(* through PoisonableCall.                                                 *)
(***************************************************************************)
PoisonableBar == [t \in Threads |-> [d \in Depths |-> PoisonableCall(frame[t][d])]]

Outcome(f) ==
    IF f.op = "run" THEN f.hit
    ELSE IF f.rc \in {"E_RT", "PANIC"} THEN "FAILED" ELSE f.rc

LEMMA PoisonableCallFact ==
    ASSUME NEW f
    PROVE  /\ f.pc \in {"wait", "locked"} /\ f.op # "rejected" =>
                PoisonableCall(f) = [phase |-> "pending", op |-> Kind(f.op), name |-> f.name,
                                     arg |-> f.arc, answer |-> NoRule]
           /\ f.pc \in Later /\ f.op # "rejected" =>
                PoisonableCall(f) = [phase |-> "done", op |-> Kind(f.op), name |-> f.name,
                                     arg |-> NoRule, answer |-> Outcome(f)]
           /\ f.pc # "none" /\ f.op = "rejected" =>
                PoisonableCall(f) = [phase |-> "rejected", op |-> "rejected", name |-> f.name,
                                     arg |-> NoRule, answer |-> NoRule]
           /\ f.pc = "none" => PoisonableCall(f) = Poisonable!NoCall
  <1>1. ASSUME f.pc \in {"wait", "locked"}, f.op # "rejected"
        PROVE  PoisonableCall(f) = [phase |-> "pending", op |-> Kind(f.op), name |-> f.name,
                                    arg |-> f.arc, answer |-> NoRule]
    <2>1. StoreCall(f) = [phase |-> "pending", op |-> Kind(f.op), name |-> f.name,
                          arg |-> f.arc, answer |-> NoRule]
      BY <1>1, CallFact
    <2> QED
      BY <2>1 DEF PoisonableCall
  <1>2. ASSUME f.pc \in Later, f.op # "rejected"
        PROVE  PoisonableCall(f) = [phase |-> "done", op |-> Kind(f.op), name |-> f.name,
                                    arg |-> NoRule, answer |-> Outcome(f)]
    <2>1. StoreCall(f) = [phase |-> "done", op |-> Kind(f.op), name |-> f.name, arg |-> NoRule,
                          answer |-> IF f.op = "run" THEN f.hit ELSE f.rc]
      BY <1>2, CallFact
    <2> QED
      BY <2>1 DEF PoisonableCall, Outcome
  <1>3. ASSUME f.pc # "none", f.op = "rejected"
        PROVE  PoisonableCall(f) = [phase |-> "rejected", op |-> "rejected", name |-> f.name,
                                    arg |-> NoRule, answer |-> NoRule]
    <2>1. StoreCall(f) = [phase |-> "rejected", op |-> "rejected", name |-> f.name,
                          arg |-> NoRule, answer |-> NoRule]
      BY <1>3, CallFact
    <2> QED
      BY <2>1 DEF PoisonableCall
  <1>4. ASSUME f.pc = "none" PROVE PoisonableCall(f) = Poisonable!NoCall
    <2>1. StoreCall(f) = Poisonable!NoCall
      BY <1>4 DEF StoreCall, Poisonable!NoCall
    <2> QED
      BY <2>1 DEF PoisonableCall, Poisonable!NoCall
  <1> QED
    BY <1>1, <1>2, <1>3, <1>4

LEMMA PoisonableChange ==
    ASSUME NEW t \in Threads, NEW e, NEW f, Changes(t, e, f)
    PROVE  /\ PoisonableBar' = [PoisonableBar EXCEPT ![t][e] = PoisonableCall(f)]
           /\ PoisonableCall(f) = PoisonableCall(frame[t][e]) => PoisonableBar' = PoisonableBar
  <1>1. PoisonableBar' = [u \in Threads |-> [d \in Depths |-> PoisonableCall(frame'[u][d])]]
    BY DEF PoisonableBar, PoisonableCall, StoreCall, Depths
  <1>2. \A u \in Threads : \A d \in Depths :
           PoisonableCall(frame'[u][d])
             = IF u = t /\ d = e THEN PoisonableCall(f) ELSE PoisonableCall(frame[u][d])
    BY DEF Changes
  <1>3. PoisonableBar' = [u \in Threads |-> [d \in Depths |->
                 IF u = t /\ d = e THEN PoisonableCall(f) ELSE PoisonableCall(frame[u][d])]]
    BY <1>1, <1>2
  <1>4. \A x : [PoisonableBar EXCEPT ![t][e] = x]
                = [u \in Threads |-> [d \in Depths |->
                      IF u = t /\ d = e THEN x ELSE PoisonableCall(frame[u][d])]]
    BY DEF PoisonableBar, Changes
  <1>5. PoisonableCall(f) = PoisonableCall(frame[t][e]) => PoisonableBar' = PoisonableBar
    BY <1>3 DEF PoisonableBar
  <1> QED
    BY <1>3, <1>4, <1>5

LEMMA PoisonableCurrent ==
    ASSUME NEW t \in Threads, sp[t] \in Depths
    PROVE  Poisonable!Current(t) = PoisonableCall(Top(t)) /\ Top(t) = frame[t][sp[t]]
  BY DEF Poisonable!Current, Top

IsCall(c, phase, op, n, arg, x) ==
    c = [phase |-> phase, op |-> op, name |-> n, arg |-> arg, answer |-> x]

LEMMA CallFields ==
    ASSUME NEW c, NEW phase, NEW op, NEW n, NEW arg, NEW x, IsCall(c, phase, op, n, arg, x)
    PROVE  c.phase = phase /\ c.op = op /\ c.name = n /\ c.arg = arg /\ c.answer = x
  BY DEF IsCall

LEMMA CallAnswered ==
    ASSUME NEW c, NEW phase, NEW op, NEW n, NEW arg, NEW x, IsCall(c, phase, op, n, arg, x),
           NEW e, NEW y, IsCall(e, "done", op, n, NoRule, y)
    PROVE  e = [c EXCEPT !.phase = "done", !.arg = NoRule, !.answer = y]
  <1> DEFINE Only == [phase : {"done"}, op : {op}, name : {n}, arg : {NoRule}, answer : {y}]
  <1>1. e \in Only
    BY DEF IsCall
  <1>2. [c EXCEPT !.phase = "done", !.arg = NoRule, !.answer = y] \in Only
    BY DEF IsCall
  <1> QED
    BY <1>1, <1>2, ZenonT(60)

LEMMA CallRevised ==
    ASSUME NEW c, NEW phase, NEW op, NEW n, NEW arg, NEW x, IsCall(c, phase, op, n, arg, x),
           NEW e, NEW y, IsCall(e, phase, op, n, arg, y)
    PROVE  e = [c EXCEPT !.answer = y]
  <1> DEFINE Only == [phase : {phase}, op : {op}, name : {n}, arg : {arg}, answer : {y}]
  <1>1. e \in Only
    BY DEF IsCall
  <1>2. [c EXCEPT !.answer = y] \in Only
    BY DEF IsCall
  <1> QED
    BY <1>1, <1>2, ZenonT(60)

(***************************************************************************)
(* The newest call is pending before its critical section and done after,  *)
(* with the outcome of the frame.                                          *)
(***************************************************************************)
LEMMA MoveFact ==
    ASSUME PoisonableInv, NEW t \in Threads, NEW f \in Frames, Within(t, f)
    PROVE  /\ sp[t] > 0 /\ sp[t] \in Depths /\ sp' = sp /\ TypeOK
           /\ Top(t) \in Frames /\ Shape(Top(t)) /\ Settled(Top(t))
           /\ f.op = Top(t).op /\ f.name = Top(t).name /\ Top(t) = frame[t][sp[t]]
           /\ Changes(t, sp[t], f)
           /\ Poisonable!Current(t) = PoisonableCall(Top(t))
           /\ PoisonableBar' = [PoisonableBar EXCEPT ![t][sp[t]] = PoisonableCall(f)]
  <1>1. /\ TypeOK /\ sp[t] > 0 /\ sp[t] \in Depths /\ sp' = sp
        /\ f.op = Top(t).op /\ f.name = Top(t).name /\ Changes(t, sp[t], f)
    BY DEF PoisonableInv, OwnersInv, Within, Moves, Changes
  <1>2. Top(t) = frame[t][sp[t]] /\ Poisonable!Current(t) = PoisonableCall(Top(t))
    BY <1>1, PoisonableCurrent
  <1>3. Top(t) \in Frames /\ Shape(Top(t)) /\ Settled(Top(t))
    BY <1>1, <1>2, TopFact DEF PoisonableInv, OwnersInv, StackInv
  <1> QED
    BY <1>1, <1>2, <1>3, PoisonableChange

\* The critical section is the effect; with the Mutex poisoned, the refusal.
LEMMA TakesFact ==
    ASSUME PoisonableInv, NEW t \in Threads, NEW f \in Frames, Within(t, f),
           Takes(t, Top(t), f) \/ Refused(Top(t), f)
    PROVE  Poisonable!TakeEffect(t) \/ Poisonable!Refuse(t)
  <1> DEFINE g == Top(t)
             c == PoisonableCall(g)
  <1>1. /\ sp[t] > 0 /\ sp' = sp /\ Shape(g) /\ f.op = g.op /\ f.name = g.name
        /\ c = Poisonable!Current(t) /\ g \in Frames
        /\ PoisonableBar' = [PoisonableBar EXCEPT ![t][sp[t]] = PoisonableCall(f)]
        /\ Takes(t, g, f) \/ Refused(g, f)
    BY MoveFact
  <1> HIDE DEF g
  <1>2. g.op # "rejected" /\ g.pc = "locked" /\ f.pc \in Later /\ g.hit = NoRule
    BY <1>1 DEF Takes, Refused, Shape, Later
  <1>3. IsCall(c, "pending", Kind(g.op), g.name, g.arc, NoRule)
    BY <1>2, PoisonableCallFact DEF IsCall
  <1>4. IsCall(PoisonableCall(f), "done", Kind(g.op), g.name, NoRule, Outcome(f))
    BY <1>1, <1>2, PoisonableCallFact DEF IsCall
  <1> HIDE DEF c
  <1>5. /\ c.op = Kind(g.op) /\ c.name = g.name /\ c.arg = g.arc /\ c.phase = "pending"
        /\ PoisonableCall(f) = [c EXCEPT !.phase = "done", !.arg = NoRule, !.answer = Outcome(f)]
    <2>1. PICK k, y, e : k = Kind(g.op) /\ y = Outcome(f) /\ e = PoisonableCall(f)
      OBVIOUS
    <2>2. IsCall(c, "pending", k, g.name, g.arc, NoRule)
      BY <1>3, <2>1
    <2>3. IsCall(e, "done", k, g.name, NoRule, y)
      BY <1>4, <2>1
    <2>4. e = [c EXCEPT !.phase = "done", !.arg = NoRule, !.answer = y]
      BY <2>2, <2>3, CallAnswered, ZenonT(60)
    <2>5. c.op = k /\ c.name = g.name /\ c.arg = g.arc /\ c.phase = "pending"
      BY <2>2, CallFields
    <2> QED
      BY <2>1, <2>4, <2>5
  <1>6. CASE Takes(t, g, f)
    <2>1. ~poisoned /\ poisoned' = poisoned
      BY <1>6 DEF Takes
    <2>2. registry' = Poisonable!After(c)
      BY <1>5, <1>6 DEF Takes, Registers, Kind, Poisonable!After
    <2>3. Poisonable!Answer(c) = Outcome(f)
      BY <1>1, <1>2, <1>5, <1>6 DEF Takes, Registers, Kind, Outcome, Poisonable!Answer
    <2>4. Poisonable!Effect(t)
      BY <1>1, <1>5, <2>2, <2>3 DEF Poisonable!Effect, PoisonableBar
    <2> QED
      BY <2>1, <2>4 DEF Poisonable!TakeEffect
  <1>7. CASE Refused(g, f)
    <2>1. poisoned /\ UNCHANGED <<registry, poisoned>>
      BY <1>7 DEF Refused
    <2>2. Poisonable!Refusal(c.op) = Outcome(f)
      BY <1>1, <1>2, <1>5, <1>7 DEF Refused, Kind, Outcome, Poisonable!Refusal
    <2> QED
      BY <1>1, <1>5, <2>1, <2>2 DEF Poisonable!Refuse, PoisonableBar
  <1> QED
    BY <1>1, <1>6, <1>7

\* A destructor that panics under the lock makes its call fail half way.
LEMMA UnwindsFact ==
    ASSUME PoisonableInv, NEW t \in Threads, NEW f \in Frames, Within(t, f),
           Unwinds(Top(t), f)
    PROVE  Poisonable!FailHalfway(t)
  <1> DEFINE g == Top(t)
             c == PoisonableCall(g)
  <1>1. /\ sp[t] > 0 /\ sp' = sp /\ Shape(g) /\ Settled(g) /\ f.op = g.op /\ f.name = g.name
        /\ c = Poisonable!Current(t) /\ sp[t] \in Depths /\ g = frame[t][sp[t]]
        /\ PoisonableBar' = [PoisonableBar EXCEPT ![t][sp[t]] = PoisonableCall(f)]
        /\ Unwinds(g, f)
    BY MoveFact
  <1> HIDE DEF g
  <1>2. /\ g.pc = "destroy_old" /\ g.pc \in Later /\ g.rc = "OK" /\ f.rc = "PANIC"
        /\ f.pc \in Later /\ g.op \in {"register_c", "register", "clear"}
        /\ poisoned' \in BOOLEAN /\ registry' = registry
    BY <1>1 DEF Unwinds, Settled, Registers, Later
  <1>3. ~poisoned
    BY <1>1, <1>2 DEF PoisonableInv, OwnersInv, PoisonInv
  <1>4. IsCall(c, "done", Kind(g.op), g.name, NoRule, "OK")
    <2>1. Outcome(g) = "OK"
      BY <1>2 DEF Outcome
    <2> QED
      BY <1>2, <2>1, PoisonableCallFact DEF IsCall
  <1>5. IsCall(PoisonableCall(f), "done", Kind(g.op), g.name, NoRule, "FAILED")
    <2>1. Outcome(f) = "FAILED"
      BY <1>1, <1>2 DEF Outcome
    <2> QED
      BY <1>1, <1>2, <2>1, PoisonableCallFact DEF IsCall
  <1> HIDE DEF c
  <1>6. /\ c.phase = "done" /\ c.op \in {"register", "clear"} /\ c.answer = "OK"
        /\ PoisonableCall(f) = [c EXCEPT !.answer = "FAILED"]
    <2>1. PICK k : k = Kind(g.op)
      OBVIOUS
    <2>2. IsCall(c, "done", k, g.name, NoRule, "OK")
      BY <1>4, <2>1
    <2>3. IsCall(PoisonableCall(f), "done", k, g.name, NoRule, "FAILED")
      BY <1>5, <2>1
    <2>4. PoisonableCall(f) = [c EXCEPT !.answer = "FAILED"]
      BY <2>2, <2>3, CallRevised
    <2>5. c.phase = "done" /\ c.op = k /\ c.answer = "OK"
      BY <2>2, CallFields
    <2> QED
      BY <1>2, <2>1, <2>4, <2>5 DEF Kind
  <1> QED
    BY <1>1, <1>2, <1>3, <1>6 DEF Poisonable!FailHalfway, PoisonableBar

\* What comes before and after is invisible; a panic outside the lock is that of a
\* call that has failed already.
LEMMA QuietMove ==
    ASSUME PoisonableInv, NEW t \in Threads, NEW f \in Frames, Within(t, f),
           Enters(t, Top(t), f) \/ Follows(t, Top(t), f)
    PROVE  UNCHANGED <<registry, sp, PoisonableBar, poisoned>>
  <1> DEFINE g == Top(t)
  <1>1. /\ sp' = sp /\ g.op \in Ops /\ Shape(g) /\ Settled(g) /\ f.op = g.op /\ f.name = g.name
        /\ g = frame[t][sp[t]] /\ Changes(t, sp[t], f)
        /\ Enters(t, g, f) \/ Follows(t, g, f)
    BY MoveFact DEF Frames
  <1> HIDE DEF g
  <1>2. PoisonableCall(f) = PoisonableCall(g)
    <2>1. CASE Enters(t, g, f)
      <3>1. g.op # "rejected" /\ g.pc \in {"wait", "locked"} /\ f.pc \in {"wait", "locked"}
            /\ f.arc = g.arc
        BY <1>1, <2>1 DEF Enters, Shape
      <3> QED
        BY <1>1, <3>1, PoisonableCallFact
    <2>2. CASE Follows(t, g, f) /\ g.op = "rejected"
      BY <1>1, <2>2, PoisonableCallFact DEF Follows, Onward
    <2>3. CASE Follows(t, g, f) /\ g.op # "rejected"
      <3>1. g.pc \in Later /\ f.pc \in Later
        BY <2>3 DEF Follows, Onward, Later
      <3>2. \/ f.rc = g.rc
            \/ g.op = "run"
            \/ g.rc = "PANIC" /\ f.rc = "E_RT"
            \/ g.rc = "E_RT" /\ f.rc = "PANIC"
        BY <1>1, <2>3 DEF Ops, Follows, Onward, Shape, Settled, Registers
      <3>3. Outcome(f) = Outcome(g)
        BY <1>1, <2>3, <3>2 DEF Follows, Outcome
      <3> QED
        BY <1>1, <2>3, <3>1, <3>3, PoisonableCallFact
    <2> QED
      BY <1>1, <2>1, <2>2, <2>3
  <1>3. PoisonableBar' = PoisonableBar
    BY <1>1, <1>2, PoisonableChange
  <1> QED
    BY <1>1, <1>3 DEF Enters, Follows

\* A call that begins is made at top level, by a rule that runs, or by a destructor.
LEMMA NestFact ==
    ASSUME PoisonableInv, NEW t \in Threads, InUserCode(t)
    PROVE  Poisonable!MayNest(t)
  <1> SUFFICES ASSUME sp[t] > 0
               PROVE  \/ Poisonable!Current(t).phase = "rejected"
                      \/ /\ Poisonable!Current(t).phase = "done"
                         /\ Poisonable!Current(t).op \in {"register", "clear"}
                      \/ Poisonable!MayCall(t)
    BY DEF Poisonable!MayNest
  <1> DEFINE g == Top(t)
             c == PoisonableCall(g)
  <1>1. TypeOK /\ sp[t] \in Depths /\ g \in Frames
    BY TopFact DEF PoisonableInv, OwnersInv
  <1>2. c = Poisonable!Current(t) /\ g = frame[t][sp[t]]
    BY <1>1, PoisonableCurrent
  <1>3. g.pc \in {"callback", "destroy_old", "destroy"} /\ Shape(g) /\ Settled(g) /\ g.op \in Ops
    BY <1>1, <1>2 DEF InUserCode, UserCode, PoisonableInv, OwnersInv, StackInv, Frames
  <1> HIDE DEF g
  <1>4. g.pc \in Later /\ g.pc # "none"
    BY <1>3 DEF Later
  <1>5. \/ g.op = "rejected"
        \/ g.op \in {"register_c", "register", "clear"}
        \/ g.op = "run" /\ g.hit # NoRule
    BY <1>3 DEF Shape, Settled, Registers, Ops
  <1>6. CASE g.op = "rejected"
    <2>1. IsCall(c, "rejected", "rejected", g.name, NoRule, NoRule)
      BY <1>4, <1>6, PoisonableCallFact DEF IsCall
    <2> HIDE DEF c
    <2> QED
      BY <1>2, <2>1, CallFields
  <1>7. CASE g.op # "rejected"
    <2>1. IsCall(c, "done", Kind(g.op), g.name, NoRule, Outcome(g))
      BY <1>4, <1>7, PoisonableCallFact DEF IsCall
    <2> HIDE DEF c
    <2>2. c.phase = "done" /\ c.op = Kind(g.op) /\ c.answer = Outcome(g)
      BY <2>1, CallFields
    <2>3. CASE g.op \in {"register_c", "register", "clear"}
      BY <1>2, <2>2, <2>3 DEF Kind
    <2>4. CASE g.op = "run" /\ g.hit # NoRule
      <3>1. c.op = "run" /\ c.answer # NoRule
        BY <2>2, <2>4 DEF Kind, Outcome
      <3> QED
        BY <1>2, <2>2, <3>1 DEF Poisonable!MayCall
    <2> QED
      BY <1>5, <1>7, <2>3, <2>4
  <1> QED
    BY <1>6, <1>7

LEMMA BeginFact ==
    ASSUME PoisonableInv, NEW t \in Threads, HostCall(t)
    PROVE  Poisonable!Begin(t)
  <1>1. TypeOK /\ InUserCode(t)
    BY CalledForm DEF PoisonableInv, OwnersInv
  <1>2. PICK f \in Frames : Called(t, f)
    BY <1>1, CalledForm
  <1>3. sp' = [sp EXCEPT ![t] = @ + 1] /\ sp[t] < MaxDepth
    BY DEF HostCall, CallRegisterC, CallRegister, CallExists, CallRun, CallClear,
           CallBadArgument, Push
  <1>4. /\ registry' = registry /\ poisoned' = poisoned
        /\ f.name \in AllNames /\ f.arc \in Rules \cup {NoRule} /\ Changes(t, sp[t] + 1, f)
    BY <1>2 DEF Called, Begins, Changes, Frames, MaybeRule
  <1>5. PICK phase \in {"pending", "rejected"},
             op \in {"register", "exists", "run", "clear", "rejected"},
             arg \in Rules \cup {NoRule} :
           PoisonableCall(f) = [phase |-> phase, op |-> op, name |-> f.name, arg |-> arg,
                                answer |-> NoRule]
    <2>1. CASE f.op = "rejected"
      <3>1. f.pc # "none"
        BY <1>2 DEF Called
      <3> QED
        BY <2>1, <3>1, PoisonableCallFact
    <2>2. CASE f.op # "rejected"
      <3>1. f.pc = "wait" /\ Kind(f.op) \in {"register", "exists", "run", "clear"}
        BY <1>2, <2>2 DEF Called, Kind
      <3> QED
        BY <1>4, <2>2, <3>1, PoisonableCallFact
    <2> QED
      BY <2>1, <2>2
  <1>6. PoisonableCall(f) \in Poisonable!Begun
    BY <1>4, <1>5 DEF Poisonable!Begun
  <1>7. PoisonableBar' = [PoisonableBar EXCEPT ![t][sp[t] + 1] = PoisonableCall(f)]
    BY <1>4, PoisonableChange
  <1> QED
    BY <1>1, <1>3, <1>4, <1>6, <1>7, NestFact DEF Poisonable!Begin, PoisonableBar

LEMMA EndFact ==
    ASSUME PoisonableInv, NEW t \in Threads, Return(t)
    PROVE  Poisonable!Respond(t) /\ UNCHANGED poisoned
  <1>1. /\ TypeOK /\ Ends(t) /\ registry' = registry /\ poisoned' = poisoned
        /\ sp' = [sp EXCEPT ![t] = @ - 1]
    BY ReturnForm DEF PoisonableInv, OwnersInv, Return
  <1> DEFINE g == Top(t)
  <1>2. sp[t] \in Depths /\ sp[t] > 0 /\ g.pc = "return"
        /\ Poisonable!Current(t) = PoisonableCall(g)
    BY <1>1, ReturnForm, PoisonableCurrent DEF Ends
  <1>3. Changes(t, sp[t], NoFrame)
    BY <1>1, NoFrameFact DEF Ends, Changes
  <1> HIDE DEF g
  <1>4. PoisonableCall(g).phase \in {"done", "rejected"}
    <2>1. CASE g.op = "rejected"
      BY <1>2, <2>1, PoisonableCallFact
    <2>2. CASE g.op # "rejected"
      <3>1. g.pc \in Later
        BY <1>2 DEF Later
      <3>2. IsCall(PoisonableCall(g), "done", Kind(g.op), g.name, NoRule, Outcome(g))
        BY <2>2, <3>1, PoisonableCallFact DEF IsCall
      <3> QED
        BY <3>2, CallFields
    <2> QED
      BY <2>1, <2>2
  <1>5. PoisonableBar' = [PoisonableBar EXCEPT ![t][sp[t]] = Poisonable!NoCall]
    BY <1>3, NoFrameFact, PoisonableCallFact, PoisonableChange
  <1> QED
    BY <1>1, <1>2, <1>4, <1>5 DEF Poisonable!Respond, PoisonableBar

LEMMA InitFailable == Init => Poisonable!PoisonableInit
  <1> SUFFICES ASSUME Init PROVE Poisonable!PoisonableInit
    OBVIOUS
  <1>1. \A t \in Threads : \A d \in Depths : PoisonableCall(frame[t][d]) = Poisonable!NoCall
    BY NoFrameFact, PoisonableCallFact DEF Init
  <1>2. PoisonableBar = [t \in Threads |-> [d \in 1..MaxDepth |-> Poisonable!NoCall]]
    BY <1>1 DEF PoisonableBar, Depths
  <1> QED
    BY <1>2 DEF Init, Poisonable!PoisonableInit, Poisonable!StoreInit, PoisonableBar

LEMMA NextFailable ==
    PoisonableInv /\ PoisonableInv' /\ [Next]_vars
        => [Poisonable!PoisonableNext]_Poisonable!poisonableVars
  <1> SUFFICES ASSUME PoisonableInv, PoisonableInv', [Next]_vars
               PROVE  \/ Poisonable!PoisonableNext
                      \/ UNCHANGED <<registry, sp, PoisonableBar, poisoned>>
    BY DEF Poisonable!poisonableVars, PoisonableBar
  <1>1. CASE UNCHANGED vars
    BY <1>1 DEF vars, PoisonableBar, PoisonableCall, StoreCall, Depths
  <1>2. ASSUME NEW t \in Threads, HostCall(t) \/ LibraryStep(t) \/ UserStep(t)
        PROVE  \/ Poisonable!PoisonableNext
               \/ UNCHANGED <<registry, sp, PoisonableBar, poisoned>>
    <2>1. CASE HostCall(t)
      BY <2>1, BeginFact DEF Poisonable!PoisonableNext
    <2>2. CASE Return(t)
      BY <2>2, EndFact DEF Poisonable!PoisonableNext
    <2>3. CASE (LibraryStep(t) \/ UserStep(t)) /\ ~Return(t)
      <3>1. PICK f \in Frames : Within(t, f)
        BY <2>3, WithinForm DEF PoisonableInv, OwnersInv
      <3>2. CASE Takes(t, Top(t), f) \/ Refused(Top(t), f)
        BY <3>1, <3>2, TakesFact DEF Poisonable!PoisonableNext
      <3>3. CASE Unwinds(Top(t), f)
        BY <3>1, <3>3, UnwindsFact DEF Poisonable!PoisonableNext
      <3>4. CASE Enters(t, Top(t), f) \/ Follows(t, Top(t), f)
        BY <3>1, <3>4, QuietMove
      <3> QED
        BY <3>1, <3>2, <3>3, <3>4 DEF Within
    <2> QED
      BY <1>2, <2>1, <2>2, <2>3
  <1> QED
    BY <1>1, <1>2 DEF Next, Quiesced

(***************************************************************************)
(* Whatever the rules' destructors do, call the registry again or panic,   *)
(* the registry is linearizable: a call that unwinds under the lock has    *)
(* had its effect, later calls go on from there, and once a panic has      *)
(* poisoned the Mutex every call is refused (rule.rs:61-68, 91-120).       *)
(***************************************************************************)
THEOREM RegistryFailsCleanly == Spec => ImplementsPoisonableStore
  <1>1. PoisonableInv /\ [Next]_vars => PoisonableInv'
    BY NextPoisonable
  <1>2. PoisonableInv /\ PoisonableInv' /\ [Next]_vars
            => [Poisonable!PoisonableNext]_Poisonable!poisonableVars
    BY NextFailable
  <1> QED
    BY <1>1, <1>2, InitPoisonable, InitFailable, PTL
       DEF Spec, ImplementsPoisonableStore, Poisonable!PoisonableSpec
=============================================================================
