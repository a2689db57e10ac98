---------------------------- MODULE RuleRegistry ----------------------------
(***************************************************************************)
(* The global rule registry of rule.rs behind its C entry points in ffi.rs *)
(* : a Mutex<HashMap<String, Arc<RuleFn>>> used by many threads, whose     *)
(* rules are callbacks of the host that may call the registry again.       *)
(*                                                                         *)
(* Every thread has a stack of calls into the library.  frame[t][d] is the *)
(* activation record of the call at depth d; a nested call is made by user *)
(* code (a rule, or the destructor of a value a Rust rule captured) that   *)
(* the frame below it is running.  The Mutex is cut into acquire, the      *)
(* critical section, and release, and an Arc into its strong count.        *)
(***************************************************************************)
EXTENDS Integers, FiniteSets

CONSTANTS
    Threads,      \* threads of the host process
    Names,        \* valid rule names
    EmptyName,    \* the name ""
    Rules,        \* closures; each registration boxes a fresh one
    NoRule,       \* the absence of a closure
    NativeRules,  \* closures registered from Rust through rule::register
    UserDrop,     \* native closures whose destructor runs code of the host
    Free,         \* the value of an unlocked Mutex
    MaxDepth,     \* bound on nested calls of a thread
    MaxCalls      \* bound on the calls made by all threads together

ASSUME ConstantsAssumption ==
    /\ MaxDepth \in Nat \ {0} /\ MaxCalls \in Nat
    /\ EmptyName \notin Names
    /\ NoRule \notin Rules
    /\ Free \notin Threads
    /\ NativeRules \subseteq Rules
    /\ UserDrop \subseteq NativeRules

ASSUME FiniteAssumption == IsFiniteSet(Threads) /\ IsFiniteSet(Names)

VARIABLES
    registry,  \* the HashMap: name -> closure
    lock,      \* owner of the Mutex
    poisoned,  \* the Mutex's poison flag
    refs,      \* owners of each closure (the Arc's strong count once it has one)
    status,    \* "unused", "live", "dropped", or "leaked" by an unwinding clear
    sp,        \* number of calls on each thread's stack
    frame,     \* activation records
    lastErr,   \* the thread-local LAST_ERROR, as the reason it tells
    calls      \* calls made so far (bounded by MaxCalls)

vars == <<registry, lock, poisoned, refs, status, sp, frame, lastErr, calls>>
store == <<registry, lock, poisoned>>
heap == <<refs, status>>

AllNames == Names \cup {EmptyName}
MaybeRule == Rules \cup {NoRule}
Depths == 1..MaxDepth

\* "rejected" is a call its argument checks turned down.
Ops == {"register_c", "register", "exists", "run", "clear", "rejected", "none"}
Codes == {"none", "OK", "E_PARAM", "E_RT", "RULE_ERR", "YES", "NO", "PANIC"}
Reasons == {"none", "bad_argument", "not_found", "poisoned", "panic"}

\* Program counters inside the critical section, and those of user code.
UnderLock == {"locked", "drop_old", "destroy_old", "unlock"}
UserCode == {"callback", "destroy_old", "destroy"}
Pcs == UnderLock \cup UserCode \cup {"wait", "release", "return", "none"}

(***************************************************************************)
(* A frame: arc is the closure this call owns (the one to insert, or the   *)
(* clone to execute), hit the closure its lookup found, old the closures   *)
(* it took out of the map, reported whether this call has set last-error.  *)
(***************************************************************************)
Frames == [pc : Pcs, op : Ops, name : AllNames, arc : MaybeRule,
           hit : MaybeRule, old : SUBSET Rules, rc : Codes, reported : BOOLEAN]

NewFrame(op, name, arc, pc, rc) ==
    [pc |-> pc, op |-> op, name |-> name, arc |-> arc, hit |-> NoRule,
     old |-> {}, rc |-> rc, reported |-> FALSE]

NoFrame == NewFrame("none", EmptyName, NoRule, "none", "none")

Top(t) == frame[t][sp[t]]
At(t, pc) == sp[t] > 0 /\ Top(t).pc = pc
SetTop(t, f) == frame' = [frame EXCEPT ![t][sp[t]] = f]

InUserCode(t) == sp[t] > 0 => Top(t).pc \in UserCode

\* set_last_error: only the calling thread's message changes.
SetLastError(t, why) == lastErr' = [lastErr EXCEPT ![t] = why]

Init ==
    /\ registry = [n \in AllNames |-> NoRule]
    /\ lock = Free
    /\ poisoned = FALSE
    /\ refs = [r \in Rules |-> 0]
    /\ status = [r \in Rules |-> "unused"]
    /\ sp = [t \in Threads |-> 0]
    /\ frame = [t \in Threads |-> [d \in Depths |-> NoFrame]]
    /\ lastErr = [t \in Threads |-> "none"]
    /\ calls = 0

-----------------------------------------------------------------------------
(***************************************************************************)
(* Calls.  User code of thread t calls an entry point; what the entry      *)
(* point does before rules().lock() (null checks, conversion of the name,  *)
(* the empty-name test, boxing the closure) touches nothing shared.        *)
(***************************************************************************)
Push(t, f) ==
    /\ InUserCode(t)
    /\ sp[t] < MaxDepth
    /\ calls < MaxCalls
    /\ sp' = [sp EXCEPT ![t] = @ + 1]
    /\ calls' = calls + 1
    /\ frame' = [frame EXCEPT ![t][sp[t] + 1] = f]

BoxClosure(r) ==
    /\ status[r] = "unused"
    /\ status' = [status EXCEPT ![r] = "live"]
    /\ refs' = [refs EXCEPT ![r] = 1]

\* rtorch_api_register_rule with valid arguments: register_c boxes (cf, userdata).
CallRegisterC(t) ==
    \E n \in Names, r \in Rules \ NativeRules :
        /\ Push(t, NewFrame("register_c", n, r, "wait", "none"))
        /\ BoxClosure(r)
        /\ UNCHANGED <<store, lastErr>>

\* rule::register from Rust.  With an empty name the closure is still moved in
\* and dropped on the way out.
CallRegister(t) ==
    \E r \in NativeRules :
        /\ BoxClosure(r)
        /\ \/ \E n \in Names :
                 /\ Push(t, NewFrame("register", n, r, "wait", "none"))
                 /\ UNCHANGED lastErr
           \/ /\ Push(t, [NewFrame("rejected", EmptyName, r, "release", "E_PARAM")
                            EXCEPT !.reported = TRUE])
              /\ SetLastError(t, "bad_argument")
        /\ UNCHANGED store

CallExists(t) ==
    /\ \E n \in AllNames : Push(t, NewFrame("exists", n, NoRule, "wait", "none"))
    /\ UNCHANGED <<store, heap, lastErr>>

CallRun(t) ==
    /\ \E n \in AllNames : Push(t, NewFrame("run", n, NoRule, "wait", "none"))
    /\ UNCHANGED <<store, heap, lastErr>>

CallClear(t) ==
    /\ Push(t, NewFrame("clear", EmptyName, NoRule, "wait", "none"))
    /\ UNCHANGED <<store, heap, lastErr>>

\* Null name, fn, out or blobs, or the empty name in register_c: E_PARAM and a
\* message; rule_exists answers 0 to a null name and reports nothing.
CallBadArgument(t) ==
    /\ \/ /\ Push(t, [NewFrame("rejected", EmptyName, NoRule, "return", "E_PARAM")
                          EXCEPT !.reported = TRUE])
          /\ SetLastError(t, "bad_argument")
       \/ /\ Push(t, NewFrame("rejected", EmptyName, NoRule, "return", "NO"))
          /\ UNCHANGED lastErr
    /\ UNCHANGED <<store, heap>>

-----------------------------------------------------------------------------
(***************************************************************************)
(* The critical section.                                                   *)
(***************************************************************************)

\* Wrong form: the map is used without waiting for the Mutex.
AcquireWithoutWaiting(t) ==
    /\ At(t, "wait")
    /\ lock' = t
    /\ SetTop(t, [Top(t) EXCEPT !.pc = "locked"])
    /\ UNCHANGED <<registry, poisoned, heap, sp, lastErr, calls>>

\* rules().lock(): a poisoned Mutex is acquired too, inside the PoisonError.
Acquire(t) ==
    /\ At(t, "wait")
    /\ lock = Free
    /\ lock' = t
    /\ SetTop(t, [Top(t) EXCEPT !.pc = "locked"])
    /\ UNCHANGED <<registry, poisoned, heap, sp, lastErr, calls>>

\* The answer to a poisoned lock: exists says no, clear does nothing, the rest fail.
RefusePoisoned(t) ==
    /\ At(t, "locked")
    /\ poisoned
    /\ \/ /\ Top(t).op \in {"register_c", "register", "run"}
          /\ SetTop(t, [Top(t) EXCEPT !.pc = "unlock", !.rc = "E_RT",
                                      !.reported = TRUE])
          /\ SetLastError(t, "poisoned")
       \/ /\ Top(t).op \in {"exists", "clear"}
          /\ SetTop(t, [Top(t) EXCEPT !.pc = "unlock",
                            !.rc = IF Top(t).op = "exists" THEN "NO" ELSE "OK"])
          /\ UNCHANGED lastErr
    /\ UNCHANGED <<store, heap, sp, calls>>

\* Wrong forms of Insert: the empty slot is dropped like a closure; the replaced
\* closure is forgotten instead of dropped; the first rule of a name is kept; the
\* poison flag is ignored.
InsertDropsNothing(t) ==
    /\ At(t, "locked") /\ ~poisoned /\ Top(t).op \in {"register_c", "register"}
    /\ registry' = [registry EXCEPT ![Top(t).name] = Top(t).arc]
    /\ SetTop(t, [Top(t) EXCEPT !.pc = "drop_old", !.rc = "OK", !.arc = NoRule,
                                !.old = {registry[Top(t).name]}])
    /\ UNCHANGED <<lock, poisoned, heap, sp, lastErr, calls>>

InsertForgetsOld(t) ==
    /\ At(t, "locked") /\ ~poisoned /\ Top(t).op \in {"register_c", "register"}
    /\ registry' = [registry EXCEPT ![Top(t).name] = Top(t).arc]
    /\ SetTop(t, [Top(t) EXCEPT !.pc = "drop_old", !.rc = "OK", !.arc = NoRule])
    /\ UNCHANGED <<lock, poisoned, heap, sp, lastErr, calls>>

InsertKeepsFirst(t) ==
    /\ At(t, "locked") /\ ~poisoned /\ Top(t).op \in {"register_c", "register"}
    /\ registry' = [registry EXCEPT ![Top(t).name] = IF @ = NoRule THEN Top(t).arc ELSE @]
    /\ SetTop(t, [Top(t) EXCEPT !.pc = "unlock", !.rc = "OK"])
    /\ UNCHANGED <<lock, poisoned, heap, sp, lastErr, calls>>

InsertDespitePoison(t) ==
    /\ At(t, "locked") /\ Top(t).op \in {"register_c", "register"}
    /\ registry' = [registry EXCEPT ![Top(t).name] = Top(t).arc]
    /\ SetTop(t, [Top(t) EXCEPT !.pc = "drop_old", !.rc = "OK", !.arc = NoRule,
                                !.old = {registry[Top(t).name]} \ {NoRule}])
    /\ UNCHANGED <<lock, poisoned, heap, sp, lastErr, calls>>

\* HashMap::insert: the closure moves into the map; the one it replaces is
\* returned and dropped by the same statement, the guard still alive.
Insert(t) ==
    /\ At(t, "locked")
    /\ ~poisoned
    /\ Top(t).op \in {"register_c", "register"}
    /\ registry' = [registry EXCEPT ![Top(t).name] = Top(t).arc]
    /\ SetTop(t, [Top(t) EXCEPT !.pc = "drop_old", !.rc = "OK", !.arc = NoRule,
                                !.old = {registry[Top(t).name]} \ {NoRule}])
    /\ UNCHANGED <<lock, poisoned, heap, sp, lastErr, calls>>

\* Wrong form: the map is read inside the PoisonError.
ContainsKeyDespitePoison(t) ==
    /\ At(t, "locked") /\ Top(t).op = "exists"
    /\ SetTop(t, [Top(t) EXCEPT !.pc = "unlock",
                      !.rc = IF registry[Top(t).name] # NoRule THEN "YES" ELSE "NO"])
    /\ UNCHANGED <<store, heap, sp, lastErr, calls>>

ContainsKey(t) ==
    /\ At(t, "locked")
    /\ ~poisoned
    /\ Top(t).op = "exists"
    /\ SetTop(t, [Top(t) EXCEPT !.pc = "unlock",
                      !.rc = IF registry[Top(t).name] # NoRule THEN "YES" ELSE "NO"])
    /\ UNCHANGED <<store, heap, sp, lastErr, calls>>

\* Wrong form: the rule is borrowed from the map, not cloned.
CloneUncounted(t) ==
    LET r == registry[Top(t).name] IN
    /\ At(t, "locked") /\ ~poisoned /\ Top(t).op = "run" /\ r # NoRule
    /\ SetTop(t, [Top(t) EXCEPT !.pc = "unlock", !.arc = r, !.hit = r])
    /\ UNCHANGED <<store, heap, sp, lastErr, calls>>

\* run: Arc::clone under the lock ...
CloneRule(t) ==
    LET r == registry[Top(t).name] IN
    /\ At(t, "locked")
    /\ ~poisoned
    /\ Top(t).op = "run"
    /\ r # NoRule
    /\ refs' = [refs EXCEPT ![r] = @ + 1]
    /\ SetTop(t, [Top(t) EXCEPT !.pc = "unlock", !.arc = r, !.hit = r])
    /\ UNCHANGED <<store, status, sp, lastErr, calls>>

\* ... or the error, set before the guard is dropped.
RuleNotFound(t) ==
    /\ At(t, "locked")
    /\ ~poisoned
    /\ Top(t).op = "run"
    /\ registry[Top(t).name] = NoRule
    /\ SetTop(t, [Top(t) EXCEPT !.pc = "unlock", !.rc = "E_PARAM", !.reported = TRUE])
    /\ SetLastError(t, "not_found")
    /\ UNCHANGED <<store, heap, sp, calls>>

\* HashMap::clear drops every value under the lock; the table ends up empty even
\* if one of the drops unwinds.
ClearAll(t) ==
    /\ At(t, "locked")
    /\ ~poisoned
    /\ Top(t).op = "clear"
    /\ registry' = [n \in AllNames |-> NoRule]
    /\ SetTop(t, [Top(t) EXCEPT !.pc = "drop_old", !.rc = "OK",
                      !.old = {registry[n] : n \in AllNames} \ {NoRule}])
    /\ UNCHANGED <<lock, poisoned, heap, sp, lastErr, calls>>

\* One owner of r goes away; the last one drops the closure.
DropOwner(r) ==
    /\ refs' = [refs EXCEPT ![r] = @ - 1]
    /\ status' = IF refs[r] = 1 THEN [status EXCEPT ![r] = "dropped"] ELSE status

RunsDestructor(r) == r \in UserDrop /\ refs[r] = 1

DropOld(t) ==
    /\ At(t, "drop_old")
    /\ \E r \in Top(t).old :
        /\ DropOwner(r)
        /\ SetTop(t, [Top(t) EXCEPT !.old = @ \ {r},
                          !.pc = IF RunsDestructor(r) THEN "destroy_old" ELSE @])
    /\ UNCHANGED <<store, sp, lastErr, calls>>

\* Wrong form: the guard lives until the callback has returned.
UnlockAfterCallback(t) ==
    /\ At(t, "unlock") \/ (At(t, "drop_old") /\ Top(t).old = {})
    /\ lock' = IF Top(t).hit # NoRule THEN lock ELSE Free
    /\ SetTop(t, [Top(t) EXCEPT !.pc = IF Top(t).hit # NoRule THEN "callback"
                                                               ELSE "release"])
    /\ UNCHANGED <<registry, poisoned, heap, sp, lastErr, calls>>

\* The guard is dropped: run goes on to the callback, any other call to its end.
Unlock(t) ==
    /\ \/ At(t, "unlock")
       \/ At(t, "drop_old") /\ Top(t).old = {}
    /\ lock' = Free
    /\ SetTop(t, [Top(t) EXCEPT !.pc = IF Top(t).hit # NoRule THEN "callback"
                                                               ELSE "release"])
    /\ UNCHANGED <<registry, poisoned, heap, sp, lastErr, calls>>

-----------------------------------------------------------------------------
(***************************************************************************)
(* User code: the callback of a run, and the destructor of what a native   *)
(* rule captured.  Both may make calls (above) before they end.            *)
(***************************************************************************)
CallbackReturns(t) ==
    /\ At(t, "callback")
    /\ \E rc \in {"OK", "RULE_ERR"} :
          SetTop(t, [Top(t) EXCEPT !.pc = "release", !.rc = rc])
    /\ UNCHANGED <<store, heap, sp, lastErr, calls>>

\* Only Rust code can unwind into the library.  If what unwinding then drops
\* runs a destructor that panics, the process aborts and the behaviour ends.
CallbackPanics(t) ==
    /\ At(t, "callback")
    /\ Top(t).arc \in NativeRules
    /\ SetTop(t, [Top(t) EXCEPT !.pc = "release", !.rc = "PANIC"])
    /\ UNCHANGED <<store, heap, sp, lastErr, calls>>

DestructorReturns(t) ==
    /\ \/ At(t, "destroy_old") /\ SetTop(t, [Top(t) EXCEPT !.pc = "drop_old"])
       \/ At(t, "destroy") /\ SetTop(t, [Top(t) EXCEPT !.pc = "return"])
    /\ UNCHANGED <<store, heap, sp, lastErr, calls>>

\* A rule of this thread has panicked and what it held is being dropped: whatever
\* that calls, it calls while the thread is panicking.
Unwinding(t) ==
    \E d \in Depths :
        d < sp[t] /\ frame[t][d].pc = "destroy" /\ frame[t][d].rc = "PANIC"

(***************************************************************************)
(* A destructor that panics under the lock unwinds through the guard,      *)
(* which releases the Mutex and, if the thread was not already panicking   *)
(* when it locked, poisons it.  The thread may also have been panicking    *)
(* because the code of the host that made this call was unwinding, which   *)
(* the frames do not tell.  What clear had still to drop is leaked.        *)
(***************************************************************************)
DestructorPanicsUnderLock(t) ==
    /\ At(t, "destroy_old")
    /\ poisoned' \in IF Unwinding(t) THEN {FALSE} ELSE BOOLEAN
    /\ lock' = Free
    /\ status' = [r \in Rules |-> IF r \in Top(t).old THEN "leaked" ELSE status[r]]
    /\ SetTop(t, [Top(t) EXCEPT !.pc = "release", !.rc = "PANIC", !.old = {}])
    /\ UNCHANGED <<registry, refs, sp, lastErr, calls>>

\* Outside the lock; a second panic during unwinding aborts (no step).
DestructorPanics(t) ==
    /\ At(t, "destroy")
    /\ Top(t).rc # "PANIC"
    /\ SetTop(t, [Top(t) EXCEPT !.pc = "return", !.rc = "PANIC"])
    /\ UNCHANGED <<store, heap, sp, lastErr, calls>>

-----------------------------------------------------------------------------
(***************************************************************************)
(* The way out: the closure the call still owns is dropped outside the     *)
(* lock, ffi_guard turns a panic into E_RT, the caller gets the code.      *)
(***************************************************************************)
Release(t) ==
    /\ At(t, "release")
    /\ LET r == Top(t).arc IN
       IF r = NoRule
       THEN /\ SetTop(t, [Top(t) EXCEPT !.pc = "return"])
            /\ UNCHANGED heap
       ELSE /\ DropOwner(r)
            /\ SetTop(t, [Top(t) EXCEPT !.arc = NoRule,
                     !.pc = IF RunsDestructor(r) THEN "destroy" ELSE "return"])
    /\ UNCHANGED <<store, sp, lastErr, calls>>

\* Entry points of the C ABI run inside ffi_guard; register and clear, called
\* from Rust, let the panic through.
Guarded(op) == op \in {"register_c", "exists", "run"}

\* Wrong form: the panic becomes E_RT but last-error keeps its old message.
CatchSilently(t) ==
    /\ At(t, "return") /\ Top(t).rc = "PANIC" /\ Guarded(Top(t).op)
    /\ SetTop(t, [Top(t) EXCEPT !.rc = "E_RT"])
    /\ UNCHANGED <<store, heap, sp, lastErr, calls>>

CatchPanic(t) ==
    /\ At(t, "return")
    /\ Top(t).rc = "PANIC"
    /\ Guarded(Top(t).op)
    /\ SetTop(t, [Top(t) EXCEPT !.rc = "E_RT", !.reported = TRUE])
    /\ SetLastError(t, "panic")
    /\ UNCHANGED <<store, heap, sp, calls>>

Return(t) ==
    /\ At(t, "return")
    /\ ~(Top(t).rc = "PANIC" /\ Guarded(Top(t).op))
    /\ SetTop(t, NoFrame)
    /\ sp' = [sp EXCEPT ![t] = @ - 1]
    /\ UNCHANGED <<store, heap, lastErr, calls>>

-----------------------------------------------------------------------------
HostCall(t) ==
    \/ CallRegisterC(t) \/ CallRegister(t) \/ CallExists(t)
    \/ CallRun(t) \/ CallClear(t) \/ CallBadArgument(t)

LibraryStep(t) ==
    \/ Acquire(t) \/ RefusePoisoned(t)
    \/ Insert(t) \/ ContainsKey(t) \/ CloneRule(t) \/ RuleNotFound(t) \/ ClearAll(t)
    \/ DropOld(t) \/ Unlock(t)
    \/ Release(t) \/ CatchPanic(t) \/ Return(t)

UserStep(t) ==
    \/ CallbackReturns(t) \/ CallbackPanics(t)
    \/ DestructorReturns(t) \/ DestructorPanicsUnderLock(t) \/ DestructorPanics(t)

\* No call is in progress.
Quiesced ==
    /\ \A t \in Threads : sp[t] = 0
    /\ UNCHANGED vars

Next == (\E t \in Threads : HostCall(t) \/ LibraryStep(t) \/ UserStep(t)) \/ Quiesced

Spec == Init /\ [][Next]_vars

(***************************************************************************)
(* The scheduler runs every thread that is inside the library; nothing is  *)
(* assumed of user code, so a callback may run for ever.                   *)
(***************************************************************************)
FairSpec == Spec /\ \A t \in Threads : WF_vars(LibraryStep(t))

-----------------------------------------------------------------------------
TypeOK ==
    /\ registry \in [AllNames -> MaybeRule]
    /\ lock \in Threads \cup {Free}
    /\ poisoned \in BOOLEAN
    /\ refs \in [Rules -> Int]
    /\ status \in [Rules -> {"unused", "live", "dropped", "leaked"}]
    /\ sp \in [Threads -> 0..MaxDepth]
    /\ frame \in [Threads -> [Depths -> Frames]]
    /\ lastErr \in [Threads -> Reasons]
    /\ calls \in 0..MaxCalls

(***************************************************************************)
(* The critical section: the Mutex is owned by t exactly when t's newest   *)
(* call is inside it, and no older call of any thread is.                  *)
(***************************************************************************)
CriticalSection ==
    /\ \A t \in Threads : \A d \in Depths :
          d <= sp[t] /\ frame[t][d].pc \in UnderLock => lock = t /\ d = sp[t]
    /\ \A t \in Threads : lock = t => sp[t] > 0 /\ Top(t).pc \in UnderLock

(***************************************************************************)
(* The registry lock is released before any code of the host runs          *)
(* (rule.rs:96-98): whoever owns the Mutex is executing library code, at   *)
(* every depth of re-entrant calls.  It needs UserDrop = {}.               *)
(***************************************************************************)
NoUserCodeUnderLock ==
    \A t \in Threads : lock = t => ~InUserCode(t)

(***************************************************************************)
(* A rule may re-enter the registry without deadlocking (rule.rs:28-30):   *)
(* a call waits for a Mutex its own thread owns, and so for ever, only     *)
(* when it comes, however deep, from the destructor of a native rule that  *)
(* was replaced or cleared.                                                *)
(***************************************************************************)
OnlyDestructorsDeadlock ==
    \A t \in Threads :
        At(t, "wait") /\ lock = t =>
            \E d \in Depths : d < sp[t] /\ frame[t][d].pc = "destroy_old"

(***************************************************************************)
(* The Arc counts are right: every closure has as many counted owners as   *)
(* there are map entries, calls executing it, and calls about to drop it.  *)
(***************************************************************************)
Activations == Threads \X Depths

Owners(r) ==
    Cardinality({n \in AllNames : registry[n] = r})
    + Cardinality({a \in Activations : frame[a[1]][a[2]].arc = r})
    + Cardinality({a \in Activations : r \in frame[a[1]][a[2]].old})

RefsCountOwners ==
    \A r \in Rules : refs[r] = Owners(r) + (IF status[r] = "leaked" THEN 1 ELSE 0)

(***************************************************************************)
(* A rule replaced or cleared while some thread is inside it, or is about  *)
(* to call it, stays alive until that call is over (rule.rs:28-30, 101).   *)
(***************************************************************************)
NoUseAfterDrop ==
    /\ \A a \in Activations :
          LET f == frame[a[1]][a[2]] IN
          f.pc \in {"unlock", "callback"} /\ f.hit # NoRule
              => f.arc = f.hit /\ status[f.hit] \in {"live", "leaked"}
    /\ \A n \in AllNames : registry[n] # NoRule => status[registry[n]] \in {"live", "leaked"}

(***************************************************************************)
(* Once no call is in progress, the only closures alive are those a name   *)
(* leads to: replacing, clearing and failing to register free the others.  *)
(***************************************************************************)
NothingLeaks ==
    (\A t \in Threads : sp[t] = 0) =>
        \A r \in Rules : status[r] = "live" => \E n \in AllNames : registry[n] = r

(***************************************************************************)
(* When a call returns a code of the library, the thread's last-error is   *)
(* the message of that very failure: no call nested in it, and no other    *)
(* thread, has replaced it (err.rs:15-24).  It needs UserDrop = {}.        *)
(***************************************************************************)
FailureExplained ==
    \A t \in Threads : At(t, "return") =>
        /\ Top(t).rc = "E_PARAM" => lastErr[t] \in {"bad_argument", "not_found"}
        /\ Top(t).rc = "E_RT" => lastErr[t] \in {"poisoned", "panic"}

(***************************************************************************)
(* Every failing call sets last-error, a rule's own error included:        *)
(* "Errored rules set last-error via the caller" (rule.rs:14).  The code   *)
(* does not.                                                               *)
(***************************************************************************)
RuleErrorsReported ==
    \A t \in Threads :
        At(t, "return") /\ Top(t).rc = "RULE_ERR" => Top(t).reported

(***************************************************************************)
(* Once a panicking destructor has poisoned the Mutex no call starts a     *)
(* rule any more and the map is frozen, whatever was already executing     *)
(* (rule.rs:61-68, 91-120).                                                *)
(***************************************************************************)
PoisonStopsRules ==
    [][poisoned =>
          /\ registry' = registry
          /\ \A t \in Threads : At(t, "callback")' =>
                At(t, "callback") \/ sp'[t] < sp[t]]_vars

(***************************************************************************)
(* The library gives control back to the host (or to the rule it was asked *)
(* to run) however long the callbacks of other threads run, even for ever: *)
(* "a long callback does not block other threads" (rule.rs:29-30).         *)
(***************************************************************************)
ControlReturns ==
    \A t \in Threads : ~InUserCode(t) ~> InUserCode(t)

-----------------------------------------------------------------------------
(***************************************************************************)
(* The abstract store behind the registry.  A call is pending until its    *)
(* critical section has read or written the map, and done from then on.    *)
(***************************************************************************)
StoreCall(f) ==
    IF f.pc = "none"
    THEN [phase |-> "none", op |-> "none", name |-> NoRule, arg |-> NoRule,
          answer |-> NoRule]
    ELSE LET phase == IF f.op = "rejected" THEN "rejected"
                      ELSE IF f.pc \in {"wait", "locked"} THEN "pending"
                      ELSE "done"
         IN [phase |-> phase,
             op |-> IF f.op = "register_c" THEN "register" ELSE f.op,
             name |-> f.name,
             arg |-> IF phase = "pending" THEN f.arc ELSE NoRule,
             answer |-> IF phase # "done" THEN NoRule
                        ELSE IF f.op = "run" THEN f.hit ELSE f.rc]

Store == INSTANCE RuleStore WITH
    Names <- AllNames,
    rule <- registry,
    depth <- sp,
    call <- [t \in Threads |-> [d \in Depths |-> StoreCall(frame[t][d])]]

(***************************************************************************)
(* The registry is linearizable: it implements the atomic store, re-entrant *)
(* calls included (rule.rs:27-30, 101-112).  It needs UserDrop = {}: after  *)
(* a poisoning, register fails and exists denies what is registered.       *)
(***************************************************************************)
ImplementsStore == Store!StoreSpec

(***************************************************************************)
(* The store that can break, for rules with destructors: a call that ends  *)
(* with E_RT, or unwinds, has failed.                                      *)
(***************************************************************************)
PoisonableCall(f) ==
    [StoreCall(f) EXCEPT !.answer =
        IF /\ f.op # "run" /\ f.rc \in {"E_RT", "PANIC"}
           /\ StoreCall(f).phase = "done"
        THEN "FAILED" ELSE @]

Poisonable == INSTANCE PoisonableStore WITH
    Names <- AllNames,
    rule <- registry,
    depth <- sp,
    call <- [t \in Threads |-> [d \in Depths |-> PoisonableCall(frame[t][d])]],
    broken <- poisoned

(***************************************************************************)
(* With destructors that call the registry again and may panic, the        *)
(* registry is still linearizable: a call whose destructor panicked under  *)
(* the lock has failed but has had its effect, and later calls go on from  *)
(* it; if the panic poisoned the Mutex they are all refused instead,       *)
(* whatever the map holds (rule.rs:61-68, 91-120).                         *)
(***************************************************************************)
ImplementsPoisonableStore == Poisonable!PoisonableSpec
=============================================================================
