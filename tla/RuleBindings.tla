---------------------------- MODULE RuleBindings ----------------------------
(***************************************************************************)
(* The rule helpers of the Python and C# bindings over the registry.  A    *)
(* native rule holds a raw function pointer, so the binding must keep the  *)
(* thunk behind it alive: Python in the dictionary _rule_refs, C# with a   *)
(* GCHandle per registration.  The registry is RuleStore (which            *)
(* RuleRegistry implements), with thunks for rules; this module adds what  *)
(* the bindings do before and after each native call.                      *)
(***************************************************************************)
EXTENDS RuleStore, Sequences

CONSTANTS
    Bindings,   \* the bindings considered, of "python" and "csharp"
    EmptyName   \* the name the registry refuses

ASSUME BindingsAssumption == Bindings \subseteq {"python", "csharp"} /\ EmptyName \in Names

VARIABLES
    binding,  \* the one in use
    kept,     \* pairs of a name and a thunk the binding keeps alive for it
    helper,   \* helpers in progress on each thread, the outermost first
    raced     \* history: names registered while a run or a registration of the
              \* same name was in progress

vars == <<rule, depth, call, binding, kept, helper, raced>>

Init ==
    /\ StoreInit
    /\ binding \in Bindings
    /\ kept = {} /\ raced = {}
    /\ helper = [t \in Threads |-> <<>>]

TopHelper(t) == helper[t][Len(helper[t])]
At(t, pc) == helper[t] # <<>> /\ TopHelper(t).pc = pc
InProgress(n, ops) ==
    \E t \in Threads : \E i \in DOMAIN helper[t] : helper[t][i].name = n /\ helper[t][i].op \in ops
SetHelper(t, frame) == helper' = [helper EXCEPT ![t][Len(helper[t])] = frame]

\* Reachable in the host language: kept, or a local variable of a helper.
Alive(c) ==
    \/ \E k \in kept : k[2] = c
    \/ \E t \in Threads : \E i \in DOMAIN helper[t] : helper[t][i].thunk = c

(***************************************************************************)
(* Host code calls a helper at top level or from a rule that is running;   *)
(* what it overlaps with is history.                                       *)
(***************************************************************************)
Begin(t, frame) ==
    /\ helper[t] = <<>> \/ At(t, "running")
    /\ depth[t] < MaxDepth
    /\ helper' = [helper EXCEPT ![t] = Append(@, frame)]
    /\ raced' = raced \cup
          {n \in {frame.name} : \/ frame.op = "register" /\ InProgress(n, {"register", "run"})
                                \/ frame.op = "run" /\ InProgress(n, {"register"})}
    /\ UNCHANGED <<storeVars, binding, kept>>

\* _RuleCFn(fn) is a new thunk, perhaps where a dead one was; a C# delegate may
\* be registered again, and has one function pointer.
ThunkFor(c) == binding = "python" => ~Alive(c)

-----------------------------------------------------------------------------
\* register_rule, RegisterRule: the thunk is made first.
RegisterRule(t, n, c) ==
    /\ ThunkFor(c)
    /\ Begin(t, [op |-> "register", name |-> n, thunk |-> c, pc |-> "keep", live |-> TRUE])

\* Wrong form: the handle of the thunk kept for the name before is freed.
KeepLatest(t) ==
    /\ At(t, "keep")
    /\ LET f == TopHelper(t) IN
          /\ kept' = {k \in kept : k[1] # f.name} \cup {<<f.name, f.thunk>>}
          /\ SetHelper(t, [f EXCEPT !.pc = "native"])
    /\ UNCHANGED <<storeVars, binding, raced>>

(***************************************************************************)
(* Then it is kept, before the native call.  _rule_refs[name] = cf drops   *)
(* the thunk of the same name; overwriting a GCHandle frees nothing.       *)
(***************************************************************************)
Keep(t) ==
    /\ At(t, "keep")
    /\ LET f == TopHelper(t) IN
          /\ kept' = {k \in kept : binding = "csharp" \/ k[1] # f.name}
                        \cup {<<f.name, f.thunk>>}
          /\ SetHelper(t, [f EXCEPT !.pc = "native"])
    /\ UNCHANGED <<storeVars, binding, raced>>

\* Dictionary is not made for concurrent writers: with another one inside, the
\* setter may throw, after GCHandle.Alloc and before the native call.
KeepThrows(t) ==
    /\ binding = "csharp" /\ At(t, "keep")
    /\ \E u \in Threads \ {t} : At(u, "keep")
    /\ kept' = kept \cup {<<TopHelper(t).name, TopHelper(t).thunk>>}
    /\ helper' = [helper EXCEPT ![t] = SubSeq(@, 1, Len(@) - 1)]
    /\ UNCHANGED <<storeVars, binding, raced>>

\* run_rule and RunRule, rule_exists and RuleExists: straight to the native call.
RunOrExists(t, op, n) ==
    Begin(t, [op |-> op, name |-> n, thunk |-> NoRule, pc |-> "native", live |-> TRUE])

\* The native call begins; the registry refuses to register the empty name.
CallNative(t) ==
    /\ At(t, "native")
    /\ LET f == TopHelper(t) IN
          /\ InvokeWith(t, IF f.op = "register" /\ f.name = EmptyName THEN "rejected" ELSE "pending",
                        f.op, f.name, f.thunk)
          /\ SetHelper(t, [f EXCEPT !.pc = "inside"])
    /\ UNCHANGED <<binding, kept, raced>>

\* It takes effect: for a run, the registry's entry is cloned.
NativeEffect(t) ==
    /\ At(t, "inside")
    /\ Effect(t)
    /\ UNCHANGED <<binding, kept, helper, raced>>

\* Wrong form: an absent rule is called like any other.
EnterUnchecked(t) ==
    /\ At(t, "inside") /\ Current(t).op = "run" /\ Current(t).phase = "done"
    /\ SetHelper(t, [TopHelper(t) EXCEPT !.pc = "running", !.thunk = Current(t).answer])
    /\ UNCHANGED <<storeVars, binding, kept, raced>>

\* The library calls the function pointer of the rule it found.
Enter(t) ==
    /\ At(t, "inside") /\ Current(t).op = "run" /\ Current(t).phase = "done"
    /\ Current(t).answer # NoRule
    /\ SetHelper(t, [TopHelper(t) EXCEPT !.pc = "running", !.live = Alive(Current(t).answer)])
    /\ UNCHANGED <<storeVars, binding, kept, raced>>

\* The native call and the helper return; a rule that was found has run.
ReturnNative(t) ==
    /\ \/ At(t, "running")
       \/ At(t, "inside") /\ ~(Current(t).op = "run" /\ Current(t).answer # NoRule)
    /\ Respond(t)
    /\ helper' = [helper EXCEPT ![t] = SubSeq(@, 1, Len(@) - 1)]
    /\ UNCHANGED <<binding, kept, raced>>

Next ==
    \E t \in Threads :
       \/ \E n \in Names, c \in Rules : RegisterRule(t, n, c)
       \/ \E n \in Names, op \in {"run", "exists"} : RunOrExists(t, op, n)
       \/ Keep(t) \/ KeepThrows(t) \/ CallNative(t) \/ NativeEffect(t)
       \/ Enter(t) \/ ReturnNative(t)

Spec == Init /\ [][Next]_vars

-----------------------------------------------------------------------------
Helper == [op : {"register", "run", "exists"}, name : Names, thunk : Rules \cup {NoRule},
           pc : {"keep", "native", "inside", "running"}, live : BOOLEAN]

Native == [phase : {"none", "pending", "done", "rejected"},
           op : {"none", "register", "run", "exists"}, name : Names \cup {NoRule},
           arg : Rules \cup {NoRule}, answer : Rules \cup {NoRule, "OK", "YES", "NO"}]

TypeOK ==
    /\ rule \in [Names -> Rules \cup {NoRule}]
    /\ depth \in [Threads -> 0..MaxDepth]
    /\ call \in [Threads -> [1..MaxDepth -> Native]]
    /\ kept \subseteq Names \X Rules
    /\ binding \in Bindings /\ raced \subseteq Names
    /\ helper \in [Threads -> Seq(Helper)]
    /\ \A t \in Threads :
          /\ Len(helper[t]) - depth[t] \in {0, 1}
          /\ \A i \in DOMAIN helper[t] :
                helper[t][i].pc = "running" => call[t][i].answer \in Rules

(***************************************************************************)
(* When the library calls a thunk the host still has it, whatever other    *)
(* threads and the rules further up the stack register.  In C# always; in  *)
(* Python for names that are never registered while they are being run or  *)
(* registered: that is the discipline the code leaves to its user.         *)
(***************************************************************************)
CallbackAlive ==
    \A t \in Threads : At(t, "running") =>
        TopHelper(t).live \/ (binding = "python" /\ TopHelper(t).name \in raced)

(***************************************************************************)
(* What is registered can be called at any time, during the replacement of *)
(* a rule too: the registry holds only thunks the host keeps               *)
(* (RTorchForModelsApi.cs:297-299).  Under the discipline Python's does    *)
(* so too, but for the name that is being replaced.                        *)
(***************************************************************************)
RegistryKept ==
    \A n \in Names : rule[n] # NoRule =>
        \/ \E k \in kept : k[2] = rule[n]
        \/ binding = "python" /\ (n \in raced \/ InProgress(n, {"register"}))

(***************************************************************************)
(* "Keep a reference so the callback stays alive" (python:421), with no    *)
(* such discipline: the library may have cloned the rule before the helper *)
(* of another thread, or a rule further up the stack, replaced it.         *)
(***************************************************************************)
NoDeadCallback ==
    \A t \in Threads : At(t, "running") => TopHelper(t).live
=============================================================================
