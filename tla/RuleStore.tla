------------------------------ MODULE RuleStore ------------------------------
(***************************************************************************)
(* What the rule registry promises: one map from names to rules, and every *)
(* call on it takes effect in one step between its invocation and its      *)
(* response.  Calls of a thread nest: a rule that is being run may make    *)
(* calls of its own.                                                       *)
(***************************************************************************)
EXTENDS Naturals

CONSTANTS Threads, Names, Rules, NoRule, MaxDepth

ASSUME StoreAssumption == NoRule \notin Rules /\ MaxDepth \in Nat

VARIABLES
    rule,    \* name -> the rule it runs, or NoRule
    depth,   \* calls in progress on each thread
    call     \* the calls, by thread and depth

storeVars == <<rule, depth, call>>

NoCall == [phase |-> "none", op |-> "none", name |-> NoRule, arg |-> NoRule,
           answer |-> NoRule]

StoreInit ==
    /\ rule = [n \in Names |-> NoRule]
    /\ depth = [t \in Threads |-> 0]
    /\ call = [t \in Threads |-> [d \in 1..MaxDepth |-> NoCall]]

Current(t) == call[t][depth[t]]

\* The host may call at top level and from inside a rule it is running.
MayCall(t) ==
    depth[t] > 0 => /\ Current(t).phase = "done"
                    /\ Current(t).op = "run"
                    /\ Current(t).answer # NoRule

InvokeWith(t, phase, op, n, arg) ==
    /\ MayCall(t) /\ depth[t] < MaxDepth
    /\ depth' = [depth EXCEPT ![t] = @ + 1]
    /\ call' = [call EXCEPT ![t][depth[t] + 1] =
                  [phase |-> phase, op |-> op, name |-> n, arg |-> arg, answer |-> NoRule]]
    /\ UNCHANGED rule

Invoke(t) ==
    \E op \in {"register", "exists", "run", "clear", "rejected"},
       phase \in {"pending", "rejected"}, n \in Names, arg \in Rules \cup {NoRule} :
       InvokeWith(t, phase, op, n, arg)

\* The effect on the map and the answer, in one step.
Answer(c) ==
    CASE c.op = "run" -> rule[c.name]
      [] c.op = "exists" -> IF rule[c.name] # NoRule THEN "YES" ELSE "NO"
      [] OTHER -> "OK"

After(c) ==
    CASE c.op = "register" -> [rule EXCEPT ![c.name] = c.arg]
      [] c.op = "clear" -> [n \in Names |-> NoRule]
      [] OTHER -> rule

Effect(t) ==
    LET c == Current(t) IN
    /\ depth[t] > 0 /\ c.phase = "pending"
    /\ rule' = After(c)
    /\ call' = [call EXCEPT ![t][depth[t]] =
                  [c EXCEPT !.phase = "done", !.arg = NoRule, !.answer = Answer(c)]]
    /\ UNCHANGED depth

\* A rejected call, and a call that has taken effect, come back.
Respond(t) ==
    /\ depth[t] > 0 /\ Current(t).phase \in {"done", "rejected"}
    /\ depth' = [depth EXCEPT ![t] = @ - 1]
    /\ call' = [call EXCEPT ![t][depth[t]] = NoCall]
    /\ UNCHANGED rule

StoreNext == \E t \in Threads : Invoke(t) \/ Effect(t) \/ Respond(t)

StoreSpec == StoreInit /\ [][StoreNext]_storeVars
=============================================================================
