--------------------------- MODULE PoisonableStore ---------------------------
(***************************************************************************)
(* What the rule registry still promises when rules have destructors that  *)
(* run code of the host and may panic: it is the atomic store, of which a  *)
(* call that replaces or clears rules may fail half way.  That call has    *)
(* had its effect on the map.  It may also have broken the store: then the *)
(* map is frozen from there on and every later call is refused.            *)
(***************************************************************************)
EXTENDS RuleStore

VARIABLE broken    \* a call that failed half way has broken the store

poisonableVars == <<rule, depth, call, broken>>

PoisonableInit == StoreInit /\ broken = FALSE

\* The host may call from a rule, and from the destructor of a rule that a call
\* replaces, clears, fails to register, or is the last to run.
MayNest(t) ==
    depth[t] > 0 =>
        \/ Current(t).phase = "rejected"
        \/ Current(t).phase = "done" /\ Current(t).op \in {"register", "clear"}
        \/ MayCall(t)

Begun ==
    [phase : {"pending", "rejected"},
     op : {"register", "exists", "run", "clear", "rejected"},
     name : Names, arg : Rules \cup {NoRule}, answer : {NoRule}]

Begin(t) ==
    /\ MayNest(t) /\ depth[t] < MaxDepth
    /\ depth' = [depth EXCEPT ![t] = @ + 1]
    /\ \E c \in Begun : call' = [call EXCEPT ![t][depth[t] + 1] = c]
    /\ UNCHANGED <<rule, broken>>

TakeEffect(t) == ~broken /\ Effect(t) /\ UNCHANGED broken

\* A broken store finds no rule, says of every name that it is free, and takes none.
Refusal(op) ==
    CASE op = "run" -> NoRule
      [] op = "exists" -> "NO"
      [] op = "clear" -> "OK"
      [] OTHER -> "FAILED"

Refuse(t) ==
    LET c == Current(t) IN
    /\ broken /\ depth[t] > 0 /\ c.phase = "pending"
    /\ call' = [call EXCEPT ![t][depth[t]] =
                  [c EXCEPT !.phase = "done", !.arg = NoRule, !.answer = Refusal(c.op)]]
    /\ UNCHANGED <<rule, depth, broken>>

\* Only a call that has written the map can fail half way, and break the store.
FailHalfway(t) ==
    LET c == Current(t) IN
    /\ ~broken /\ depth[t] > 0
    /\ c.phase = "done" /\ c.op \in {"register", "clear"} /\ c.answer = "OK"
    /\ broken' \in BOOLEAN
    /\ call' = [call EXCEPT ![t][depth[t]] = [c EXCEPT !.answer = "FAILED"]]
    /\ UNCHANGED <<rule, depth>>

PoisonableNext ==
    \E t \in Threads :
        \/ Begin(t) \/ TakeEffect(t) \/ Refuse(t) \/ FailHalfway(t)
        \/ Respond(t) /\ UNCHANGED broken

PoisonableSpec == PoisonableInit /\ [][PoisonableNext]_poisonableVars
=============================================================================
