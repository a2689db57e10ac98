------------------------- MODULE RuleBindingsProofs -------------------------
(***************************************************************************)
(* Theorems about the rule helpers of the Python and C# bindings, for any  *)
(* threads, names, thunks and depth of nested helpers.                     *)
(***************************************************************************)
EXTENDS RuleBindings, TLAPS

Kept(c) == \E k \in kept : k[2] = c

(***************************************************************************)
(* The helpers in progress are those of the native calls, and perhaps one  *)
(* more that has not called yet; below the newest they all run a rule.     *)
(***************************************************************************)
FrameOK(h) ==
    /\ h.op = "register" => h.thunk \in Rules
    /\ h.op # "register" => h.thunk = NoRule /\ h.pc # "keep"
    /\ h.pc = "running" => h.op = "run"

CallOf(h, c) ==
    /\ c.op = h.op /\ c.name = h.name /\ c.phase # "none"
    /\ c.phase = "pending" => c.arg = h.thunk
    /\ c.phase = "rejected" <=> h.op = "register" /\ h.name = EmptyName
    /\ h.op = "run" => c.answer \in Rules \cup {NoRule}
    /\ h.pc = "running" => c.phase = "done" /\ c.answer # NoRule

StacksMatch ==
    /\ \A t \in Threads : \A i \in 1..Len(helper[t]) :
          /\ FrameOK(helper[t][i])
          /\ i < Len(helper[t]) => helper[t][i].pc = "running"
          /\ i <= depth[t] <=> helper[t][i].pc \in {"inside", "running"}
          /\ i <= depth[t] => CallOf(helper[t][i], call[t][i])
    /\ rule[EmptyName] = NoRule

\* A rule of this name has been found by the run that helper i of thread t is.
Found(t, i) ==
    /\ helper[t][i].op = "run" /\ i <= depth[t]
    /\ call[t][i].phase = "done" /\ call[t][i].answer # NoRule

\* C#: what is registered, about to be, or found by a run is kept.
CSharpKeeps ==
    binding = "csharp" =>
        /\ \A n \in Names : rule[n] # NoRule => Kept(rule[n])
        /\ \A t \in Threads : \A i \in 1..Len(helper[t]) :
              /\ helper[t][i].op = "register" /\ helper[t][i].pc # "keep"
                    => Kept(helper[t][i].thunk)
              /\ Found(t, i) => Kept(call[t][i].answer)

(***************************************************************************)
(* A name is not raced as long as its registrations are alone: then the    *)
(* registry holds the thunk of the last one, and a run the thunk it found. *)
(***************************************************************************)
Alone ==
    \A t, u \in Threads : \A i \in 1..Len(helper[t]), j \in 1..Len(helper[u]) :
        /\ helper[t][i].op = "register" /\ helper[u][j].op \in {"register", "run"}
        /\ helper[t][i].name = helper[u][j].name /\ helper[t][i].name \notin raced
        => t = u /\ i = j

LastRegistered ==
    \A t \in Threads : \A i \in 1..Len(helper[t]) :
        /\ helper[t][i].op = "register" /\ helper[t][i].name \notin raced
        /\ i <= depth[t] /\ call[t][i].phase = "done"
        => rule[helper[t][i].name] = helper[t][i].thunk

PythonKeeps ==
    binding = "python" =>
        /\ \A n \in Names \ raced : rule[n] # NoRule =>
              <<n, rule[n]>> \in kept \/ InProgress(n, {"register"})
        /\ \A t \in Threads : \A i \in 1..Len(helper[t]) : helper[t][i].name \notin raced =>
              /\ helper[t][i].op = "register" /\ helper[t][i].pc # "keep"
                    => <<helper[t][i].name, helper[t][i].thunk>> \in kept
              /\ Found(t, i) => <<helper[t][i].name, call[t][i].answer>> \in kept

RunsAlive ==
    \A t \in Threads : \A i \in 1..Len(helper[t]) :
        helper[t][i].pc = "running" =>
            helper[t][i].live \/ (binding = "python" /\ helper[t][i].name \in raced)

BindingsInv ==
    /\ TypeOK /\ StacksMatch /\ CSharpKeeps /\ Alone /\ LastRegistered /\ PythonKeeps
    /\ RunsAlive

-----------------------------------------------------------------------------
(***************************************************************************)
(* What a step does to the stacks of helpers: it changes the newest one of *)
(* its thread, adds one, or takes it away.                                 *)
(***************************************************************************)
LEMMA StackFact ==
    ASSUME TypeOK, NEW t \in Threads
    PROVE  /\ helper[t] \in Seq(Helper) /\ Len(helper[t]) \in Nat
           /\ depth[t] \in Nat /\ DOMAIN helper[t] = 1..Len(helper[t])
           /\ depth[t] = Len(helper[t]) \/ depth[t] + 1 = Len(helper[t])
           /\ \A i \in 1..Len(helper[t]) : helper[t][i] \in Helper
           /\ helper[t] # <<>> <=> Len(helper[t]) \in 1..Len(helper[t])
  <1>1. helper[t] \in Seq(Helper) /\ depth[t] \in 0..MaxDepth
        /\ Len(helper[t]) - depth[t] \in {0, 1}
    BY DEF TypeOK
  <1>2. Len(helper[t]) \in Nat /\ depth[t] \in Nat /\ DOMAIN helper[t] = 1..Len(helper[t])
        /\ \A i \in 1..Len(helper[t]) : helper[t][i] \in Helper
    BY <1>1, StoreAssumption
  <1>3. helper[t] # <<>> <=> Len(helper[t]) \in 1..Len(helper[t])
    BY <1>1, <1>2
  <1> QED
    BY <1>1, <1>2, <1>3

Sets(t, f) ==
    /\ helper[t] # <<>> /\ f \in Helper
    /\ \A u \in Threads : Len(helper'[u]) = Len(helper[u])
    /\ \A u \in Threads : \A i \in 1..Len(helper[u]) :
          helper'[u][i] = IF u = t /\ i = Len(helper[t]) THEN f ELSE helper[u][i]

Pushes(t, f) ==
    /\ f \in Helper
    /\ \A u \in Threads : Len(helper'[u]) = IF u = t THEN Len(helper[t]) + 1 ELSE Len(helper[u])
    /\ \A u \in Threads : \A i \in 1..Len(helper[u]) : helper'[u][i] = helper[u][i]
    /\ helper'[t][Len(helper[t]) + 1] = f

Pops(t) ==
    /\ helper[t] # <<>>
    /\ \A u \in Threads : Len(helper'[u]) = IF u = t THEN Len(helper[t]) - 1 ELSE Len(helper[u])
    /\ \A u \in Threads : \A i \in 1..Len(helper'[u]) : helper'[u][i] = helper[u][i]

LEMMA SetFact ==
    ASSUME TypeOK, NEW t \in Threads, helper[t] # <<>>, NEW f \in Helper, SetHelper(t, f)
    PROVE  Sets(t, f) /\ helper' \in [Threads -> Seq(Helper)]
  <1>1. helper[t] \in Seq(Helper) /\ Len(helper[t]) \in 1..Len(helper[t])
    BY StackFact
  <1> DEFINE s == [helper[t] EXCEPT ![Len(helper[t])] = f]
  <1>2. s \in Seq(Helper) /\ Len(s) = Len(helper[t])
        /\ \A i \in 1..Len(helper[t]) :
              s[i] = IF i = Len(helper[t]) THEN f ELSE helper[t][i]
    BY <1>1
  <1>3. helper' = [helper EXCEPT ![t] = s]
    BY DEF SetHelper
  <1> HIDE DEF s
  <1> QED
    BY <1>2, <1>3 DEF Sets, TypeOK

LEMMA PushesFact ==
    ASSUME TypeOK, NEW t \in Threads, NEW f \in Helper,
           helper' = [helper EXCEPT ![t] = Append(@, f)]
    PROVE  Pushes(t, f) /\ helper' \in [Threads -> Seq(Helper)]
  <1>1. helper[t] \in Seq(Helper)
    BY StackFact
  <1> DEFINE s == Append(helper[t], f)
  <1>2. s \in Seq(Helper) /\ Len(s) = Len(helper[t]) + 1 /\ s[Len(helper[t]) + 1] = f
        /\ \A i \in 1..Len(helper[t]) : s[i] = helper[t][i]
    BY <1>1
  <1>3. helper' = [helper EXCEPT ![t] = s]
    OBVIOUS
  <1> HIDE DEF s
  <1>4. \A u \in Threads : Len(helper[u]) \in Nat
    BY StackFact
  <1>5. \A u \in Threads : helper'[u] = IF u = t THEN s ELSE helper[u]
    BY <1>3 DEF TypeOK
  <1> QED
    BY <1>2, <1>3, <1>4, <1>5 DEF Pushes, TypeOK

LEMMA PopsFact ==
    ASSUME TypeOK, NEW t \in Threads, helper[t] # <<>>,
           helper' = [helper EXCEPT ![t] = SubSeq(@, 1, Len(@) - 1)]
    PROVE  Pops(t) /\ helper' \in [Threads -> Seq(Helper)]
  <1>1. helper[t] \in Seq(Helper) /\ Len(helper[t]) \in 1..Len(helper[t])
    BY StackFact
  <1> DEFINE s == SubSeq(helper[t], 1, Len(helper[t]) - 1)
  <1>2. s \in Seq(Helper) /\ Len(s) = Len(helper[t]) - 1
        /\ \A i \in 1..Len(s) : s[i] = helper[t][i]
    BY <1>1
  <1>3. helper' = [helper EXCEPT ![t] = s]
    OBVIOUS
  <1> HIDE DEF s
  <1>4. \A u \in Threads : Len(helper[u]) \in Nat
    BY StackFact
  <1>5. \A u \in Threads : helper'[u] = IF u = t THEN s ELSE helper[u]
    BY <1>3 DEF TypeOK
  <1>6. helper' \in [Threads -> Seq(Helper)]
    BY <1>2, <1>3 DEF TypeOK
  <1>7. \A u \in Threads : Len(helper'[u]) = IF u = t THEN Len(helper[t]) - 1
                                                               ELSE Len(helper[u])
    BY <1>2, <1>5
  <1>8. \A u \in Threads : \A i \in 1..Len(helper'[u]) : helper'[u][i] = helper[u][i]
    BY <1>2, <1>5
  <1> QED
    BY <1>6, <1>7, <1>8 DEF Pops

\* Which names are in progress, by the positions in the stacks.
LEMMA InProgressFact ==
    ASSUME TypeOK, NEW n, NEW ops
    PROVE  InProgress(n, ops) <=>
              \E u \in Threads : \E i \in 1..Len(helper[u]) :
                 helper[u][i].name = n /\ helper[u][i].op \in ops
  BY StackFact DEF InProgress

\* A name that is being registered stays so while its helper does.
LEMMA StaysInProgress ==
    ASSUME TypeOK, helper' \in [Threads -> Seq(Helper)],
           \A u \in Threads : \A i \in 1..Len(helper[u]) :
              i \in 1..Len(helper'[u]) /\ helper'[u][i].name = helper[u][i].name
                 /\ helper'[u][i].op = helper[u][i].op,
           NEW n, InProgress(n, {"register"})
    PROVE  InProgress(n, {"register"})'
  <1>1. PICK u \in Threads : \E i \in DOMAIN helper[u] :
           helper[u][i].name = n /\ helper[u][i].op \in {"register"}
    BY DEF InProgress
  <1>2. PICK i \in DOMAIN helper[u] :
           helper[u][i].name = n /\ helper[u][i].op \in {"register"}
    BY <1>1
  <1>3. i \in 1..Len(helper[u])
    BY StackFact
  <1>4. i \in DOMAIN helper'[u]
    BY <1>3
  <1> QED
    BY <1>2, <1>3, <1>4 DEF InProgress

-----------------------------------------------------------------------------
(***************************************************************************)
(* A helper begins: where a registration meets another helper of the same  *)
(* name, the name is raced from now on.                                    *)
(***************************************************************************)
Fresh(f) ==
    /\ f \in Helper /\ FrameOK(f)
    /\ f.op = "register" => f.pc = "keep"
    /\ f.op # "register" => f.pc = "native"

LEMMA BeginKeeps ==
    ASSUME BindingsInv, NEW t \in Threads, NEW f, Fresh(f), Begin(t, f)
    PROVE  BindingsInv'
  <1> USE DEF BindingsInv
  <1>0. f \in Helper /\ f.pc \in {"keep", "native"} /\ f.name \in Names
    BY DEF Fresh, Helper
  <1>1. Pushes(t, f) /\ helper' \in [Threads -> Seq(Helper)]
    BY <1>0, PushesFact DEF Begin
  <1>2. depth[t] = Len(helper[t]) /\ depth[t] < MaxDepth
    <2>1. CASE helper[t] = <<>>
      BY <2>1, StackFact DEF Begin
    <2>2. CASE helper[t] # <<>>
      <3>1. Len(helper[t]) \in 1..Len(helper[t]) /\ helper[t][Len(helper[t])].pc = "running"
        BY <2>2, StackFact DEF Begin, At, TopHelper
      <3>2. Len(helper[t]) <= depth[t]
        BY <3>1 DEF StacksMatch
      <3> QED
        BY <3>2, StackFact DEF Begin
    <2> QED
      BY <2>1, <2>2
  <1>3. /\ rule' = rule /\ depth' = depth /\ call' = call
        /\ kept' = kept /\ binding' = binding
        /\ raced \subseteq raced' /\ raced' \subseteq Names
    BY <1>0 DEF Begin, storeVars, TypeOK
  <1>4. \A u \in Threads : \A i \in 1..Len(helper'[u]) :
           \/ i \in 1..Len(helper[u]) /\ helper'[u][i] = helper[u][i]
           \/ u = t /\ i = Len(helper[t]) + 1 /\ helper'[u][i] = f
    BY <1>1, StackFact DEF Pushes
  <1>5. TypeOK'
    <2>1. \A u \in Threads : Len(helper'[u]) - depth'[u] \in {0, 1}
      BY <1>1, <1>2, <1>3, StackFact DEF Pushes
    <2>2. ASSUME NEW u \in Threads, NEW i \in 1..Len(helper'[u]),
                 helper'[u][i].pc = "running"
          PROVE  call'[u][i].answer \in Rules
      BY <1>0, <1>3, <1>4, <2>2, StackFact DEF TypeOK
    <2>3. \A u \in Threads : DOMAIN helper'[u] = 1..Len(helper'[u])
      BY <1>1
    <2> QED
      BY <1>1, <1>3, <2>1, <2>2, <2>3 DEF TypeOK
  <1>6. StacksMatch'
    <2>1. ASSUME NEW u \in Threads, NEW i \in 1..Len(helper'[u])
          PROVE  /\ FrameOK(helper'[u][i])
                 /\ i < Len(helper'[u]) => helper'[u][i].pc = "running"
                 /\ i <= depth[u] <=> helper'[u][i].pc \in {"inside", "running"}
                 /\ i <= depth[u] => CallOf(helper'[u][i], call[u][i])
      <3>1. CASE i \in 1..Len(helper[u]) /\ helper'[u][i] = helper[u][i]
        <4>1. i < Len(helper'[u]) => i < Len(helper[u]) \/ (u = t /\ i = Len(helper[t]))
          BY <1>1, <3>1, StackFact DEF Pushes
        <4>2. u = t /\ i = Len(helper[t]) => helper[u][i].pc = "running"
          BY <1>2, <3>1, StackFact DEF Begin, At, TopHelper
        <4> QED
          BY <3>1, <4>1, <4>2 DEF StacksMatch
      <3>2. CASE u = t /\ i = Len(helper[t]) + 1 /\ helper'[u][i] = f
        BY <1>0, <1>1, <1>2, <3>2, StackFact DEF Pushes, Fresh
      <3> QED
        BY <1>4, <3>1, <3>2
    <2> QED
      BY <1>3, <2>1 DEF StacksMatch, FrameOK, CallOf
  <1>7. CSharpKeeps'
    BY <1>0, <1>2, <1>3, <1>4, StackFact, SMTT(30) DEF CSharpKeeps, Fresh, Kept, Found
  <1>8. Alone'
    <2>1. f.op = "register" => \A u \in Threads : \A i \in 1..Len(helper[u]) :
             helper[u][i].name = f.name /\ helper[u][i].op \in {"register", "run"}
                => f.name \in raced'
      BY InProgressFact DEF Begin
    <2>2. f.op = "run" => \A u \in Threads : \A i \in 1..Len(helper[u]) :
             helper[u][i].name = f.name /\ helper[u][i].op = "register"
                => f.name \in raced'
      BY InProgressFact DEF Begin
    <2> SUFFICES ASSUME NEW v \in Threads, NEW u \in Threads,
                        NEW i \in 1..Len(helper'[v]), NEW j \in 1..Len(helper'[u]),
                        helper'[v][i].op = "register",
                        helper'[u][j].op \in {"register", "run"},
                        helper'[v][i].name = helper'[u][j].name,
                        helper'[v][i].name \notin raced'
                 PROVE  v = u /\ i = j
      BY DEF Alone
    <2>3. CASE /\ i \in 1..Len(helper[v]) /\ helper'[v][i] = helper[v][i]
               /\ j \in 1..Len(helper[u]) /\ helper'[u][j] = helper[u][j]
      BY <1>3, <2>3 DEF Alone
    <2>4. CASE /\ v = t /\ i = Len(helper[t]) + 1 /\ helper'[v][i] = f
               /\ j \in 1..Len(helper[u]) /\ helper'[u][j] = helper[u][j]
      BY <2>1, <2>4
    <2>5. CASE /\ i \in 1..Len(helper[v]) /\ helper'[v][i] = helper[v][i]
               /\ u = t /\ j = Len(helper[t]) + 1 /\ helper'[u][j] = f
      BY <2>1, <2>2, <2>5
    <2> QED
      BY <1>4, <2>3, <2>4, <2>5
  <1>9. LastRegistered'
    <2> SUFFICES ASSUME NEW u \in Threads, NEW i \in 1..Len(helper'[u]),
                        helper'[u][i].op = "register", helper'[u][i].name \notin raced',
                        i <= depth[u], call[u][i].phase = "done"
                 PROVE  rule[helper'[u][i].name] = helper'[u][i].thunk
      BY <1>3 DEF LastRegistered
    <2>1. ~(u = t /\ i = Len(helper[t]) + 1)
      BY <1>2, StackFact
    <2>2. i \in 1..Len(helper[u]) /\ helper'[u][i] = helper[u][i]
      BY <1>4, <2>1
    <2> QED
      BY <1>3, <2>2 DEF LastRegistered
  <1>10. PythonKeeps'
    <2>1. \A n \in Names : InProgress(n, {"register"}) => InProgress(n, {"register"})'
      <3>1. \A u \in Threads : \A i \in 1..Len(helper[u]) :
               i \in 1..Len(helper'[u]) /\ helper'[u][i] = helper[u][i]
        BY <1>1, StackFact DEF Pushes
      <3> QED
        BY <1>1, <3>1, StaysInProgress
    <2>2. \A n \in Names \ raced' : n \in Names \ raced
      BY <1>3
    <2>3. ASSUME binding = "python", NEW u \in Threads, NEW i \in 1..Len(helper'[u]),
                 helper'[u][i].name \notin raced'
          PROVE  /\ helper'[u][i].op = "register" /\ helper'[u][i].pc # "keep"
                       => <<helper'[u][i].name, helper'[u][i].thunk>> \in kept
                 /\ Found(u, i)' => <<helper'[u][i].name, call[u][i].answer>> \in kept
      <3>1. CASE i \in 1..Len(helper[u]) /\ helper'[u][i] = helper[u][i]
        BY <1>3, <2>3, <3>1 DEF PythonKeeps, Found
      <3>2. CASE u = t /\ i = Len(helper[t]) + 1 /\ helper'[u][i] = f
        BY <1>2, <1>3, <3>2, StackFact DEF Fresh, Found
      <3> QED
        BY <1>4, <3>1, <3>2
    <2> QED
      BY <1>3, <2>1, <2>2, <2>3 DEF PythonKeeps
  <1>11. RunsAlive'
    BY <1>0, <1>3, <1>4 DEF RunsAlive
  <1> QED
    BY <1>5, <1>6, <1>7, <1>8, <1>9, <1>10, <1>11

(***************************************************************************)
(* The other steps put no name in progress, so no name is raced by them.   *)
(***************************************************************************)
NoneAdded ==
    \A u \in Threads : \A i \in 1..Len(helper'[u]) :
        i \in 1..Len(helper[u]) /\ helper'[u][i].name = helper[u][i].name
           /\ helper'[u][i].op = helper[u][i].op

LEMMA AloneStays ==
    ASSUME Alone, raced' = raced, NoneAdded
    PROVE  Alone'
  <1> SUFFICES ASSUME NEW v \in Threads, NEW u \in Threads,
                      NEW i \in 1..Len(helper'[v]), NEW j \in 1..Len(helper'[u]),
                      helper'[v][i].op = "register",
                      helper'[u][j].op \in {"register", "run"},
                      helper'[v][i].name = helper'[u][j].name,
                      helper'[v][i].name \notin raced'
               PROVE  v = u /\ i = j
    BY DEF Alone
  <1>1. /\ i \in 1..Len(helper[v]) /\ helper[v][i].name = helper'[v][i].name
        /\ helper[v][i].op = helper'[v][i].op
    BY DEF NoneAdded
  <1>2. /\ j \in 1..Len(helper[u]) /\ helper[u][j].name = helper'[u][j].name
        /\ helper[u][j].op = helper'[u][j].op
    BY DEF NoneAdded
  <1> QED
    BY <1>1, <1>2 DEF Alone

\* The newest helper, where a step of its thread finds it.
LEMMA TopFact ==
    ASSUME BindingsInv, NEW t \in Threads, helper[t] # <<>>
    PROVE  /\ Len(helper[t]) \in 1..Len(helper[t]) /\ Len(helper[t]) \in Nat
           /\ TopHelper(t) = helper[t][Len(helper[t])] /\ TopHelper(t) \in Helper
           /\ FrameOK(TopHelper(t))
           /\ TopHelper(t).pc \in {"keep", "native"} => depth[t] = Len(helper[t]) - 1
           /\ TopHelper(t).pc \in {"inside", "running"} =>
                 /\ depth[t] = Len(helper[t]) /\ Current(t) = call[t][Len(helper[t])]
                 /\ CallOf(TopHelper(t), Current(t))
           /\ depth[t] \in 0..MaxDepth
  <1> USE DEF BindingsInv
  <1> DEFINE L == Len(helper[t])
  <1>1. L \in 1..L /\ L \in Nat /\ helper[t][L] \in Helper
        /\ (depth[t] = L \/ depth[t] + 1 = L) /\ depth[t] \in Nat
    BY StackFact
  <1>2. /\ FrameOK(helper[t][L])
        /\ L <= depth[t] <=> helper[t][L].pc \in {"inside", "running"}
        /\ L <= depth[t] => CallOf(helper[t][L], call[t][L])
    BY <1>1 DEF StacksMatch
  <1>3. TopHelper(t) = helper[t][L]
    BY DEF TopHelper
  <1>4. depth[t] \in 0..MaxDepth
    BY DEF TypeOK
  <1>5. helper[t][L].pc \in {"keep", "native"} => depth[t] = L - 1
    BY <1>1, <1>2
  <1>6. helper[t][L].pc \in {"inside", "running"} => depth[t] = L
    BY <1>1, <1>2
  <1> QED
    BY <1>1, <1>2, <1>3, <1>4, <1>5, <1>6 DEF Current

-----------------------------------------------------------------------------
(***************************************************************************)
(* The thunk is kept.  In Python the pair of the same name goes; a run     *)
(* that found it, or a registration it belongs to, would be a second       *)
(* helper of the name, and make it raced.                                  *)
(***************************************************************************)
LEMMA KeepKeeps ==
    ASSUME BindingsInv, NEW t \in Threads, Keep(t)
    PROVE  BindingsInv'
  <1> USE DEF BindingsInv
  <1> DEFINE L == Len(helper[t])
             h == helper[t][L]
             f == [h EXCEPT !.pc = "native"]
  <1>1. /\ helper[t] # <<>> /\ h.pc = "keep" /\ TopHelper(t) = h
        /\ rule' = rule /\ depth' = depth /\ call' = call
        /\ binding' = binding /\ raced' = raced
        /\ kept' = {k \in kept : binding = "csharp" \/ k[1] # h.name}
                      \cup {<<h.name, h.thunk>>}
        /\ SetHelper(t, f)
    BY DEF Keep, At, TopHelper, storeVars
  <1>2. L \in 1..L /\ L \in Nat /\ h \in Helper /\ FrameOK(h) /\ depth[t] = L - 1
    BY <1>1, TopFact
  <1>3. /\ f \in Helper /\ f.pc = "native" /\ f.name = h.name /\ f.op = h.op
        /\ f.thunk = h.thunk /\ f.live = h.live
    BY <1>2 DEF Helper
  <1>4. h.op = "register" /\ h.thunk \in Rules /\ h.name \in Names
    BY <1>1, <1>2 DEF FrameOK, Helper
  <1> HIDE DEF f
  <1>5. Sets(t, f) /\ helper' \in [Threads -> Seq(Helper)]
    BY <1>1, <1>3, SetFact
  <1>6. \A u \in Threads : \A i \in 1..Len(helper'[u]) :
           /\ i \in 1..Len(helper[u]) /\ Len(helper'[u]) = Len(helper[u])
           /\ \/ ~(u = t /\ i = L) /\ helper'[u][i] = helper[u][i]
              \/ u = t /\ i = L /\ helper'[u][i] = f
    BY <1>5 DEF Sets
  <1>7. \A u \in Threads : \A i \in 1..Len(helper[u]) : i \in 1..Len(helper'[u])
    BY <1>5 DEF Sets
  <1>8. TypeOK'
    <2>1. kept' \subseteq Names \X Rules
      BY <1>1, <1>4 DEF TypeOK
    <2>2. \A u \in Threads : Len(helper'[u]) - depth'[u] \in {0, 1}
      BY <1>1, <1>5 DEF Sets, TypeOK
    <2>3. \A u \in Threads : \A i \in DOMAIN helper'[u] : i \in 1..Len(helper'[u])
      BY <1>5
    <2>4. ASSUME NEW u \in Threads, NEW i \in DOMAIN helper'[u],
                 helper'[u][i].pc = "running"
          PROVE  call'[u][i].answer \in Rules
      BY <1>1, <1>3, <1>6, <2>3, <2>4, StackFact DEF TypeOK
    <2> QED
      BY <1>1, <1>5, <2>1, <2>2, <2>4 DEF TypeOK
  <1>9. StacksMatch'
    <2>1. ASSUME NEW u \in Threads, NEW i \in 1..Len(helper'[u])
          PROVE  /\ FrameOK(helper'[u][i])
                 /\ i < Len(helper'[u]) => helper'[u][i].pc = "running"
                 /\ i <= depth[u] <=> helper'[u][i].pc \in {"inside", "running"}
                 /\ i <= depth[u] => CallOf(helper'[u][i], call[u][i])
      <3>1. CASE ~(u = t /\ i = L) /\ helper'[u][i] = helper[u][i]
        BY <1>6, <3>1 DEF StacksMatch
      <3>2. CASE u = t /\ i = L /\ helper'[u][i] = f
        BY <1>2, <1>3, <1>4, <1>6, <3>2 DEF FrameOK
      <3> QED
        BY <1>6, <3>1, <3>2
    <2> QED
      BY <1>1, <2>1 DEF StacksMatch, FrameOK, CallOf
  <1>10. CSharpKeeps'
    <2>1. binding = "csharp" => kept \subseteq kept'
      BY <1>1
    <2>2. \E k \in kept' : k[2] = h.thunk
      <3>1. <<h.name, h.thunk>> \in kept' /\ <<h.name, h.thunk>>[2] = h.thunk
        BY <1>1
      <3> QED
        BY <3>1
    <2>3. ASSUME binding = "csharp", NEW u \in Threads, NEW i \in 1..Len(helper'[u])
          PROVE  /\ helper'[u][i].op = "register" /\ helper'[u][i].pc # "keep"
                       => \E k \in kept' : k[2] = helper'[u][i].thunk
                 /\ Found(u, i)' => \E k \in kept' : k[2] = call[u][i].answer
      <3>1. CASE ~(u = t /\ i = L) /\ helper'[u][i] = helper[u][i]
        BY <1>1, <1>6, <2>1, <2>3, <3>1 DEF CSharpKeeps, Found, Kept
      <3>2. CASE u = t /\ i = L /\ helper'[u][i] = f
        BY <1>1, <1>2, <1>3, <1>4, <2>2, <3>2 DEF Found
      <3> QED
        BY <1>6, <3>1, <3>2
    <2> QED
      BY <1>1, <2>1, <2>3 DEF CSharpKeeps, Kept
  <1>11. Alone'
    BY <1>1, <1>3, <1>6, AloneStays DEF NoneAdded
  <1>12. LastRegistered'
    BY <1>1, <1>2, <1>3, <1>6 DEF LastRegistered
  <1>13. PythonKeeps'
    <2>1. \A n \in Names : InProgress(n, {"register"}) => InProgress(n, {"register"})'
      BY <1>3, <1>5, <1>6, <1>7, StaysInProgress
    <2>2. InProgress(h.name, {"register"})
      BY <1>2, <1>4, InProgressFact
    <2>3. ASSUME binding = "python", NEW n \in Names \ raced, rule[n] # NoRule
          PROVE  <<n, rule[n]>> \in kept' \/ InProgress(n, {"register"})'
      <3>1. CASE n = h.name
        BY <1>4, <2>1, <2>2, <3>1
      <3>2. CASE n # h.name
        BY <1>1, <2>1, <2>3, <3>2 DEF PythonKeeps
      <3> QED
        BY <3>1, <3>2
    <2>4. ASSUME binding = "python", NEW u \in Threads, NEW i \in 1..Len(helper'[u]),
                 helper'[u][i].name \notin raced
          PROVE  /\ helper'[u][i].op = "register" /\ helper'[u][i].pc # "keep"
                       => <<helper'[u][i].name, helper'[u][i].thunk>> \in kept'
                 /\ Found(u, i)' => <<helper'[u][i].name, call[u][i].answer>> \in kept'
      <3>1. CASE ~(u = t /\ i = L) /\ helper'[u][i] = helper[u][i]
        <4>1. helper[u][i].op \in {"register", "run"} => helper[u][i].name # h.name
          BY <1>2, <1>4, <1>6, <2>4, <3>1 DEF Alone
        <4>2. /\ helper[u][i].op = "register" /\ helper[u][i].pc # "keep"
                    => <<helper[u][i].name, helper[u][i].thunk>> \in kept
              /\ Found(u, i) => <<helper[u][i].name, call[u][i].answer>> \in kept
          BY <1>6, <2>4, <3>1 DEF PythonKeeps
        <4> QED
          BY <1>1, <3>1, <4>1, <4>2 DEF Found
      <3>2. CASE u = t /\ i = L /\ helper'[u][i] = f
        BY <1>1, <1>2, <1>3, <1>4, <3>2 DEF Found
      <3> QED
        BY <1>6, <3>1, <3>2
    <2> QED
      BY <1>1, <2>3, <2>4 DEF PythonKeeps
  <1>14. RunsAlive'
    BY <1>1, <1>3, <1>6 DEF RunsAlive
  <1> QED
    BY <1>8, <1>9, <1>10, <1>11, <1>12, <1>13, <1>14

-----------------------------------------------------------------------------
(***************************************************************************)
(* The setter threw: the helper is gone, and in C# what it pinned stays.   *)
(***************************************************************************)
LEMMA KeepThrowsKeeps ==
    ASSUME BindingsInv, NEW t \in Threads, KeepThrows(t)
    PROVE  BindingsInv'
  <1> USE DEF BindingsInv
  <1> DEFINE L == Len(helper[t])
             h == helper[t][L]
  <1>1. /\ helper[t] # <<>> /\ h.pc = "keep" /\ TopHelper(t) = h
        /\ rule' = rule /\ depth' = depth /\ call' = call
        /\ binding' = binding /\ binding = "csharp" /\ raced' = raced
        /\ kept' = kept \cup {<<h.name, h.thunk>>}
        /\ helper' = [helper EXCEPT ![t] = SubSeq(@, 1, Len(@) - 1)]
    BY DEF KeepThrows, At, TopHelper, storeVars
  <1>2. L \in 1..L /\ L \in Nat /\ h \in Helper /\ FrameOK(h) /\ depth[t] = L - 1
    BY <1>1, TopFact
  <1>3. h.op = "register" /\ h.thunk \in Rules /\ h.name \in Names
    BY <1>1, <1>2 DEF FrameOK, Helper
  <1>4. Pops(t) /\ helper' \in [Threads -> Seq(Helper)]
    BY <1>1, PopsFact
  <1>5. \A u \in Threads : \A i \in 1..Len(helper'[u]) :
           /\ i \in 1..Len(helper[u]) /\ helper'[u][i] = helper[u][i]
           /\ i < Len(helper'[u]) => i < Len(helper[u])
           /\ u = t /\ i = L - 1 => i < Len(helper[u])
    BY <1>2, <1>4, StackFact DEF Pops
  <1>6. TypeOK'
    <2>1. kept' \subseteq Names \X Rules
      BY <1>1, <1>3 DEF TypeOK
    <2>2. \A u \in Threads : Len(helper'[u]) - depth'[u] \in {0, 1}
      BY <1>1, <1>2, <1>4, StackFact DEF Pops
    <2>3. \A u \in Threads : \A i \in DOMAIN helper'[u] : i \in 1..Len(helper'[u])
      BY <1>4
    <2>4. ASSUME NEW u \in Threads, NEW i \in DOMAIN helper'[u],
                 helper'[u][i].pc = "running"
          PROVE  call'[u][i].answer \in Rules
      BY <1>1, <1>5, <2>3, <2>4, StackFact DEF TypeOK
    <2> QED
      BY <1>1, <1>4, <2>1, <2>2, <2>4 DEF TypeOK
  <1>7. StacksMatch'
    BY <1>1, <1>5 DEF StacksMatch, FrameOK, CallOf
  <1>8. CSharpKeeps'
    BY <1>1, <1>5 DEF CSharpKeeps, Found, Kept
  <1>9. Alone'
    BY <1>1, <1>5, AloneStays DEF NoneAdded
  <1>10. LastRegistered'
    BY <1>1, <1>5 DEF LastRegistered
  <1>11. PythonKeeps'
    BY <1>1 DEF PythonKeeps
  <1>12. RunsAlive'
    BY <1>1, <1>5 DEF RunsAlive
  <1> QED
    BY <1>6, <1>7, <1>8, <1>9, <1>10, <1>11, <1>12

-----------------------------------------------------------------------------
\* What a step of the registry does to the calls.
LEMMA CallFact ==
    ASSUME TypeOK, NEW t \in Threads, NEW d \in 1..MaxDepth, NEW c \in Native,
           call' = [call EXCEPT ![t][d] = c]
    PROVE  /\ call' \in [Threads -> [1..MaxDepth -> Native]]
           /\ call'[t][d] = c
           /\ \A u \in Threads : \A i \in 1..MaxDepth :
                 ~(u = t /\ i = d) => call'[u][i] = call[u][i]
  BY DEF TypeOK

\* A position of the stack of calls is a position of the array.
LEMMA DepthFact ==
    ASSUME TypeOK, NEW u \in Threads, NEW i \in 1..Len(helper[u]), i <= depth[u]
    PROVE  i \in 1..MaxDepth
  BY StackFact, StoreAssumption DEF TypeOK

\* The native call begins: the registry rejects the empty name at once.
LEMMA CallNativeKeeps ==
    ASSUME BindingsInv, NEW t \in Threads, CallNative(t)
    PROVE  BindingsInv'
  <1> USE DEF BindingsInv
  <1> DEFINE L == Len(helper[t])
             h == helper[t][L]
             f == [h EXCEPT !.pc = "inside"]
             c == [phase |-> IF h.op = "register" /\ h.name = EmptyName THEN "rejected"
                                                                         ELSE "pending",
                   op |-> h.op, name |-> h.name, arg |-> h.thunk, answer |-> NoRule]
  <1>1. /\ helper[t] # <<>> /\ h.pc = "native" /\ TopHelper(t) = h
        /\ rule' = rule /\ depth[t] < MaxDepth /\ depth' = [depth EXCEPT ![t] = @ + 1]
        /\ call' = [call EXCEPT ![t][depth[t] + 1] = c]
        /\ binding' = binding /\ raced' = raced /\ kept' = kept
        /\ SetHelper(t, f)
    BY DEF CallNative, InvokeWith, At, TopHelper
  <1>2. L \in 1..L /\ L \in Nat /\ h \in Helper /\ FrameOK(h) /\ depth[t] = L - 1
    BY <1>1, TopFact
  <1>3. /\ f \in Helper /\ f.pc = "inside" /\ f.name = h.name /\ f.op = h.op
        /\ f.thunk = h.thunk /\ f.live = h.live
    BY <1>2 DEF Helper
  <1>4. h.op \in {"register", "run", "exists"} /\ h.thunk \in Rules \cup {NoRule}
        /\ h.name \in Names
    BY <1>2 DEF Helper
  <1>5. c \in Native
    BY <1>4 DEF Native
  <1>6. CallOf(f, c)
    BY <1>3, <1>4 DEF CallOf
  <1>7. c.phase # "done"
    OBVIOUS
  <1> HIDE DEF f, c
  <1>8. depth[t] + 1 = L /\ L \in 1..MaxDepth
    BY <1>1, <1>2, StackFact, StoreAssumption DEF TypeOK
  <1>9. /\ call' \in [Threads -> [1..MaxDepth -> Native]] /\ call'[t][L] = c
        /\ \A u \in Threads : \A i \in 1..MaxDepth :
              ~(u = t /\ i = L) => call'[u][i] = call[u][i]
    <2>1. call' = [call EXCEPT ![t][L] = c] /\ L \in 1..MaxDepth
      BY <1>1, <1>8
    <2> HIDE DEF L
    <2> QED
      BY <1>5, <2>1, CallFact, ZenonT(60)
  <1>10. Sets(t, f) /\ helper' \in [Threads -> Seq(Helper)]
    BY <1>1, <1>3, SetFact
  <1>11. depth'[t] = L /\ (\A u \in Threads : u # t => depth'[u] = depth[u])
         /\ depth' \in [Threads -> 0..MaxDepth]
    BY <1>1, <1>2, <1>8, StoreAssumption DEF TypeOK
  <1>12. \A u \in Threads : \A i \in 1..Len(helper'[u]) :
            /\ i \in 1..Len(helper[u]) /\ Len(helper'[u]) = Len(helper[u])
            /\ \/ /\ ~(u = t /\ i = L) /\ helper'[u][i] = helper[u][i]
                  /\ i <= depth[u] <=> i <= depth'[u]
                  /\ i <= depth[u] => call'[u][i] = call[u][i]
               \/ u = t /\ i = L /\ helper'[u][i] = f
    <2> SUFFICES ASSUME NEW u \in Threads, NEW i \in 1..Len(helper'[u])
                 PROVE  /\ i \in 1..Len(helper[u]) /\ Len(helper'[u]) = Len(helper[u])
                        /\ \/ /\ ~(u = t /\ i = L) /\ helper'[u][i] = helper[u][i]
                              /\ i <= depth[u] <=> i <= depth'[u]
                              /\ i <= depth[u] => call'[u][i] = call[u][i]
                           \/ u = t /\ i = L /\ helper'[u][i] = f
      OBVIOUS
    <2>1. i \in 1..Len(helper[u]) /\ Len(helper'[u]) = Len(helper[u])
      BY <1>10 DEF Sets
    <2>2. CASE u = t /\ i = L
      BY <1>10, <2>1, <2>2 DEF Sets
    <2>3. CASE ~(u = t /\ i = L)
      <3>1. helper'[u][i] = helper[u][i]
        BY <1>10, <2>1, <2>3 DEF Sets
      <3>2. i <= depth[u] <=> i <= depth'[u]
        BY <1>2, <1>11, <2>1, <2>3
      <3>3. i <= depth[u] => call'[u][i] = call[u][i]
        BY <1>9, <2>1, <2>3, DepthFact
      <3> QED
        BY <2>1, <2>3, <3>1, <3>2, <3>3
    <2> QED
      BY <2>2, <2>3
  <1>13. StacksMatch'
    <2>1. ASSUME NEW u \in Threads, NEW i \in 1..Len(helper'[u])
          PROVE  /\ FrameOK(helper'[u][i])
                 /\ i < Len(helper'[u]) => helper'[u][i].pc = "running"
                 /\ i <= depth'[u] <=> helper'[u][i].pc \in {"inside", "running"}
                 /\ i <= depth'[u] => CallOf(helper'[u][i], call'[u][i])
      <3>1. CASE /\ ~(u = t /\ i = L) /\ helper'[u][i] = helper[u][i]
                 /\ i <= depth[u] <=> i <= depth'[u]
                 /\ i <= depth[u] => call'[u][i] = call[u][i]
        BY <1>12, <3>1 DEF StacksMatch
      <3>2. CASE u = t /\ i = L /\ helper'[u][i] = f
        BY <1>2, <1>3, <1>6, <1>9, <1>11, <1>12, <3>2 DEF FrameOK
      <3> QED
        BY <1>12, <3>1, <3>2
    <2> QED
      BY <1>1, <2>1 DEF StacksMatch, FrameOK, CallOf
  <1>14. TypeOK'
    <2>1. ASSUME NEW u \in Threads PROVE Len(helper'[u]) - depth'[u] \in {0, 1}
      <3>1. CASE u = t
        BY <1>2, <1>10, <1>11, <3>1 DEF Sets
      <3>2. CASE u # t
        BY <1>10, <1>11, <3>2 DEF Sets, TypeOK
      <3> QED
        BY <3>1, <3>2
    <2>2. ASSUME NEW u \in Threads, NEW i \in DOMAIN helper'[u],
                 helper'[u][i].pc = "running"
          PROVE  call'[u][i].answer \in Rules
      <3>1. i \in 1..Len(helper'[u])
        BY <1>10
      <3> QED
        BY <1>13, <2>2, <3>1 DEF StacksMatch, FrameOK, CallOf
    <2> QED
      BY <1>1, <1>9, <1>10, <1>11, <2>1, <2>2 DEF TypeOK
  <1>15. \A u \in Threads : \A i \in 1..Len(helper'[u]) :
            Found(u, i)' => Found(u, i) /\ call'[u][i] = call[u][i]
                            /\ helper'[u][i] = helper[u][i]
    BY <1>7, <1>9, <1>12 DEF Found
  <1>16. CSharpKeeps'
    BY <1>1, <1>3, <1>12, <1>15 DEF CSharpKeeps, Kept
  <1>17. Alone'
    BY <1>1, <1>3, <1>12, AloneStays DEF NoneAdded
  <1>18. LastRegistered'
    BY <1>1, <1>7, <1>9, <1>12 DEF LastRegistered
  <1>19. PythonKeeps'
    <2>1. \A n \in Names : InProgress(n, {"register"}) => InProgress(n, {"register"})'
      BY <1>3, <1>10, StaysInProgress DEF Sets
    <2>2. ASSUME binding = "python", NEW u \in Threads, NEW i \in 1..Len(helper'[u]),
                 helper'[u][i].name \notin raced
          PROVE  /\ helper'[u][i].op = "register" /\ helper'[u][i].pc # "keep"
                       => <<helper'[u][i].name, helper'[u][i].thunk>> \in kept
                 /\ Found(u, i)' => <<helper'[u][i].name, call'[u][i].answer>> \in kept
      <3>1. i \in 1..Len(helper[u]) /\ helper[u][i].name = helper'[u][i].name
        BY <1>3, <1>12
      <3>2. /\ helper[u][i].op = "register" /\ helper[u][i].pc # "keep"
                  => <<helper[u][i].name, helper[u][i].thunk>> \in kept
            /\ Found(u, i) => <<helper[u][i].name, call[u][i].answer>> \in kept
        BY <2>2, <3>1 DEF PythonKeeps
      <3>3. /\ helper'[u][i].op = helper[u][i].op
            /\ helper'[u][i].thunk = helper[u][i].thunk
            /\ helper'[u][i].pc # "keep" => helper[u][i].pc # "keep"
        BY <1>1, <1>3, <1>12
      <3>4. ASSUME Found(u, i)'
            PROVE  <<helper'[u][i].name, call'[u][i].answer>> \in kept
        <4>1. Found(u, i) /\ call'[u][i] = call[u][i] /\ helper'[u][i] = helper[u][i]
          BY <1>15, <3>4
        <4> QED
          BY <3>2, <4>1
      <3>5. helper'[u][i].op = "register" /\ helper'[u][i].pc # "keep"
               => <<helper'[u][i].name, helper'[u][i].thunk>> \in kept
        BY <3>1, <3>2, <3>3
      <3> QED
        BY <3>4, <3>5
    <2> QED
      BY <1>1, <2>1, <2>2 DEF PythonKeeps
  <1>20. RunsAlive'
    BY <1>1, <1>3, <1>12 DEF RunsAlive
  <1> QED
    BY <1>13, <1>14, <1>16, <1>17, <1>18, <1>19, <1>20

-----------------------------------------------------------------------------
(***************************************************************************)
(* The call takes effect: a registration is the registry's entry now, and  *)
(* a run holds a clone of the entry.  Of a name that is not raced no other *)
(* registration, and no other run, can be in between.                      *)
(***************************************************************************)
LEMMA EffectFact ==
    ASSUME BindingsInv, NEW t \in Threads, NativeEffect(t),
           NEW L, L = Len(helper[t]), NEW h, h = helper[t][L]
    PROVE  /\ helper[t] # <<>> /\ h.pc = "inside" /\ h \in Helper /\ FrameOK(h)
           /\ L \in 1..L /\ L \in Nat /\ depth[t] = L /\ L \in 1..MaxDepth
           /\ depth' = depth /\ binding' = binding /\ raced' = raced /\ kept' = kept
           /\ helper' = helper
           /\ CallOf(h, call[t][L])
           /\ h.op = "register" => /\ h.name # EmptyName
                                   /\ rule' = [rule EXCEPT ![h.name] = h.thunk]
           /\ h.op # "register" => rule' = rule
           /\ call' \in [Threads -> [1..MaxDepth -> Native]]
           /\ call'[t][L].phase = "done"
           /\ call'[t][L].op = h.op /\ call'[t][L].name = h.name
           /\ h.op = "run" => call'[t][L].answer = rule[h.name]
           /\ \A u \in Threads : \A i \in 1..MaxDepth :
                 ~(u = t /\ i = L) => call'[u][i] = call[u][i]
  <1> USE DEF BindingsInv
  <1> DEFINE c == call[t][L]
             e == [c EXCEPT !.phase = "done", !.arg = NoRule, !.answer = Answer(c)]
  <1>1. helper[t] # <<>> /\ TopHelper(t) = h /\ h.pc = "inside"
    BY DEF NativeEffect, At, TopHelper
  <1>2. /\ L \in 1..L /\ L \in Nat /\ h \in Helper /\ FrameOK(h)
        /\ depth[t] = L /\ Current(t) = c /\ CallOf(h, c)
    BY <1>1, TopFact
  <1>3. L \in 1..MaxDepth
    BY <1>1, <1>2, DepthFact
  <1>4. /\ c.phase = "pending" /\ rule' = After(c) /\ depth' = depth
        /\ call' = [call EXCEPT ![t][L] = e]
        /\ binding' = binding /\ raced' = raced /\ kept' = kept /\ helper' = helper
    BY <1>2 DEF NativeEffect, Effect
  <1>5. /\ c \in Native /\ c.op = h.op /\ c.name = h.name /\ c.arg = h.thunk
        /\ h.op \in {"register", "run", "exists"} /\ h.name \in Names
        /\ h.op = "register" => h.name # EmptyName
    BY <1>2, <1>3, <1>4 DEF CallOf, TypeOK, Helper
  <1>6. Answer(c) \in Rules \cup {NoRule, "OK", "YES", "NO"}
        /\ (h.op = "run" => Answer(c) = rule[h.name])
    BY <1>5 DEF Answer, TypeOK
  <1>7. /\ h.op = "register" => rule' = [rule EXCEPT ![h.name] = h.thunk]
        /\ h.op # "register" => rule' = rule
    BY <1>4, <1>5 DEF After
  <1>8. /\ e \in Native /\ e.phase = "done" /\ e.op = h.op /\ e.name = h.name
        /\ e.answer = Answer(c)
    <2>1. c \in Native /\ Answer(c) \in Rules \cup {NoRule, "OK", "YES", "NO"}
      BY <1>5, <1>6
    <2> HIDE DEF c
    <2> QED
      BY <1>5, <2>1 DEF Native
  <1> HIDE DEF e
  <1>9. /\ call' \in [Threads -> [1..MaxDepth -> Native]] /\ call'[t][L] = e
        /\ \A u \in Threads : \A i \in 1..MaxDepth :
              ~(u = t /\ i = L) => call'[u][i] = call[u][i]
    <2>1. TypeOK /\ e \in Native /\ call' = [call EXCEPT ![t][L] = e]
      BY <1>4, <1>8
    <2> HIDE DEF BindingsInv
    <2> QED
      BY <1>3, <2>1 DEF TypeOK
  <1> QED
    BY <1>1, <1>2, <1>3, <1>4, <1>5, <1>6, <1>7, <1>8, <1>9

LEMMA NativeEffectKeeps ==
    ASSUME BindingsInv, NEW t \in Threads, NativeEffect(t)
    PROVE  BindingsInv'
  <1> USE DEF BindingsInv
  <1> DEFINE L == Len(helper[t])
             h == helper[t][L]
  <1>1. /\ helper[t] # <<>> /\ h.pc = "inside" /\ h \in Helper /\ FrameOK(h)
        /\ L \in 1..L /\ L \in Nat /\ depth[t] = L /\ L \in 1..MaxDepth
        /\ depth' = depth /\ binding' = binding /\ raced' = raced /\ kept' = kept
        /\ helper' = helper
        /\ CallOf(h, call[t][L])
        /\ h.op = "register" => /\ h.name # EmptyName
                                /\ rule' = [rule EXCEPT ![h.name] = h.thunk]
        /\ h.op # "register" => rule' = rule
        /\ call' \in [Threads -> [1..MaxDepth -> Native]]
        /\ call'[t][L].phase = "done"
        /\ call'[t][L].op = h.op /\ call'[t][L].name = h.name
        /\ h.op = "run" => call'[t][L].answer = rule[h.name]
        /\ \A u \in Threads : \A i \in 1..MaxDepth :
              ~(u = t /\ i = L) => call'[u][i] = call[u][i]
    BY EffectFact
  <1>2. /\ h.op = "register" => h.thunk \in Rules
        /\ h.op # "register" => h.thunk = NoRule
        /\ h.name \in Names /\ EmptyName \in Names
    BY <1>1, BindingsAssumption DEF FrameOK, Helper
  <1>3. /\ rule' \in [Names -> Rules \cup {NoRule}]
        /\ h.op = "register" => rule'[h.name] = h.thunk
        /\ \A n \in Names : (h.op = "register" /\ n = h.name) \/ rule'[n] = rule[n]
    BY <1>1, <1>2 DEF TypeOK
  <1>4. \A u \in Threads : \A i \in 1..Len(helper[u]) :
           \/ u = t /\ i = L
           \/ ~(u = t /\ i = L) /\ (i <= depth[u] => call'[u][i] = call[u][i])
    BY <1>1, DepthFact
  <1>5. StacksMatch'
    <2>1. ASSUME NEW u \in Threads, NEW i \in 1..Len(helper[u]), i <= depth[u]
          PROVE  CallOf(helper[u][i], call'[u][i])
      <3>1. CASE u = t /\ i = L
        <4>1. h.op = "run" => call'[t][L].answer \in Rules \cup {NoRule}
          BY <1>1, <1>2 DEF TypeOK
        <4>2. call'[t][L].phase = "done" /\ call'[t][L].op = h.op
              /\ call'[t][L].name = h.name
              /\ ~(h.op = "register" /\ h.name = EmptyName) /\ h.pc = "inside"
          BY <1>1
        <4> QED
          BY <3>1, <4>1, <4>2 DEF CallOf
      <3>2. CASE call'[u][i] = call[u][i]
        BY <2>1, <3>2 DEF StacksMatch
      <3> QED
        BY <1>4, <2>1, <3>1, <3>2
    <2>2. rule'[EmptyName] = NoRule
      BY <1>1, <1>2, <1>3 DEF StacksMatch
    <2>3. SUFFICES ASSUME NEW u \in Threads, NEW i \in 1..Len(helper'[u])
                   PROVE  /\ FrameOK(helper'[u][i])
                          /\ i < Len(helper'[u]) => helper'[u][i].pc = "running"
                          /\ i <= depth'[u] <=> helper'[u][i].pc \in {"inside", "running"}
                          /\ i <= depth'[u] => CallOf(helper'[u][i], call'[u][i])
      BY <2>2 DEF StacksMatch, FrameOK, CallOf
    <2>4. helper' = helper /\ depth' = depth /\ i \in 1..Len(helper[u])
      BY <1>1, <2>3
    <2>5. /\ FrameOK(helper[u][i])
          /\ i < Len(helper[u]) => helper[u][i].pc = "running"
          /\ i <= depth[u] <=> helper[u][i].pc \in {"inside", "running"}
      BY <2>4 DEF StacksMatch
    <2> HIDE DEF BindingsInv
    <2> QED
      BY <2>1, <2>4, <2>5
  <1>6. TypeOK'
    <2>1. ASSUME NEW u \in Threads, NEW i \in DOMAIN helper[u],
                 helper[u][i].pc = "running"
          PROVE  call'[u][i].answer \in Rules
      <3>1. i \in 1..Len(helper[u])
        BY StackFact
      <3> QED
        BY <1>1, <1>5, <2>1, <3>1 DEF StacksMatch, FrameOK, CallOf
    <2> QED
      BY <1>1, <1>3, <2>1 DEF TypeOK
  <1>7. ASSUME NEW u \in Threads, NEW i \in 1..Len(helper[u]), Found(u, i)'
        PROVE  \/ Found(u, i) /\ call'[u][i] = call[u][i]
               \/ /\ u = t /\ i = L /\ h.op = "run"
                  /\ call'[u][i].answer = rule[h.name] /\ rule[h.name] # NoRule
    BY <1>1, <1>4, <1>7 DEF Found
  <1>8. CSharpKeeps'
    <2>1. ASSUME binding = "csharp", NEW n \in Names, rule'[n] # NoRule
          PROVE  Kept(rule'[n])
      <3>1. h.op = "register" => Kept(h.thunk)
        BY <1>1, <2>1 DEF CSharpKeeps
      <3>2. CASE h.op = "register" /\ n = h.name
        BY <1>3, <3>1, <3>2
      <3>3. CASE rule'[n] = rule[n]
        BY <2>1, <3>3 DEF CSharpKeeps
      <3> QED
        BY <1>3, <3>2, <3>3
    <2>2. ASSUME binding = "csharp", NEW u \in Threads, NEW i \in 1..Len(helper[u]),
                 Found(u, i)'
          PROVE  Kept(call'[u][i].answer)
      BY <1>2, <1>7, <2>2 DEF CSharpKeeps
    <2>3. ASSUME binding = "csharp", NEW u \in Threads, NEW i \in 1..Len(helper[u]),
                 helper[u][i].op = "register", helper[u][i].pc # "keep"
          PROVE  Kept(helper[u][i].thunk)
      BY <2>3 DEF CSharpKeeps
    <2> QED
      BY <1>1, <2>1, <2>2, <2>3 DEF CSharpKeeps, Kept
  <1>9. Alone'
    BY <1>1 DEF Alone
  <1>10. LastRegistered'
    <2> SUFFICES ASSUME NEW u \in Threads, NEW i \in 1..Len(helper[u]),
                        helper[u][i].op = "register", helper[u][i].name \notin raced,
                        i <= depth[u], call'[u][i].phase = "done"
                 PROVE  rule'[helper[u][i].name] = helper[u][i].thunk
      BY <1>1 DEF LastRegistered
    <2>1. CASE u = t /\ i = L
      BY <1>3, <2>1
    <2>2. CASE ~(u = t /\ i = L) /\ call'[u][i] = call[u][i]
      <3>1. ~(h.op = "register" /\ helper[u][i].name = h.name)
        BY <1>1, <2>2 DEF Alone
      <3>2. helper[u][i].name \in Names
        BY StackFact DEF Helper
      <3> QED
        BY <1>3, <2>2, <3>1, <3>2 DEF LastRegistered
    <2> QED
      BY <1>4, <2>1, <2>2
  <1>11. PythonKeeps'
    <2>1. \A n \in Names : InProgress(n, {"register"})' <=> InProgress(n, {"register"})
      BY <1>1 DEF InProgress
    <2>2. ASSUME binding = "python", NEW n \in Names \ raced, rule'[n] # NoRule,
                 ~InProgress(n, {"register"})
          PROVE  <<n, rule'[n]>> \in kept
      <3>1. ~(h.op = "register" /\ n = h.name)
        BY <1>1, <2>2, InProgressFact
      <3> QED
        BY <1>3, <2>2, <3>1 DEF PythonKeeps
    <2>3. ASSUME binding = "python", NEW u \in Threads, NEW i \in 1..Len(helper[u]),
                 helper[u][i].name \notin raced, Found(u, i)'
          PROVE  <<helper[u][i].name, call'[u][i].answer>> \in kept
      <3>1. CASE Found(u, i) /\ call'[u][i] = call[u][i]
        BY <2>3, <3>1 DEF PythonKeeps
      <3>2. CASE /\ u = t /\ i = L /\ h.op = "run"
                 /\ call'[u][i].answer = rule[h.name] /\ rule[h.name] # NoRule
        <4>1. ~InProgress(h.name, {"register"})
          <5>1. ASSUME NEW v \in Threads, NEW j \in 1..Len(helper[v]),
                       helper[v][j].name = h.name, helper[v][j].op = "register"
                PROVE  FALSE
            <6>1. v = t /\ j = L
              BY <1>1, <2>3, <3>2, <5>1 DEF Alone
            <6> QED
              BY <3>2, <5>1, <6>1
          <5> QED
            BY <5>1, InProgressFact
        <4> QED
          BY <1>2, <2>3, <3>2, <4>1 DEF PythonKeeps
      <3> QED
        BY <1>7, <2>3, <3>1, <3>2
    <2>4. ASSUME binding = "python", NEW u \in Threads, NEW i \in 1..Len(helper[u]),
                 helper[u][i].name \notin raced, helper[u][i].op = "register",
                 helper[u][i].pc # "keep"
          PROVE  <<helper[u][i].name, helper[u][i].thunk>> \in kept
      BY <2>4 DEF PythonKeeps
    <2> QED
      BY <1>1, <2>1, <2>2, <2>3, <2>4 DEF PythonKeeps
  <1>12. RunsAlive'
    BY <1>1 DEF RunsAlive
  <1> QED
    BY <1>5, <1>6, <1>8, <1>9, <1>10, <1>11, <1>12

-----------------------------------------------------------------------------
\* The thunk a run has found is entered: it is among those the host keeps.
LEMMA EnterKeeps ==
    ASSUME BindingsInv, NEW t \in Threads, Enter(t)
    PROVE  BindingsInv'
  <1> USE DEF BindingsInv
  <1> DEFINE L == Len(helper[t])
             h == helper[t][L]
             c == call[t][L]
             f == [h EXCEPT !.pc = "running", !.live = Alive(c.answer)]
  <1>1. helper[t] # <<>> /\ TopHelper(t) = h /\ h.pc = "inside"
    BY DEF Enter, At, TopHelper
  <1>2. /\ L \in 1..L /\ L \in Nat /\ h \in Helper /\ FrameOK(h)
        /\ depth[t] = L /\ Current(t) = c /\ CallOf(h, c)
    BY <1>1, TopFact
  <1>3. /\ c.op = "run" /\ c.phase = "done" /\ c.answer # NoRule
        /\ rule' = rule /\ depth' = depth /\ call' = call
        /\ binding' = binding /\ raced' = raced /\ kept' = kept
        /\ SetHelper(t, f)
    BY <1>1, <1>2 DEF Enter, storeVars
  <1>4. Alive(c.answer) \in BOOLEAN
    BY DEF Alive
  <1>5. /\ f \in Helper /\ f.pc = "running" /\ f.name = h.name /\ f.op = h.op
        /\ f.thunk = h.thunk /\ f.live = Alive(c.answer)
    BY <1>2, <1>4 DEF Helper
  <1>6. h.op = "run" /\ FrameOK(f) /\ CallOf(f, c)
    BY <1>2, <1>3, <1>5 DEF CallOf, FrameOK
  <1> HIDE DEF f
  <1>7. Sets(t, f) /\ helper' \in [Threads -> Seq(Helper)]
    BY <1>1, <1>3, <1>5, SetFact
  <1>8. \A u \in Threads : \A i \in 1..Len(helper'[u]) :
           /\ i \in 1..Len(helper[u]) /\ Len(helper'[u]) = Len(helper[u])
           /\ \/ ~(u = t /\ i = L) /\ helper'[u][i] = helper[u][i]
              \/ u = t /\ i = L /\ helper'[u][i] = f
    BY <1>7 DEF Sets
  <1>9. StacksMatch'
    <2>1. ASSUME NEW u \in Threads, NEW i \in 1..Len(helper'[u])
          PROVE  /\ FrameOK(helper'[u][i])
                 /\ i < Len(helper'[u]) => helper'[u][i].pc = "running"
                 /\ i <= depth[u] <=> helper'[u][i].pc \in {"inside", "running"}
                 /\ i <= depth[u] => CallOf(helper'[u][i], call[u][i])
      <3>1. CASE ~(u = t /\ i = L) /\ helper'[u][i] = helper[u][i]
        BY <1>8, <3>1 DEF StacksMatch
      <3>2. CASE u = t /\ i = L /\ helper'[u][i] = f
        BY <1>2, <1>5, <1>6, <1>8, <3>2
      <3> QED
        BY <1>8, <3>1, <3>2
    <2> QED
      BY <1>3, <2>1 DEF StacksMatch, FrameOK, CallOf
  <1>10. TypeOK'
    <2>1. \A u \in Threads : Len(helper'[u]) - depth'[u] \in {0, 1}
      BY <1>3, <1>7 DEF Sets, TypeOK
    <2>2. ASSUME NEW u \in Threads, NEW i \in DOMAIN helper'[u],
                 helper'[u][i].pc = "running"
          PROVE  call'[u][i].answer \in Rules
      <3>1. i \in 1..Len(helper'[u])
        BY <1>7
      <3> QED
        BY <1>9, <2>2, <3>1 DEF StacksMatch, FrameOK, CallOf
    <2> QED
      BY <1>3, <1>7, <2>1, <2>2 DEF TypeOK
  <1>11. \A u \in Threads : \A i \in 1..Len(helper'[u]) :
            /\ i \in 1..Len(helper[u])
            /\ helper'[u][i].name = helper[u][i].name /\ helper'[u][i].op = helper[u][i].op
            /\ helper'[u][i].thunk = helper[u][i].thunk
            /\ helper'[u][i].pc # "keep" => helper[u][i].pc # "keep"
            /\ Found(u, i)' => Found(u, i)
    BY <1>1, <1>3, <1>5, <1>8 DEF Found
  <1>12. CSharpKeeps'
    BY <1>3, <1>11 DEF CSharpKeeps, Kept
  <1>13. Alone'
    BY <1>3, <1>11, AloneStays DEF NoneAdded
  <1>14. LastRegistered'
    BY <1>3, <1>11 DEF LastRegistered
  <1>15. PythonKeeps'
    <2>1. \A n \in Names : InProgress(n, {"register"}) => InProgress(n, {"register"})'
      BY <1>5, <1>7, StaysInProgress DEF Sets
    <2>2. ASSUME binding = "python", NEW u \in Threads, NEW i \in 1..Len(helper'[u]),
                 helper'[u][i].name \notin raced
          PROVE  /\ helper'[u][i].op = "register" /\ helper'[u][i].pc # "keep"
                       => <<helper'[u][i].name, helper'[u][i].thunk>> \in kept
                 /\ Found(u, i)' => <<helper'[u][i].name, call[u][i].answer>> \in kept
      <3>1. /\ helper[u][i].op = "register" /\ helper[u][i].pc # "keep"
                  => <<helper[u][i].name, helper[u][i].thunk>> \in kept
            /\ Found(u, i) => <<helper[u][i].name, call[u][i].answer>> \in kept
        BY <1>11, <2>2 DEF PythonKeeps
      <3> QED
        BY <1>11, <3>1
    <2> QED
      BY <1>3, <2>1, <2>2 DEF PythonKeeps
  <1>16. RunsAlive'
    <2>1. Found(t, L)
      BY <1>2, <1>3, <1>6 DEF Found
    <2>2. binding = "csharp" => Kept(c.answer)
      BY <1>2, <2>1 DEF CSharpKeeps
    <2>3. binding = "python" /\ h.name \notin raced => Kept(c.answer)
      <3>1. binding = "python" /\ h.name \notin raced => <<h.name, c.answer>> \in kept
        BY <1>2, <2>1 DEF PythonKeeps
      <3> QED
        BY <3>1 DEF Kept
    <2>4. binding \in {"python", "csharp"}
      BY BindingsAssumption DEF TypeOK
    <2>5. f.live \/ (binding = "python" /\ f.name \in raced)
      BY <1>5, <2>2, <2>3, <2>4 DEF Alive, Kept
    <2> QED
      BY <1>3, <1>8, <2>5 DEF RunsAlive
  <1> QED
    BY <1>9, <1>10, <1>12, <1>13, <1>14, <1>15, <1>16

-----------------------------------------------------------------------------
(***************************************************************************)
(* The native call and the helper return.  A registration that took effect *)
(* leaves its thunk both registered and kept.                              *)
(***************************************************************************)
LEMMA ReturnKeeps ==
    ASSUME BindingsInv, NEW t \in Threads, ReturnNative(t)
    PROVE  BindingsInv'
  <1> USE DEF BindingsInv
  <1> DEFINE L == Len(helper[t])
             h == helper[t][L]
             c == call[t][L]
  <1>1. helper[t] # <<>> /\ TopHelper(t) = h /\ h.pc \in {"inside", "running"}
    BY DEF ReturnNative, At, TopHelper
  <1>2. /\ L \in 1..L /\ L \in Nat /\ h \in Helper /\ FrameOK(h)
        /\ depth[t] = L /\ Current(t) = c /\ CallOf(h, c) /\ depth[t] \in 0..MaxDepth
    BY <1>1, TopFact
  <1>3. /\ c.phase \in {"done", "rejected"}
        /\ rule' = rule /\ depth' = [depth EXCEPT ![t] = @ - 1]
        /\ call' = [call EXCEPT ![t][L] = NoCall]
        /\ binding' = binding /\ raced' = raced /\ kept' = kept
        /\ helper' = [helper EXCEPT ![t] = SubSeq(@, 1, Len(@) - 1)]
    BY <1>2 DEF ReturnNative, Respond
  <1>4. L \in 1..MaxDepth
    BY <1>2, DepthFact
  <1>5. NoCall \in Native
    BY DEF NoCall, Native
  <1>6. /\ call' \in [Threads -> [1..MaxDepth -> Native]]
        /\ \A u \in Threads : \A i \in 1..MaxDepth :
              ~(u = t /\ i = L) => call'[u][i] = call[u][i]
    BY <1>3, <1>4, <1>5, CallFact, ZenonT(60)
  <1>7. Pops(t) /\ helper' \in [Threads -> Seq(Helper)]
    BY <1>1, <1>3, PopsFact
  <1>8. /\ depth' \in [Threads -> 0..MaxDepth] /\ depth'[t] = L - 1
        /\ \A u \in Threads : u # t => depth'[u] = depth[u]
    BY <1>2, <1>3, StoreAssumption DEF TypeOK
  <1>9. \A u \in Threads : \A i \in 1..Len(helper'[u]) :
           /\ i \in 1..Len(helper[u]) /\ helper'[u][i] = helper[u][i]
           /\ i < Len(helper'[u]) => i < Len(helper[u])
           /\ ~(u = t /\ i = L) /\ (u = t => i < L)
    BY <1>2, <1>7, StackFact DEF Pops
  <1>10. \A u \in Threads : \A i \in 1..Len(helper'[u]) :
            /\ i <= depth'[u] <=> i <= depth[u]
            /\ i <= depth[u] => call'[u][i] = call[u][i]
    <2> SUFFICES ASSUME NEW u \in Threads, NEW i \in 1..Len(helper'[u])
                 PROVE  /\ i <= depth'[u] <=> i <= depth[u]
                        /\ i <= depth[u] => call'[u][i] = call[u][i]
      OBVIOUS
    <2>1. i \in 1..Len(helper[u]) /\ ~(u = t /\ i = L) /\ (u = t => i < L)
      BY <1>9
    <2>2. i <= depth'[u] <=> i <= depth[u]
      BY <1>2, <1>8, <2>1
    <2>3. i <= depth[u] => i \in 1..MaxDepth
      BY <2>1, DepthFact
    <2> QED
      BY <1>6, <2>1, <2>2, <2>3
  <1>11. StacksMatch'
    <2>1. ASSUME NEW u \in Threads, NEW i \in 1..Len(helper'[u])
          PROVE  /\ FrameOK(helper'[u][i])
                 /\ i < Len(helper'[u]) => helper'[u][i].pc = "running"
                 /\ i <= depth'[u] <=> helper'[u][i].pc \in {"inside", "running"}
                 /\ i <= depth'[u] => CallOf(helper'[u][i], call'[u][i])
      BY <1>9, <1>10 DEF StacksMatch
    <2> QED
      BY <1>3, <2>1 DEF StacksMatch, FrameOK, CallOf
  <1>12. TypeOK'
    <2>1. ASSUME NEW u \in Threads PROVE Len(helper'[u]) - depth'[u] \in {0, 1}
      <3>1. CASE u = t
        BY <1>2, <1>7, <1>8, <3>1 DEF Pops
      <3>2. CASE u # t
        BY <1>7, <1>8, <3>2 DEF Pops, TypeOK
      <3> QED
        BY <3>1, <3>2
    <2>2. ASSUME NEW u \in Threads, NEW i \in DOMAIN helper'[u],
                 helper'[u][i].pc = "running"
          PROVE  call'[u][i].answer \in Rules
      <3>1. i \in 1..Len(helper'[u])
        BY <1>7
      <3> QED
        BY <1>11, <2>2, <3>1 DEF StacksMatch, FrameOK, CallOf
    <2> QED
      BY <1>3, <1>6, <1>7, <1>8, <2>1, <2>2 DEF TypeOK
  <1>13. \A u \in Threads : \A i \in 1..Len(helper'[u]) :
            Found(u, i)' => Found(u, i) /\ call'[u][i] = call[u][i]
    BY <1>9, <1>10 DEF Found
  <1>14. CSharpKeeps'
    BY <1>3, <1>9, <1>13 DEF CSharpKeeps, Kept
  <1>15. Alone'
    BY <1>3, <1>9, AloneStays DEF NoneAdded
  <1>16. LastRegistered'
    BY <1>3, <1>9, <1>10 DEF LastRegistered
  <1>17. PythonKeeps'
    <2>1. ASSUME binding = "python", NEW n \in Names \ raced, rule[n] # NoRule
          PROVE  <<n, rule[n]>> \in kept \/ InProgress(n, {"register"})'
      <3>1. CASE ~InProgress(n, {"register"})
        BY <2>1, <3>1 DEF PythonKeeps
      <3>2. CASE h.op = "register" /\ h.name = n
        <4>1. c.phase = "done"
          BY <1>2, <1>3, <2>1, <3>2 DEF CallOf, StacksMatch
        <4>2. rule[n] = h.thunk
          BY <1>2, <2>1, <3>2, <4>1 DEF LastRegistered
        <4>3. <<n, h.thunk>> \in kept
          BY <1>1, <1>2, <2>1, <3>2 DEF PythonKeeps
        <4> QED
          BY <4>2, <4>3
      <3>3. CASE InProgress(n, {"register"}) /\ ~(h.op = "register" /\ h.name = n)
        <4>1. PICK u \in Threads : \E i \in 1..Len(helper[u]) :
                 helper[u][i].name = n /\ helper[u][i].op \in {"register"}
          BY <3>3, InProgressFact
        <4>2. PICK i \in 1..Len(helper[u]) :
                 helper[u][i].name = n /\ helper[u][i].op \in {"register"}
          BY <4>1
        <4>3. ~(u = t /\ i = L)
          BY <3>3, <4>2
        <4>4. i \in 1..Len(helper'[u])
          BY <1>2, <1>7, <4>3, StackFact DEF Pops
        <4>5. helper'[u][i] = helper[u][i] /\ i \in DOMAIN helper'[u]
          BY <1>7, <1>9, <4>4
        <4> QED
          BY <4>2, <4>5 DEF InProgress
      <3> QED
        BY <3>1, <3>2, <3>3
    <2>2. ASSUME binding = "python", NEW u \in Threads, NEW i \in 1..Len(helper'[u]),
                 helper'[u][i].name \notin raced
          PROVE  /\ helper'[u][i].op = "register" /\ helper'[u][i].pc # "keep"
                       => <<helper'[u][i].name, helper'[u][i].thunk>> \in kept
                 /\ Found(u, i)' => <<helper'[u][i].name, call'[u][i].answer>> \in kept
      <3>1. /\ helper[u][i].op = "register" /\ helper[u][i].pc # "keep"
                  => <<helper[u][i].name, helper[u][i].thunk>> \in kept
            /\ Found(u, i) => <<helper[u][i].name, call[u][i].answer>> \in kept
        BY <1>9, <2>2 DEF PythonKeeps
      <3> QED
        BY <1>9, <1>13, <3>1
    <2> QED
      BY <1>3, <2>1, <2>2 DEF PythonKeeps
  <1>18. RunsAlive'
    BY <1>3, <1>9 DEF RunsAlive
  <1> QED
    BY <1>11, <1>12, <1>14, <1>15, <1>16, <1>17, <1>18

-----------------------------------------------------------------------------
LEMMA InitBindings == Init => BindingsInv
  <1> SUFFICES ASSUME Init PROVE BindingsInv
    OBVIOUS
  <1>1. /\ rule = [n \in Names |-> NoRule] /\ depth = [t \in Threads |-> 0]
        /\ call = [t \in Threads |-> [d \in 1..MaxDepth |-> NoCall]]
        /\ binding \in Bindings /\ kept = {} /\ raced = {}
        /\ helper = [t \in Threads |-> <<>>]
    BY DEF Init, StoreInit
  <1>2. NoCall \in Native
    BY DEF NoCall, Native
  <1>3. call \in [Threads -> [1..MaxDepth -> Native]]
    BY <1>1, <1>2
  <1>4. \A t \in Threads : Len(helper[t]) = 0 /\ depth[t] = 0 /\ DOMAIN helper[t] = {}
    <2>1. Len(<<>>) = 0 /\ DOMAIN <<>> = {}
      OBVIOUS
    <2>2. \A t \in Threads : helper[t] = <<>> /\ depth[t] = 0
      BY <1>1
    <2> QED
      BY <2>1, <2>2
  <1>5. helper \in [Threads -> Seq(Helper)] /\ depth \in [Threads -> 0..MaxDepth]
    BY <1>1, StoreAssumption
  <1>6. TypeOK
    BY <1>1, <1>3, <1>4, <1>5 DEF TypeOK
  <1>7. \A t \in Threads : 1..Len(helper[t]) = {}
    <2>1. 1..0 = {}
      OBVIOUS
    <2> QED
      BY <1>4, <2>1
  <1>8. \A n \in Names : rule[n] = NoRule
    BY <1>1
  <1>9. StacksMatch
    BY <1>7, <1>8, BindingsAssumption DEF StacksMatch
  <1>10. CSharpKeeps /\ PythonKeeps
    BY <1>7, <1>8 DEF CSharpKeeps, PythonKeeps
  <1>11. Alone /\ LastRegistered /\ RunsAlive
    BY <1>7 DEF Alone, LastRegistered, RunsAlive
  <1> QED
    BY <1>6, <1>9, <1>10, <1>11 DEF BindingsInv

LEMMA NextBindings == BindingsInv /\ [Next]_vars => BindingsInv'
  <1> SUFFICES ASSUME BindingsInv, [Next]_vars PROVE BindingsInv'
    OBVIOUS
  <1>1. ASSUME NEW t \in Threads, NEW n \in Names, NEW c \in Rules, RegisterRule(t, n, c)
        PROVE  BindingsInv'
    <2> DEFINE f == [op |-> "register", name |-> n, thunk |-> c, pc |-> "keep",
                     live |-> TRUE]
    <2>1. Begin(t, f) /\ Fresh(f)
      BY <1>1 DEF RegisterRule, Fresh, FrameOK, Helper
    <2> QED
      BY <2>1, BeginKeeps
  <1>2. ASSUME NEW t \in Threads, NEW n \in Names, NEW op \in {"run", "exists"},
               RunOrExists(t, op, n)
        PROVE  BindingsInv'
    <2> DEFINE f == [op |-> op, name |-> n, thunk |-> NoRule, pc |-> "native",
                     live |-> TRUE]
    <2>1. Begin(t, f) /\ Fresh(f)
      BY <1>2 DEF RunOrExists, Fresh, FrameOK, Helper
    <2> QED
      BY <2>1, BeginKeeps
  <1>3. ASSUME NEW t \in Threads, Keep(t) PROVE BindingsInv'
    BY <1>3, KeepKeeps
  <1>4. ASSUME NEW t \in Threads, KeepThrows(t) PROVE BindingsInv'
    BY <1>4, KeepThrowsKeeps
  <1>5. ASSUME NEW t \in Threads, CallNative(t) PROVE BindingsInv'
    BY <1>5, CallNativeKeeps
  <1>6. ASSUME NEW t \in Threads, NativeEffect(t) PROVE BindingsInv'
    BY <1>6, NativeEffectKeeps
  <1>7. ASSUME NEW t \in Threads, Enter(t) PROVE BindingsInv'
    BY <1>7, EnterKeeps
  <1>8. ASSUME NEW t \in Threads, ReturnNative(t) PROVE BindingsInv'
    BY <1>8, ReturnKeeps
  <1>9. CASE UNCHANGED vars
    <2>1. /\ rule' = rule /\ depth' = depth /\ call' = call /\ binding' = binding
          /\ kept' = kept /\ helper' = helper /\ raced' = raced
      BY <1>9 DEF vars
    <2>2. TypeOK' /\ StacksMatch'
      BY <2>1 DEF BindingsInv, TypeOK, StacksMatch, FrameOK, CallOf
    <2>3. CSharpKeeps' /\ Alone'
      BY <2>1 DEF BindingsInv, CSharpKeeps, Found, Kept, Alone
    <2>4. \A n \in Names : InProgress(n, {"register"})' <=> InProgress(n, {"register"})
      BY <2>1 DEF InProgress
    <2>5. LastRegistered' /\ PythonKeeps' /\ RunsAlive'
      BY <2>1, <2>4 DEF BindingsInv, LastRegistered, PythonKeeps, Found, RunsAlive
    <2> QED
      BY <2>2, <2>3, <2>5 DEF BindingsInv
  <1> QED
    BY <1>1, <1>2, <1>3, <1>4, <1>5, <1>6, <1>7, <1>8, <1>9 DEF Next

LEMMA BindingsAlways == Spec => []BindingsInv
  BY InitBindings, NextBindings, PTL DEF Spec

(***************************************************************************)
(* Type correctness of the bindings' state, and of the stacks of helpers   *)
(* and native calls (_rule_refs, _handles and the calls in progress).      *)
(***************************************************************************)
THEOREM BindingsTypeOK == Spec => []TypeOK
  <1>1. BindingsInv => TypeOK
    BY DEF BindingsInv
  <1> QED
    BY <1>1, BindingsAlways, PTL

(***************************************************************************)
(* A thunk the library calls is one the host still has: always in C#, and  *)
(* in Python for names that are not registered while they are run or       *)
(* registered.  For any number of threads and depth of rules calling       *)
(* rules.                                                                  *)
(***************************************************************************)
THEOREM CallbacksStayAlive == Spec => []CallbackAlive
  <1>1. BindingsInv => CallbackAlive
    <2> SUFFICES ASSUME BindingsInv, NEW t \in Threads, At(t, "running")
                 PROVE  TopHelper(t).live \/ (binding = "python" /\ TopHelper(t).name \in raced)
      BY DEF CallbackAlive
    <2>1. helper[t] # <<>> /\ TopHelper(t).pc = "running"
      BY DEF At
    <2>2. Len(helper[t]) \in 1..Len(helper[t]) /\ TopHelper(t) = helper[t][Len(helper[t])]
      BY <2>1, TopFact
    <2> QED
      BY <2>1, <2>2 DEF BindingsInv, RunsAlive
  <1> QED
    BY <1>1, BindingsAlways, PTL

(***************************************************************************)
(* The registry holds only thunks the host keeps, during the replacement   *)
(* of a rule too; in Python but for a name that is being replaced, or is   *)
(* raced.                                                                  *)
(***************************************************************************)
THEOREM RegistryIsKept == Spec => []RegistryKept
  <1>1. BindingsInv => RegistryKept
    <2> SUFFICES ASSUME BindingsInv, NEW n \in Names, rule[n] # NoRule
                 PROVE  \/ Kept(rule[n])
                        \/ binding = "python" /\ (n \in raced \/ InProgress(n, {"register"}))
      BY DEF RegistryKept, Kept
    <2>1. binding \in {"python", "csharp"}
      BY BindingsAssumption DEF BindingsInv, TypeOK
    <2>2. CASE binding = "csharp"
      BY <2>2 DEF BindingsInv, CSharpKeeps
    <2>3. CASE binding = "python" /\ n \notin raced /\ ~InProgress(n, {"register"})
      <3>1. <<n, rule[n]>> \in kept
        BY <2>3 DEF BindingsInv, PythonKeeps
      <3> QED
        BY <3>1 DEF Kept
    <2> QED
      BY <2>1, <2>2, <2>3
  <1> QED
    BY <1>1, BindingsAlways, PTL

(***************************************************************************)
(* The bindings use the registry as RuleStore promises it to any caller:   *)
(* each of their steps is a call, its effect or its return there, or       *)
(* leaves the registry alone.                                              *)
(***************************************************************************)
THEOREM BindingsUseTheStore == Spec => StoreSpec
  <1>1. Init => StoreInit
    BY DEF Init
  <1>2. BindingsInv /\ [Next]_vars => [StoreNext]_storeVars
    <2> SUFFICES ASSUME BindingsInv, [Next]_vars PROVE [StoreNext]_storeVars
      OBVIOUS
    <2>1. ASSUME NEW t \in Threads, CallNative(t) PROVE StoreNext
      <3> DEFINE h == TopHelper(t)
      <3>1. helper[t] # <<>> /\ h.pc = "native"
        BY <2>1 DEF CallNative, At
      <3>2. h \in Helper
        BY <3>1, TopFact
      <3>3. h.name \in Names /\ h.thunk \in Rules \cup {NoRule}
            /\ h.op \in {"register", "run", "exists"}
        BY <3>2 DEF Helper
      <3>4. PICK p \in {"pending", "rejected"} : InvokeWith(t, p, h.op, h.name, h.thunk)
        BY <2>1 DEF CallNative
      <3> HIDE DEF h
      <3>5. Invoke(t)
        BY <3>3, <3>4 DEF Invoke
      <3> QED
        BY <3>5 DEF StoreNext
    <2>2. ASSUME NEW t \in Threads, NativeEffect(t) PROVE StoreNext
      BY <2>2 DEF NativeEffect, StoreNext
    <2>3. ASSUME NEW t \in Threads, ReturnNative(t) PROVE StoreNext
      BY <2>3 DEF ReturnNative, StoreNext
    <2>4. ASSUME NEW t \in Threads,
                 \/ \E n \in Names, c \in Rules : RegisterRule(t, n, c)
                 \/ \E n \in Names, op \in {"run", "exists"} : RunOrExists(t, op, n)
                 \/ Keep(t) \/ KeepThrows(t) \/ Enter(t)
          PROVE  UNCHANGED storeVars
      BY <2>4 DEF RegisterRule, RunOrExists, Begin, Keep, KeepThrows, Enter
    <2>5. CASE UNCHANGED vars
      BY <2>5 DEF vars, storeVars
    <2> QED
      BY <2>1, <2>2, <2>3, <2>4, <2>5 DEF Next
  <1> QED
    BY <1>1, <1>2, BindingsAlways, PTL DEF Spec, StoreSpec

(***************************************************************************)
(* C# needs no discipline of its user: it pins the delegate before the     *)
(* registration and never unpins it (RTorchForModelsApi.cs:296-299), so    *)
(* what violates NoDeadCallback is Python's dictionary alone.              *)
(***************************************************************************)
THEOREM PinnedCallbacksStayAlive ==
    ASSUME Bindings = {"csharp"}
    PROVE  Spec => []NoDeadCallback
  <1>1. CallbackAlive /\ TypeOK => NoDeadCallback
    BY DEF CallbackAlive, NoDeadCallback, TypeOK
  <1> QED
    BY <1>1, CallbacksStayAlive, BindingsTypeOK, PTL
=============================================================================
