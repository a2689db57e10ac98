--------------------------- MODULE OutputProtocol ---------------------------
(***************************************************************************)
(* How a binding gets bytes of unknown length out of the library: it asks  *)
(* for the size with an empty buffer (the probe), allocates, and asks      *)
(* again.  Session::run does so over rtorch_api_session_execute, whose     *)
(* output the formula computes anew at every call; Rtw::bytes over         *)
(* rtorch_api_rtw_bytes, whose payload is fixed.  run_rule of Python and   *)
(* C# does not ask: it gives the rule a buffer of a fixed size.            *)
(*                                                                         *)
(* Bytes are abstracted to counts: a buffer is its capacity and how many   *)
(* bytes of the output it starts with.  The buffers that C# must free by   *)
(* hand are numbered: 0 is the one for the output, the rest hold inputs.   *)
(***************************************************************************)
EXTENDS Naturals

CONSTANTS
    Bindings,   \* the bindings considered, of "cpp", "python", "csharp"
    MaxSize,    \* bound on the length of an output
    RuleCap,    \* 4096, the buffer run_rule gives to a rule
    Stable,     \* TRUE: a formula produces the same length at every call
    MaxInputs   \* bound on the inputs of a rule that are not empty

ASSUME ProtocolAssumption ==
    /\ Bindings \subseteq {"cpp", "python", "csharp"}
    /\ MaxSize \in Nat /\ RuleCap \in 0..MaxSize /\ Stable \in BOOLEAN
    /\ MaxInputs \in Nat

VARIABLES
    binding, op,  \* who calls, and what
    closed,       \* the wrapper's handle is null: closed or moved from
    size,         \* length of the output of the next library call
    pc,           \* "probe", "alloc", "fill", "deliver", or how the call ended:
                  \* "done", "failed" by the library, "nobuffer" or "nocopy"
                  \* when memory for the buffers or for the result ran out
    want,         \* the size the probe reported
    cap, native,  \* capacity the library is told, and output bytes the memory
                  \* behind the pointer it is given holds
    args,         \* RunRule of C#: how many inputs are not empty
    unmanaged,    \* Rtw.Bytes and RunRule of C#: buffers of AllocHGlobal held
    outLen,       \* the length the second call reports
    result        \* what the caller gets: its length, and how much is output

vars == <<binding, op, closed, size, pc, want, cap, native, args, unmanaged,
          outLen, result>>

Ops == {"session_run", "rtw_bytes", "run_rule"}
Sizes == 0..MaxSize
Over == pc \in {"done", "failed", "nobuffer", "nocopy"}
NoResult == [len |-> 0, good |-> 0]

\* The calls of C# that free by hand; Session.Run never frees, and is left out.
FreesByHand == binding = "csharp" /\ op # "session_run"

\* An empty input gets no buffer.
Inputs == IF FreesByHand /\ op = "run_rule" THEN 0..MaxInputs ELSE {0}

\* run_rule asks for no size.
FirstStep(o) == IF o = "run_rule" THEN "alloc" ELSE "probe"

Init ==
    /\ binding \in Bindings
    /\ op \in IF binding = "cpp" THEN Ops \ {"run_rule"} ELSE Ops
    /\ closed \in IF op = "run_rule" THEN {FALSE} ELSE BOOLEAN
    /\ size \in Sizes
    /\ pc = FirstStep(op)
    /\ want = 0 /\ cap = 0 /\ native = 0 /\ outLen = 0
    /\ args \in Inputs /\ unmanaged = {}
    /\ result = NoResult

AtMost(a, b) == IF a < b THEN a ELSE b
AtLeastOne(n) == IF n = 0 THEN 1 ELSE n

(***************************************************************************)
(* The two entry points: the code they return, what they leave in the      *)
(* caller's length for an output of n bytes into a buffer of capacity c,   *)
(* and the bytes they write there.                                         *)
(***************************************************************************)
\* Wrong form: the bound is off by one.
SessionExecuteOffByOne(n, c) ==
    IF n > c + 1 THEN [rc |-> "E_PARAM", len |-> c, written |-> 0]
                 ELSE [rc |-> "OK", len |-> n, written |-> n]

SessionExecute(n, c) ==
    IF n > c THEN [rc |-> "E_PARAM", len |-> c, written |-> 0]
             ELSE [rc |-> "OK", len |-> n, written |-> n]

\* Wrong forms: the size is reported only when the buffer is large enough; the
\* size counts a terminator.
RtwBytesLateLen(n, c) ==
    IF n > c THEN [rc |-> "E_PARAM", len |-> 0, written |-> 0]
             ELSE [rc |-> "OK", len |-> n, written |-> n]

RtwBytesCountsNul(n, c) ==
    [rc |-> IF n > c THEN "E_PARAM" ELSE "OK", len |-> n + 1,
     written |-> IF n > c THEN 0 ELSE n]

RtwBytes(n, c) ==
    [rc |-> IF n > c THEN "E_PARAM" ELSE "OK", len |-> n,
     written |-> IF n > c THEN 0 ELSE n]

\* A rule that has more to say than the buffer takes returns a code of its own.
RuleCall(n, c) == IF n > c THEN [rc |-> "RULE_ERR", len |-> c, written |-> 0]
                           ELSE [rc |-> "OK", len |-> n, written |-> n]

\* Wrong form: a null session has no output.
NullHasNoOutput(c) == [rc |-> "OK", len |-> 0, written |-> 0]

\* A null handle is refused first; the caller's length stays as it was, and
\* rtw_bytes is given one that is 0.
NullCall(c) == [rc |-> "E_PARAM", len |-> IF op = "rtw_bytes" THEN 0 ELSE c, written |-> 0]

Call(n, c) ==
    IF closed THEN NullCall(c)
    ELSE CASE op = "run_rule" -> RuleCall(n, c)
           [] op = "rtw_bytes" -> RtwBytes(n, c)
           [] OTHER -> SessionExecute(n, c)

\* The payload of an Rtw never changes; what a formula produces next may.
NextSize ==
    IF op = "session_run" /\ ~Stable THEN size' \in Sizes ELSE size' = size

\* Wrong form: the inputs are forgotten.
FinallyFreesOutput == unmanaged \ {0}

(***************************************************************************)
(* The finally block of Rtw.Bytes and RunRule: the buffers of the inputs   *)
(* that have one, and the output's.  It covers what is in its try, which   *)
(* begins once all of them are allocated.                                  *)
(***************************************************************************)
Finally == unmanaged \ (0..args)

\* A formula that fails at run time answers E_PARSE, a rule its own code or that
\* it is not registered; every binding throws, or RunRule gives nothing.
FormulaFails ==
    /\ ~closed
    /\ \/ op = "session_run" /\ pc \in {"probe", "fill"}
       \/ op = "run_rule" /\ pc = "fill"
    /\ pc' = "failed"
    /\ unmanaged' = Finally
    /\ UNCHANGED <<binding, op, closed, size, want, cap, native, args, outLen, result>>

\* E_PARAM is what a probe expects; the C++ and Python Rtw do not look at the code.
Probe ==
    /\ pc = "probe"
    /\ want' = Call(size, 0).len
    /\ pc' = "alloc"
    /\ NextSize
    /\ UNCHANGED <<binding, op, closed, cap, native, args, unmanaged, outLen, result>>

\* RunRule of C# copies its inputs one by one, before it asks for the output's
\* buffer and before its try.
AllocateInput ==
    /\ pc = "alloc"
    /\ \E i \in 1..args : unmanaged = 1..(i - 1) /\ unmanaged' = 1..i
    /\ UNCHANGED <<binding, op, closed, size, pc, want, cap, native, args, outLen, result>>

(***************************************************************************)
(* The buffer: exactly want bytes in C++, at least one elsewhere; Rtw.Bytes *)
(* of C# allocates one more than it tells.                                 *)
(***************************************************************************)
Allocate ==
    /\ pc = "alloc" /\ unmanaged = 1..args
    /\ cap' = CASE op = "run_rule" -> RuleCap
                [] binding = "cpp" \/ (binding = "csharp" /\ op = "rtw_bytes") -> want
                [] OTHER -> AtLeastOne(want)
    /\ pc' = "fill"
    /\ unmanaged' = IF FreesByHand THEN unmanaged \cup {0} ELSE unmanaged
    /\ UNCHANGED <<binding, op, closed, size, want, native, args, outLen, result>>

(***************************************************************************)
(* An allocation throws: that of a buffer, or of the result where it is a  *)
(* copy.  C++ cuts its buffer to length, which allocates nothing.          *)
(***************************************************************************)
OutOfMemory ==
    /\ \/ pc = "alloc" /\ pc' = "nobuffer" /\ UNCHANGED unmanaged
       \/ pc = "deliver" /\ pc' = "nocopy" /\ binding # "cpp" /\ unmanaged' = Finally
    /\ UNCHANGED <<binding, op, closed, size, want, cap, native, args, outLen, result>>

Fill ==
    /\ pc = "fill"
    /\ LET answer == Call(size, cap) IN
          IF answer.rc = "OK"
          THEN /\ pc' = "deliver"
               /\ native' = answer.written /\ outLen' = answer.len
               /\ UNCHANGED unmanaged
          ELSE /\ pc' = "failed" /\ unmanaged' = Finally
               /\ UNCHANGED <<native, outLen>>
    /\ UNCHANGED <<binding, op, closed, size, want, cap, args, result>>

(***************************************************************************)
(* The caller's copy.  Session.Run of C# made its out blob with Blob.From, *)
(* which copies the managed array into fresh native memory: the library    *)
(* writes there, and the result is copied from the array.                  *)
(***************************************************************************)
\* Wrong form: the buffer is returned at its full size.
DeliverWholeBuffer ==
    /\ pc = "deliver"
    /\ result' = [len |-> cap, good |-> AtMost(native, cap)]
    /\ pc' = "done"
    /\ unmanaged' = Finally
    /\ UNCHANGED <<binding, op, closed, size, want, cap, native, args, outLen>>

Deliver ==
    /\ pc = "deliver"
    /\ LET held == IF binding = "csharp" /\ op = "session_run" THEN 0 ELSE native
       IN result' = [len |-> outLen, good |-> AtMost(held, outLen)]
    /\ pc' = "done"
    /\ unmanaged' = Finally
    /\ UNCHANGED <<binding, op, closed, size, want, cap, native, args, outLen>>

\* The call is over; the caller makes another, for any other output.
Again ==
    /\ Over
    /\ pc' = FirstStep(op)
    /\ size' \in IF op = "rtw_bytes" THEN {size} ELSE Sizes
    /\ want' = 0 /\ cap' = 0 /\ native' = 0 /\ outLen' = 0
    /\ args' \in Inputs /\ unmanaged' = {}
    /\ result' = NoResult
    /\ UNCHANGED <<binding, op, closed>>

Next ==
    \/ FormulaFails \/ Probe \/ AllocateInput \/ Allocate \/ OutOfMemory
    \/ Fill \/ Deliver \/ Again

Spec == Init /\ [][Next]_vars

-----------------------------------------------------------------------------
TypeOK ==
    /\ binding \in Bindings /\ op \in Ops /\ closed \in BOOLEAN /\ size \in Sizes
    /\ pc \in {"probe", "alloc", "fill", "deliver", "done", "failed", "nobuffer", "nocopy"}
    /\ want \in Sizes /\ cap \in 0..(MaxSize + 1)
    /\ native \in Sizes /\ outLen \in Sizes
    /\ args \in Inputs /\ unmanaged \subseteq 0..args
    /\ result \in [len : Sizes, good : Sizes]

(***************************************************************************)
(* Rtw::bytes gives the payload, all of it and nothing else, in every      *)
(* binding: the required size is reported together with E_PARAM            *)
(* (ffi.rs:381-385), so the second call never fails on an open handle.     *)
(***************************************************************************)
RtwBytesExact ==
    op = "rtw_bytes" =>
        /\ pc = "failed" => closed
        /\ pc = "done" => result = [len |-> size, good |-> size]

(***************************************************************************)
(* What the library writes fits the capacity it was told (ffi.rs:247-255), *)
(* even when a formula produces more the second time than at the probe.    *)
(***************************************************************************)
WithinCapacity ==
    pc \in {"deliver", "done"} => native <= cap /\ outLen <= cap

(***************************************************************************)
(* Session::run of C++ and Python, and run_rule, return the output of the  *)
(* dispatch that filled the buffer, exactly, or they fail: never a         *)
(* truncated output and never one padded to the buffer's size.  (A rule    *)
(* that writes says how much, as rtorch_api.h:76-78 has it for formulas.)  *)
(***************************************************************************)
RunExactOrThrows ==
    pc = "done" /\ (op = "run_rule" \/ (op = "session_run" /\ binding # "csharp")) =>
        result = [len |-> size, good |-> size]

(***************************************************************************)
(* A method of a wrapper that is closed, moved from, or closed by another  *)
(* thread after the probe does not pass for one with an empty output: the  *)
(* probe takes E_PARAM for "too small", the second call throws             *)
(* (hpp:102-110, ffi.rs:215 and 372).                                      *)
(***************************************************************************)
ClosedThrows == closed => pc # "done"

(***************************************************************************)
(* The buffers of Rtw.Bytes and RunRule live as long as the library may    *)
(* touch them and no longer (RTorchForModelsApi.cs:230-242, 304-325: "Free  *)
(* the unmanaged buffers from Blob.From(inputs) as well"): all of them are *)
(* there from the call to the copy of the result, and none is left when    *)
(* the call is over, however it ends.  The exception is RunRule when one   *)
(* of its allocations throws: the try has not begun, and the inputs        *)
(* allocated so far are lost.                                              *)
(***************************************************************************)
BufferLifetimes ==
    FreesByHand =>
        /\ pc \in {"fill", "deliver"} => unmanaged = 0..args
        /\ Over /\ unmanaged # {} => op = "run_rule" /\ pc = "nobuffer"

(***************************************************************************)
(* "The session reports required bytes even on E_PARAM" (hpp:101, and the  *)
(* comment of the Python probe).  The code leaves out.len alone.           *)
(***************************************************************************)
ProbeReportsSize ==
    op = "session_run" /\ ~closed /\ Stable /\ pc = "alloc" => want = size

(***************************************************************************)
(* "On return out.len is the bytes actually written, or rc != 0"           *)
(* (rtorch_api.h:77-78), read at the binding's result: what Session.Run    *)
(* returns starts with that many bytes of output.  C# returns zeros.       *)
(***************************************************************************)
ResultIsOutput ==
    op = "session_run" /\ pc = "done" => result.good = result.len
=============================================================================
