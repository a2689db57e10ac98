------------------------------ MODULE Wrappers ------------------------------
(***************************************************************************)
(* The objects that own native handles: Tensor, Session, Rtw, Model and    *)
(* Memory of the C++, Python and C# bindings.  One thread runs methods,    *)
(* whose calls of the library are those of OutputProtocol; other threads   *)
(* construct, move, close and drop the wrappers meanwhile.                 *)
(*                                                                         *)
(* The library does not protect an object that is freed while a call is    *)
(* inside it, or while an array it lent is read.  The host must not do     *)
(* that: the model says when it did (misused), explores nothing after it,  *)
(* and checks that the wrappers are safe in every other order.             *)
(***************************************************************************)
EXTENDS OutputProtocol

CONSTANTS
    Holders,   \* variables of the host that can hold a wrapper
    Objects,   \* addresses the allocator hands out, again after a free
    Closers,   \* threads other than the one that runs methods
    Null

ASSUME WrapperAssumption == Null \notin Objects \cup Holders

VARIABLES
    present,  \* the holders that hold a wrapper
    handle,   \* its handle, Null once it is closed or moved from
    live,     \* the objects that have not been freed
    lost,     \* those whose C# wrapper was dropped without Dispose
    closing,  \* a close in progress, by thread: of which holder, and where
    self,     \* whose method runs, or whose array is on loan
    view,     \* nothing but a borrowed pointer is left of that method
    inUse,    \* the object a call is inside of, or whose array is on loan
    inCall,   \* the library is executing a call of the method
    misused,  \* history: an object was freed in use, or closed by two at once
    harmed    \* history: a freed object was used or freed

wrapperVars == <<present, handle, live, lost, closing, self, view, inUse, inCall,
                 misused, harmed>>

NotClosing == [of |-> Null, pc |-> "none"]

WrapperInit ==
    /\ Init /\ closed = FALSE
    /\ present = {} /\ live = {} /\ lost = {}
    /\ handle = [w \in Holders |-> Null]
    /\ closing = [c \in Closers |-> NotClosing]
    /\ self = Null /\ view = FALSE /\ inUse = Null /\ inCall = FALSE
    /\ misused = FALSE /\ harmed = FALSE

\* A freed object behind a handle that is not cleared yet.
Dangling(w) == [of |-> w, pc |-> "clear"] \in {closing[c] : c \in Closers}
Dead(h) == h # Null /\ h \notin live

\* C++ leaves a wrapper to one thread at a time; in C# and Python the threads
\* that have a reference may use it as they please.
MayTouch(w) ==
    /\ ~misused /\ w \in present /\ op # "run_rule"
    /\ binding = "cpp" => /\ view \/ self # w
                          /\ \A c \in Closers : closing[c].of # w

\* Effects of a free on the objects and on what the host is to blame for.
FreeHandle(w) ==
    /\ live' = live \ {handle[w]}
    /\ misused' = (Dangling(w) \/ (handle[w] # Null /\ handle[w] = inUse))
    /\ harmed' = Dead(handle[w])

-----------------------------------------------------------------------------
\* A constructor that succeeds, or C++ adopting a handle made by the C ABI.  One
\* that fails throws and owns nothing.
New(w) ==
    /\ ~misused /\ op # "run_rule" /\ w \notin present
    /\ \E h \in Objects \ live :
          /\ live' = live \cup {h}
          /\ handle' = [handle EXCEPT ![w] = h]
    /\ present' = present \cup {w}
    /\ UNCHANGED <<lost, closing, self, view, inUse, inCall, misused, harmed, vars>>

\* Of C++ only Tensor and Session move, and only Tensor can be reset; the two are
\* taken as one here.
Movable == binding = "cpp" /\ op = "session_run"

\* close, Dispose, reset: nothing to do without a handle.
CloseBegin(c, w) ==
    /\ MayTouch(w) /\ closing[c] = NotClosing
    /\ handle[w] # Null /\ (binding = "cpp" => Movable)
    /\ closing' = [closing EXCEPT ![c] = [of |-> w, pc |-> "free"]]
    /\ UNCHANGED <<present, handle, live, lost, self, view, inUse, inCall, misused, harmed, vars>>

\* *_free of the handle the wrapper has now, which another close may have cleared.
CloseFree(c) ==
    /\ ~misused /\ closing[c].pc = "free"
    /\ FreeHandle(closing[c].of)
    /\ closing' = [closing EXCEPT ![c].pc = "clear"]
    /\ UNCHANGED <<present, handle, lost, self, view, inUse, inCall, vars>>

\* Wrong form: the handle stays in the wrapper.
CloseForgets(c) ==
    /\ ~misused /\ closing[c].pc = "clear"
    /\ closing' = [closing EXCEPT ![c] = NotClosing]
    /\ UNCHANGED <<present, handle, live, lost, self, view, inUse, inCall, misused, harmed, vars>>

CloseClear(c) ==
    /\ ~misused /\ closing[c].pc = "clear"
    /\ handle' = [handle EXCEPT ![closing[c].of] = Null]
    /\ closing' = [closing EXCEPT ![c] = NotClosing]
    /\ UNCHANGED <<present, live, lost, self, view, inUse, inCall, misused, harmed, vars>>

(***************************************************************************)
(* The wrapper goes: the destructor of C++, __del__ of Python, both of     *)
(* which close it.  C# has no finalizer (bound: one address is not lost).  *)
(* No method or close has a reference to it; a borrowed array is none.     *)
(***************************************************************************)
Drop(w) ==
    /\ ~misused /\ w \in present /\ (view \/ self # w)
    /\ \A c \in Closers : closing[c].of # w
    /\ present' = present \ {w}
    /\ handle' = [handle EXCEPT ![w] = Null]
    /\ IF binding = "csharp"
       THEN /\ lost' = lost \cup ({handle[w]} \ {Null})
            /\ lost' # Objects
            /\ UNCHANGED <<live, misused, harmed>>
       ELSE FreeHandle(w) /\ UNCHANGED lost
    /\ UNCHANGED <<closing, self, view, inUse, inCall, vars>>

\* Wrong form: the source keeps its handle.
MoveConstructCopies(w, v) ==
    /\ Movable /\ MayTouch(v) /\ w \notin present
    /\ handle' = [handle EXCEPT ![w] = handle[v]]
    /\ present' = present \cup {w}
    /\ UNCHANGED <<live, lost, closing, self, view, inUse, inCall, misused, harmed, vars>>

MoveConstruct(w, v) ==
    /\ Movable /\ MayTouch(v) /\ w \notin present
    /\ handle' = [handle EXCEPT ![w] = handle[v], ![v] = Null]
    /\ present' = present \cup {w}
    /\ UNCHANGED <<live, lost, closing, self, view, inUse, inCall, misused, harmed, vars>>

\* Wrong form: the target's old object is forgotten.
MoveAssignOverwrites(w, v) ==
    /\ Movable /\ MayTouch(v) /\ MayTouch(w) /\ w # v
    /\ handle' = [handle EXCEPT ![w] = handle[v], ![v] = Null]
    /\ UNCHANGED <<live, misused, harmed>>
    /\ UNCHANGED <<present, lost, closing, self, view, inUse, inCall, vars>>

\* The target is reset, then the two are swapped; self-assignment does nothing.
MoveAssign(w, v) ==
    /\ Movable /\ MayTouch(v) /\ MayTouch(w) /\ w # v
    /\ FreeHandle(w)
    /\ handle' = [handle EXCEPT ![w] = handle[v], ![v] = Null]
    /\ UNCHANGED <<present, lost, closing, self, view, inUse, inCall, vars>>

-----------------------------------------------------------------------------
\* Session::run or Rtw::bytes is called on w, and reads the handle anew for each
\* of its two calls.
BeginMethod(w) ==
    /\ MayTouch(w) /\ self = Null
    /\ IF Over THEN Again ELSE pc = "probe" /\ UNCHANGED vars
    /\ self' = w
    /\ UNCHANGED <<present, handle, live, lost, closing, view, inUse, inCall, misused, harmed>>

EnterCall ==
    /\ ~misused /\ self # Null /\ ~view /\ inUse = Null /\ ~inCall
    /\ pc \in {"probe", "fill"}
    /\ inCall' = TRUE
    /\ inUse' = handle[self]
    /\ closed' = (handle[self] = Null)
    /\ misused' = Dangling(self)
    /\ harmed' = Dead(handle[self])
    /\ UNCHANGED <<present, handle, live, lost, closing, self, view,
                   binding, op, size, pc, want, cap, native, args, unmanaged, outLen, result>>

\* The call does what it does, on memory that must still be there.
ExitCall ==
    /\ ~misused /\ inCall
    /\ Probe \/ Fill \/ FormulaFails
    /\ inCall' = FALSE /\ inUse' = Null
    /\ harmed' = Dead(inUse)
    /\ self' = IF pc' = "failed" THEN Null ELSE self
    /\ UNCHANGED <<present, handle, live, lost, closing, view, misused>>

\* What the binding does between and after the calls.
OwnStep ==
    /\ ~misused /\ self # Null /\ ~view
    /\ Allocate \/ OutOfMemory \/ Deliver
    /\ self' = IF Over' THEN Null ELSE self
    /\ UNCHANGED <<present, handle, live, lost, closing, view, inUse, inCall, misused, harmed>>

(***************************************************************************)
(* An array: the pointer is fetched, then what it points to is read.  The  *)
(* accessors of models and memories, and Tensor.Data of C#, copy it while  *)
(* the method runs; data of the other tensors is the pointer itself.  A    *)
(* closed wrapper gives an empty array.                                    *)
(***************************************************************************)
BorrowArray(w) ==
    /\ MayTouch(w) /\ self = Null /\ handle[w] # Null
    /\ self' = w
    /\ view' \in IF binding = "csharp" THEN {FALSE} ELSE BOOLEAN
    /\ inUse' = handle[w]
    /\ misused' = Dangling(w)
    /\ harmed' = Dead(handle[w])
    /\ UNCHANGED <<present, handle, live, lost, closing, inCall, vars>>

ReadArray ==
    /\ ~misused /\ self # Null /\ inUse # Null /\ ~inCall
    /\ harmed' = Dead(inUse)
    /\ self' = Null /\ view' = FALSE /\ inUse' = Null
    /\ UNCHANGED <<present, handle, live, lost, closing, inCall, misused, vars>>

\* run_rule needs no wrapper.
RunRule ==
    /\ op = "run_rule"
    /\ AllocateInput \/ Allocate \/ OutOfMemory \/ Fill \/ FormulaFails \/ Deliver \/ Again
    /\ UNCHANGED wrapperVars

Undefined == misused /\ UNCHANGED <<vars, wrapperVars>>

WrapperNext ==
    \/ \E w \in Holders : New(w) \/ Drop(w) \/ BeginMethod(w) \/ BorrowArray(w)
    \/ \E c \in Closers : CloseFree(c) \/ CloseClear(c)
    \/ \E c \in Closers, w \in Holders : CloseBegin(c, w)
    \/ \E w, v \in Holders : MoveConstruct(w, v) \/ MoveAssign(w, v)
    \/ EnterCall \/ ExitCall \/ OwnStep \/ ReadArray
    \/ RunRule \/ Undefined

WrapperSpec == WrapperInit /\ [][WrapperNext]_<<vars, wrapperVars>>

-----------------------------------------------------------------------------
WrapperTypeOK ==
    /\ TypeOK
    /\ present \subseteq Holders
    /\ handle \in [Holders -> Objects \cup {Null}]
    /\ live \subseteq Objects /\ lost \subseteq Objects
    /\ closing \in [Closers -> [of : Holders \cup {Null}, pc : {"none", "free", "clear"}]]
    /\ self \in Holders \cup {Null} /\ inUse \in Objects \cup {Null}
    /\ {view, inCall, misused, harmed} \subseteq BOOLEAN

(***************************************************************************)
(* "A C++ caller never manually frees" (hpp:5) and need not count either:  *)
(* through moves, closes and reused addresses every handle leads to a live *)
(* object of which its wrapper is the only owner, save between the free    *)
(* and the reset of a close.                                               *)
(***************************************************************************)
HandlesOwned ==
    ~misused =>
        /\ \A w \in Holders : Dead(handle[w]) => Dangling(w)
        /\ \A w, v \in Holders : w # v /\ handle[w] = handle[v] /\ handle[w] # Null
              => Dangling(w) \/ Dangling(v)

(***************************************************************************)
(* No call gets, and no copy reads, an object that has been freed, and     *)
(* none is freed twice, unless the host freed it while it was in use or    *)
(* closed it on two threads at once.  A close that falls between the two   *)
(* calls of a method is harmless: the method reads the handle again.       *)
(***************************************************************************)
NoUseAfterFree == harmed => misused

(***************************************************************************)
(* "Every opaque handle is owned by a Python object" (python:5): whatever  *)
(* is moved, assigned over, closed or dropped, no object stays behind      *)
(* without a wrapper.  In C# those do whose wrapper was never disposed of. *)
(***************************************************************************)
NothingLost ==
    ~misused => live \subseteq {handle[w] : w \in present} \cup lost
=============================================================================
