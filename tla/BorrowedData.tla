---------------------------- MODULE BorrowedData ----------------------------
(***************************************************************************)
(* Decoded RTW containers, models and memories behind their handles        *)
(* (ffi.rs), and the strings the library lends to its callers: the text of *)
(* an object through the thread-local CSTR_BUF, the thread's last error    *)
(* through LAST_ERR_C.  Every new text replaces the CString in the buffer, *)
(* so a pointer into it dies then.                                         *)
(***************************************************************************)
EXTENDS Naturals

CONSTANTS
    Threads,
    Handles,    \* boxes the allocator can hand out
    Texts,      \* names, ids, locations, capabilities
    NulTexts,   \* those of them with an interior NUL
    Empty,      \* the empty text
    NoObject,
    Lengths,    \* lengths of payloads, in bytes
    Counts,     \* entry counts that payloads claim
    MaxWord     \* usize::MAX

ASSUME BorrowedAssumption ==
    /\ NulTexts \subseteq Texts
    /\ Empty \notin Texts
    /\ MaxWord \in Nat /\ Lengths \subseteq 0..MaxWord /\ Counts \subseteq 0..MaxWord

VARIABLES
    object,   \* the live objects: their kind and the texts they contain
    lastErr,  \* LAST_ERROR of each thread
    strBuf,   \* CSTR_BUF of each thread
    errBuf,   \* LAST_ERR_C of each thread
    lent,     \* the string each thread's caller has on loan
    failed,   \* history: why each thread's last failing call failed
    decoded   \* history: the payload the last call gave to the decoder

vars == <<object, lastErr, strBuf, errBuf, lent, failed, decoded>>

Kinds == {"rtw", "model", "memory"}

\* Messages: the two refusals of a payload out of range share one.
Failures == {"none", "null", "range", "parse", "panic"}
Payload == [len : Lengths, count : Counts]
NotDecoded == [len |-> 0, count |-> 0]

\* A loan: the buffer it points into and the text it was promised to be; a
\* pointer whose buffer has been replaced is dead.
NoLoan == [buf |-> "none", of |-> "none", text |-> Empty, dead |-> FALSE]

Init ==
    /\ object = [h \in Handles |-> NoObject]
    /\ lastErr = [t \in Threads |-> "none"]
    /\ strBuf = [t \in Threads |-> Empty]
    /\ errBuf = [t \in Threads |-> "none"]
    /\ lent = [t \in Threads |-> NoLoan]
    /\ failed = [t \in Threads |-> "none"]
    /\ decoded = NotDecoded

\* Wrong form: one static buffer for all threads.
TheOneThread(t) == CHOOSE u \in Threads : TRUE

\* thread_local!: the slot of a buffer that thread t uses.
Slot(t) == t

\* Any call of t ends the loan t's caller had.
EndLoan(t) == lent' = [lent EXCEPT ![t] = NoLoan]

\* t's caller is lent text x through t's slot of buffer b; whoever else had a
\* loan out of that slot now has a dead pointer.
Lend(t, b, x) ==
    lent' = [u \in Threads |->
               IF u = t THEN [buf |-> b, of |-> Slot(t), text |-> x, dead |-> FALSE]
               ELSE IF lent[u].buf = b /\ lent[u].of = Slot(t)
                    THEN [lent[u] EXCEPT !.dead = TRUE] ELSE lent[u]]

\* A call of t fails, whatever message it leaves or does not leave.
Failed(t, why) == failed' = [failed EXCEPT ![t] = why]

\* set_last_error: the message in t's slot.
SetLastError(t, why) == lastErr' = [lastErr EXCEPT ![Slot(t)] = why]

\* err(), and the failing return it stands in.
Fail(t, why) == Failed(t, why) /\ SetLastError(t, why)

\* CString::new, or "" for a text with an interior NUL.
CText(x) == IF x \in NulTexts THEN Empty ELSE x

-----------------------------------------------------------------------------
\* Wrong form: the product wraps.
WrappingCount(len, count) == len >= 4 /\ (count * 8) % (MaxWord + 1) > len

(***************************************************************************)
(* reject_oversized_count for a memory, at least 8 bytes an entry: the     *)
(* claimed count cannot fit.  checked_mul makes an overflow a rejection.   *)
(***************************************************************************)
RejectOversizedCount(len, count) ==
    len >= 4 /\ (count * 8 > MaxWord \/ count * 8 > len)

\* The texts an object lends: a memory has none.
TextsOf(kind) == IF kind = "memory" THEN {{}} ELSE SUBSET Texts

\* Wrong form: the guard catches the panic and leaves no message.
CatchSilently(t) == UNCHANGED lastErr

\* ffi_guard_ptr: a panic becomes a null pointer and a message of its own.
CatchPanic(t) == SetLastError(t, "panic")

\* The external decoder: an object, an error, or a panic.
CallDecoder(t, kind) ==
    \/ \E h \in Handles, texts \in TextsOf(kind) :
          /\ object[h] = NoObject
          /\ object' = [object EXCEPT ![h] = [kind |-> kind, texts |-> texts]]
          /\ UNCHANGED <<lastErr, failed>>
    \/ Fail(t, "parse") /\ UNCHANGED object
    \/ Failed(t, "panic") /\ CatchPanic(t) /\ UNCHANGED object

\* A null payload, or (models and memories) one beyond RTW_MAX_SIZE, which no
\* bound here reaches: NULL and a message.
DecodeRefused(t, kind) ==
    /\ EndLoan(t)
    /\ \/ Fail(t, "null")
       \/ kind # "rtw" /\ Fail(t, "range")
    /\ decoded' = NotDecoded
    /\ UNCHANGED <<object, strBuf, errBuf>>

\* rtw_decode and model_decode hand every other payload to the decoder.
Decode(t, kind) ==
    /\ kind # "memory"
    /\ EndLoan(t)
    /\ CallDecoder(t, kind)
    /\ decoded' = NotDecoded
    /\ UNCHANGED <<strBuf, errBuf>>

\* memory_decode looks at the count first.
DecodeMemory(t, p) ==
    /\ EndLoan(t)
    /\ \/ /\ RejectOversizedCount(p.len, p.count)
          /\ Fail(t, "range")
          /\ decoded' = NotDecoded
          /\ UNCHANGED object
       \/ /\ ~RejectOversizedCount(p.len, p.count)
          /\ CallDecoder(t, "memory")
          /\ decoded' = p
    /\ UNCHANGED <<strBuf, errBuf>>

\* rtw_free, model_free, memory_free: by whichever thread, once.
FreeObject(t, h) ==
    /\ object[h] # NoObject
    /\ object' = [object EXCEPT ![h] = NoObject]
    /\ EndLoan(t)
    /\ decoded' = NotDecoded
    /\ UNCHANGED <<lastErr, strBuf, errBuf, failed>>

\* Accessors that return a text of the object: model_name, param_name, the
\* manifest's fields.
GetText(t, h) ==
    /\ object[h] # NoObject
    /\ \E x \in object[h].texts :
          /\ strBuf' = [strBuf EXCEPT ![Slot(t)] = CText(x)]
          /\ Lend(t, "str", CText(x))
    /\ decoded' = NotDecoded
    /\ UNCHANGED <<object, lastErr, errBuf, failed>>

\* The same for an index out of range, an absent manifest or a null handle
\* (NULL), and the accessors of numbers: no buffer changes, no error is set.
GetNothing(t) ==
    /\ EndLoan(t)
    /\ decoded' = NotDecoded
    /\ UNCHANGED <<object, lastErr, strBuf, errBuf, failed>>

\* Wrong form: the message goes through the buffer of the other texts.
LastErrorInSharedBuffer(t) ==
    /\ strBuf' = [strBuf EXCEPT ![Slot(t)] = lastErr[Slot(t)]]
    /\ Lend(t, "err", lastErr[Slot(t)])
    /\ decoded' = NotDecoded
    /\ UNCHANGED <<object, lastErr, errBuf, failed>>

\* rtorch_api_last_error: a copy of the message in a buffer of its own.
LastError(t) ==
    /\ errBuf' = [errBuf EXCEPT ![Slot(t)] = lastErr[Slot(t)]]
    /\ Lend(t, "err", lastErr[Slot(t)])
    /\ decoded' = NotDecoded
    /\ UNCHANGED <<object, lastErr, strBuf, failed>>

Next ==
    \E t \in Threads :
       \/ \E kind \in Kinds : DecodeRefused(t, kind) \/ Decode(t, kind)
       \/ \E p \in Payload : DecodeMemory(t, p)
       \/ \E h \in Handles : FreeObject(t, h) \/ GetText(t, h)
       \/ GetNothing(t)
       \/ LastError(t)

Spec == Init /\ [][Next]_vars

-----------------------------------------------------------------------------
TypeOK ==
    /\ object \in [Handles -> [kind : Kinds, texts : SUBSET Texts] \cup {NoObject}]
    /\ lastErr \in [Threads -> Failures]
    /\ strBuf \in [Threads -> Texts \cup {Empty}]
    /\ errBuf \in [Threads -> Failures]
    /\ lent \in [Threads -> [buf : {"none", "str", "err"}, of : Threads \cup {"none"},
                             text : Texts \cup Failures \cup {Empty}, dead : BOOLEAN]]
    /\ failed \in [Threads -> Failures]
    /\ decoded \in Payload \cup {NotDecoded}

(***************************************************************************)
(* A borrowed text stays valid, and stays the text it was, until the next  *)
(* call of the thread that got it, whatever other threads call in the      *)
(* meantime, freeing the object included (rtorch_api.h:99-101, ffi.rs      *)
(* 507-521 and 346-360).                                                   *)
(***************************************************************************)
LoansHold ==
    \A t \in Threads :
        /\ ~lent[t].dead
        /\ lent[t].buf = "str" => strBuf[lent[t].of] = lent[t].text
        /\ lent[t].buf = "err" => errBuf[lent[t].of] = lent[t].text

(***************************************************************************)
(* The message a thread reads is of its own last failure, not of another   *)
(* thread's and not of an earlier one: whatever way a call fails, a panic  *)
(* of the decoder included, it leaves a message, and leaves it where only  *)
(* its own thread reads (rtorch_api.h:7-9, err.rs:15-24, lib.rs:27-37).    *)
(***************************************************************************)
MessageIsOwn ==
    \A t \in Threads : lent[t].buf = "err" => lent[t].text = failed[t]

(***************************************************************************)
(* The decoder is given no memory payload whose count claims more entries  *)
(* than its bytes can hold, at any width of usize: it allocates by the     *)
(* count (ffi.rs:523-544).  Payloads too short for a count pass.           *)
(***************************************************************************)
CountFitsPayload ==
    decoded.len >= 4 => decoded.count * 8 <= decoded.len
=============================================================================
