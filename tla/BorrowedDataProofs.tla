------------------------- MODULE BorrowedDataProofs -------------------------
(***************************************************************************)
(* Theorems about borrowed texts and decoded payloads, for any number of   *)
(* threads, objects and texts and any width of usize.                      *)
(***************************************************************************)
EXTENDS BorrowedData, TLAPS

(***************************************************************************)
(* Why a loan holds: it is out of the borrower's own slot, so no call of   *)
(* another thread ends it, and the message in that slot is the one of the  *)
(* thread's own last failure.                                              *)
(***************************************************************************)
OwnSlots == \A t \in Threads : lent[t].buf # "none" => lent[t].of = t
OwnMessages == \A t \in Threads : lastErr[t] = failed[t]

LoanInv == TypeOK /\ OwnSlots /\ OwnMessages /\ LoansHold /\ MessageIsOwn

-----------------------------------------------------------------------------
\* The types of the records that loans and payloads are made of.
Loans == [buf : {"none", "str", "err"}, of : Threads \cup {"none"},
          text : Texts \cup Failures \cup {Empty}, dead : BOOLEAN]

LEMMA NoLoanType == NoLoan \in Loans
  BY DEF NoLoan, Loans

LEMMA PayloadType ==
    /\ NotDecoded \in [len : Nat, count : Nat] /\ NotDecoded.len = 0
    /\ \A p \in Payload : p \in [len : Nat, count : Nat]
  <1>1. Lengths \subseteq Nat /\ Counts \subseteq Nat
    BY BorrowedAssumption
  <1>2. \A p \in Payload : p \in [len : Nat, count : Nat]
    BY <1>1 DEF Payload
  <1> QED
    BY <1>2 DEF NotDecoded

LEMMA CTextType == \A x \in Texts : CText(x) \in Texts \cup {Empty}
  BY DEF CText

(***************************************************************************)
(* A call that borrows nothing ends the loan of its own thread and leaves  *)
(* the others as they are.                                                 *)
(***************************************************************************)
LEMMA EndLoanFact ==
    ASSUME TypeOK, NEW t \in Threads, EndLoan(t)
    PROVE  /\ lent' \in [Threads -> Loans]
           /\ lent'[t] = NoLoan
           /\ \A u \in Threads \ {t} : lent'[u] = lent[u]
  <1>1. lent \in [Threads -> Loans]
    BY DEF TypeOK, Loans
  <1> QED
    BY <1>1, NoLoanType DEF EndLoan

(***************************************************************************)
(* A call that borrows replaces the loan of its own thread; the slot it    *)
(* overwrites is the one no other thread has a loan out of.                *)
(***************************************************************************)
LEMMA LendFact ==
    ASSUME TypeOK, OwnSlots, NEW t \in Threads, NEW b \in {"str", "err"},
           NEW x \in Texts \cup Failures \cup {Empty}, Lend(t, b, x)
    PROVE  /\ lent' \in [Threads -> Loans]
           /\ lent'[t] = [buf |-> b, of |-> t, text |-> x, dead |-> FALSE]
           /\ \A u \in Threads \ {t} : lent'[u] = lent[u]
  <1>1. lent \in [Threads -> Loans]
    BY DEF TypeOK, Loans
  <1>2. ASSUME NEW u \in Threads, u # t
        PROVE  ~(lent[u].buf = b /\ lent[u].of = t)
    BY <1>2 DEF OwnSlots
  <1>3. \A u \in Threads : lent'[u] =
           IF u = t THEN [buf |-> b, of |-> t, text |-> x, dead |-> FALSE] ELSE lent[u]
    BY <1>2 DEF Lend, Slot
  <1>4. [buf |-> b, of |-> t, text |-> x, dead |-> FALSE] \in Loans
    BY DEF Loans
  <1>5. DOMAIN lent' = Threads /\ lent' = [u \in Threads |-> lent'[u]]
    BY DEF Lend
  <1>6. \A u \in Threads : lent'[u] \in Loans
    BY <1>1, <1>3, <1>4
  <1> QED
    BY <1>3, <1>5, <1>6

(***************************************************************************)
(* Failing sets the message of the calling thread, and it is the reason    *)
(* that thread failed for.                                                 *)
(***************************************************************************)
LEMMA FailFact ==
    ASSUME TypeOK, OwnMessages, NEW t \in Threads, NEW why \in Failures, Fail(t, why)
    PROVE  /\ lastErr' \in [Threads -> Failures] /\ failed' \in [Threads -> Failures]
           /\ OwnMessages'
  BY DEF TypeOK, OwnMessages, Fail, Failed, SetLastError, Slot

(***************************************************************************)
(* What the external decoder may do: it makes an object in an empty box,   *)
(* or it fails.                                                            *)
(***************************************************************************)
LEMMA DecoderFact ==
    ASSUME TypeOK, OwnMessages, NEW t \in Threads, NEW kind \in Kinds, CallDecoder(t, kind)
    PROVE  /\ object' \in [Handles -> [kind : Kinds, texts : SUBSET Texts] \cup {NoObject}]
           /\ lastErr' \in [Threads -> Failures] /\ failed' \in [Threads -> Failures]
           /\ OwnMessages'
  <1>1. CASE \E h \in Handles, texts \in TextsOf(kind) :
                /\ object[h] = NoObject
                /\ object' = [object EXCEPT ![h] = [kind |-> kind, texts |-> texts]]
                /\ UNCHANGED <<lastErr, failed>>
    <2>1. TextsOf(kind) \subseteq SUBSET Texts
      BY DEF TextsOf
    <2> QED
      BY <1>1, <2>1 DEF TypeOK, OwnMessages
  <1>2. CASE Fail(t, "parse") /\ UNCHANGED object
    BY <1>2, FailFact DEF TypeOK, Failures
  <1>3. CASE Failed(t, "panic") /\ CatchPanic(t) /\ UNCHANGED object
    <2>1. Fail(t, "panic") /\ "panic" \in Failures
      BY <1>3 DEF Fail, CatchPanic, Failures
    <2> QED
      BY <1>3, <2>1, FailFact DEF TypeOK
  <1> QED
    BY <1>1, <1>2, <1>3 DEF CallDecoder

-----------------------------------------------------------------------------
(***************************************************************************)
(* A step that ends t's loan and leaves the two buffers alone keeps every  *)
(* other loan good.                                                        *)
(***************************************************************************)
LEMMA EndLoanStep ==
    ASSUME LoanInv, NEW t \in Threads, EndLoan(t), UNCHANGED <<strBuf, errBuf>>,
           lastErr' \in [Threads -> Failures], failed' \in [Threads -> Failures], OwnMessages',
           object' \in [Handles -> [kind : Kinds, texts : SUBSET Texts] \cup {NoObject}],
           decoded' \in Payload \cup {NotDecoded},
           \A u \in Threads \ {t} : failed'[u] = failed[u]
    PROVE  LoanInv'
  <1>1. /\ lent' \in [Threads -> Loans] /\ lent'[t] = NoLoan
        /\ \A u \in Threads \ {t} : lent'[u] = lent[u]
    BY EndLoanFact DEF LoanInv
  <1>2. NoLoan.buf = "none" /\ ~NoLoan.dead
    BY DEF NoLoan
  <1>3. TypeOK'
    BY <1>1 DEF LoanInv, TypeOK, Loans
  <1>4. OwnSlots' /\ LoansHold' /\ MessageIsOwn'
    BY <1>1, <1>2 DEF LoanInv, OwnSlots, LoansHold, MessageIsOwn
  <1> QED
    BY <1>3, <1>4 DEF LoanInv

LEMMA LoanInit == Init => LoanInv
  <1> SUFFICES ASSUME Init PROVE LoanInv
    OBVIOUS
  <1>1. lent \in [Threads -> Loans] /\ \A t \in Threads : lent[t].buf = "none" /\ ~lent[t].dead
    BY NoLoanType DEF Init, NoLoan
  <1> QED
    BY <1>1 DEF Init, LoanInv, TypeOK, Loans, Failures, OwnSlots, OwnMessages, LoansHold,
                MessageIsOwn

\* A failure is the calling thread's alone.
LEMMA OthersFailures ==
    ASSUME LoanInv, NEW t \in Threads, NEW u \in Threads \ {t}
    PROVE  /\ \A why : Fail(t, why) => failed'[u] = failed[u]
           /\ \A kind \in Kinds : CallDecoder(t, kind) => failed'[u] = failed[u]
  <1>1. \A why : Fail(t, why) => failed'[u] = failed[u]
    BY DEF Fail, Failed, LoanInv, TypeOK
  <1>2. Failed(t, "panic") => failed'[u] = failed[u]
    BY DEF Failed, LoanInv, TypeOK
  <1> QED
    BY <1>1, <1>2 DEF CallDecoder

\* A payload is refused before it is looked at, or goes to the decoder.
LEMMA DecodeStep ==
    ASSUME LoanInv, NEW t \in Threads, NEW kind \in Kinds,
           DecodeRefused(t, kind) \/ Decode(t, kind)
    PROVE  LoanInv'
  <1>0. NotDecoded \in Payload \cup {NotDecoded}
    OBVIOUS
  <1>1. CASE DecodeRefused(t, kind)
    <2>1. Fail(t, "null") \/ Fail(t, "range")
      BY <1>1 DEF DecodeRefused
    <2>2. /\ lastErr' \in [Threads -> Failures] /\ failed' \in [Threads -> Failures]
          /\ OwnMessages'
      BY <2>1, FailFact DEF LoanInv, Failures
    <2> QED
      BY <1>0, <1>1, <2>1, <2>2, OthersFailures, EndLoanStep DEF DecodeRefused, LoanInv, TypeOK
  <1>2. CASE Decode(t, kind)
    BY <1>0, <1>2, OthersFailures, DecoderFact, EndLoanStep DEF Decode, LoanInv
  <1> QED
    BY <1>1, <1>2

\* A memory's count is looked at first.
LEMMA DecodeMemoryStep ==
    ASSUME LoanInv, NEW t \in Threads, NEW p \in Payload, DecodeMemory(t, p)
    PROVE  LoanInv'
  <1>0. NotDecoded \in Payload \cup {NotDecoded} /\ "memory" \in Kinds
    BY DEF Kinds
  <1>1. CASE RejectOversizedCount(p.len, p.count)
    <2>1. Fail(t, "range") /\ UNCHANGED object /\ decoded' = NotDecoded
      BY <1>1 DEF DecodeMemory
    <2>2. /\ lastErr' \in [Threads -> Failures] /\ failed' \in [Threads -> Failures]
          /\ OwnMessages'
      BY <2>1, FailFact DEF LoanInv, Failures
    <2> QED
      BY <1>0, <2>1, <2>2, OthersFailures, EndLoanStep DEF DecodeMemory, LoanInv, TypeOK
  <1>2. CASE ~RejectOversizedCount(p.len, p.count)
    <2>1. CallDecoder(t, "memory") /\ decoded' = p
      BY <1>2 DEF DecodeMemory
    <2> QED
      BY <1>0, <2>1, OthersFailures, DecoderFact, EndLoanStep DEF DecodeMemory, LoanInv
  <1> QED
    BY <1>1, <1>2

\* A text is lent out of the thread's own slot.
LEMMA BorrowStep ==
    ASSUME LoanInv, NEW t \in Threads,
           LastError(t) \/ \E h \in Handles : GetText(t, h)
    PROVE  LoanInv'
  <1>1. CASE LastError(t)
    <2>1. lastErr[t] \in Failures /\ lastErr[t] = failed[t]
      BY DEF LoanInv, TypeOK, OwnMessages
    <2>2. /\ lent' \in [Threads -> Loans]
          /\ lent'[t] = [buf |-> "err", of |-> t, text |-> lastErr[t], dead |-> FALSE]
          /\ \A u \in Threads \ {t} : lent'[u] = lent[u]
      BY <1>1, <2>1, LendFact DEF LastError, LoanInv, Slot
    <2>3. /\ errBuf' \in [Threads -> Failures] /\ errBuf'[t] = lastErr[t]
          /\ \A u \in Threads \ {t} : errBuf'[u] = errBuf[u]
      BY <1>1, <2>1 DEF LastError, Slot, LoanInv, TypeOK
    <2>4. UNCHANGED <<object, lastErr, strBuf, failed>> /\ decoded' = NotDecoded
      BY <1>1 DEF LastError
    <2>5. TypeOK'
      BY <2>2, <2>3, <2>4 DEF LoanInv, TypeOK, Loans
    <2> QED
      BY <2>1, <2>2, <2>3, <2>4, <2>5
         DEF LoanInv, OwnSlots, OwnMessages, LoansHold, MessageIsOwn
  <1>2. CASE \E h \in Handles : GetText(t, h)
    <2>1. PICK h \in Handles : GetText(t, h)
      BY <1>2
    <2>2. PICK x \in object[h].texts :
            /\ strBuf' = [strBuf EXCEPT ![Slot(t)] = CText(x)]
            /\ Lend(t, "str", CText(x))
      BY <2>1 DEF GetText
    <2>3. CText(x) \in Texts \cup {Empty}
      <3>1. object[h] \in [kind : Kinds, texts : SUBSET Texts]
        BY <2>1 DEF GetText, LoanInv, TypeOK
      <3> QED
        BY <2>2, <3>1, CTextType
    <2>4. /\ lent' \in [Threads -> Loans]
          /\ lent'[t] = [buf |-> "str", of |-> t, text |-> CText(x), dead |-> FALSE]
          /\ \A u \in Threads \ {t} : lent'[u] = lent[u]
      BY <2>2, <2>3, LendFact DEF LoanInv
    <2>5. /\ strBuf' \in [Threads -> Texts \cup {Empty}] /\ strBuf'[t] = CText(x)
          /\ \A u \in Threads \ {t} : strBuf'[u] = strBuf[u]
      BY <2>2, <2>3 DEF Slot, LoanInv, TypeOK
    <2>6. UNCHANGED <<object, lastErr, errBuf, failed>> /\ decoded' = NotDecoded
      BY <2>1 DEF GetText
    <2>7. TypeOK'
      BY <2>4, <2>5, <2>6 DEF LoanInv, TypeOK, Loans
    <2> QED
      BY <2>4, <2>5, <2>6, <2>7
         DEF LoanInv, OwnSlots, OwnMessages, LoansHold, MessageIsOwn
  <1> QED
    BY <1>1, <1>2

LEMMA LoanNext == LoanInv /\ [Next]_vars => LoanInv'
  <1> SUFFICES ASSUME LoanInv, [Next]_vars PROVE LoanInv'
    OBVIOUS
  <1>1. CASE UNCHANGED vars
    BY <1>1 DEF vars, LoanInv, TypeOK, OwnSlots, OwnMessages, LoansHold, MessageIsOwn
  <1>2. ASSUME NEW t \in Threads, NEW kind \in Kinds,
               DecodeRefused(t, kind) \/ Decode(t, kind)
        PROVE  LoanInv'
    BY <1>2, DecodeStep
  <1>3. ASSUME NEW t \in Threads, NEW p \in Payload, DecodeMemory(t, p)
        PROVE  LoanInv'
    BY <1>3, DecodeMemoryStep
  <1>4. ASSUME NEW t \in Threads, NEW h \in Handles, FreeObject(t, h)
        PROVE  LoanInv'
    BY <1>4, EndLoanStep DEF FreeObject, LoanInv, TypeOK, OwnMessages
  <1>5. ASSUME NEW t \in Threads, GetNothing(t) PROVE LoanInv'
    BY <1>5, EndLoanStep DEF GetNothing, LoanInv, TypeOK, OwnMessages
  <1> QED
    BY <1>1, <1>2, <1>3, <1>4, <1>5, BorrowStep DEF Next

(***************************************************************************)
(* Type correctness: every reachable state of the decoded objects, the     *)
(* buffers and the loans is well typed.                                    *)
(***************************************************************************)
THEOREM BorrowedTypeOK == Spec => []TypeOK
  <1>1. LoanInv => TypeOK
    BY DEF LoanInv
  <1> QED
    BY <1>1, LoanInit, LoanNext, PTL DEF Spec

(***************************************************************************)
(* A borrowed text is valid and unchanged until its borrower's next call,  *)
(* whatever any number of other threads read, fail or free in between: the *)
(* promise of rtorch_api.h:99-101, kept by one slot per thread and buffer. *)
(***************************************************************************)
THEOREM BorrowedLoansHold == Spec => []LoansHold
  <1>1. LoanInv => LoansHold
    BY DEF LoanInv
  <1> QED
    BY <1>1, LoanInit, LoanNext, PTL DEF Spec

(***************************************************************************)
(* The message a thread reads is that of its own last failure: no failing  *)
(* call leaves an earlier message in place, and no other thread's call     *)
(* replaces it.                                                            *)
(***************************************************************************)
THEOREM BorrowedMessageIsOwn == Spec => []MessageIsOwn
  <1>1. LoanInv => MessageIsOwn
    BY DEF LoanInv
  <1> QED
    BY <1>1, LoanInit, LoanNext, PTL DEF Spec

-----------------------------------------------------------------------------
(***************************************************************************)
(* reject_oversized_count lets a count through only if that many entries   *)
(* fit: at any width of usize, because a product that overflows rejects.   *)
(***************************************************************************)
LEMMA AcceptedCountFits ==
    ASSUME NEW p \in Payload, ~RejectOversizedCount(p.len, p.count), p.len >= 4
    PROVE  p.count * 8 <= p.len
  BY PayloadType, BorrowedAssumption DEF RejectOversizedCount

(***************************************************************************)
(* The decoder never gets a memory payload that claims more entries than   *)
(* it has bytes for.                                                       *)
(***************************************************************************)
THEOREM DecoderCountFits == Spec => []CountFitsPayload
  <1>1. decoded = NotDecoded => CountFitsPayload
    BY PayloadType DEF CountFitsPayload
  <1>2. Init => CountFitsPayload
    BY <1>1 DEF Init
  <1>3. CountFitsPayload /\ [Next]_vars => CountFitsPayload'
    <2> SUFFICES ASSUME CountFitsPayload, [Next]_vars PROVE CountFitsPayload'
      OBVIOUS
    <2>1. CASE decoded' = NotDecoded \/ decoded' = decoded
      BY <2>1, PayloadType DEF CountFitsPayload
    <2>2. ASSUME NEW t \in Threads, NEW p \in Payload, DecodeMemory(t, p),
                 decoded' # NotDecoded
          PROVE  CountFitsPayload'
      <3>1. ~RejectOversizedCount(p.len, p.count) /\ decoded' = p
        BY <2>2 DEF DecodeMemory
      <3> QED
        BY <3>1, AcceptedCountFits DEF CountFitsPayload
    <2> QED
      BY <2>1, <2>2
         DEF Next, vars, DecodeRefused, Decode, FreeObject, GetText, GetNothing, LastError
  <1> QED
    BY <1>2, <1>3, PTL DEF Spec
=============================================================================
