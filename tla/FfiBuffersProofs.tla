-------------------------- MODULE FfiBuffersProofs --------------------------
(***************************************************************************)
(* Theorems about FfiBuffers, for any number of threads and blocks.        *)
(***************************************************************************)
EXTENDS FfiBuffers, TLAPS

(* Where a call's result is at each of its steps: in the C++ side, in a    *)
(* block nobody else touches, or in the caller's hands.                    *)
ResultInv ==
  \A t \in Thread :
    /\ call[t].pc \in {"idle", "malloc"} => call[t].ptr = Null
    /\ call[t].pc \in {"fill", "copied"} => call[t].ptr # Null
    /\ call[t].pc \in {"malloc", "fill", "copied"} => call[t].kind \in {"list", "string"}
    /\ call[t].pc \in {"malloc", "fill"} => call[t].out = Nothing
    /\ At(t, "returned") /\ call[t].kind # "struct" => call[t].out = Nothing
    /\ At(t, "returned") /\ call[t].kind = "struct" /\ call[t].found # Empty =>
         call[t].out = call[t].found
    /\ At(t, "returned") /\ call[t].ptr # Null => call[t].kind \in {"list", "string"}
    /\ At(t, "returned") /\ call[t].ptr # Null => bytes[call[t].ptr] = call[t].found
    /\ At(t, "returned") /\ call[t].ptr = Null /\ call[t].kind \in {"list", "string"} =>
         call[t].oom \/ (call[t].kind = "list" /\ call[t].found = Empty)
    /\ At(t, "copied") => call[t].out = call[t].found

IInv == TypeOK /\ BlocksOwned /\ ResultInv /\ ResultIsOwn /\ ObjectsIntact

LEMMA InitIInv == Init => IInv
<1> SUFFICES ASSUME Init PROVE IInv
  OBVIOUS
<1> USE BufferAssumption DEF Init, NoCall, NoObject
<1>1. TypeOK
  BY DEF TypeOK, Calls, Objects, Data, Kind
<1> QED
  BY <1>1 DEF IInv, BlocksOwned, ResultInv, ResultIsOwn, ObjectsIntact, At

LEMMA ComputeIInv ==
  ASSUME IInv, NEW t \in Thread, NEW k \in Kind, NEW d \in Data, Compute(t, k, d)
  PROVE  IInv'
<1> USE BufferAssumption DEF IInv, Compute, Go, At, NoCall, NoBlock, Kind
<1>1. TypeOK'
  BY DEF TypeOK, Calls, Objects, Data, Kind
<1>2. BlocksOwned'
  BY DEF TypeOK, Calls, Objects, BlocksOwned, ResultInv
<1>3. ResultInv'
  BY DEF TypeOK, Calls, Objects, BlocksOwned, ResultInv
<1>4. ResultIsOwn'
  BY DEF TypeOK, Calls, ResultInv, ResultIsOwn
<1>5. ObjectsIntact'
  BY DEF TypeOK, Calls, Objects, BlocksOwned, ResultInv, ObjectsIntact
<1> QED
  BY <1>1, <1>2, <1>3, <1>4, <1>5

LEMMA MallocIInv ==
  ASSUME IInv, NEW t \in Thread, NEW c \in Cell, Malloc(t, c)
  PROVE  IInv'
<1> USE BufferAssumption DEF IInv, Malloc, Go, At
<1>1. TypeOK'
  <2>1. call[t] \in Calls
    BY DEF TypeOK
  <2>3. [call[t] EXCEPT !.pc = "fill", !.ptr = c] \in Calls
    BY <2>1 DEF Calls
  <2>4. call' \in [Thread -> Calls]
    BY <2>3 DEF TypeOK
  <2> QED
    BY <2>1, <2>4 DEF TypeOK, Calls
<1>2. BlocksOwned'
  BY DEF TypeOK, Calls, Objects, BlocksOwned, ResultInv
<1>3. ResultInv'
  BY DEF TypeOK, Calls, Objects, BlocksOwned, ResultInv
<1>4. ResultIsOwn'
  BY DEF TypeOK, Calls, ResultInv, ResultIsOwn, NoCall
<1>5. ObjectsIntact'
  BY DEF TypeOK, Calls, Objects, BlocksOwned, ResultInv, ObjectsIntact
<1> QED
  BY <1>1, <1>2, <1>3, <1>4, <1>5

LEMMA MallocFailsIInv ==
  ASSUME IInv, NEW t \in Thread, MallocFails(t)
  PROVE  IInv'
<1> USE BufferAssumption DEF IInv, MallocFails, Go, At
<1>1. TypeOK'
  <2>1. call[t] \in Calls
    BY DEF TypeOK
  <2>3. [call[t] EXCEPT !.pc = "returned", !.oom = TRUE] \in Calls
    BY <2>1 DEF Calls
  <2>4. call' \in [Thread -> Calls]
    BY <2>3 DEF TypeOK
  <2> QED
    BY <2>1, <2>4 DEF TypeOK, Calls
<1>2. BlocksOwned'
  BY DEF TypeOK, Calls, Objects, BlocksOwned, ResultInv
<1>3. ResultInv'
  BY DEF TypeOK, Calls, Objects, BlocksOwned, ResultInv
<1>4. ResultIsOwn'
  BY DEF TypeOK, Calls, ResultInv, ResultIsOwn, NoCall
<1>5. ObjectsIntact'
  BY DEF TypeOK, Calls, Objects, BlocksOwned, ResultInv, ObjectsIntact
<1> QED
  BY <1>1, <1>2, <1>3, <1>4, <1>5

LEMMA FillIInv ==
  ASSUME IInv, NEW t \in Thread, Fill(t)
  PROVE  IInv'
<1> USE BufferAssumption DEF IInv, Fill, Go, At
<1>1. TypeOK'
  BY DEF TypeOK, Calls, Objects, Data, Kind, ResultInv
<1>2. BlocksOwned'
  BY DEF TypeOK, Calls, Objects, BlocksOwned, ResultInv
<1>3. ResultInv'
  BY DEF TypeOK, Calls, Objects, BlocksOwned, ResultInv
<1>4. ResultIsOwn'
  BY DEF TypeOK, Calls, ResultInv, ResultIsOwn, NoCall
<1>5. ObjectsIntact'
  BY DEF TypeOK, Calls, Objects, BlocksOwned, ResultInv, ObjectsIntact
<1> QED
  BY <1>1, <1>2, <1>3, <1>4, <1>5

LEMMA ReturnNothingIInv ==
  ASSUME IInv, NEW t \in Thread, ReturnNothing(t)
  PROVE  IInv'
<1> USE BufferAssumption DEF IInv, ReturnNothing, Go, At
<1>1. TypeOK'
  BY DEF TypeOK, Calls, Objects, Data, Kind, ResultInv
<1>2. BlocksOwned'
  BY DEF TypeOK, Calls, Objects, BlocksOwned, ResultInv
<1>3. ResultInv'
  BY DEF TypeOK, Calls, Objects, BlocksOwned, ResultInv
<1>4. ResultIsOwn'
  BY DEF TypeOK, Calls, ResultInv, ResultIsOwn, NoCall
<1>5. ObjectsIntact'
  BY DEF TypeOK, Calls, Objects, BlocksOwned, ResultInv, ObjectsIntact
<1> QED
  BY <1>1, <1>2, <1>3, <1>4, <1>5

LEMMA ReturnWordIInv ==
  ASSUME IInv, NEW t \in Thread, ReturnWord(t)
  PROVE  IInv'
<1> USE BufferAssumption DEF IInv, ReturnWord, Go, At
<1>1. TypeOK'
  <2>1. call[t] \in Calls
    BY DEF TypeOK
  <2> DEFINE o == IF call[t].found = Empty THEN Nothing ELSE call[t].found
  <2>2. o \in Data \cup State \cup {Nothing, Junk, Zeroed}
    BY <2>1 DEF Calls
  <2>3. [call[t] EXCEPT !.pc = "idle", !.out = o] \in Calls
    BY <2>1, <2>2 DEF Calls
  <2>4. call' \in [Thread -> Calls]
    BY <2>3 DEF TypeOK
  <2> QED
    BY <2>4 DEF TypeOK
<1>2. BlocksOwned'
  BY DEF TypeOK, Calls, Objects, BlocksOwned, ResultInv
<1>3. ResultInv'
  BY DEF TypeOK, Calls, Objects, BlocksOwned, ResultInv
<1>4. ResultIsOwn'
  BY DEF TypeOK, Calls, ResultInv, ResultIsOwn, NoCall
<1>5. ObjectsIntact'
  BY DEF TypeOK, Calls, Objects, BlocksOwned, ResultInv, ObjectsIntact
<1> QED
  BY <1>1, <1>2, <1>3, <1>4, <1>5

LEMMA ReturnStructIInv ==
  ASSUME IInv, NEW t \in Thread, ReturnStruct(t)
  PROVE  IInv'
<1> USE BufferAssumption DEF IInv, ReturnStruct, Go, At
<1>1. TypeOK'
  <2>1. call[t] \in Calls
    BY DEF TypeOK
  <2> DEFINE o == IF call[t].found = Empty THEN Nothing ELSE call[t].out
  <2>2. o \in Data \cup State \cup {Nothing, Junk, Zeroed}
    BY <2>1 DEF Calls
  <2>3. [call[t] EXCEPT !.pc = "idle", !.out = o] \in Calls
    BY <2>1, <2>2 DEF Calls
  <2>4. call' \in [Thread -> Calls]
    BY <2>3 DEF TypeOK
  <2> QED
    BY <2>4 DEF TypeOK
<1>2. BlocksOwned'
  BY DEF TypeOK, Calls, Objects, BlocksOwned, ResultInv
<1>3. ResultInv'
  BY DEF TypeOK, Calls, Objects, BlocksOwned, ResultInv
<1>4. ResultIsOwn'
  BY DEF TypeOK, Calls, ResultInv, ResultIsOwn, NoCall
<1>5. ObjectsIntact'
  BY DEF TypeOK, Calls, Objects, BlocksOwned, ResultInv, ObjectsIntact
<1> QED
  BY <1>1, <1>2, <1>3, <1>4, <1>5

LEMMA CopyIInv ==
  ASSUME IInv, NEW t \in Thread, Copy(t)
  PROVE  IInv'
<1> USE BufferAssumption DEF IInv, Copy, Go, At
<1>1. TypeOK'
  <2>1. call[t] \in Calls
    BY DEF TypeOK
  <2>2. bytes[call[t].ptr] \in Data \cup State \cup {Junk}
    BY <2>1 DEF TypeOK, Calls
  <2>3. [call[t] EXCEPT !.pc = "copied", !.out = bytes[call[t].ptr]] \in Calls
    BY <2>1, <2>2 DEF Calls
  <2>4. call' \in [Thread -> Calls]
    BY <2>3 DEF TypeOK
  <2> QED
    BY <2>1, <2>4 DEF TypeOK, Calls
<1>2. BlocksOwned'
  BY DEF TypeOK, Calls, Objects, BlocksOwned, ResultInv
<1>3. ResultInv'
  BY DEF TypeOK, Calls, Objects, BlocksOwned, ResultInv
<1>4. ResultIsOwn'
  BY DEF TypeOK, Calls, ResultInv, ResultIsOwn, NoCall
<1>5. ObjectsIntact'
  BY DEF TypeOK, Calls, Objects, BlocksOwned, ResultInv, ObjectsIntact
<1> QED
  BY <1>1, <1>2, <1>3, <1>4, <1>5

LEMMA GiveBackIInv ==
  ASSUME IInv, NEW t \in Thread, GiveBack(t)
  PROVE  IInv'
<1> USE BufferAssumption DEF IInv, GiveBack, Go, At
<1>1. TypeOK'
  <2>1. call[t] \in Calls
    BY DEF TypeOK
  <2>3. [call[t] EXCEPT !.pc = "idle", !.ptr = Null] \in Calls
    BY <2>1 DEF Calls
  <2>4. call' \in [Thread -> Calls]
    BY <2>3 DEF TypeOK
  <2>5. call[t].ptr \in Cell
    BY <2>1 DEF Calls, ResultInv
  <2> QED
    BY <2>4, <2>5 DEF TypeOK
<1>2. BlocksOwned'
  BY DEF TypeOK, Calls, Objects, BlocksOwned, ResultInv
<1>3. ResultInv'
  BY DEF TypeOK, Calls, Objects, BlocksOwned, ResultInv
<1>4. ResultIsOwn'
  BY DEF TypeOK, Calls, ResultInv, ResultIsOwn, NoCall
<1>5. ObjectsIntact'
  BY DEF TypeOK, Calls, Objects, BlocksOwned, ResultInv, ObjectsIntact
<1> QED
  BY <1>1, <1>2, <1>3, <1>4, <1>5

LEMMA NewObjectIInv ==
  ASSUME IInv, NEW s \in Slot, NEW c \in Cell, NewObject(s, c)
  PROVE  IInv'
<1> USE BufferAssumption DEF IInv, NewObject, NoObject, At
<1>1. TypeOK'
  BY DEF TypeOK, Calls, Objects
<1>2. BlocksOwned'
  BY DEF TypeOK, Calls, Objects, BlocksOwned
<1>3. ResultInv'
  BY DEF TypeOK, Calls, Objects, BlocksOwned, ResultInv
<1>4. ResultIsOwn'
  BY DEF ResultIsOwn
<1>5. ObjectsIntact'
  BY DEF TypeOK, Objects, BlocksOwned, ObjectsIntact
<1> QED
  BY <1>1, <1>2, <1>3, <1>4, <1>5

LEMMA UseObjectIInv ==
  ASSUME IInv, NEW s \in Slot, NEW v \in State, UseObject(s, v)
  PROVE  IInv'
<1> USE BufferAssumption DEF IInv, UseObject, NoObject, At
<1>1. TypeOK'
  BY DEF TypeOK, Calls, Objects
<1>2. BlocksOwned'
  BY DEF TypeOK, Calls, Objects, BlocksOwned
<1>3. ResultInv'
  BY DEF TypeOK, Calls, Objects, BlocksOwned, ResultInv
<1>4. ResultIsOwn'
  BY DEF ResultIsOwn
<1>5. ObjectsIntact'
  BY DEF TypeOK, Objects, BlocksOwned, ObjectsIntact
<1> QED
  BY <1>1, <1>2, <1>3, <1>4, <1>5

LEMMA FreeObjectIInv ==
  ASSUME IInv, NEW s \in Slot, FreeObject(s)
  PROVE  IInv'
<1> USE BufferAssumption DEF IInv, FreeObject, NoObject, At
<1>1. TypeOK'
  BY DEF TypeOK, Calls, Objects
<1>2. BlocksOwned'
  BY DEF TypeOK, Calls, Objects, BlocksOwned
<1>3. ResultInv'
  BY DEF TypeOK, Calls, Objects, BlocksOwned, ResultInv
<1>4. ResultIsOwn'
  BY DEF ResultIsOwn
<1>5. ObjectsIntact'
  BY DEF TypeOK, Objects, BlocksOwned, ObjectsIntact
<1> QED
  BY <1>1, <1>2, <1>3, <1>4, <1>5

LEMMA NextIInv == IInv /\ [Next]_vars => IInv'
<1> SUFFICES ASSUME IInv, [Next]_vars PROVE IInv'
  OBVIOUS
<1>1. ASSUME NEW t \in Thread, CallNext(t) PROVE IInv'
  BY <1>1, ComputeIInv, MallocIInv, MallocFailsIInv, FillIInv, ReturnNothingIInv,
     ReturnWordIInv, ReturnStructIInv, CopyIInv, GiveBackIInv DEF CallNext
<1>2. ASSUME NEW s \in Slot, ObjectNext(s) PROVE IInv'
  BY <1>2, NewObjectIInv, UseObjectIInv, FreeObjectIInv DEF ObjectNext
<1>3. CASE UNCHANGED vars
  BY <1>3 DEF vars, IInv, TypeOK, BlocksOwned, ResultInv, ResultIsOwn, ObjectsIntact, At
<1> QED
  BY <1>1, <1>2, <1>3 DEF Next

(* Every variable keeps its type: in particular what a caller gets is no   *)
(* pointer, and nothing but blocks goes back to free.                      *)
THEOREM BuffersTypeOK == Spec => []TypeOK
<1>1. IInv => TypeOK
  BY DEF IInv
<1> QED
  BY InitIInv, NextIInv, <1>1, PTL DEF Spec

(* No block leaks, none is freed twice, none is shared, whatever malloc    *)
(* refuses and however the calls interleave.                               *)
THEOREM BuffersOwned == Spec => []BlocksOwned
<1>1. IInv => BlocksOwned
  BY DEF IInv
<1> QED
  BY InitIInv, NextIInv, <1>1, PTL DEF Spec

(* A caller gets the result of its own call.                               *)
THEOREM BuffersResultIsOwn == Spec => []ResultIsOwn
<1>1. IInv => ResultIsOwn
  BY DEF IInv
<1> QED
  BY InitIInv, NextIInv, <1>1, PTL DEF Spec

(* An object stays as its owner left it until its owner frees it.          *)
THEOREM BuffersObjectsIntact == Spec => []ObjectsIntact
<1>1. IInv => ObjectsIntact
  BY DEF IInv
<1> QED
  BY InitIInv, NextIInv, <1>1, PTL DEF Spec
=============================================================================
