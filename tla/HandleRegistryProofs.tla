------------------------ MODULE HandleRegistryProofs ------------------------
(***************************************************************************)
(* Theorems about HandleRegistry, for every number of threads, variables,  *)
(* objects and identifiers, and for both layers.                           *)
(***************************************************************************)
EXTENDS HandleRegistry, TLAPS

(* A thread between a lock_guard and the return owns the mutex, so two are *)
(* never there together.                                                   *)
LockInv ==
  \A t \in Thread : frame[t].pc \in {"insert", "using"} => mutex = t

(* Every identifier in the map or in a caller's struct was handed out by   *)
(* the counter, and the one being registered is the next.                  *)
IdInv ==
  /\ \A i \in DOMAIN table : i < nextId
  /\ \A s \in Slot : handle[s].id < nextId
  /\ \A t \in Thread : InCall(t, "insert") => frame[t].id = nextId

(* Calls that write the caller's struct have the variable to themselves,   *)
(* and a creation fills a variable that holds nothing.                     *)
BorrowInv ==
  /\ \A t \in Thread : frame[t].pc # "idle" => frame[t].slot \in Slot
  /\ \A t \in Thread : frame[t].pc \in {"create", "insert", "free"} =>
       frame[t].mode = "mut"
  /\ \A t, u \in Thread :
       /\ t # u
       /\ frame[t].pc # "idle"
       /\ frame[u].pc # "idle"
       /\ frame[t].slot = frame[u].slot
       => frame[t].mode = "shr" /\ frame[u].mode = "shr"
  /\ \A t \in Thread : frame[t].pc \in {"create", "insert"} =>
       /\ frame[t].obj \in Object
       /\ handle[frame[t].slot].id = 0

(* What a call works on is what its variable names.                        *)
CursorInv ==
  \A t \in Thread : InCall(t, "using") =>
    /\ frame[t].id \in DOMAIN table
    /\ frame[t].id = handle[frame[t].slot].id

(* Wanted are NoAliasing, NoOrphan, ValidIffHandle and OwnedIsRegistered;  *)
(* the others carry them.  A registration keeps NoAliasing because IdInv   *)
(* puts every old identifier below the counter, and IdInv is kept by the   *)
(* one thread that LockInv lets update the counter; NoOrphan and CursorInv *)
(* lean on BorrowInv, which is what Rust's borrow rules add.               *)
IInv ==
  /\ TypeOK
  /\ LockInv
  /\ IdInv
  /\ BorrowInv
  /\ CursorInv
  /\ ValidIffHandle
  /\ NoAliasing
  /\ NoOrphan
  /\ OwnedIsRegistered

-----------------------------------------------------------------------------
(* The program starts with an empty map and every variable empty.          *)
LEMMA InitIInv == Init => IInv
<1> SUFFICES ASSUME Init PROVE IInv
  OBVIOUS
<1> USE RegistryAssumption DEF Init, IdleFrame, NullHandle
<1>1. TypeOK
  BY DEF TypeOK, Handles, Frames, PCs, Entries
<1>2. LockInv /\ IdInv /\ BorrowInv /\ CursorInv
  BY DEF LockInv, IdInv, BorrowInv, CursorInv, InCall
<1>3. ValidIffHandle /\ NoAliasing /\ NoOrphan /\ OwnedIsRegistered
  BY DEF ValidIffHandle, NoAliasing, NoOrphan, OwnedIsRegistered
<1> QED
  BY <1>1, <1>2, <1>3 DEF IInv

(* A creation begins. *)
LEMMA BeginCreateIInv ==
  ASSUME IInv, NEW t \in Thread, NEW s \in Slot, NEW o \in Object,
         BeginCreate(t, s, o)
  PROVE  IInv'
<1> USE RegistryAssumption DEF IInv, InCall, BeginCreate, MayBorrowMut, Users
<1>1. TypeOK'
  BY DEF TypeOK, Handles, Frames, PCs, Entries
<1>2. LockInv'
  BY DEF TypeOK, LockInv
<1>3. IdInv'
  BY DEF TypeOK, LockInv, IdInv
<1>4. BorrowInv'
  BY DEF TypeOK, BorrowInv, LockInv
<1>5. CursorInv'
  BY DEF TypeOK, LockInv, BorrowInv, CursorInv
<1>6. NoAliasing'
  BY DEF TypeOK, LockInv, IdInv, BorrowInv, NoAliasing
<1>7. NoOrphan'
  BY DEF TypeOK, LockInv, IdInv, BorrowInv, NoOrphan
<1>8. ValidIffHandle'
  BY DEF TypeOK, BorrowInv, IdInv, ValidIffHandle
<1>9. OwnedIsRegistered'
  BY DEF TypeOK, LockInv, IdInv, BorrowInv, ValidIffHandle, OwnedIsRegistered
<1> QED
  BY <1>1, <1>2, <1>3, <1>4, <1>5, <1>6, <1>7, <1>8, <1>9

(* A creation enters its critical section. *)
LEMMA CreateLockIInv ==
  ASSUME IInv, NEW t \in Thread, CreateLock(t)
  PROVE  IInv'
<1> USE RegistryAssumption DEF IInv, InCall, CreateLock
<1>1. TypeOK'
  <2>1. frame[t] \in Frames
    BY DEF TypeOK
  <2>2. nextId \in Nat
    BY DEF TypeOK
  <2>3. [frame[t] EXCEPT !.pc = "insert", !.id = nextId] \in Frames
    BY <2>1, <2>2 DEF Frames, PCs
  <2>4. frame' \in [Thread -> Frames]
    BY <2>3 DEF TypeOK
  <2> QED
    BY <2>4 DEF TypeOK
<1>2. LockInv'
  BY DEF TypeOK, LockInv
<1>3. IdInv'
  BY DEF TypeOK, LockInv, IdInv
<1>4. BorrowInv'
  BY DEF TypeOK, BorrowInv, LockInv
<1>5. CursorInv'
  BY DEF TypeOK, LockInv, BorrowInv, CursorInv
<1>6. NoAliasing'
  BY DEF TypeOK, LockInv, IdInv, BorrowInv, NoAliasing
<1>7. NoOrphan'
  BY DEF TypeOK, LockInv, IdInv, BorrowInv, NoOrphan
<1>8. ValidIffHandle'
  BY DEF TypeOK, BorrowInv, IdInv, ValidIffHandle
<1>9. OwnedIsRegistered'
  BY DEF TypeOK, LockInv, IdInv, BorrowInv, ValidIffHandle, OwnedIsRegistered
<1> QED
  BY <1>1, <1>2, <1>3, <1>4, <1>5, <1>6, <1>7, <1>8, <1>9

(* A creation registers its object. *)
LEMMA CreateInsertIInv ==
  ASSUME IInv, NEW t \in Thread, CreateInsert(t)
  PROVE  IInv'
<1> USE RegistryAssumption DEF IInv, InCall, CreateInsert, Return, IdleFrame
<1>1. TypeOK'
  <2>1. /\ frame[t] \in Frames
        /\ frame[t].obj \in Object
        /\ frame[t].slot \in Slot
    BY DEF TypeOK, BorrowInv
  <2>2. frame[t].id \in Nat \ {0}
    BY DEF TypeOK, IdInv
  <2>3. frame' \in [Thread -> Frames]
    BY DEF TypeOK, Frames, PCs
  <2>4. [obj |-> frame[t].obj, born |-> serial + 1] \in Entries
    BY <2>1 DEF TypeOK, Entries
  <2>5. /\ DOMAIN table' \subseteq Nat \ {0}
        /\ \A i \in DOMAIN table' : table'[i] \in Entries
    BY <2>2, <2>4 DEF TypeOK
  <2>6. handle' \in [Slot -> Handles]
    BY <2>1, <2>2 DEF TypeOK, Handles
  <2>7. nextId' \in Nat \ {0} /\ mutex' \in Thread \cup {NoThread} /\ serial' \in Nat
    BY <2>2 DEF TypeOK
  <2> HIDE DEF CreateInsert, IInv
  <2> QED
    BY <2>3, <2>5, <2>6, <2>7 DEF TypeOK
<1>2. LockInv'
  BY DEF TypeOK, LockInv
<1>3. IdInv'
  <2>1. frame[t].id = nextId /\ nextId \in Nat
    BY DEF TypeOK, IdInv
  <2>2. \A i \in DOMAIN table' : i < nextId'
    BY <2>1 DEF TypeOK, IdInv
  <2>3. \A s \in Slot : handle'[s].id < nextId'
    BY <2>1 DEF TypeOK, Handles, IdInv
  <2>4. \A u \in Thread : frame'[u].pc # "insert"
    BY DEF TypeOK, LockInv
  <2> QED
    BY <2>2, <2>3, <2>4 DEF IdInv
<1>4. BorrowInv'
  BY DEF TypeOK, BorrowInv, LockInv
<1>5. CursorInv'
  BY DEF TypeOK, LockInv, BorrowInv, CursorInv
<1>6. NoAliasing'
  BY DEF TypeOK, LockInv, IdInv, BorrowInv, NoAliasing
<1>7. NoOrphan'
  BY DEF TypeOK, LockInv, IdInv, BorrowInv, NoOrphan
<1>8. ValidIffHandle'
  BY DEF TypeOK, BorrowInv, IdInv, ValidIffHandle
<1>9. OwnedIsRegistered'
  BY DEF TypeOK, LockInv, IdInv, BorrowInv, ValidIffHandle, OwnedIsRegistered
<1> QED
  BY <1>1, <1>2, <1>3, <1>4, <1>5, <1>6, <1>7, <1>8, <1>9

(* A call on an object begins. *)
LEMMA BeginUseIInv ==
  ASSUME IInv, NEW t \in Thread, NEW s \in Slot, NEW m \in {"mut", "shr"},
         BeginUse(t, s, m)
  PROVE  IInv'
<1> USE RegistryAssumption DEF IInv, InCall, BeginUse, MayBorrowFor, MayBorrowMut, MayBorrow, Users
<1>1. TypeOK'
  BY DEF TypeOK, Handles, Frames, PCs, Entries
<1>2. LockInv'
  BY DEF TypeOK, LockInv
<1>3. IdInv'
  BY DEF TypeOK, LockInv, IdInv
<1>4. BorrowInv'
  BY DEF TypeOK, BorrowInv, LockInv
<1>5. CursorInv'
  BY DEF TypeOK, LockInv, BorrowInv, CursorInv
<1>6. NoAliasing'
  BY DEF TypeOK, LockInv, IdInv, BorrowInv, NoAliasing
<1>7. NoOrphan'
  BY DEF TypeOK, LockInv, IdInv, BorrowInv, NoOrphan
<1>8. ValidIffHandle'
  BY DEF TypeOK, BorrowInv, IdInv, ValidIffHandle
<1>9. OwnedIsRegistered'
  BY DEF TypeOK, LockInv, IdInv, BorrowInv, ValidIffHandle, OwnedIsRegistered
<1> QED
  BY <1>1, <1>2, <1>3, <1>4, <1>5, <1>6, <1>7, <1>8, <1>9

(* A call that tests the handle alone begins. *)
LEMMA BeginLookupIInv ==
  ASSUME IInv, NEW t \in Thread, NEW s \in Slot, NEW m \in {"mut", "shr"},
         BeginLookup(t, s, m)
  PROVE  IInv'
<1> USE RegistryAssumption DEF IInv, InCall, BeginLookup, MayBorrowFor, MayBorrowMut, MayBorrow, Users
<1>1. TypeOK'
  BY DEF TypeOK, Handles, Frames, PCs, Entries
<1>2. LockInv'
  BY DEF TypeOK, LockInv
<1>3. IdInv'
  BY DEF TypeOK, LockInv, IdInv
<1>4. BorrowInv'
  BY DEF TypeOK, BorrowInv, LockInv
<1>5. CursorInv'
  BY DEF TypeOK, LockInv, BorrowInv, CursorInv
<1>6. NoAliasing'
  BY DEF TypeOK, LockInv, IdInv, BorrowInv, NoAliasing
<1>7. NoOrphan'
  BY DEF TypeOK, LockInv, IdInv, BorrowInv, NoOrphan
<1>8. ValidIffHandle'
  BY DEF TypeOK, BorrowInv, IdInv, ValidIffHandle
<1>9. OwnedIsRegistered'
  BY DEF TypeOK, LockInv, IdInv, BorrowInv, ValidIffHandle, OwnedIsRegistered
<1> QED
  BY <1>1, <1>2, <1>3, <1>4, <1>5, <1>6, <1>7, <1>8, <1>9

(* A call finds its entry. *)
LEMMA UseLockIInv ==
  ASSUME IInv, NEW t \in Thread, UseLock(t)
  PROVE  IInv'
<1> USE RegistryAssumption DEF IInv, InCall, UseLock
<1>1. TypeOK'
  <2> DEFINE id == handle[frame[t].slot].id
  <2>1. frame[t] \in Frames
    BY DEF TypeOK
  <2>2. id \in Nat
    BY DEF TypeOK
  <2>3. [frame[t] EXCEPT !.pc = "using", !.id = id] \in Frames
    BY <2>1, <2>2 DEF Frames, PCs
  <2>4. frame' \in [Thread -> Frames]
    BY <2>3 DEF TypeOK
  <2> QED
    BY <2>4 DEF TypeOK
<1>2. LockInv'
  BY DEF TypeOK, LockInv
<1>3. IdInv'
  BY DEF TypeOK, LockInv, IdInv
<1>4. BorrowInv'
  BY DEF TypeOK, BorrowInv, LockInv
<1>5. CursorInv'
  BY DEF TypeOK, LockInv, BorrowInv, CursorInv
<1>6. NoAliasing'
  BY DEF TypeOK, LockInv, IdInv, BorrowInv, NoAliasing
<1>7. NoOrphan'
  BY DEF TypeOK, LockInv, IdInv, BorrowInv, NoOrphan
<1>8. ValidIffHandle'
  BY DEF TypeOK, BorrowInv, IdInv, ValidIffHandle
<1>9. OwnedIsRegistered'
  BY DEF TypeOK, LockInv, IdInv, BorrowInv, ValidIffHandle, OwnedIsRegistered
<1> QED
  BY <1>1, <1>2, <1>3, <1>4, <1>5, <1>6, <1>7, <1>8, <1>9

(* A call finds no entry. *)
LEMMA UseMissingIInv ==
  ASSUME IInv, NEW t \in Thread, UseMissing(t)
  PROVE  IInv'
<1> USE RegistryAssumption DEF IInv, InCall, UseMissing, Return, IdleFrame
<1>1. TypeOK'
  BY DEF TypeOK, Frames, PCs
<1>2. LockInv' /\ IdInv'
  BY DEF TypeOK, LockInv, IdInv
<1>3. BorrowInv'
  BY DEF TypeOK, BorrowInv
<1>4. CursorInv'
  BY DEF TypeOK, LockInv, CursorInv
<1>5. ValidIffHandle' /\ NoAliasing' /\ NoOrphan' /\ OwnedIsRegistered'
  BY DEF ValidIffHandle, NoAliasing, NoOrphan, OwnedIsRegistered
<1> QED
  BY <1>1, <1>2, <1>3, <1>4, <1>5

(* A call leaves its critical section. *)
LEMMA UseEndIInv ==
  ASSUME IInv, NEW t \in Thread, UseEnd(t)
  PROVE  IInv'
<1> USE RegistryAssumption DEF IInv, InCall, UseEnd, Return, IdleFrame
<1>1. TypeOK'
  BY DEF TypeOK, Frames, PCs
<1>2. LockInv' /\ IdInv'
  BY DEF TypeOK, LockInv, IdInv
<1>3. BorrowInv'
  BY DEF TypeOK, BorrowInv
<1>4. CursorInv'
  BY DEF TypeOK, LockInv, CursorInv
<1>5. ValidIffHandle' /\ NoAliasing' /\ NoOrphan' /\ OwnedIsRegistered'
  BY DEF ValidIffHandle, NoAliasing, NoOrphan, OwnedIsRegistered
<1> QED
  BY <1>1, <1>2, <1>3, <1>4, <1>5

(* A destruction begins. *)
LEMMA BeginFreeIInv ==
  ASSUME IInv, NEW t \in Thread, NEW s \in Slot, BeginFree(t, s)
  PROVE  IInv'
<1> USE RegistryAssumption DEF IInv, InCall, BeginFree, MayBorrowMut, Users
<1>1. TypeOK'
  BY DEF TypeOK, Frames, PCs
<1>2. LockInv' /\ IdInv'
  BY DEF TypeOK, LockInv, IdInv
<1>3. BorrowInv'
  BY DEF TypeOK, BorrowInv
<1>4. CursorInv'
  BY DEF TypeOK, LockInv, CursorInv
<1>5. ValidIffHandle' /\ NoAliasing' /\ NoOrphan' /\ OwnedIsRegistered'
  BY DEF ValidIffHandle, NoAliasing, NoOrphan, OwnedIsRegistered
<1> QED
  BY <1>1, <1>2, <1>3, <1>4, <1>5

(* An object is destroyed. *)
LEMMA FreeEraseIInv ==
  ASSUME IInv, NEW t \in Thread, FreeErase(t)
  PROVE  IInv'
<1> USE RegistryAssumption DEF IInv, InCall, FreeErase, Return, IdleFrame, Cleared
<1>1. TypeOK'
  <2>1. handle' \in [Slot -> Handles]
    BY DEF TypeOK, Handles
  <2>2. frame' \in [Thread -> Frames]
    BY DEF TypeOK, Frames, PCs
  <2> QED
    BY <2>1, <2>2 DEF TypeOK
<1>2. LockInv'
  BY DEF TypeOK, LockInv
<1>3. IdInv'
  BY DEF TypeOK, LockInv, IdInv
<1>4. BorrowInv'
  BY DEF TypeOK, BorrowInv, LockInv
<1>5. CursorInv'
  BY DEF TypeOK, LockInv, BorrowInv, CursorInv
<1>6. NoAliasing'
  BY DEF TypeOK, LockInv, IdInv, BorrowInv, NoAliasing
<1>7. NoOrphan'
  BY DEF TypeOK, LockInv, IdInv, BorrowInv, NoOrphan
<1>8. ValidIffHandle'
  BY DEF TypeOK, BorrowInv, IdInv, ValidIffHandle
<1>9. OwnedIsRegistered'
  BY DEF TypeOK, LockInv, IdInv, BorrowInv, ValidIffHandle, OwnedIsRegistered
<1> QED
  BY <1>1, <1>2, <1>3, <1>4, <1>5, <1>6, <1>7, <1>8, <1>9

(* A raw struct is copied. *)
LEMMA CopyHandleIInv ==
  ASSUME IInv, NEW s \in Slot, NEW d \in Slot, CopyHandle(s, d)
  PROVE  IInv'
<1> USE RegistryAssumption DEF IInv, InCall, CopyHandle, MayBorrow, MayBorrowMut, Users
<1>1. TypeOK'
  BY DEF TypeOK, Handles, Frames, PCs, Entries
<1>2. LockInv'
  BY DEF TypeOK, LockInv
<1>3. IdInv'
  BY DEF TypeOK, LockInv, IdInv
<1>4. BorrowInv'
  BY DEF TypeOK, BorrowInv, LockInv
<1>5. CursorInv'
  BY DEF TypeOK, LockInv, BorrowInv, CursorInv
<1>6. NoAliasing'
  BY DEF TypeOK, LockInv, IdInv, BorrowInv, NoAliasing
<1>7. NoOrphan'
  BY DEF TypeOK, LockInv, IdInv, BorrowInv, NoOrphan
<1>8. ValidIffHandle'
  BY DEF TypeOK, BorrowInv, IdInv, ValidIffHandle
<1>9. OwnedIsRegistered'
  BY DEF TypeOK, LockInv, IdInv, BorrowInv, ValidIffHandle, OwnedIsRegistered
<1> QED
  BY <1>1, <1>2, <1>3, <1>4, <1>5, <1>6, <1>7, <1>8, <1>9

-----------------------------------------------------------------------------
(* Every step preserves the invariant.                                     *)
LEMMA NextIInv == IInv /\ [Next]_vars => IInv'
<1> SUFFICES ASSUME IInv, [Next]_vars PROVE IInv'
  OBVIOUS
<1>1. ASSUME NEW t \in Thread, Begin(t) PROVE IInv'
  <2>1. ASSUME NEW s \in Slot, NEW o \in Object, BeginCreate(t, s, o) PROVE IInv'
    BY <2>1, BeginCreateIInv
  <2>2. ASSUME NEW s \in Slot, NEW m \in {"mut", "shr"}, BeginUse(t, s, m) PROVE IInv'
    BY <2>2, BeginUseIInv
  <2>3. ASSUME NEW s \in Slot, NEW m \in {"mut", "shr"}, BeginLookup(t, s, m) PROVE IInv'
    BY <2>3, BeginLookupIInv
  <2>4. ASSUME NEW s \in Slot, BeginFree(t, s) PROVE IInv'
    BY <2>4, BeginFreeIInv
  <2> QED
    BY <1>1, <2>1, <2>2, <2>3, <2>4 DEF Begin
<1>2. ASSUME NEW t \in Thread, Step(t) PROVE IInv'
  BY <1>2, CreateLockIInv, CreateInsertIInv, UseMissingIInv, UseLockIInv,
     UseEndIInv, FreeEraseIInv DEF Step
<1>3. ASSUME NEW s \in Slot, NEW d \in Slot, CopyHandle(s, d) PROVE IInv'
  BY <1>3, CopyHandleIInv
<1>4. CASE UNCHANGED vars
  BY <1>4 DEF vars, IInv, TypeOK, LockInv, IdInv, BorrowInv, CursorInv, ValidIffHandle,
              NoAliasing, NoOrphan, OwnedIsRegistered, InCall
<1> QED
  BY <1>1, <1>2, <1>3, <1>4 DEF Next

(* The inductive invariant of the registry.                                *)
THEOREM Inductive == Spec => []IInv
<1> QED
  BY InitIInv, NextIInv, PTL DEF Spec

(* Every variable of the registry keeps its type.                          *)
THEOREM RegistryTypeOK == Spec => []TypeOK
<1>1. IInv => TypeOK
  BY DEF IInv
<1> QED
  BY Inductive, <1>1, PTL

(* No handle ever reaches an object other than the one it was issued for.  *)
THEOREM RegistryNoAliasing == Spec => []NoAliasing
<1>1. IInv => NoAliasing
  BY DEF IInv
<1> QED
  BY Inductive, <1>1, PTL

(* The flag and the handle of a struct agree.                              *)
THEOREM RegistryValidIffHandle == Spec => []ValidIffHandle
<1>1. IInv => ValidIffHandle
  BY DEF IInv
<1> QED
  BY Inductive, <1>1, PTL

(* Every entry of the map can still be freed by some caller.               *)
THEOREM RegistryNoOrphan == Spec => []NoOrphan
<1>1. IInv => NoOrphan
  BY DEF IInv
<1> QED
  BY Inductive, <1>1, PTL

(* The iterator of a call in its critical section stays valid and is the   *)
(* object the caller's variable was issued for.                            *)
THEOREM RegistryCursorValid == Spec => []CursorValid
<1>1. IInv => CursorValid
  <2> SUFFICES ASSUME IInv, NEW t \in Thread, InCall(t, "using")
               PROVE  /\ mutex = t
                      /\ frame[t].id \in DOMAIN table
                      /\ table[frame[t].id].born = handle[frame[t].slot].born
    BY DEF CursorValid
  <2>1. mutex = t
    BY DEF IInv, LockInv, InCall
  <2>2. frame[t].id \in DOMAIN table /\ frame[t].id = handle[frame[t].slot].id
    BY DEF IInv, CursorInv
  <2>3. frame[t].slot \in Slot
    BY DEF IInv, BorrowInv, InCall
  <2>4. table[frame[t].id] = [obj |-> handle[frame[t].slot].obj,
                              born |-> handle[frame[t].slot].born]
    BY <2>2, <2>3 DEF IInv, NoAliasing
  <2> QED
    BY <2>1, <2>2, <2>4
<1> QED
  BY Inductive, <1>1, PTL

(* In the safe layer a valid value owns a registered object alone.         *)
THEOREM RegistryOwned == Spec => []OwnedIsRegistered
<1>1. IInv => OwnedIsRegistered
  BY DEF IInv
<1> QED
  BY Inductive, <1>1, PTL

(* No step writes over an entry or brings an identifier back.              *)
Final ==
  /\ \A i \in DOMAIN table \cap DOMAIN table' : table'[i] = table[i]
  /\ nextId <= nextId'
  /\ \A i \in DOMAIN table' : i < nextId => i \in DOMAIN table

LEMMA NextFinal == IInv /\ [Next]_vars => [Final]_vars
<1> SUFFICES ASSUME IInv, Next PROVE Final
  OBVIOUS
<1>1. ASSUME NEW t \in Thread, CreateInsert(t) PROVE Final
  <2>1. frame[t].id = nextId /\ nextId \in Nat
    BY <1>1 DEF IInv, TypeOK, IdInv, CreateInsert
  <2>2. nextId \notin DOMAIN table
    BY <2>1 DEF IInv, IdInv, TypeOK
  <2> QED
    BY <1>1, <2>1, <2>2 DEF CreateInsert, Final
<1>2. ASSUME NEW t \in Thread, FreeErase(t) PROVE Final
  BY <1>2 DEF FreeErase, IInv, TypeOK, Final
<1>3. CASE UNCHANGED <<table, nextId>>
  BY <1>3 DEF IInv, TypeOK, Final
<1> QED
  BY <1>1, <1>2, <1>3 DEF Next, Begin, Step, BeginCreate, BeginUse, BeginLookup, BeginFree,
     CreateLock, UseMissing, UseLock, UseEnd, CopyHandle

(* Entries are never overwritten and identifiers never come back.          *)
THEOREM RegistryEntriesFinal == Spec => EntriesFinal
<1> QED
  BY Inductive, NextFinal, PTL DEF Spec, EntriesFinal, Final
-----------------------------------------------------------------------------
(* The refinement.  A birth number stands for at most one entry, and a     *)
(* struct that shows it is a struct that holds that entry's identifier.    *)
BirthInv ==
  /\ \A i \in DOMAIN table : table[i].born \in 1 .. serial
  /\ \A i, j \in DOMAIN table : table[i].born = table[j].born => i = j
  /\ \A s \in Slot :
       /\ handle[s].born <= serial
       /\ handle[s].id = 0 => handle[s].born = 0
       /\ \A i \in DOMAIN table : table[i].born = handle[s].born => handle[s].id = i

LEMMA NextBirthInv == IInv /\ BirthInv /\ [Next]_vars => BirthInv'
<1> SUFFICES ASSUME IInv, BirthInv, [Next]_vars PROVE BirthInv'
  OBVIOUS
<1>1. ASSUME NEW t \in Thread, CreateInsert(t) PROVE BirthInv'
  <2> USE <1>1 DEF CreateInsert, InCall, IInv
  <2>1. /\ frame[t].id = nextId /\ nextId \in Nat \ {0} /\ serial \in Nat
        /\ nextId \notin DOMAIN table /\ frame[t].slot \in Slot
    BY DEF TypeOK, IdInv, BorrowInv
  <2>2. \A i \in DOMAIN table' : table'[i].born \in 1 .. serial'
    BY <2>1 DEF BirthInv
  <2>3. \A i, j \in DOMAIN table' : table'[i].born = table'[j].born => i = j
    BY <2>1 DEF BirthInv
  <2>4. ASSUME NEW s \in Slot
        PROVE  /\ handle'[s].born <= serial'
               /\ handle'[s].id = 0 => handle'[s].born = 0
               /\ \A i \in DOMAIN table' : table'[i].born = handle'[s].born => handle'[s].id = i
    <3>1. handle[s].born \in Nat
      BY DEF TypeOK, Handles
    <3> QED
      BY <2>1, <3>1 DEF BirthInv, TypeOK
  <2> QED
    BY <2>2, <2>3, <2>4 DEF BirthInv
<1>2. ASSUME NEW t \in Thread, FreeErase(t) PROVE BirthInv'
  BY <1>2 DEF FreeErase, InCall, IInv, TypeOK, Handles, BorrowInv, Cleared, BirthInv
<1>3. ASSUME NEW s \in Slot, NEW d \in Slot, CopyHandle(s, d) PROVE BirthInv'
  BY <1>3 DEF CopyHandle, IInv, TypeOK, Handles, BirthInv
<1>4. CASE UNCHANGED <<table, handle, serial>>
  BY <1>4 DEF BirthInv
<1> QED
  BY <1>1, <1>2, <1>3, <1>4 DEF Next, Begin, Step, BeginCreate, BeginUse, BeginLookup,
     BeginFree, CreateLock, UseMissing, UseLock, UseEnd, vars

(* The object of an entry is the object the mapping shows for its birth.   *)
LEMMA AbsObject == BirthInv => \A i \in DOMAIN table : AbsObjs[table[i].born] = table[i].obj
  BY DEF BirthInv, AbsObjs, Births

(* Outside critical sections nothing is open.                              *)
LEMMA NothingOpen ==
  IInv /\ (mutex = NoThread \/ \E t \in Thread : InCall(t, "insert"))
    => AbsOpen = [t \in Thread |-> 0]
  BY RegistryAssumption DEF IInv, LockInv, InCall, AbsOpen

(* A registration is the birth of an object.                               *)
LEMMA CreateIsNew ==
  ASSUME IInv, BirthInv, IInv', BirthInv', NEW t \in Thread, CreateInsert(t)
  PROVE  Abs!New(frame[t].slot, frame[t].obj)
<1> DEFINE s == frame[t].slot
           o == frame[t].obj
           n == frame[t].id
<1>1. /\ s \in Slot /\ n = nextId /\ n \notin DOMAIN table /\ serial \in Nat
      /\ InCall(t, "insert") /\ handle[s].id = 0
  BY DEF IInv, TypeOK, IdInv, BorrowInv, CreateInsert, InCall
<1>2. /\ table' = [i \in DOMAIN table \cup {n} |->
                    IF i = n THEN [obj |-> o, born |-> serial + 1] ELSE table[i]]
      /\ serial' = serial + 1 /\ mutex' = NoThread
      /\ handle' = [handle EXCEPT ![s] = [id |-> n, valid |-> TRUE, obj |-> o, born |-> serial + 1]]
  BY DEF CreateInsert
<1> HIDE DEF s, o, n
<1>3. AbsName[s] = 0
  BY <1>1 DEF AbsName, BirthInv
<1>4. Births' = Births \cup {serial + 1}
  BY <1>1, <1>2 DEF Births
<1>5. AbsObjs' = [b \in DOMAIN AbsObjs \cup {serial + 1} |->
                    IF b = serial + 1 THEN o ELSE AbsObjs[b]]
  <2>0. \A i \in DOMAIN table' : AbsObjs'[table'[i].born] = table'[i].obj
    BY DEF BirthInv, AbsObjs, Births
  <2>1. ASSUME NEW b \in Births, b # serial + 1 PROVE AbsObjs'[b] = AbsObjs[b]
    <3>1. PICK i \in DOMAIN table : table[i].born = b
      BY DEF Births
    <3>2. i \in DOMAIN table' /\ table'[i] = table[i]
      BY <1>1, <1>2
    <3> QED
      BY <2>0, <3>1, <3>2, AbsObject
  <2>2. AbsObjs'[serial + 1] = o
    BY <1>2, <2>0
  <2>3. /\ AbsObjs = [b \in Births |-> AbsObjs[b]]
        /\ AbsObjs' = [b \in Births' |-> AbsObjs'[b]]
    BY DEF AbsObjs
  <2> QED
    BY <1>4, <2>1, <2>2, <2>3
<1>6. AbsName' = [AbsName EXCEPT ![s] = serial + 1]
  BY <1>1, <1>2 DEF AbsName, IInv, TypeOK
<1>7. AbsOpen' = AbsOpen
  <2>1. AbsOpen = [u \in Thread |-> 0]
    BY <1>1, NothingOpen
  <2>2. \A u \in Thread : frame'[u].pc # "using"
    BY <1>2, RegistryAssumption DEF IInv, LockInv
  <2> QED
    BY <2>1, <2>2 DEF AbsOpen, InCall
<1> QED
  BY <1>2, <1>3, <1>5, <1>6, <1>7 DEF Abs!New, s, o

(* Finding the entry opens the object the variable names.                  *)
LEMMA LockIsOpen ==
  ASSUME IInv, BirthInv, NEW t \in Thread, UseLock(t)
  PROVE  Abs!Open(t, frame[t].slot)
<1> DEFINE s == frame[t].slot
           n == handle[s].id
<1>1. s \in Slot /\ n \in DOMAIN table /\ table[n].born = handle[s].born
  <2>1. s \in Slot /\ n \in DOMAIN table
    BY DEF UseLock, InCall, IInv, BorrowInv
  <2>2. table[n] = [obj |-> handle[s].obj, born |-> handle[s].born]
    BY <2>1 DEF IInv, NoAliasing
  <2> QED
    BY <2>1, <2>2
<1>2. AbsOpen = [u \in Thread |-> 0]
  BY NothingOpen DEF UseLock
<1>3. AbsName[s] \in DOMAIN AbsObjs
  BY <1>1 DEF AbsName, AbsObjs, Births
<1>4. AbsOpen' = [AbsOpen EXCEPT ![t] = AbsName[s]]
  <2>1. /\ frame'[t].pc = "using" /\ frame'[t].id = n /\ table' = table
        /\ \A u \in Thread \ {t} : frame'[u] = frame[u]
    BY DEF UseLock, InCall, IInv, TypeOK, Frames
  <2>2. \A u \in Thread : frame[u].pc # "using"
    BY RegistryAssumption DEF UseLock, IInv, LockInv
  <2>3. AbsName[s] = table[n].born
    BY <1>1 DEF AbsName
  <2> HIDE DEF s, n
  <2> QED
    BY <1>1, <1>2, <2>1, <2>2, <2>3 DEF AbsOpen, InCall
<1>5. UNCHANGED <<AbsObjs, serial, AbsName>>
  BY DEF UseLock, AbsObjs, AbsName, Births
<1> QED
  BY <1>2, <1>3, <1>4, <1>5 DEF Abs!Open

(* Leaving the critical section closes it.                                 *)
LEMMA EndIsClose ==
  ASSUME IInv, BirthInv, NEW t \in Thread, UseEnd(t)
  PROVE  Abs!Close(t)
<1>1. AbsOpen[t] # 0
  BY DEF UseEnd, InCall, IInv, CursorInv, BirthInv, TypeOK, AbsOpen
<1>2. AbsOpen' = [AbsOpen EXCEPT ![t] = 0]
  BY DEF UseEnd, Return, IdleFrame, InCall, IInv, TypeOK, AbsOpen
<1>3. UNCHANGED <<AbsObjs, serial, AbsName>>
  BY DEF UseEnd, AbsObjs, AbsName, Births
<1> QED
  BY <1>1, <1>2, <1>3 DEF Abs!Close

(* A free ends the object its variable names, if it is still alive.        *)
LEMMA EraseIsDrop ==
  ASSUME IInv, BirthInv, BirthInv', NEW t \in Thread, FreeErase(t)
  PROVE  Abs!Drop(frame[t].slot)
<1> DEFINE s == frame[t].slot
           n == handle[s].id
<1>1. /\ s \in Slot /\ table' = [i \in DOMAIN table \ {n} |-> table[i]]
      /\ handle' = [handle EXCEPT ![s] = Cleared(@)] /\ mutex = NoThread
  BY DEF FreeErase, InCall, IInv, BorrowInv
<1>2. AbsOpen = [u \in Thread |-> 0]
  BY <1>1, NothingOpen
<1>3. AbsOpen' = AbsOpen
  <2>1. \A u \in Thread : frame'[u].pc # "using"
    BY RegistryAssumption DEF FreeErase, Return, IdleFrame, IInv, TypeOK, LockInv
  <2> QED
    BY <1>2, <2>1 DEF AbsOpen, InCall
<1>4. AbsName' = [AbsName EXCEPT ![s] = 0]
  BY <1>1 DEF AbsName, Cleared, IInv, TypeOK, Handles
<1>5. Births' = Births \ {handle[s].born}
  <2>1. n \in DOMAIN table => table[n] = [obj |-> handle[s].obj, born |-> handle[s].born]
    BY <1>1 DEF IInv, NoAliasing
  <2>2. \A i \in DOMAIN table : table[i].born = handle[s].born <=> i = n
    BY <1>1, <2>1 DEF BirthInv
  <2> QED
    BY <1>1, <2>2 DEF Births
<1>6. AbsObjs' = [b \in DOMAIN AbsObjs \ {AbsName[s]} |-> AbsObjs[b]]
  <2>1. \A i \in DOMAIN table' : AbsObjs'[table'[i].born] = table'[i].obj
    BY DEF BirthInv, AbsObjs, Births
  <2>2. ASSUME NEW b \in Births' PROVE AbsObjs'[b] = AbsObjs[b]
    <3>1. PICK i \in DOMAIN table' : table'[i].born = b
      BY DEF Births
    <3>2. i \in DOMAIN table /\ table'[i] = table[i]
      BY <1>1
    <3> QED
      BY <2>1, <3>1, <3>2, AbsObject
  <2>3. AbsName[s] = handle[s].born
    BY <1>1 DEF AbsName
  <2>4. /\ AbsObjs = [b \in Births |-> AbsObjs[b]]
        /\ AbsObjs' = [b \in Births' |-> AbsObjs'[b]]
    BY DEF AbsObjs
  <2> QED
    BY <1>5, <2>2, <2>3, <2>4
<1>7. serial' = serial
  BY DEF FreeErase
<1> QED
  BY <1>2, <1>3, <1>4, <1>6, <1>7 DEF Abs!Drop

(* A copied struct is a copied name.                                       *)
LEMMA CopyIsCopy ==
  ASSUME IInv, BirthInv, NEW s \in Slot, NEW d \in Slot, CopyHandle(s, d)
  PROVE  Abs!Copy(s, d)
<1>1. AbsName[d] = 0
  BY DEF CopyHandle, BirthInv, AbsName
<1>2. AbsName' = [AbsName EXCEPT ![d] = AbsName[s]]
  BY DEF CopyHandle, AbsName, IInv, TypeOK
<1>3. UNCHANGED <<AbsObjs, serial, AbsOpen>>
  BY DEF CopyHandle, AbsObjs, AbsOpen, Births, InCall
<1> QED
  BY <1>1, <1>2, <1>3 DEF CopyHandle, Abs!Copy

(* The steps outside critical sections are invisible.                      *)
LEMMA Stutters ==
  ASSUME IInv, NEW t \in Thread,
         \/ \E s \in Slot, o \in Object : BeginCreate(t, s, o)
         \/ \E s \in Slot, m \in {"mut", "shr"} : BeginUse(t, s, m) \/ BeginLookup(t, s, m)
         \/ \E s \in Slot : BeginFree(t, s)
         \/ CreateLock(t) \/ UseMissing(t)
  PROVE  UNCHANGED <<AbsObjs, serial, AbsName, AbsOpen>>
<1>1. UNCHANGED <<table, handle, serial>>
  BY DEF BeginCreate, BeginUse, BeginLookup, BeginFree, CreateLock, UseMissing
<1>2. \A u \in Thread : /\ frame'[u].pc = "using" <=> frame[u].pc = "using"
                        /\ frame[u].pc = "using" => frame'[u].id = frame[u].id
  <2>1. /\ frame[t].pc # "using" /\ frame'[t].pc # "using"
        /\ \A u \in Thread \ {t} : frame'[u] = frame[u]
    <3> USE DEF IInv, TypeOK, InCall
    <3>1. CASE \E s \in Slot, o \in Object : BeginCreate(t, s, o)
      BY <3>1 DEF BeginCreate
    <3>2. CASE \E s \in Slot, m \in {"mut", "shr"} : BeginUse(t, s, m) \/ BeginLookup(t, s, m)
      BY <3>2 DEF BeginUse, BeginLookup
    <3>3. CASE \E s \in Slot : BeginFree(t, s)
      BY <3>3 DEF BeginFree
    <3>4. CASE CreateLock(t)
      BY <3>4 DEF CreateLock, Frames
    <3>5. CASE UseMissing(t)
      BY <3>5 DEF UseMissing, Return, IdleFrame
    <3> QED
      BY <3>1, <3>2, <3>3, <3>4, <3>5
  <2> QED
    BY <2>1
<1> QED
  BY <1>1, <1>2 DEF AbsObjs, AbsName, AbsOpen, Births, InCall

(* The registry implements the table: every step of the map, the counter   *)
(* and the mutex is a step of HandleTable or shows nothing.                *)
THEOREM RegistryImplements == Spec => ImplementsHandleTable
<1>1. Init => BirthInv /\ Abs!Init
  <2> SUFFICES ASSUME Init PROVE BirthInv /\ Abs!Init
    OBVIOUS
  <2>1. DOMAIN table = {} /\ Births = {} /\ serial = 0
    BY DEF Init, Births
  <2>2. AbsObjs = [b \in {} |-> b]
    BY <2>1 DEF AbsObjs
  <2>3. AbsName = [s \in Slot |-> 0] /\ AbsOpen = [t \in Thread |-> 0]
    BY DEF Init, NullHandle, IdleFrame, AbsName, AbsOpen, InCall
  <2>4. BirthInv
    BY <2>1 DEF Init, NullHandle, BirthInv
  <2> QED
    BY <2>1, <2>2, <2>3, <2>4 DEF Abs!Init
<1>2. IInv /\ BirthInv /\ IInv' /\ BirthInv' /\ [Next]_vars => [Abs!Next]_(Abs!absVars)
  <2> SUFFICES ASSUME IInv, BirthInv, IInv', BirthInv', [Next]_vars
               PROVE  [Abs!Next]_(Abs!absVars)
    OBVIOUS
  <2>1. ASSUME NEW t \in Thread, Begin(t) PROVE UNCHANGED Abs!absVars
    BY <2>1, Stutters DEF Begin, Abs!absVars
  <2>2. ASSUME NEW t \in Thread, Step(t) PROVE [Abs!Next]_(Abs!absVars)
    <3>1. /\ frame[t].pc # "idle" => frame[t].slot \in Slot
          /\ InCall(t, "insert") => frame[t].obj \in Object
      BY DEF IInv, BorrowInv, InCall
    <3>2. CASE CreateLock(t) \/ UseMissing(t)
      BY <3>2, Stutters DEF Abs!absVars
    <3>3. CASE CreateInsert(t)
      BY <3>1, <3>3, CreateIsNew DEF CreateInsert, InCall, Abs!Next
    <3>4. CASE UseLock(t)
      BY <3>1, <3>4, LockIsOpen DEF UseLock, InCall, Abs!Next
    <3>5. CASE UseEnd(t)
      BY <3>5, EndIsClose DEF Abs!Next
    <3>6. CASE FreeErase(t)
      BY <3>1, <3>6, EraseIsDrop DEF FreeErase, InCall, Abs!Next
    <3> QED
      BY <2>2, <3>2, <3>3, <3>4, <3>5, <3>6 DEF Step
  <2>3. ASSUME NEW s \in Slot, NEW d \in Slot, CopyHandle(s, d) PROVE Abs!Next
    BY <2>3, CopyIsCopy DEF Abs!Next
  <2>4. CASE UNCHANGED vars
    BY <2>4 DEF vars, Abs!absVars, AbsObjs, AbsName, AbsOpen, Births, InCall
  <2> QED
    BY <2>1, <2>2, <2>3, <2>4 DEF Next
<1> QED
  BY Inductive, <1>1, <1>2, NextBirthInv, PTL DEF Spec, Abs!Spec, ImplementsHandleTable
=============================================================================
