--------------------------- MODULE HandleRegistry ---------------------------
(***************************************************************************)
(* The protocol by which wrapper.cpp keeps C++ objects for its callers: a  *)
(* global std::unordered_map from an identifier to the object, a counter   *)
(* of identifiers and a std::mutex, and in the caller a small C struct     *)
(* (km_patch_t, km_backup_t, km_elf_scanner_t, ...) whose handle field is  *)
(* the identifier.  Six families of objects repeat it line for line:       *)
(* patches, backups, ELF, linker and native-bridge scanners, and on iOS    *)
(* memory file infos.  This module is one family; modules that give the    *)
(* objects a meaning instantiate it once per family.                       *)
(*                                                                         *)
(* A thread's call is cut where another thread can run: between the        *)
(* unlocked test of the struct and the lock, and inside the critical       *)
(* section where the code reads the counter and writes it back, or works   *)
(* on the object it found.                                                 *)
(***************************************************************************)
EXTENDS Naturals, FiniteSets

CONSTANTS
  Thread,     \* threads of the host program
  Slot,       \* variables of the host program that hold a handle struct
  Object,     \* what the external constructors can build
  NoThread,   \* owner of a free mutex
  NoSlot,     \* slot of a thread that is not in a call
  NoObject,   \* object of a call that creates none
  MaxId,      \* bound: identifiers handed out in one behaviour
  SysCopies   \* TRUE: the sys layer, where the struct is Copy; FALSE: the
              \* safe layer, where a Rust value owns it

ASSUME RegistryAssumption ==
  /\ NoThread \notin Thread
  /\ NoSlot \notin Slot
  /\ NoObject \notin Object
  /\ MaxId \in Nat
  /\ SysCopies \in BOOLEAN

VARIABLES
  table,   \* g_patches and its like: identifier -> [obj, born]
  nextId,  \* g_next_patch_id and its like
  mutex,   \* g_patches_mutex and its like: its owner
  handle,  \* [Slot -> the caller's struct]
  frame,   \* [Thread -> the call the thread is in]
  serial   \* history: how many objects were ever registered

vars == <<table, nextId, mutex, handle, frame, serial>>

-----------------------------------------------------------------------------
(* The caller's struct.  id and valid are its handle and valid fields; obj *)
(* is what its address and size fields were copied from, and born (a       *)
(* history field) the registration it was issued for.                      *)
NullHandle == [id |-> 0, valid |-> FALSE, obj |-> NoObject, born |-> 0]

(* What km_..._free leaves of a struct: address and size stay.             *)
Cleared(h) == [h EXCEPT !.id = 0, !.valid = FALSE, !.born = 0]

Handles ==
  [id : Nat, valid : BOOLEAN, obj : Object \cup {NoObject}, born : Nat]

Entries == [obj : Object, born : Nat]

(* The call a thread is in.  mode is "mut" for a method on &mut self (or a *)
(* drop) and "shr" for one on &self; id is the local variable id of the    *)
(* critical section.                                                       *)
IdleFrame == [pc |-> "idle", slot |-> NoSlot, mode |-> "shr",
              id |-> 0, obj |-> NoObject]

PCs == {"idle", "create", "insert", "call", "using", "free"}

Frames == [pc : PCs, slot : Slot \cup {NoSlot}, mode : {"mut", "shr"},
           id : Nat, obj : Object \cup {NoObject}]

InCall(t, where) == frame[t].pc = where
Users(s) == {t \in Thread : frame[t].pc # "idle" /\ frame[t].slot = s}

(* Rust's borrow rules on the variable: a &mut call or a drop has it to    *)
(* itself, &self calls share it.                                           *)
MayBorrowMut(s) == Users(s) = {}
MayBorrow(s) == \A t \in Users(s) : frame[t].mode = "shr"
MayBorrowFor(s, m) == IF m = "mut" THEN MayBorrowMut(s) ELSE MayBorrow(s)

Return(t) == frame' = [frame EXCEPT ![t] = IdleFrame]

(* A counter that starts at the null handle.                               *)
InitAtNull ==
  /\ table = [i \in {} |-> i]
  /\ nextId = 0
  /\ mutex = NoThread
  /\ handle = [s \in Slot |-> NullHandle]
  /\ frame = [t \in Thread |-> IdleFrame]
  /\ serial = 0

Init ==
  /\ table = [i \in {} |-> i]
  /\ nextId = 1
  /\ mutex = NoThread
  /\ handle = [s \in Slot |-> NullHandle]
  /\ frame = [t \in Thread |-> IdleFrame]
  /\ serial = 0

-----------------------------------------------------------------------------
(* Creation.  The external constructor ran without the mutex and its       *)
(* object passed isValid(); what is left is to register it.  The bound on  *)
(* identifiers counts the creations under way.                             *)
BeginCreate(t, s, o) ==
  /\ InCall(t, "idle")
  /\ handle[s].id = 0
  /\ MayBorrowMut(s)
  /\ nextId + Cardinality({u \in Thread : frame[u].pc \in {"create", "insert"}})
       <= MaxId
  /\ frame' = [frame EXCEPT ![t] = [pc |-> "create", slot |-> s, mode |-> "mut",
                                    id |-> 0, obj |-> o]]
  /\ UNCHANGED <<table, nextId, mutex, handle, serial>>

(* A lock_guard that is not taken: two creations read the same counter.    *)
CreateLockBug(t) ==
  /\ InCall(t, "create")
  /\ mutex' = t
  /\ frame' = [frame EXCEPT ![t] = [@ EXCEPT !.pc = "insert", !.id = nextId]]
  /\ UNCHANGED <<table, nextId, handle, serial>>

(* lock_guard, and the counter read by id = g_next_..._id++.               *)
CreateLock(t) ==
  /\ InCall(t, "create")
  /\ mutex = NoThread
  /\ mutex' = t
  /\ frame' = [frame EXCEPT ![t] = [@ EXCEPT !.pc = "insert", !.id = nextId]]
  /\ UNCHANGED <<table, nextId, handle, serial>>

(* The map subscripted by the size of the map: an identifier comes back    *)
(* once an entry before it is erased.                                      *)
CreateInsertBug(t) ==
  LET id == Cardinality(DOMAIN table) + 1
      o == frame[t].obj
      b == serial + 1
  IN  /\ InCall(t, "insert")
      /\ nextId' = frame[t].id + 1
      /\ table' = [i \in DOMAIN table \cup {id} |->
                     IF i = id THEN [obj |-> o, born |-> b] ELSE table[i]]
      /\ handle' = [handle EXCEPT ![frame[t].slot] =
                      [id |-> id, valid |-> TRUE, obj |-> o, born |-> b]]
      /\ serial' = b
      /\ mutex' = NoThread
      /\ Return(t)

(* A creation that returns before it releases the mutex.                   *)
CreateInsertHolding(t) ==
  LET id == frame[t].id
      o == frame[t].obj
      b == serial + 1
  IN  /\ InCall(t, "insert")
      /\ nextId' = id + 1
      /\ table' = [i \in DOMAIN table \cup {id} |->
                     IF i = id THEN [obj |-> o, born |-> b] ELSE table[i]]
      /\ handle' = [handle EXCEPT ![frame[t].slot] =
                      [id |-> id, valid |-> TRUE, obj |-> o, born |-> b]]
      /\ serial' = b
      /\ UNCHANGED mutex
      /\ Return(t)

(* The counter is written back, the object moved into the map, the struct  *)
(* filled from the map's entry, and the mutex released at the return.      *)
CreateInsert(t) ==
  LET id == frame[t].id
      o == frame[t].obj
      b == serial + 1
  IN  /\ InCall(t, "insert")
      /\ nextId' = id + 1
      /\ table' = [i \in DOMAIN table \cup {id} |->
                     IF i = id THEN [obj |-> o, born |-> b] ELSE table[i]]
      /\ handle' = [handle EXCEPT ![frame[t].slot] =
                      [id |-> id, valid |-> TRUE, obj |-> o, born |-> b]]
      /\ serial' = b
      /\ mutex' = NoThread
      /\ Return(t)

-----------------------------------------------------------------------------
(* A call on the object.  The struct is tested without the mutex; a struct *)
(* that fails the test makes the call return at once and changes nothing.  *)
BeginUse(t, s, m) ==
  /\ InCall(t, "idle")
  /\ MayBorrowFor(s, m)
  /\ handle[s].valid
  /\ handle[s].id # 0
  /\ frame' = [frame EXCEPT ![t] = [pc |-> "call", slot |-> s, mode |-> m,
                                    id |-> 0, obj |-> NoObject]]
  /\ UNCHANGED <<table, nextId, mutex, handle, serial>>

(* The families whose struct has no valid field (iOS), and is_valid() of   *)
(* the native-bridge scanner, test the handle alone.                       *)
BeginLookup(t, s, m) ==
  /\ InCall(t, "idle")
  /\ MayBorrowFor(s, m)
  /\ handle[s].id # 0
  /\ frame' = [frame EXCEPT ![t] = [pc |-> "call", slot |-> s, mode |-> m,
                                    id |-> 0, obj |-> NoObject]]
  /\ UNCHANGED <<table, nextId, mutex, handle, serial>>

(* find(id) == end(): the identifier is gone, the call fails.              *)
UseMissing(t) ==
  /\ InCall(t, "call")
  /\ mutex = NoThread
  /\ handle[frame[t].slot].id \notin DOMAIN table
  /\ Return(t)
  /\ UNCHANGED <<table, nextId, mutex, handle, serial>>

(* A call on the object that does not take the mutex.                      *)
UseUnlocked(t) ==
  LET id == handle[frame[t].slot].id
  IN  /\ InCall(t, "call")
      /\ id \in DOMAIN table
      /\ mutex' = t
      /\ frame' = [frame EXCEPT ![t] = [@ EXCEPT !.pc = "using", !.id = id]]
      /\ UNCHANGED <<table, nextId, handle, serial>>

(* find(id) found the entry; the call keeps the mutex while it works on it. *)
UseLock(t) ==
  LET id == handle[frame[t].slot].id
  IN  /\ InCall(t, "call")
      /\ mutex = NoThread
      /\ id \in DOMAIN table
      /\ mutex' = t
      /\ frame' = [frame EXCEPT ![t] = [@ EXCEPT !.pc = "using", !.id = id]]
      /\ UNCHANGED <<table, nextId, handle, serial>>

(* A path that returns without unlocking.                                  *)
UseEndBug(t) ==
  /\ InCall(t, "using")
  /\ Return(t)
  /\ UNCHANGED <<table, nextId, mutex, handle, serial>>

UseEnd(t) ==
  /\ InCall(t, "using")
  /\ mutex' = NoThread
  /\ Return(t)
  /\ UNCHANGED <<table, nextId, handle, serial>>

-----------------------------------------------------------------------------
(* Destruction.  km_..._free tests the handle field alone, not valid.      *)
BeginFree(t, s) ==
  /\ InCall(t, "idle")
  /\ MayBorrowMut(s)
  /\ handle[s].id # 0
  /\ frame' = [frame EXCEPT ![t] = [pc |-> "free", slot |-> s, mode |-> "mut",
                                    id |-> 0, obj |-> NoObject]]
  /\ UNCHANGED <<table, nextId, mutex, handle, serial>>

(* An erase that does not take the mutex.                                  *)
FreeEraseUnlocked(t) ==
  LET s == frame[t].slot
  IN  /\ InCall(t, "free")
      /\ table' = [i \in DOMAIN table \ {handle[s].id} |-> table[i]]
      /\ handle' = [handle EXCEPT ![s] = Cleared(@)]
      /\ Return(t)
      /\ UNCHANGED <<nextId, mutex, serial>>

(* A free that clears the struct but leaves the entry in the map.          *)
FreeEraseLeaks(t) ==
  LET s == frame[t].slot
  IN  /\ InCall(t, "free")
      /\ mutex = NoThread
      /\ handle' = [handle EXCEPT ![s] = Cleared(@)]
      /\ Return(t)
      /\ UNCHANGED <<table, nextId, mutex, serial>>

(* A free that gives the last identifier back to the counter.              *)
FreeEraseRecycles(t) ==
  LET s == frame[t].slot
  IN  /\ InCall(t, "free")
      /\ mutex = NoThread
      /\ table' = [i \in DOMAIN table \ {handle[s].id} |-> table[i]]
      /\ nextId' = IF handle[s].id + 1 = nextId THEN handle[s].id ELSE nextId
      /\ handle' = [handle EXCEPT ![s] = Cleared(@)]
      /\ Return(t)
      /\ UNCHANGED <<mutex, serial>>

(* A free that clears the handle alone.                                    *)
FreeEraseStillValid(t) ==
  LET s == frame[t].slot
  IN  /\ InCall(t, "free")
      /\ mutex = NoThread
      /\ table' = [i \in DOMAIN table \ {handle[s].id} |-> table[i]]
      /\ handle' = [handle EXCEPT ![s] = [@ EXCEPT !.id = 0, !.born = 0]]
      /\ Return(t)
      /\ UNCHANGED <<nextId, mutex, serial>>

(* Under the mutex, the entry is erased (if it is there) and the struct    *)
(* cleared.                                                                *)
FreeErase(t) ==
  LET s == frame[t].slot
  IN  /\ InCall(t, "free")
      /\ mutex = NoThread
      /\ table' = [i \in DOMAIN table \ {handle[s].id} |-> table[i]]
      /\ handle' = [handle EXCEPT ![s] = Cleared(@)]
      /\ Return(t)
      /\ UNCHANGED <<nextId, mutex, serial>>

(* The struct is Copy in the sys layer: a caller may keep a second one.    *)
CopyHandle(s, d) ==
  /\ SysCopies
  /\ handle[s].id # 0
  /\ handle[d].id = 0
  /\ MayBorrow(s)
  /\ MayBorrowMut(d)
  /\ handle' = [handle EXCEPT ![d] = handle[s]]
  /\ UNCHANGED <<table, nextId, mutex, frame, serial>>

-----------------------------------------------------------------------------
(* The steps of a call that has begun: the thread takes them by itself.    *)
Step(t) ==
  \/ CreateLock(t)
  \/ CreateInsert(t)
  \/ UseMissing(t)
  \/ UseLock(t)
  \/ UseEnd(t)
  \/ FreeErase(t)

Begin(t) ==
  \/ \E s \in Slot, o \in Object : BeginCreate(t, s, o)
  \/ \E s \in Slot, m \in {"mut", "shr"} : BeginUse(t, s, m) \/ BeginLookup(t, s, m)
  \/ \E s \in Slot : BeginFree(t, s)

Next ==
  \/ \E t \in Thread : Begin(t) \/ Step(t)
  \/ \E s, d \in Slot : CopyHandle(s, d)

Spec == Init /\ [][Next]_vars

(* The scheduler runs every thread that can run; nothing obliges a caller  *)
(* to call, and std::mutex promises no order among the threads that wait.  *)
Fairness == \A t \in Thread : WF_vars(Step(t))

FairSpec == Spec /\ Fairness
-----------------------------------------------------------------------------
TypeOK ==
  /\ DOMAIN table \subseteq Nat \ {0}
  /\ \A i \in DOMAIN table : table[i] \in Entries
  /\ nextId \in Nat \ {0}
  /\ mutex \in Thread \cup {NoThread}
  /\ handle \in [Slot -> Handles]
  /\ frame \in [Thread -> Frames]
  /\ serial \in Nat

(* The iterator a call works on stays valid: from find() to the return,    *)
(* the entry is in the map, the thread owns the mutex, and the entry is    *)
(* the object the caller's variable was issued for.  (wrapper.cpp uses     *)
(* it->second after find() in every accessor.)                             *)
CursorValid ==
  \A t \in Thread : InCall(t, "using") =>
    /\ mutex = t
    /\ frame[t].id \in DOMAIN table
    /\ table[frame[t].id].born = handle[frame[t].slot].born

(* No handle, however old and however often copied, reaches an object      *)
(* other than the one it was issued for: if its identifier is in the map,  *)
(* the entry is that registration, with the address and size the struct    *)
(* shows.  (Identifiers come from a counter that never goes back.)         *)
NoAliasing ==
  \A s \in Slot : handle[s].id \in DOMAIN table =>
    table[handle[s].id] = [obj |-> handle[s].obj, born |-> handle[s].born]

(* Nothing stays in the map that no variable can free: every entry is held *)
(* by some caller's struct.  (Creation fills the struct in the critical    *)
(* section that inserts; Drop frees what the struct holds.  A caller that  *)
(* overwrites or forgets its struct leaks by itself: Slots do neither.)    *)
NoOrphan ==
  \A i \in DOMAIN table : \E s \in Slot : handle[s].id = i

(* The valid flag and the handle field of a struct say the same: it does   *)
(* not matter that free tests the one and calls test both or either, and   *)
(* is_valid() (safe.rs), which reads the flag alone, is true exactly when  *)
(* the struct holds a registration it has not freed.                       *)
ValidIffHandle == \A s \in Slot : handle[s].valid <=> handle[s].id # 0

(* In the safe layer a Rust value that says it is valid is backed by an    *)
(* entry nobody else owns, so the not-found path of the accessors is dead  *)
(* code there: only copies of the raw struct can reach it.                 *)
OwnedIsRegistered ==
  ~SysCopies => \A s \in Slot : handle[s].valid =>
    /\ handle[s].id \in DOMAIN table
    /\ \A d \in Slot \ {s} : handle[d].id # handle[s].id

(* An entry is never overwritten, and an identifier once given out and no  *)
(* longer in the map is never in it again.  (g_patches[id] = ... would     *)
(* overwrite; the erase of km_..._free leaves the counter alone.)          *)
EntriesFinal ==
  [][/\ \A i \in DOMAIN table \cap DOMAIN table' : table'[i] = table[i]
     /\ nextId <= nextId'
     /\ \A i \in DOMAIN table' : i < nextId => i \in DOMAIN table]_vars

(* Every path out of a critical section unlocks.  (std::lock_guard.)       *)
MutexReleased == \A t \in Thread : (mutex = t) ~> (mutex # t)

(* A call waits for other calls only: once the other threads stay out of   *)
(* the registry, a call that has begun returns.                            *)
ReturnsWhenAlone ==
  \A t \in Thread :
    <>[](\A u \in Thread \ {t} : InCall(u, "idle")) => []<>InCall(t, "idle")

-----------------------------------------------------------------------------
(* The abstract table this registry implements.  A thread has an object    *)
(* open while it works on the iterator it found.                           *)
Births == {table[i].born : i \in DOMAIN table}

AbsObjs == [b \in Births |-> table[CHOOSE i \in DOMAIN table : table[i].born = b].obj]
AbsName == [s \in Slot |-> handle[s].born]
AbsOpen == [t \in Thread |-> IF InCall(t, "using") /\ frame[t].id \in DOMAIN table
                              THEN table[frame[t].id].born ELSE 0]

Abs == INSTANCE HandleTable WITH
  objs <- AbsObjs, births <- serial, name <- AbsName, open <- AbsOpen

(* The registry keeps the promises of HandleTable: every handle names the  *)
(* object it was issued for, calls on objects do not overlap, and no       *)
(* object is destroyed under a call.                                       *)
ImplementsHandleTable == Abs!Spec
=============================================================================
