---------------------------- MODULE PatchMemory ----------------------------
(***************************************************************************)
(* Patches, backups and the unlocked memory operations over one memory.    *)
(*                                                                         *)
(* Patches and backups are two handle registries (HandleRegistry), with    *)
(* two mutexes.  A patch holds the bytes to write and the bytes it found   *)
(* when it was created; a backup holds the bytes it found.  Creation reads *)
(* the memory before it takes a mutex; modify, restore and the byte        *)
(* getters work on the memory under the mutex of their family; mem_read    *)
(* and mem_write take none.  Memory is read and written byte by byte.      *)
(***************************************************************************)
EXTENDS Naturals, Sequences, FiniteSets

CONSTANTS
  Thread,     \* threads of the host program
  PatchSlot,  \* its Patch variables
  BackupSlot, \* its Backup variables
  Addr,       \* addresses, an interval of Nat \ {0}
  Byte,       \* contents of an address
  Pristine,   \* the memory as loaded
  Requests,   \* patches asked for: [at, new]
  Regions,    \* backups asked for: [at, size]
  Reads,      \* mem_read calls: [at, size]
  Writes,     \* mem_write calls: [at, new]
  NoThread, NoSlot, NoObject, NoPatch,
  SysCopies,  \* TRUE where raw handle structs may be copied
  MaxPatch,   \* bound: patches created in one behaviour
  MaxBackup   \* bound: backups created in one behaviour

Bytes(n) == [1 .. n -> Byte]
Span(at, n) == at .. at + n - 1

(* What stands behind a handle: a MemoryPatch and a MemoryBackup.          *)
Patches == UNION {[at : {r.at}, new : {r.new}, orig : Bytes(Len(r.new))] : r \in Requests}
Backups == UNION {[at : {r.at}, orig : Bytes(r.size)] : r \in Regions}

ASSUME MemoryAssumption ==
  /\ Addr \subseteq Nat \ {0}
  /\ Pristine \in [Addr -> Byte]
  /\ Requests \cup Writes \subseteq [at : Nat, new : Seq(Byte)]
  /\ \A r \in Requests \cup Writes : r.new # <<>> /\ Span(r.at, Len(r.new)) \subseteq Addr
  /\ Regions \cup Reads \subseteq [at : Nat, size : Nat \ {0}]
  /\ \A r \in Regions \cup Reads : Span(r.at, r.size) \subseteq Addr
  /\ NoThread \notin Thread /\ NoSlot \notin PatchSlot \cup BackupSlot
  /\ NoObject \notin Patches \cup Backups /\ NoPatch \notin Patches
  /\ SysCopies \in BOOLEAN /\ MaxPatch \in Nat /\ MaxBackup \in Nat

VARIABLES
  mem,                                                 \* [Addr -> Byte]
  ptable, pnext, pmutex, phandle, pframe, pserial,     \* the patch registry
  btable, bnext, bmutex, bhandle, bframe, bserial,     \* the backup registry
  job                                                  \* [Thread -> its work on memory]

pvars == <<ptable, pnext, pmutex, phandle, pframe, pserial>>
bvars == <<btable, bnext, bmutex, bhandle, bframe, bserial>>
vars == <<mem, pvars, bvars, job>>

-----------------------------------------------------------------------------
P == INSTANCE HandleRegistry WITH
  Slot <- PatchSlot, Object <- Patches, MaxId <- MaxPatch,
  table <- ptable, nextId <- pnext, mutex <- pmutex,
  handle <- phandle, frame <- pframe, serial <- pserial

B == INSTANCE HandleRegistry WITH
  Slot <- BackupSlot, Object <- Backups, MaxId <- MaxBackup,
  table <- btable, nextId <- bnext, mutex <- bmutex,
  handle <- bhandle, frame <- bframe, serial <- bserial

(* A thread's work on memory: what it is for, where, the bytes it carries, *)
(* how many it has to move, and those it moved so far.                     *)
Readers == {"capture", "save", "inspect", "read"}
Writers == {"modify", "restore", "unsave", "write"}
Ops == Readers \cup Writers \cup {"none", "look"}

Work(op, at, data, size) ==
  [op |-> op, at |-> at, data |-> data, size |-> size, done |-> 0, got |-> <<>>]

NoWork == Work("none", 0, <<>>, 0)

Does(t, ops) == job[t].op \in ops
Finished(t) == job[t].done = job[t].size

(* The library's memWrite may refuse before it has written anything.       *)
Refused(t) == Does(t, Writers) /\ job[t].done = 0

Free(t) == P!InCall(t, "idle") /\ B!InCall(t, "idle") /\ Does(t, {"none"})
Set(t, w) == job' = [job EXCEPT ![t] = w]

Init ==
  /\ mem = Pristine
  /\ P!Init
  /\ B!Init
  /\ job = [t \in Thread |-> NoWork]

-----------------------------------------------------------------------------
(* Memory, one byte at a time.                                             *)
ReadByte(t) ==
  LET w == job[t]
  IN  /\ Does(t, Readers)
      /\ ~Finished(t)
      /\ Set(t, [w EXCEPT !.done = @ + 1, !.got = Append(@, mem[w.at + w.done])])
      /\ UNCHANGED <<mem, pvars, bvars>>

(* A write that starts one byte late.                                      *)
WriteByteBug(t) ==
  LET w == job[t]
      a == w.at + w.done + 1
  IN  /\ Does(t, Writers)
      /\ ~Finished(t)
      /\ mem' = [x \in Addr |-> IF x = a THEN w.data[w.done + 1] ELSE mem[x]]
      /\ Set(t, [w EXCEPT !.done = @ + 1])
      /\ UNCHANGED <<pvars, bvars>>

WriteByte(t) ==
  LET w == job[t]
  IN  /\ Does(t, Writers)
      /\ ~Finished(t)
      /\ mem' = [mem EXCEPT ![w.at + w.done] = w.data[w.done + 1]]
      /\ Set(t, [w EXCEPT !.done = @ + 1])
      /\ UNCHANGED <<pvars, bvars>>

(* mem_read and mem_write: no mutex, no registry.                          *)
StartRead(t, r) ==
  /\ Free(t)
  /\ Set(t, Work("read", r.at, <<>>, r.size))
  /\ UNCHANGED <<mem, pvars, bvars>>

StartWrite(t, r) ==
  /\ Free(t)
  /\ Set(t, Work("write", r.at, r.new, Len(r.new)))
  /\ UNCHANGED <<mem, pvars, bvars>>

EndRaw(t) ==
  /\ Does(t, {"read", "write"})
  /\ Finished(t) \/ Refused(t)
  /\ Set(t, NoWork)
  /\ UNCHANGED <<mem, pvars, bvars>>

-----------------------------------------------------------------------------
(* Creation of a patch: the constructor copies the bytes it will replace,  *)
(* holding no mutex, and a valid patch is registered.                      *)
StartPatch(t, r) ==
  /\ Free(t)
  /\ Set(t, Work("capture", r.at, r.new, Len(r.new)))
  /\ UNCHANGED <<mem, pvars, bvars>>

(* A patch that keeps its own bytes as the original ones.                  *)
RegisterPatchBug(t, s) ==
  /\ Does(t, {"capture"})
  /\ Finished(t)
  /\ P!BeginCreate(t, s, [at |-> job[t].at, new |-> job[t].data, orig |-> job[t].data])
  /\ Set(t, NoWork)
  /\ UNCHANGED <<mem, bvars>>

(* A patch registered while its bytes are still being copied.              *)
RegisterPatchEarly(t, s) ==
  /\ Does(t, {"capture"})
  /\ P!BeginCreate(t, s, [at |-> job[t].at, new |-> job[t].data, orig |-> job[t].got])
  /\ Set(t, NoWork)
  /\ UNCHANGED <<mem, bvars>>

RegisterPatch(t, s) ==
  /\ Does(t, {"capture"})
  /\ Finished(t)
  /\ P!BeginCreate(t, s, [at |-> job[t].at, new |-> job[t].data, orig |-> job[t].got])
  /\ Set(t, NoWork)
  /\ UNCHANGED <<mem, bvars>>

StartBackup(t, r) ==
  /\ Free(t)
  /\ Set(t, Work("save", r.at, <<>>, r.size))
  /\ UNCHANGED <<mem, pvars, bvars>>

RegisterBackup(t, s) ==
  /\ Does(t, {"save"})
  /\ Finished(t)
  /\ B!BeginCreate(t, s, [at |-> job[t].at, orig |-> job[t].got])
  /\ Set(t, NoWork)
  /\ UNCHANGED <<mem, pvars>>

(* isValid() is false: nothing is registered, the caller gets no handle.   *)
Discard(t) ==
  /\ Does(t, {"capture", "save"})
  /\ Set(t, NoWork)
  /\ UNCHANGED <<mem, pvars, bvars>>

-----------------------------------------------------------------------------
(* A call on a patch.  modify and restore borrow it mutably, the getters   *)
(* share it; get_orig_bytes and get_patch_bytes ("look") touch no memory.  *)
PatchMode(op) == IF op \in {"modify", "restore"} THEN "mut" ELSE "shr"

PatchWork(op, o) ==
  CASE op = "modify"  -> Work(op, o.at, o.new, Len(o.new))
    [] op = "restore" -> Work(op, o.at, o.orig, Len(o.orig))
    [] op = "inspect" -> Work(op, o.at, <<>>, Len(o.new))
    [] op = "look"    -> Work(op, 0, <<>>, 0)

BeginPatchUse(t, s, op) ==
  /\ Free(t)
  /\ P!BeginUse(t, s, PatchMode(op))
  /\ Set(t, Work(op, 0, <<>>, 0))
  /\ UNCHANGED <<mem, bvars>>

(* A getter that does not take the mutex.                                  *)
PatchFoundBug(t) ==
  LET id == phandle[pframe[t].slot].id
  IN  /\ IF Does(t, {"inspect"})
           THEN /\ P!InCall(t, "call")
                /\ id \in DOMAIN ptable
                /\ pframe' = [pframe EXCEPT ![t] = [@ EXCEPT !.pc = "using", !.id = id]]
                /\ UNCHANGED <<ptable, pnext, pmutex, phandle, pserial>>
           ELSE P!UseLock(t)
      /\ Set(t, PatchWork(job[t].op, ptable[id].obj))
      /\ UNCHANGED <<mem, bvars>>

PatchFound(t) ==
  /\ P!UseLock(t)
  /\ Set(t, PatchWork(job[t].op, ptable[phandle[pframe[t].slot].id].obj))
  /\ UNCHANGED <<mem, bvars>>

(* A call that returns in the middle of its work.                          *)
PatchDoneBug(t) ==
  /\ P!UseEnd(t)
  /\ Set(t, NoWork)
  /\ UNCHANGED <<mem, bvars>>

PatchDone(t) ==
  /\ Finished(t) \/ Refused(t)
  /\ P!UseEnd(t)
  /\ Set(t, NoWork)
  /\ UNCHANGED <<mem, bvars>>

PatchMissing(t) ==
  /\ P!UseMissing(t)
  /\ Set(t, NoWork)
  /\ UNCHANGED <<mem, bvars>>

(* The steps of the patch registry that do no work on memory.              *)
BeginPatchFree(t, s) ==
  /\ Free(t)
  /\ P!BeginFree(t, s)
  /\ UNCHANGED <<mem, bvars, job>>

PatchBookkeeping(t) ==
  /\ P!CreateLock(t) \/ P!CreateInsert(t) \/ P!FreeErase(t)
  /\ UNCHANGED <<mem, bvars, job>>

-----------------------------------------------------------------------------
(* A call on a backup: restore, get_curr_bytes, get_orig_bytes.            *)
BackupMode(op) == IF op = "unsave" THEN "mut" ELSE "shr"

BackupWork(op, o) ==
  CASE op = "unsave"  -> Work(op, o.at, o.orig, Len(o.orig))
    [] op = "inspect" -> Work(op, o.at, <<>>, Len(o.orig))
    [] op = "look"    -> Work(op, 0, <<>>, 0)

BeginBackupUse(t, s, op) ==
  /\ Free(t)
  /\ B!BeginUse(t, s, BackupMode(op))
  /\ Set(t, Work(op, 0, <<>>, 0))
  /\ UNCHANGED <<mem, pvars>>

BackupFound(t) ==
  /\ B!UseLock(t)
  /\ Set(t, BackupWork(job[t].op, btable[bhandle[bframe[t].slot].id].obj))
  /\ UNCHANGED <<mem, pvars>>

BackupDone(t) ==
  /\ Finished(t) \/ Refused(t)
  /\ B!UseEnd(t)
  /\ Set(t, NoWork)
  /\ UNCHANGED <<mem, pvars>>

BackupMissing(t) ==
  /\ B!UseMissing(t)
  /\ Set(t, NoWork)
  /\ UNCHANGED <<mem, pvars>>

BeginBackupFree(t, s) ==
  /\ Free(t)
  /\ B!BeginFree(t, s)
  /\ UNCHANGED <<mem, pvars, job>>

BackupBookkeeping(t) ==
  /\ B!CreateLock(t) \/ B!CreateInsert(t) \/ B!FreeErase(t)
  /\ UNCHANGED <<mem, pvars, job>>

-----------------------------------------------------------------------------
PatchNext(t) ==
  \/ \E r \in Requests : StartPatch(t, r)
  \/ \E s \in PatchSlot : RegisterPatch(t, s)
  \/ \E s \in PatchSlot, op \in {"modify", "restore", "inspect", "look"} :
       BeginPatchUse(t, s, op)
  \/ PatchFound(t)
  \/ PatchDone(t)
  \/ PatchMissing(t)
  \/ \E s \in PatchSlot : BeginPatchFree(t, s)
  \/ PatchBookkeeping(t)

BackupNext(t) ==
  \/ \E r \in Regions : StartBackup(t, r)
  \/ \E s \in BackupSlot : RegisterBackup(t, s)
  \/ \E s \in BackupSlot, op \in {"unsave", "inspect", "look"} :
       BeginBackupUse(t, s, op)
  \/ BackupFound(t)
  \/ BackupDone(t)
  \/ BackupMissing(t)
  \/ \E s \in BackupSlot : BeginBackupFree(t, s)
  \/ BackupBookkeeping(t)

MemoryNext(t) ==
  \/ ReadByte(t)
  \/ WriteByte(t)
  \/ \E r \in Reads : StartRead(t, r)
  \/ \E r \in Writes : StartWrite(t, r)
  \/ EndRaw(t)
  \/ Discard(t)

CopyNext ==
  \/ \E s, d \in PatchSlot : P!CopyHandle(s, d) /\ UNCHANGED <<mem, bvars, job>>
  \/ \E s, d \in BackupSlot : B!CopyHandle(s, d) /\ UNCHANGED <<mem, pvars, job>>

Next ==
  \/ \E t \in Thread : PatchNext(t) \/ BackupNext(t) \/ MemoryNext(t)
  \/ CopyNext

Spec == Init /\ [][Next]_vars
-----------------------------------------------------------------------------
TypeOK ==
  /\ mem \in [Addr -> Byte]
  /\ P!TypeOK
  /\ B!TypeOK
  /\ \A t \in Thread :
       /\ job[t].op \in Ops
       /\ job[t].done \in 0 .. job[t].size
       /\ Does(t, Readers) => Len(job[t].got) = job[t].done
       /\ Does(t, Writers) => Len(job[t].data) = job[t].size

(* What a call does to memory under a mutex it does for an object that is  *)
(* still there and that its caller's handle was issued for, to its own     *)
(* range, with its own bytes: no copy of the handle frees or replaces the  *)
(* object under it.  (it->second.Modify() and its like, wrapper.cpp.)      *)
JobBacked ==
  \A t \in Thread :
    /\ P!InCall(t, "using") =>
         /\ pframe[t].id \in DOMAIN ptable
         /\ LET o == ptable[pframe[t].id].obj
            IN  /\ o = phandle[pframe[t].slot].obj
                /\ [job[t] EXCEPT !.done = 0, !.got = <<>>] = PatchWork(job[t].op, o)
    /\ B!InCall(t, "using") =>
         /\ bframe[t].id \in DOMAIN btable
         /\ LET o == btable[bframe[t].id].obj
            IN  /\ o = bhandle[bframe[t].slot].obj
                /\ [job[t] EXCEPT !.done = 0, !.got = <<>>] = BackupWork(job[t].op, o)

(* However captures, restores and raw writes are torn by one another, an   *)
(* address only ever holds what was loaded there or what some caller asked *)
(* to put there: no call writes outside its range or shifts bytes.         *)
Wanted(a) ==
  {Pristine[a]} \cup
  {r.new[a - r.at + 1] : r \in {q \in Requests \cup Writes : a \in Span(q.at, Len(q.new))}}

NoForeignByte == \A a \in Addr : mem[a] \in Wanted(a)

(* Where the program writes through patches alone, what get_curr_bytes     *)
(* copies is the memory as it was at one moment: no modify or restore      *)
(* slips between two of its bytes.  (Both hold g_patches_mutex.)           *)
InspectExact ==
  \A t \in Thread : P!InCall(t, "using") /\ Does(t, {"inspect"}) =>
    \A k \in 1 .. job[t].done : job[t].got[k] = mem[job[t].at + k - 1]

(* Where the program writes through patches alone, every modify and every  *)
(* restore is atomic: it takes place when its first byte is written.       *)
Writing == {t \in Thread : Does(t, {"modify", "restore"}) /\ job[t].done > 0}

MemoryAsPromised ==
  [a \in Addr |->
     IF \E t \in Writing : a \in Span(job[t].at, job[t].size)
     THEN LET t == CHOOSE u \in Writing : a \in Span(job[u].at, job[u].size)
          IN  job[t].data[a - job[t].at + 1]
     ELSE mem[a]]

PatchHeld ==
  [s \in PatchSlot |-> IF phandle[s].id \in DOMAIN ptable
                       THEN ptable[phandle[s].id].obj ELSE NoPatch]

Store == INSTANCE PatchStore WITH
  Slot <- PatchSlot, mem <- MemoryAsPromised, patch <- PatchHeld

PatchesAreAtomic == Store!Spec
=============================================================================
