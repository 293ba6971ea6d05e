-------------------------- MODULE PatchMemoryProofs --------------------------
(***************************************************************************)
(* Theorems about PatchMemory, for any threads, patches, backups, raw      *)
(* reads and writes, and both layers.  What HandleRegistryProofs proves of *)
(* a registry is used by instance, once for patches and once for backups.  *)
(***************************************************************************)
EXTENDS PatchMemory, TLAPS

PP == INSTANCE HandleRegistryProofs WITH
  Slot <- PatchSlot, Object <- Patches, MaxId <- MaxPatch,
  table <- ptable, nextId <- pnext, mutex <- pmutex,
  handle <- phandle, frame <- pframe, serial <- pserial

BP == INSTANCE HandleRegistryProofs WITH
  Slot <- BackupSlot, Object <- Backups, MaxId <- MaxBackup,
  table <- btable, nextId <- bnext, mutex <- bmutex,
  handle <- bhandle, frame <- bframe, serial <- bserial

(* The registries of the model and those of the proofs are the same.       *)
LEMMA SamePatchRegistry ==
  /\ P!Init => PP!Init
  /\ P!TypeOK <=> PP!TypeOK
  /\ P!TypeOK' <=> PP!TypeOK'
  /\ \A t : P!CreateLock(t) <=> PP!CreateLock(t)
  /\ \A t : P!CreateInsert(t) <=> PP!CreateInsert(t)
  /\ \A t : P!UseMissing(t) <=> PP!UseMissing(t)
  /\ \A t : P!UseLock(t) <=> PP!UseLock(t)
  /\ \A t : P!UseEnd(t) <=> PP!UseEnd(t)
  /\ \A t : P!FreeErase(t) <=> PP!FreeErase(t)
  /\ \A t, s, o : P!BeginCreate(t, s, o) <=> PP!BeginCreate(t, s, o)
  /\ \A t, s, m : P!BeginUse(t, s, m) <=> PP!BeginUse(t, s, m)
  /\ \A t, s : P!BeginFree(t, s) <=> PP!BeginFree(t, s)
  /\ \A s, d : P!CopyHandle(s, d) <=> PP!CopyHandle(s, d)
<1> USE DEF P!InCall, PP!InCall, P!Return, PP!Return, P!IdleFrame, PP!IdleFrame,
            P!Users, PP!Users, P!MayBorrow, PP!MayBorrow, P!MayBorrowMut,
            PP!MayBorrowMut, P!MayBorrowFor, PP!MayBorrowFor
<1>1. P!Init => PP!Init
  BY DEF P!Init, PP!Init, P!NullHandle, PP!NullHandle
<1>2. (P!TypeOK <=> PP!TypeOK) /\ (P!TypeOK' <=> PP!TypeOK')
  BY DEF P!TypeOK, PP!TypeOK, P!Entries, PP!Entries, P!Handles, PP!Handles, P!Frames,
         PP!Frames, P!PCs, PP!PCs
<1>3. ASSUME NEW t
      PROVE  /\ P!CreateLock(t) <=> PP!CreateLock(t)
             /\ P!CreateInsert(t) <=> PP!CreateInsert(t)
             /\ P!UseMissing(t) <=> PP!UseMissing(t)
             /\ P!UseLock(t) <=> PP!UseLock(t)
             /\ P!UseEnd(t) <=> PP!UseEnd(t)
             /\ P!FreeErase(t) <=> PP!FreeErase(t)
  BY DEF P!CreateLock, PP!CreateLock, P!CreateInsert, PP!CreateInsert, P!UseMissing,
         PP!UseMissing, P!UseLock, PP!UseLock, P!UseEnd, PP!UseEnd, P!FreeErase,
         PP!FreeErase, P!Cleared, PP!Cleared
<1>4. ASSUME NEW t, NEW s
      PROVE  P!BeginFree(t, s) <=> PP!BeginFree(t, s)
  BY DEF P!BeginFree, PP!BeginFree
<1>5. ASSUME NEW t, NEW s, NEW o
      PROVE  P!BeginCreate(t, s, o) <=> PP!BeginCreate(t, s, o)
  BY DEF P!BeginCreate, PP!BeginCreate, P!Cardinality, PP!Cardinality
<1>6. ASSUME NEW t, NEW s, NEW m
      PROVE  P!BeginUse(t, s, m) <=> PP!BeginUse(t, s, m)
  BY DEF P!BeginUse, PP!BeginUse
<1>7. ASSUME NEW s, NEW d
      PROVE  P!CopyHandle(s, d) <=> PP!CopyHandle(s, d)
  BY DEF P!CopyHandle, PP!CopyHandle
<1> QED
  BY <1>1, <1>2, <1>3, <1>4, <1>5, <1>6, <1>7

LEMMA SameBackupRegistry ==
  /\ B!Init => BP!Init
  /\ B!TypeOK <=> BP!TypeOK
  /\ B!TypeOK' <=> BP!TypeOK'
  /\ \A t : B!CreateLock(t) <=> BP!CreateLock(t)
  /\ \A t : B!CreateInsert(t) <=> BP!CreateInsert(t)
  /\ \A t : B!UseMissing(t) <=> BP!UseMissing(t)
  /\ \A t : B!UseLock(t) <=> BP!UseLock(t)
  /\ \A t : B!UseEnd(t) <=> BP!UseEnd(t)
  /\ \A t : B!FreeErase(t) <=> BP!FreeErase(t)
  /\ \A t, s, o : B!BeginCreate(t, s, o) <=> BP!BeginCreate(t, s, o)
  /\ \A t, s, m : B!BeginUse(t, s, m) <=> BP!BeginUse(t, s, m)
  /\ \A t, s : B!BeginFree(t, s) <=> BP!BeginFree(t, s)
  /\ \A s, d : B!CopyHandle(s, d) <=> BP!CopyHandle(s, d)
<1> USE DEF B!InCall, BP!InCall, B!Return, BP!Return, B!IdleFrame, BP!IdleFrame,
            B!Users, BP!Users, B!MayBorrow, BP!MayBorrow, B!MayBorrowMut,
            BP!MayBorrowMut, B!MayBorrowFor, BP!MayBorrowFor
<1>1. B!Init => BP!Init
  BY DEF B!Init, BP!Init, B!NullHandle, BP!NullHandle
<1>2. (B!TypeOK <=> BP!TypeOK) /\ (B!TypeOK' <=> BP!TypeOK')
  BY DEF B!TypeOK, BP!TypeOK, B!Entries, BP!Entries, B!Handles, BP!Handles, B!Frames,
         BP!Frames, B!PCs, BP!PCs
<1>3. ASSUME NEW t
      PROVE  /\ B!CreateLock(t) <=> BP!CreateLock(t)
             /\ B!CreateInsert(t) <=> BP!CreateInsert(t)
             /\ B!UseMissing(t) <=> BP!UseMissing(t)
             /\ B!UseLock(t) <=> BP!UseLock(t)
             /\ B!UseEnd(t) <=> BP!UseEnd(t)
             /\ B!FreeErase(t) <=> BP!FreeErase(t)
  BY DEF B!CreateLock, BP!CreateLock, B!CreateInsert, BP!CreateInsert, B!UseMissing,
         BP!UseMissing, B!UseLock, BP!UseLock, B!UseEnd, BP!UseEnd, B!FreeErase,
         BP!FreeErase, B!Cleared, BP!Cleared
<1>4. ASSUME NEW t, NEW s
      PROVE  B!BeginFree(t, s) <=> BP!BeginFree(t, s)
  BY DEF B!BeginFree, BP!BeginFree
<1>5. ASSUME NEW t, NEW s, NEW o
      PROVE  B!BeginCreate(t, s, o) <=> BP!BeginCreate(t, s, o)
  BY DEF B!BeginCreate, BP!BeginCreate, B!Cardinality, BP!Cardinality
<1>6. ASSUME NEW t, NEW s, NEW m
      PROVE  B!BeginUse(t, s, m) <=> BP!BeginUse(t, s, m)
  BY DEF B!BeginUse, BP!BeginUse
<1>7. ASSUME NEW s, NEW d
      PROVE  B!CopyHandle(s, d) <=> BP!CopyHandle(s, d)
  BY DEF B!CopyHandle, BP!CopyHandle
<1> QED
  BY <1>1, <1>2, <1>3, <1>4, <1>5, <1>6, <1>7

-----------------------------------------------------------------------------
PatchOps == {"modify", "restore", "inspect", "look"}
BackupOps == {"unsave", "inspect", "look"}

Jobs == [op : Ops, at : Nat, data : Seq(Byte), size : Nat, done : Nat, got : Seq(Byte)]

(* The first n of these bytes may stand at this address.                   *)
Fits(at, d, n) == \A k \in 1 .. n : d[k] \in Wanted(at + k - 1)
Kept(o) == Fits(o.at, o.orig, Len(o.orig))

(* What a work on memory carries fits where it reads or writes.            *)
WorkOK(w) ==
  /\ w \in Jobs /\ w.done <= w.size /\ Span(w.at, w.size) \subseteq Addr
  /\ w.op \in Readers => Len(w.got) = w.done /\ Fits(w.at, w.got, w.done)
  /\ w.op \in Writers => Len(w.data) = w.size /\ Fits(w.at, w.data, w.size)
  /\ w.op = "capture" =>
       \E r \in Requests : w.at = r.at /\ w.data = r.new /\ w.size = Len(r.new)
  /\ w.op = "save" => \E r \in Regions : w.at = r.at /\ w.size = r.size
  /\ w.op = "write" => Writes # {}

(* What a call is about to do is what the object it found says.            *)
Bare(w) == [w EXCEPT !.done = 0, !.got = <<>>]

PatchPlace(t) ==
  /\ pframe[t].pc = "call" => job[t].op \in PatchOps /\ job[t].size = 0
  /\ pframe[t].pc = "using" =>
       /\ job[t].op \in PatchOps
       /\ Bare(job[t]) = PatchWork(job[t].op, ptable[pframe[t].id].obj)
  /\ pframe[t].pc \in {"create", "insert"} => Kept(pframe[t].obj)
  /\ job[t].op \in {"modify", "restore"} => pframe[t].pc \in {"call", "using"}

BackupPlace(t) ==
  /\ bframe[t].pc = "call" => job[t].op \in BackupOps /\ job[t].size = 0
  /\ bframe[t].pc = "using" =>
       /\ job[t].op \in BackupOps
       /\ Bare(job[t]) = BackupWork(job[t].op, btable[bframe[t].id].obj)
  /\ bframe[t].pc \in {"create", "insert"} => Kept(bframe[t].obj)
  /\ job[t].op = "unsave" => bframe[t].pc \in {"call", "using"}

(* A thread is in one call.                                                *)
Alone(t) ==
  /\ pframe[t].pc = "idle" \/ bframe[t].pc = "idle"
  /\ job[t].op \in {"capture", "save", "read", "write"} =>
       pframe[t].pc = "idle" /\ bframe[t].pc = "idle"

ThreadInv(t) == WorkOK(job[t]) /\ PatchPlace(t) /\ BackupPlace(t) /\ Alone(t)

TableInv ==
  /\ \A i \in DOMAIN ptable : Kept(ptable[i].obj)
  /\ \A i \in DOMAIN btable : Kept(btable[i].obj)

(* NoForeignByte is not inductive: bytes travel through captures, objects  *)
(* and restores, and must fit at every stop.  JobBacked needs of the       *)
(* registries that an entry under a call stays.                            *)
IInv ==
  /\ PP!IInv
  /\ BP!IInv
  /\ mem \in [Addr -> Byte]
  /\ NoForeignByte
  /\ TableInv
  /\ job = [t \in Thread |-> job[t]]
  /\ \A t \in Thread : ThreadInv(t)

-----------------------------------------------------------------------------
(* What a caller asked for fits where it asked for it.                     *)
LEMMA AskedFits ==
  ASSUME NEW r \in Requests \cup Writes
  PROVE  /\ r.at \in Nat /\ r.new \in Seq(Byte) /\ Len(r.new) \in Nat \ {0}
         /\ Span(r.at, Len(r.new)) \subseteq Addr
         /\ Fits(r.at, r.new, Len(r.new))
<1>1. r.at \in Nat /\ r.new \in Seq(Byte) /\ r.new # <<>>
  BY MemoryAssumption
<1>2. Len(r.new) \in Nat \ {0}
  BY <1>1
<1>3. ASSUME NEW k \in 1 .. Len(r.new) PROVE r.new[k] \in Wanted(r.at + k - 1)
  <2>1. r.at + k - 1 \in Span(r.at, Len(r.new)) /\ (r.at + k - 1) - r.at + 1 = k
    BY <1>1, <1>2 DEF Span
  <2> QED
    BY <2>1 DEF Wanted
<1> QED
  BY <1>1, <1>2, <1>3, MemoryAssumption DEF Fits

LEMMA PatchShape ==
  ASSUME NEW o \in Patches
  PROVE  /\ o.at \in Nat /\ o.new \in Seq(Byte) /\ o.orig \in Seq(Byte)
         /\ Len(o.orig) = Len(o.new) /\ Len(o.new) \in Nat
         /\ Span(o.at, Len(o.new)) \subseteq Addr
         /\ Fits(o.at, o.new, Len(o.new))
<1>1. PICK r \in Requests : o \in [at : {r.at}, new : {r.new}, orig : Bytes(Len(r.new))]
  BY DEF Patches
<1>2. o.at = r.at /\ o.new = r.new /\ o.orig \in Bytes(Len(r.new))
  BY <1>1
<1>3. o.orig \in Seq(Byte) /\ Len(o.orig) = Len(r.new)
  BY <1>2, AskedFits DEF Bytes
<1> QED
  BY <1>2, <1>3, AskedFits

LEMMA BackupShape ==
  ASSUME NEW o \in Backups
  PROVE  /\ o.at \in Nat /\ o.orig \in Seq(Byte) /\ Len(o.orig) \in Nat
         /\ Span(o.at, Len(o.orig)) \subseteq Addr
<1>1. PICK r \in Regions : o \in [at : {r.at}, orig : Bytes(r.size)]
  BY DEF Backups
<1>2. o.at = r.at /\ o.orig \in Bytes(r.size) /\ r.at \in Nat /\ r.size \in Nat
  BY <1>1, MemoryAssumption
<1>3. o.orig \in Seq(Byte) /\ Len(o.orig) = r.size
  BY <1>2 DEF Bytes
<1> QED
  BY <1>2, <1>3, MemoryAssumption

(* A work that has not begun.                                              *)
LEMMA NewWorkOK ==
  ASSUME NEW op \in PatchOps \cup BackupOps \cup {"none", "read"}, NEW at \in Nat,
         NEW data \in Seq(Byte), NEW n \in Nat, Span(at, n) \subseteq Addr,
         op \in Writers => Len(data) = n /\ Fits(at, data, n)
  PROVE  /\ WorkOK(Work(op, at, data, n))
         /\ Bare(Work(op, at, data, n)) = Work(op, at, data, n)
<1> DEFINE w == Work(op, at, data, n)
<1>1. /\ w.op = op /\ w.at = at /\ w.data = data /\ w.size = n
      /\ w.done = 0 /\ w.got = <<>>
  BY DEF Work
<1>2. w \in Jobs
  BY DEF Work, Jobs, Ops, Readers, Writers, PatchOps, BackupOps
<1>3. Len(w.got) = w.done /\ Fits(w.at, w.got, w.done)
  BY <1>1 DEF Fits
<1>4. WorkOK(w)
  BY <1>1, <1>2, <1>3 DEF WorkOK, PatchOps, BackupOps
<1>5. Bare(w) = w
  <2>1. [w EXCEPT !.done = 0] = w
    BY DEF Work
  <2>2. [w EXCEPT !.got = <<>>] = w
    BY DEF Work
  <2> QED
    BY <2>1, <2>2 DEF Bare
<1> QED
  BY <1>4, <1>5

(* No bytes: a call before it has found its object, and "look".            *)
LEMMA EmptyWorkOK ==
  ASSUME NEW op \in PatchOps \cup BackupOps \cup {"none"}
  PROVE  /\ WorkOK(Work(op, 0, <<>>, 0))
         /\ Bare(Work(op, 0, <<>>, 0)) = Work(op, 0, <<>>, 0)
<1>1. <<>> \in Seq(Byte) /\ Len(<<>>) = 0 /\ Span(0, 0) \subseteq Addr /\ Fits(0, <<>>, 0)
  BY DEF Span, Fits
<1> QED
  BY <1>1, NewWorkOK

LEMMA PatchWorkOK ==
  ASSUME NEW o \in Patches, Kept(o), NEW op \in PatchOps
  PROVE  /\ WorkOK(PatchWork(op, o))
         /\ Bare(PatchWork(op, o)) = PatchWork(op, o)
         /\ PatchWork(op, o).op = op
<1>1. /\ o.at \in Nat /\ o.new \in Seq(Byte) /\ o.orig \in Seq(Byte)
      /\ Len(o.orig) = Len(o.new) /\ Len(o.new) \in Nat
      /\ Span(o.at, Len(o.new)) \subseteq Addr
      /\ Fits(o.at, o.new, Len(o.new))
  BY PatchShape
<1>2. <<>> \in Seq(Byte)
  OBVIOUS
<1>3. CASE op = "modify"
  BY <1>1, <1>3, NewWorkOK DEF PatchWork, Work
<1>4. CASE op = "restore"
  BY <1>1, <1>4, NewWorkOK DEF PatchWork, Work, Kept
<1>5. CASE op = "inspect"
  BY <1>1, <1>2, <1>5, NewWorkOK DEF PatchWork, Work, Writers
<1>6. CASE op = "look"
  BY <1>6, EmptyWorkOK DEF PatchWork, Work
<1> QED
  BY <1>3, <1>4, <1>5, <1>6 DEF PatchOps

LEMMA BackupWorkOK ==
  ASSUME NEW o \in Backups, Kept(o), NEW op \in BackupOps
  PROVE  /\ WorkOK(BackupWork(op, o))
         /\ Bare(BackupWork(op, o)) = BackupWork(op, o)
         /\ BackupWork(op, o).op = op
<1>1. /\ o.at \in Nat /\ o.orig \in Seq(Byte) /\ Len(o.orig) \in Nat
      /\ Span(o.at, Len(o.orig)) \subseteq Addr
  BY BackupShape
<1>2. <<>> \in Seq(Byte)
  OBVIOUS
<1>3. CASE op = "unsave"
  BY <1>1, <1>3, NewWorkOK DEF BackupWork, Work, Kept
<1>4. CASE op = "inspect"
  BY <1>1, <1>2, <1>4, NewWorkOK DEF BackupWork, Work, Writers
<1>5. CASE op = "look"
  BY <1>5, EmptyWorkOK DEF BackupWork, Work
<1> QED
  BY <1>3, <1>4, <1>5 DEF BackupOps

(* What a finished capture registers is a patch, what a save does a backup. *)
LEMMA CapturedPatch ==
  ASSUME NEW t \in Thread, WorkOK(job[t]), Does(t, {"capture"}), Finished(t)
  PROVE  /\ [at |-> job[t].at, new |-> job[t].data, orig |-> job[t].got] \in Patches
         /\ Kept([at |-> job[t].at, new |-> job[t].data, orig |-> job[t].got])
<1>1. PICK r \in Requests :
        job[t].at = r.at /\ job[t].data = r.new /\ job[t].size = Len(r.new)
  BY DEF WorkOK, Does
<1>2. /\ job[t].got \in Seq(Byte) /\ Len(job[t].got) = Len(r.new)
      /\ Fits(job[t].at, job[t].got, Len(job[t].got))
  BY <1>1 DEF WorkOK, Does, Finished, Readers, Jobs
<1>3. job[t].got \in Bytes(Len(r.new))
  BY <1>2 DEF Bytes
<1> QED
  BY <1>1, <1>2, <1>3 DEF Patches, Kept

LEMMA SavedBackup ==
  ASSUME NEW t \in Thread, WorkOK(job[t]), Does(t, {"save"}), Finished(t)
  PROVE  /\ [at |-> job[t].at, orig |-> job[t].got] \in Backups
         /\ Kept([at |-> job[t].at, orig |-> job[t].got])
<1>1. PICK r \in Regions : job[t].at = r.at /\ job[t].size = r.size
  BY DEF WorkOK, Does
<1>2. /\ job[t].got \in Seq(Byte) /\ Len(job[t].got) = r.size
      /\ Fits(job[t].at, job[t].got, Len(job[t].got))
  BY <1>1 DEF WorkOK, Does, Finished, Readers, Jobs
<1>3. job[t].got \in Bytes(r.size)
  BY <1>2 DEF Bytes
<1> QED
  BY <1>1, <1>2, <1>3 DEF Backups, Kept

(* Every step is a step of each registry, or none of it.                   *)
LEMMA RegistrySteps ==
  IInv /\ [Next]_vars => [PP!Next]_(PP!vars) /\ [BP!Next]_(BP!vars)
<1> SUFFICES ASSUME IInv, Next PROVE [PP!Next]_(PP!vars) /\ [BP!Next]_(BP!vars)
  BY DEF vars, pvars, bvars, PP!vars, BP!vars
<1>1. ASSUME NEW t \in Thread, NEW s \in PatchSlot, RegisterPatch(t, s) PROVE PP!Next
  <2>1. [at |-> job[t].at, new |-> job[t].data, orig |-> job[t].got] \in Patches
    BY <1>1, CapturedPatch DEF RegisterPatch, IInv, ThreadInv
  <2> QED
    BY <1>1, <2>1, SamePatchRegistry DEF RegisterPatch, PP!Next, PP!Begin
<1>2. ASSUME NEW t \in Thread, NEW s \in BackupSlot, RegisterBackup(t, s) PROVE BP!Next
  <2>1. [at |-> job[t].at, orig |-> job[t].got] \in Backups
    BY <1>2, SavedBackup DEF RegisterBackup, IInv, ThreadInv
  <2> QED
    BY <1>2, <2>1, SameBackupRegistry DEF RegisterBackup, BP!Next, BP!Begin
<1>3. ASSUME NEW t \in Thread, NEW s \in PatchSlot, NEW op, BeginPatchUse(t, s, op) PROVE PP!Next
  BY <1>3, SamePatchRegistry DEF BeginPatchUse, PatchMode, PP!Next, PP!Begin
<1>4. ASSUME NEW t \in Thread, NEW s \in BackupSlot, NEW op, BeginBackupUse(t, s, op) PROVE BP!Next
  BY <1>4, SameBackupRegistry DEF BeginBackupUse, BackupMode, BP!Next, BP!Begin
<1>5. ASSUME NEW t \in Thread, NEW s \in PatchSlot, BeginPatchFree(t, s) PROVE PP!Next
  BY <1>5, SamePatchRegistry DEF BeginPatchFree, PP!Next, PP!Begin
<1>6. ASSUME NEW t \in Thread, NEW s \in BackupSlot, BeginBackupFree(t, s) PROVE BP!Next
  BY <1>6, SameBackupRegistry DEF BeginBackupFree, BP!Next, BP!Begin
<1>7. ASSUME NEW t \in Thread,
             PatchFound(t) \/ PatchDone(t) \/ PatchMissing(t) \/ PatchBookkeeping(t)
      PROVE  PP!Next
  BY <1>7, SamePatchRegistry DEF PatchFound, PatchDone, PatchMissing, PatchBookkeeping,
     PP!Next, PP!Step
<1>8. ASSUME NEW t \in Thread,
             BackupFound(t) \/ BackupDone(t) \/ BackupMissing(t) \/ BackupBookkeeping(t)
      PROVE  BP!Next
  BY <1>8, SameBackupRegistry DEF BackupFound, BackupDone, BackupMissing, BackupBookkeeping,
     BP!Next, BP!Step
<1>9. CASE CopyNext
  <2>1. CASE \E s, d \in PatchSlot : P!CopyHandle(s, d) /\ UNCHANGED <<mem, bvars, job>>
    BY <2>1, SamePatchRegistry DEF PP!Next, bvars, BP!vars
  <2>2. CASE \E s, d \in BackupSlot : B!CopyHandle(s, d) /\ UNCHANGED <<mem, pvars, job>>
    BY <2>2, SameBackupRegistry DEF BP!Next, pvars, PP!vars
  <2> QED
    BY <1>9, <2>1, <2>2 DEF CopyNext
<1>10. ASSUME NEW t \in Thread, PatchNext(t) PROVE [PP!Next]_(PP!vars) /\ UNCHANGED BP!vars
  BY <1>10, <1>1, <1>3, <1>5, <1>7 DEF PatchNext, StartPatch, RegisterPatch, BeginPatchUse,
     PatchFound, PatchDone, PatchMissing, BeginPatchFree, PatchBookkeeping, pvars, bvars,
     PP!vars, BP!vars
<1>11. ASSUME NEW t \in Thread, BackupNext(t) PROVE [BP!Next]_(BP!vars) /\ UNCHANGED PP!vars
  BY <1>11, <1>2, <1>4, <1>6, <1>8 DEF BackupNext, StartBackup, RegisterBackup, BeginBackupUse,
     BackupFound, BackupDone, BackupMissing, BeginBackupFree, BackupBookkeeping, pvars, bvars,
     PP!vars, BP!vars
<1>12. ASSUME NEW t \in Thread, MemoryNext(t) PROVE UNCHANGED <<PP!vars, BP!vars>>
  BY <1>12 DEF MemoryNext, ReadByte, WriteByte, StartRead, StartWrite, EndRaw, Discard, pvars,
     bvars, PP!vars, BP!vars
<1> QED
  BY <1>9, <1>10, <1>11, <1>12 DEF Next

(* What the registries give for a step: their invariant after it, and that *)
(* no entry is written over.                                               *)
LEMMA RegistryFacts ==
  ASSUME IInv, [Next]_vars
  PROVE  /\ PP!IInv' /\ BP!IInv'
         /\ \A i \in DOMAIN ptable \cap DOMAIN ptable' : ptable'[i] = ptable[i]
         /\ \A i \in DOMAIN btable \cap DOMAIN btable' : btable'[i] = btable[i]
<1>1. PP!IInv /\ BP!IInv /\ [PP!Next]_(PP!vars) /\ [BP!Next]_(BP!vars)
  BY RegistrySteps DEF IInv
<1>2. /\ NoThread \notin Thread /\ NoSlot \notin PatchSlot /\ NoSlot \notin BackupSlot
      /\ NoObject \notin Patches /\ NoObject \notin Backups
      /\ SysCopies \in BOOLEAN /\ MaxPatch \in Nat /\ MaxBackup \in Nat
  BY MemoryAssumption
<1>3. PP!IInv' /\ BP!IInv'
  BY <1>1, <1>2, PP!NextIInv, BP!NextIInv
<1>4. [PP!Final]_(PP!vars) /\ [BP!Final]_(BP!vars)
  BY <1>1, <1>2, PP!NextFinal, BP!NextFinal
<1> QED
  BY <1>3, <1>4 DEF PP!Final, BP!Final, PP!vars, BP!vars

(* A thread that takes no step keeps what it relies on.                    *)
LEMMA OthersKeep ==
  ASSUME IInv, [Next]_vars, NEW u \in Thread,
         job'[u] = job[u], pframe'[u] = pframe[u], bframe'[u] = bframe[u]
  PROVE  ThreadInv(u)'
<1>1. ThreadInv(u)
  BY DEF IInv
<1>2. pframe[u].pc = "using" => ptable'[pframe[u].id] = ptable[pframe[u].id]
  BY RegistryFacts DEF IInv, PP!IInv, PP!CursorInv, PP!InCall
<1>3. bframe[u].pc = "using" => btable'[bframe[u].id] = btable[bframe[u].id]
  BY RegistryFacts DEF IInv, BP!IInv, BP!CursorInv, BP!InCall
<1>4. WorkOK(job[u])' /\ Alone(u)'
  BY <1>1 DEF ThreadInv, WorkOK, Alone, Fits, Wanted, Span
<1>5. PatchPlace(u)'
  BY <1>1, <1>2 DEF ThreadInv, PatchPlace, Kept, Fits, Wanted, Span
<1>6. BackupPlace(u)'
  BY <1>1, <1>3 DEF ThreadInv, BackupPlace, Kept, Fits, Wanted, Span
<1> QED
  BY <1>4, <1>5, <1>6 DEF ThreadInv

(* What is left to show of a step of one thread.                           *)
LEMMA StepIInv ==
  ASSUME IInv, [Next]_vars, NEW t \in Thread, ThreadInv(t)', NEW j, job' = [job EXCEPT ![t] = j],
         \A u \in Thread \ {t} : pframe'[u] = pframe[u] /\ bframe'[u] = bframe[u],
         mem' \in [Addr -> Byte], NoForeignByte', TableInv'
  PROVE  IInv'
<1>1. job' = [u \in Thread |-> job'[u]] /\ \A u \in Thread \ {t} : job'[u] = job[u]
  BY DEF IInv
<1>2. \A u \in Thread : ThreadInv(u)'
  BY <1>1, OthersKeep
<1> QED
  BY <1>1, <1>2, RegistryFacts DEF IInv

-----------------------------------------------------------------------------
(* The state's functions, and that a caller's call is in its place.        *)
LEMMA Shapes ==
  ASSUME IInv
  PROVE  /\ pframe \in [Thread -> PP!Frames] /\ bframe \in [Thread -> BP!Frames]
         /\ job = [u \in Thread |-> job[u]]
         /\ \A i \in DOMAIN ptable : ptable[i].obj \in Patches
         /\ \A i \in DOMAIN btable : btable[i].obj \in Backups
  BY DEF IInv, PP!IInv, BP!IInv, PP!TypeOK, BP!TypeOK, PP!Entries, BP!Entries

LEMMA SameWork ==
  ASSUME NEW t \in Thread, NEW j, WorkOK(j), job'[t] = j
  PROVE  WorkOK(job[t])'
  BY DEF WorkOK, Fits, Wanted, Span

(* A step of a thread that is in no registry call, on no table.            *)
LEMMA IdleStep ==
  ASSUME IInv, [Next]_vars, NEW t \in Thread, NEW j, WorkOK(j), Set(t, j),
         pframe[t].pc = "idle", bframe[t].pc = "idle",
         j.op \notin {"modify", "restore", "unsave"},
         UNCHANGED <<mem, pvars, bvars>>
  PROVE  IInv'
<1>1. job'[t] = j
  BY Shapes DEF Set
<1>2. WorkOK(job[t])'
  BY <1>1, SameWork
<1>3. PatchPlace(t)' /\ BackupPlace(t)' /\ Alone(t)'
  BY <1>1 DEF PatchPlace, BackupPlace, Alone, pvars, bvars
<1>4. NoForeignByte' /\ TableInv' /\ mem' \in [Addr -> Byte]
  BY DEF IInv, NoForeignByte, Wanted, Span, TableInv, Kept, Fits, pvars, bvars
<1> QED
  BY <1>2, <1>3, <1>4, StepIInv DEF ThreadInv, Set, pvars, bvars

(* A step of a thread in the patch registry that leaves the memory alone.  *)
LEMMA PatchStep ==
  ASSUME IInv, [Next]_vars, NEW t \in Thread, NEW j, NEW f, WorkOK(j), Set(t, j),
         pframe' = [pframe EXCEPT ![t] = f],
         UNCHANGED <<mem, bvars>>,
         bframe[t].pc = "idle",
         \A i \in DOMAIN ptable' : Kept(ptable'[i].obj),
         j.op # "unsave",
         f.pc = "call" => j.op \in PatchOps /\ j.size = 0,
         f.pc = "using" => /\ j.op \in PatchOps
                           /\ Bare(j) = PatchWork(j.op, ptable'[f.id].obj),
         f.pc \in {"create", "insert"} => Kept(f.obj),
         j.op \in {"modify", "restore"} => f.pc \in {"call", "using"},
         j.op \in {"capture", "save", "read", "write"} => f.pc = "idle"
  PROVE  IInv'
<1>1. job'[t] = j /\ pframe'[t] = f /\ bframe'[t] = bframe[t]
  BY Shapes DEF Set, bvars
<1>2. WorkOK(job[t])'
  BY <1>1, SameWork
<1>3. PatchPlace(t)'
  BY <1>1 DEF PatchPlace, Kept, Fits, Wanted, Span
<1>4. BackupPlace(t)' /\ Alone(t)'
  BY <1>1 DEF BackupPlace, Alone
<1>5. NoForeignByte' /\ mem' \in [Addr -> Byte]
  BY DEF IInv, NoForeignByte, Wanted, Span
<1>6. TableInv'
  BY DEF IInv, TableInv, Kept, Fits, Wanted, Span, bvars
<1>7. \A u \in Thread \ {t} : pframe'[u] = pframe[u] /\ bframe'[u] = bframe[u]
  BY Shapes DEF bvars
<1> QED
  BY <1>2, <1>3, <1>4, <1>5, <1>6, <1>7, StepIInv DEF ThreadInv, Set

LEMMA BackupStep ==
  ASSUME IInv, [Next]_vars, NEW t \in Thread, NEW j, NEW f, WorkOK(j), Set(t, j),
         bframe' = [bframe EXCEPT ![t] = f],
         UNCHANGED <<mem, pvars>>,
         pframe[t].pc = "idle",
         \A i \in DOMAIN btable' : Kept(btable'[i].obj),
         j.op \notin {"modify", "restore"},
         f.pc = "call" => j.op \in BackupOps /\ j.size = 0,
         f.pc = "using" => /\ j.op \in BackupOps
                           /\ Bare(j) = BackupWork(j.op, btable'[f.id].obj),
         f.pc \in {"create", "insert"} => Kept(f.obj),
         j.op = "unsave" => f.pc \in {"call", "using"},
         j.op \in {"capture", "save", "read", "write"} => f.pc = "idle"
  PROVE  IInv'
<1>1. job'[t] = j /\ bframe'[t] = f /\ pframe'[t] = pframe[t]
  BY Shapes DEF Set, pvars
<1>2. WorkOK(job[t])'
  BY <1>1, SameWork
<1>3. BackupPlace(t)'
  BY <1>1 DEF BackupPlace, Kept, Fits, Wanted, Span
<1>4. PatchPlace(t)' /\ Alone(t)'
  BY <1>1 DEF PatchPlace, Alone
<1>5. NoForeignByte' /\ mem' \in [Addr -> Byte]
  BY DEF IInv, NoForeignByte, Wanted, Span
<1>6. TableInv'
  BY DEF IInv, TableInv, Kept, Fits, Wanted, Span, pvars
<1>7. \A u \in Thread \ {t} : bframe'[u] = bframe[u] /\ pframe'[u] = pframe[u]
  BY Shapes DEF pvars
<1> QED
  BY <1>2, <1>3, <1>4, <1>5, <1>6, <1>7, StepIInv DEF ThreadInv, Set

-----------------------------------------------------------------------------
(* The empty program: nothing registered, the memory as loaded.            *)
LEMMA InitIInv == Init => IInv
<1> SUFFICES ASSUME Init PROVE IInv
  OBVIOUS
<1>1. PP!IInv /\ BP!IInv
  BY SamePatchRegistry, SameBackupRegistry, PP!InitIInv, BP!InitIInv, MemoryAssumption
     DEF Init
<1>2. mem \in [Addr -> Byte] /\ NoForeignByte
  BY MemoryAssumption DEF Init, NoForeignByte, Wanted
<1>3. TableInv
  BY DEF Init, TableInv, P!Init, B!Init
<1>4. job = [t \in Thread |-> job[t]]
  BY DEF Init
<1>5. ASSUME NEW t \in Thread PROVE ThreadInv(t)
  <2>1. job[t] = NoWork /\ pframe[t].pc = "idle" /\ bframe[t].pc = "idle"
    BY DEF Init, P!Init, B!Init, P!IdleFrame, B!IdleFrame
  <2>2. WorkOK(job[t]) /\ job[t].op = "none"
    BY <2>1, EmptyWorkOK DEF NoWork, Work
  <2> QED
    BY <2>1, <2>2 DEF ThreadInv, PatchPlace, BackupPlace, Alone
<1> QED
  BY <1>1, <1>2, <1>3, <1>4, <1>5 DEF IInv

(* A byte read in its range is one that may stand there.                   *)
LEMMA ReadByteIInv ==
  ASSUME IInv, [Next]_vars, NEW t \in Thread, ReadByte(t)
  PROVE  IInv'
<1> DEFINE w == job[t]
           j == [w EXCEPT !.done = @ + 1, !.got = Append(@, mem[w.at + w.done])]
<1>1. WorkOK(w) /\ PatchPlace(t) /\ BackupPlace(t) /\ Alone(t)
  BY DEF IInv, ThreadInv
<1>2. w \in Jobs /\ w.op \in Readers /\ w.done < w.size /\ w.op \notin Writers
  BY <1>1 DEF WorkOK, ReadByte, Does, Finished, Jobs, Readers, Writers
<1>3. w.at + w.done \in Addr
  BY <1>1, <1>2 DEF WorkOK, Span, Jobs
<1>4. mem[w.at + w.done] \in Byte /\ mem[w.at + w.done] \in Wanted(w.at + w.done)
  BY <1>3 DEF IInv, NoForeignByte
<1>5. /\ j \in Jobs /\ j.op = w.op /\ j.at = w.at /\ j.data = w.data /\ j.size = w.size
      /\ j.done = w.done + 1 /\ j.got = Append(w.got, mem[w.at + w.done])
  <2> DEFINE v == [w EXCEPT !.done = @ + 1]
             g == Append(w.got, mem[w.at + w.done])
  <2>1. /\ v \in Jobs /\ v.op = w.op /\ v.at = w.at /\ v.data = w.data /\ v.size = w.size
        /\ v.done = w.done + 1 /\ v.got = w.got
    BY <1>2 DEF Jobs
  <2>2. g \in Seq(Byte)
    BY <1>2, <1>4 DEF Jobs
  <2>3. j = [v EXCEPT !.got = g]
    OBVIOUS
  <2> HIDE DEF v, g
  <2>4. /\ [v EXCEPT !.got = g] \in Jobs /\ [v EXCEPT !.got = g].op = v.op
        /\ [v EXCEPT !.got = g].at = v.at /\ [v EXCEPT !.got = g].data = v.data
        /\ [v EXCEPT !.got = g].size = v.size /\ [v EXCEPT !.got = g].done = v.done
        /\ [v EXCEPT !.got = g].got = g
    BY <2>1, <2>2 DEF Jobs
  <2> QED
    BY <2>1, <2>3, <2>4 DEF g
<1>6. Len(j.got) = j.done /\ Fits(j.at, j.got, j.done)
  <2>1. Len(w.got) = w.done /\ Fits(w.at, w.got, w.done) /\ w.got \in Seq(Byte)
        /\ w.done \in Nat /\ w.at \in Nat
    BY <1>1, <1>2 DEF WorkOK, Jobs
  <2>2. ASSUME NEW k \in 1 .. w.done + 1 PROVE j.got[k] \in Wanted(w.at + k - 1)
    <3>1. CASE k = w.done + 1
      <4>1. j.got[k] = mem[w.at + w.done] /\ w.at + k - 1 = w.at + w.done
        BY <1>5, <2>1, <3>1
      <4> QED
        BY <1>4, <4>1
    <3>2. CASE k \in 1 .. w.done
      BY <1>5, <2>1, <3>2 DEF Fits
    <3> QED
      BY <2>1, <3>1, <3>2
  <2> QED
    BY <1>5, <2>1, <2>2 DEF Fits
<1>7. WorkOK(j)
  BY <1>1, <1>2, <1>5, <1>6 DEF WorkOK, Jobs
<1>8. Bare(j) = Bare(w)
  BY <1>2 DEF Bare, Jobs
<1>9. job'[t] = j /\ pframe' = pframe /\ bframe' = bframe /\ ptable' = ptable /\ btable' = btable
      /\ mem' = mem
  BY Shapes DEF ReadByte, Set, pvars, bvars
<1> HIDE DEF j
<1>10. ThreadInv(t)'
  <2>1. WorkOK(job[t])'
    BY <1>7, <1>9, SameWork
  <2>2. PatchPlace(t)' /\ BackupPlace(t)' /\ Alone(t)'
    BY <1>1, <1>5, <1>8, <1>9 DEF PatchPlace, BackupPlace, Alone, Kept, Fits, Wanted, Span
  <2> QED
    BY <2>1, <2>2 DEF ThreadInv
<1>11. NoForeignByte' /\ TableInv' /\ mem' \in [Addr -> Byte]
  BY <1>9 DEF IInv, NoForeignByte, Wanted, Span, TableInv, Kept, Fits
<1>12. job' = [job EXCEPT ![t] = j]
  BY DEF ReadByte, Set, j
<1> QED
  BY <1>9, <1>10, <1>11, <1>12, StepIInv

(* A byte written in its range is one that may stand there.                *)
LEMMA WriteByteIInv ==
  ASSUME IInv, [Next]_vars, NEW t \in Thread, WriteByte(t)
  PROVE  IInv'
<1> DEFINE w == job[t]
           a == w.at + w.done
           j == [w EXCEPT !.done = @ + 1]
<1>1. WorkOK(w) /\ PatchPlace(t) /\ BackupPlace(t) /\ Alone(t)
  BY DEF IInv, ThreadInv
<1>2. w \in Jobs /\ w.op \in Writers /\ w.done < w.size /\ w.op \notin Readers
  BY <1>1 DEF WorkOK, WriteByte, Does, Finished, Jobs, Readers, Writers
<1>3. a \in Addr
  BY <1>1, <1>2 DEF WorkOK, Span, Jobs
<1>4. w.data[w.done + 1] \in Byte /\ w.data[w.done + 1] \in Wanted(a)
  <2>1. /\ w.data \in Seq(Byte) /\ Len(w.data) = w.size /\ Fits(w.at, w.data, w.size)
        /\ w.done \in Nat /\ w.size \in Nat /\ w.at \in Nat
    BY <1>1, <1>2 DEF WorkOK, Jobs
  <2>2. w.done + 1 \in 1 .. w.size /\ w.at + (w.done + 1) - 1 = a
    BY <1>2, <2>1
  <2> QED
    BY <2>1, <2>2 DEF Fits
<1>5. /\ j \in Jobs /\ j.op = w.op /\ j.at = w.at /\ j.data = w.data /\ j.size = w.size
      /\ j.done = w.done + 1 /\ j.got = w.got
  BY <1>2 DEF Jobs
<1>6. WorkOK(j)
  BY <1>1, <1>2, <1>5 DEF WorkOK, Jobs
<1>7. Bare(j) = Bare(w)
  BY <1>2 DEF Bare, Jobs
<1>8. job'[t] = j /\ pframe' = pframe /\ bframe' = bframe /\ ptable' = ptable /\ btable' = btable
      /\ mem' = [mem EXCEPT ![a] = w.data[w.done + 1]]
  BY Shapes DEF WriteByte, Set, pvars, bvars
<1> HIDE DEF j, a
<1>9. ThreadInv(t)'
  <2>1. WorkOK(job[t])'
    BY <1>6, <1>8, SameWork
  <2>2. PatchPlace(t)' /\ BackupPlace(t)' /\ Alone(t)'
    BY <1>1, <1>5, <1>7, <1>8 DEF PatchPlace, BackupPlace, Alone, Kept, Fits, Wanted, Span
  <2> QED
    BY <2>1, <2>2 DEF ThreadInv
<1>10. mem' \in [Addr -> Byte]
  BY <1>3, <1>4, <1>8 DEF IInv
<1>11. NoForeignByte'
  <2>1. \A x \in Addr : mem'[x] \in Wanted(x)
    BY <1>3, <1>4, <1>8 DEF IInv, NoForeignByte
  <2> QED
    BY <2>1 DEF NoForeignByte, Wanted, Span
<1>12. TableInv'
  BY <1>8 DEF IInv, TableInv, Kept, Fits, Wanted, Span
<1>13. job' = [job EXCEPT ![t] = j]
  BY DEF WriteByte, Set, j
<1> QED
  BY <1>8, <1>9, <1>10, <1>11, <1>12, <1>13, StepIInv

-----------------------------------------------------------------------------
(* A thread that is outside every call, and one that is in the call its    *)
(* work belongs to.                                                        *)
LEMMA Places ==
  ASSUME IInv, NEW t \in Thread
  PROVE  /\ Free(t) => pframe[t].pc = "idle" /\ bframe[t].pc = "idle"
         /\ Does(t, {"capture", "save", "read", "write"}) =>
              pframe[t].pc = "idle" /\ bframe[t].pc = "idle"
         /\ pframe[t].pc # "idle" => bframe[t].pc = "idle"
         /\ bframe[t].pc # "idle" => pframe[t].pc = "idle"
  BY DEF IInv, ThreadInv, Alone, Free, Does, P!InCall, B!InCall

(* The steps of mem_read, mem_write, and of a creation before it registers. *)
LEMMA OutsideIInv ==
  ASSUME IInv, [Next]_vars, NEW t \in Thread,
         \/ \E r \in Reads : StartRead(t, r)
         \/ \E r \in Writes : StartWrite(t, r)
         \/ \E r \in Requests : StartPatch(t, r)
         \/ \E r \in Regions : StartBackup(t, r)
         \/ EndRaw(t)
         \/ Discard(t)
  PROVE  IInv'
<1>1. <<>> \in Seq(Byte) /\ Len(<<>>) = 0
  OBVIOUS
<1>2. ASSUME NEW r \in Regions \cup Reads
      PROVE  r.at \in Nat /\ r.size \in Nat /\ Span(r.at, r.size) \subseteq Addr
  BY MemoryAssumption
<1>3. CASE \E r \in Reads : StartRead(t, r)
  <2>1. PICK r \in Reads : StartRead(t, r)
    BY <1>3
  <2>2. WorkOK(Work("read", r.at, <<>>, r.size))
    BY <1>1, <1>2, NewWorkOK DEF Writers
  <2> QED
    BY <2>1, <2>2, Places, IdleStep DEF StartRead, Work
<1>4. CASE \E r \in Writes : StartWrite(t, r)
  <2>1. PICK r \in Writes : StartWrite(t, r)
    BY <1>4
  <2>2. WorkOK(Work("write", r.at, r.new, Len(r.new)))
    BY AskedFits DEF WorkOK, Work, Jobs, Ops, Readers, Writers
  <2> QED
    BY <2>1, <2>2, Places, IdleStep DEF StartWrite, Work
<1>5. CASE \E r \in Requests : StartPatch(t, r)
  <2>1. PICK r \in Requests : StartPatch(t, r)
    BY <1>5
  <2>2. WorkOK(Work("capture", r.at, r.new, Len(r.new)))
    BY <1>1, AskedFits DEF WorkOK, Work, Jobs, Ops, Readers, Writers, Fits
  <2> QED
    BY <2>1, <2>2, Places, IdleStep DEF StartPatch, Work
<1>6. CASE \E r \in Regions : StartBackup(t, r)
  <2>1. PICK r \in Regions : StartBackup(t, r)
    BY <1>6
  <2>2. WorkOK(Work("save", r.at, <<>>, r.size))
    BY <1>1, <1>2 DEF WorkOK, Work, Jobs, Ops, Readers, Writers, Fits
  <2> QED
    BY <2>1, <2>2, Places, IdleStep DEF StartBackup, Work
<1>7. CASE EndRaw(t) \/ Discard(t)
  <2>1. WorkOK(NoWork)
    BY EmptyWorkOK DEF NoWork
  <2>2. pframe[t].pc = "idle" /\ bframe[t].pc = "idle"
    BY <1>7, Places DEF EndRaw, Discard, Does
  <2> QED
    BY <1>7, <2>1, <2>2, IdleStep DEF EndRaw, Discard, NoWork, Work
<1> QED
  BY <1>3, <1>4, <1>5, <1>6, <1>7

(* A table with one entry more, or written over.                           *)
LEMMA OneMore ==
  ASSUME NEW table, NEW id, NEW o, NEW b, NEW new,
         new = [i \in DOMAIN table \cup {id} |->
                  IF i = id THEN [obj |-> o, born |-> b] ELSE table[i]]
  PROVE  \A i \in DOMAIN new : new[i].obj = o \/ (i \in DOMAIN table /\ new[i] = table[i])
<1>1. DOMAIN new = DOMAIN table \cup {id}
  OBVIOUS
<1>2. ASSUME NEW i \in DOMAIN new, i = id PROVE new[i].obj = o
  <2>1. new[i] = [obj |-> o, born |-> b]
    BY <1>1, <1>2
  <2> QED
    BY <2>1
<1>3. ASSUME NEW i \in DOMAIN new, i # id PROVE i \in DOMAIN table /\ new[i] = table[i]
  BY <1>1, <1>3
<1> QED
  BY <1>2, <1>3

(* Every call on a patch, from its test of the handle to its return.       *)
LEMMA PatchNextIInv ==
  ASSUME IInv, [Next]_vars, NEW t \in Thread, PatchNext(t)
  PROVE  IInv'
<1>1. WorkOK(NoWork) /\ NoWork.op = "none"
  BY EmptyWorkOK DEF NoWork, Work
<1>2. \A i \in DOMAIN ptable : Kept(ptable[i].obj)
  BY DEF IInv, TableInv
<1>3. pframe \in [Thread -> PP!Frames] /\ P!IdleFrame.pc = "idle"
  BY Shapes DEF P!IdleFrame
<1>4. CASE \E r \in Requests : StartPatch(t, r)
  BY <1>4, OutsideIInv
<1>5. ASSUME NEW s \in PatchSlot, RegisterPatch(t, s) PROVE IInv'
  <2> DEFINE o == [at |-> job[t].at, new |-> job[t].data, orig |-> job[t].got]
             f == [pc |-> "create", slot |-> s, mode |-> "mut", id |-> 0, obj |-> o]
  <2>1. Kept(o)
    BY <1>5, CapturedPatch DEF RegisterPatch, IInv, ThreadInv
  <2>2. bframe[t].pc = "idle"
    BY <1>5, Places DEF RegisterPatch, Does
  <2> HIDE DEF o
  <2>3. pframe' = [pframe EXCEPT ![t] = f] /\ ptable' = ptable
    BY <1>5 DEF RegisterPatch, P!BeginCreate, o
  <2> QED
    BY <1>1, <1>2, <1>5, <2>1, <2>2, <2>3, PatchStep DEF RegisterPatch
<1>6. ASSUME NEW s \in PatchSlot, NEW op \in {"modify", "restore", "inspect", "look"},
             BeginPatchUse(t, s, op)
      PROVE  IInv'
  <2> DEFINE f == [pc |-> "call", slot |-> s, mode |-> PatchMode(op), id |-> 0,
                   obj |-> NoObject]
             j == Work(op, 0, <<>>, 0)
  <2>1. WorkOK(j) /\ j.op = op /\ j.size = 0
    BY EmptyWorkOK DEF PatchOps, Work
  <2>2. bframe[t].pc = "idle"
    BY <1>6, Places DEF BeginPatchUse
  <2>3. pframe' = [pframe EXCEPT ![t] = f] /\ ptable' = ptable
    BY <1>6 DEF BeginPatchUse, P!BeginUse
  <2>4. f.pc = "call"
    OBVIOUS
  <2>5. Set(t, j) /\ UNCHANGED <<mem, bvars>>
    BY <1>6 DEF BeginPatchUse
  <2> HIDE DEF f, j
  <2> QED
    BY <1>2, <2>1, <2>2, <2>3, <2>4, <2>5, PatchStep DEF PatchOps
<1>7. CASE PatchFound(t)
  <2> DEFINE id == phandle[pframe[t].slot].id
             f == [pframe[t] EXCEPT !.pc = "using", !.id = id]
             o == ptable[id].obj
             j == PatchWork(job[t].op, o)
  <2>1. pframe[t].pc = "call" /\ id \in DOMAIN ptable /\ ptable' = ptable
        /\ pframe' = [pframe EXCEPT ![t] = f]
    BY <1>7, <1>3 DEF PatchFound, P!UseLock, P!InCall
  <2>2. o \in Patches /\ Kept(o)
    BY <1>2, <2>1, Shapes
  <2>3. job[t].op \in PatchOps
    BY <2>1 DEF IInv, ThreadInv, PatchPlace
  <2>4. WorkOK(j) /\ Bare(j) = j /\ j.op = job[t].op
    BY <2>2, <2>3, PatchWorkOK
  <2>5. f.pc = "using" /\ f.id = id
    BY <1>3 DEF PP!Frames
  <2>6. Set(t, j) /\ UNCHANGED <<mem, bvars>>
    BY <1>7 DEF PatchFound
  <2>7. bframe[t].pc = "idle"
    BY <2>1, Places
  <2>8. Bare(j) = PatchWork(j.op, ptable'[f.id].obj)
    BY <2>1, <2>4, <2>5
  <2>9. \A i \in DOMAIN ptable' : Kept(ptable'[i].obj)
    BY <1>2, <2>1
  <2> HIDE DEF f, j
  <2> QED
    BY <2>1, <2>3, <2>4, <2>5, <2>6, <2>7, <2>8, <2>9, PatchStep DEF PatchOps
<1>8. CASE PatchDone(t) \/ PatchMissing(t)
  <2>1. pframe[t].pc # "idle" /\ ptable' = ptable
        /\ pframe' = [pframe EXCEPT ![t] = P!IdleFrame]
    BY <1>8 DEF PatchDone, PatchMissing, P!UseEnd, P!UseMissing, P!InCall, P!Return
  <2>2. bframe[t].pc = "idle"
    BY <2>1, Places
  <2>3. Set(t, NoWork) /\ UNCHANGED <<mem, bvars>>
    BY <1>8 DEF PatchDone, PatchMissing
  <2> QED
    BY <1>1, <1>2, <1>3, <2>1, <2>2, <2>3, PatchStep
<1>9. /\ job[t].op \notin {"capture", "save", "read", "write"} \/ pframe[t].pc = "idle"
      /\ job[t].op \notin {"modify", "restore"} \/ pframe[t].pc \in {"call", "using"}
      /\ job[t].op # "unsave" \/ bframe[t].pc \in {"call", "using"}
      /\ WorkOK(job[t])
  BY DEF IInv, ThreadInv, Alone, PatchPlace, BackupPlace
<1>10. job' = job => Set(t, job[t])
  BY Shapes DEF Set
<1>11. ASSUME NEW s \in PatchSlot, BeginPatchFree(t, s) PROVE IInv'
  <2> DEFINE f == [pc |-> "free", slot |-> s, mode |-> "mut", id |-> 0, obj |-> NoObject]
  <2>1. pframe' = [pframe EXCEPT ![t] = f] /\ ptable' = ptable
    BY <1>11 DEF BeginPatchFree, P!BeginFree
  <2>2. bframe[t].pc = "idle" /\ job[t].op = "none"
    BY <1>11, Places DEF BeginPatchFree, Free, Does
  <2>3. Set(t, job[t]) /\ UNCHANGED <<mem, bvars>>
    BY <1>10, <1>11 DEF BeginPatchFree
  <2>4. f.pc = "free"
    OBVIOUS
  <2> HIDE DEF f
  <2> QED
    BY <1>2, <1>9, <2>1, <2>2, <2>3, <2>4, PatchStep
<1>12. CASE PatchBookkeeping(t)
  <2>1. pframe[t].pc \in {"create", "insert", "free"} /\ UNCHANGED <<mem, bvars, job>>
    BY <1>12 DEF PatchBookkeeping, P!CreateLock, P!CreateInsert, P!FreeErase, P!InCall
  <2>2. bframe[t].pc = "idle" /\ Set(t, job[t])
    BY <1>10, <2>1, Places
  <2>3. job[t].op \notin {"capture", "save", "read", "write", "modify", "restore", "unsave"}
    BY <1>9, <2>1, <2>2
  <2>4. CASE P!CreateLock(t)
    <3> DEFINE f == [pframe[t] EXCEPT !.pc = "insert", !.id = pnext]
    <3>1. pframe' = [pframe EXCEPT ![t] = f] /\ ptable' = ptable /\ pframe[t].pc = "create"
      BY <2>4 DEF P!CreateLock, P!InCall
    <3>2. f.pc = "insert" /\ f.obj = pframe[t].obj
      BY <1>3 DEF PP!Frames
    <3>3. Kept(f.obj)
      BY <3>1, <3>2 DEF IInv, ThreadInv, PatchPlace
    <3> HIDE DEF f
    <3> QED
      BY <1>2, <1>9, <2>1, <2>2, <2>3, <3>1, <3>2, <3>3, PatchStep
  <2>5. CASE P!CreateInsert(t)
    <3>1. Kept(pframe[t].obj) /\ pframe' = [pframe EXCEPT ![t] = P!IdleFrame]
      BY <2>5 DEF P!CreateInsert, P!InCall, P!Return, IInv, ThreadInv, PatchPlace
    <3>2. \A i \in DOMAIN ptable' : ptable'[i].obj = pframe[t].obj
                                    \/ (i \in DOMAIN ptable /\ ptable'[i] = ptable[i])
      <4>1. ptable' = [i \in DOMAIN ptable \cup {pframe[t].id} |->
                         IF i = pframe[t].id
                         THEN [obj |-> pframe[t].obj, born |-> pserial + 1] ELSE ptable[i]]
        BY <2>5 DEF P!CreateInsert
      <4> QED
        BY <4>1, OneMore
    <3>3. \A i \in DOMAIN ptable' : Kept(ptable'[i].obj)
      BY <1>2, <3>1, <3>2
    <3> QED
      BY <1>3, <1>9, <2>1, <2>2, <2>3, <3>1, <3>3, PatchStep
  <2>6. CASE P!FreeErase(t)
    <3>1. pframe' = [pframe EXCEPT ![t] = P!IdleFrame]
      BY <2>6 DEF P!FreeErase, P!Return
    <3>2. \A i \in DOMAIN ptable' : i \in DOMAIN ptable /\ ptable'[i] = ptable[i]
      BY <2>6 DEF P!FreeErase
    <3>3. \A i \in DOMAIN ptable' : Kept(ptable'[i].obj)
      BY <1>2, <3>2
    <3> QED
      BY <1>3, <1>9, <2>1, <2>2, <2>3, <3>1, <3>3, PatchStep
  <2> QED
    BY <1>12, <2>4, <2>5, <2>6 DEF PatchBookkeeping
<1> QED
  BY <1>4, <1>5, <1>6, <1>7, <1>8, <1>11, <1>12 DEF PatchNext

(* Every call on a backup, from its test of the handle to its return.      *)
LEMMA BackupNextIInv ==
  ASSUME IInv, [Next]_vars, NEW t \in Thread, BackupNext(t)
  PROVE  IInv'
<1>1. WorkOK(NoWork) /\ NoWork.op = "none"
  BY EmptyWorkOK DEF NoWork, Work
<1>2. \A i \in DOMAIN btable : Kept(btable[i].obj)
  BY DEF IInv, TableInv
<1>3. bframe \in [Thread -> BP!Frames] /\ B!IdleFrame.pc = "idle"
  BY Shapes DEF B!IdleFrame
<1>4. CASE \E r \in Regions : StartBackup(t, r)
  BY <1>4, OutsideIInv
<1>5. ASSUME NEW s \in BackupSlot, RegisterBackup(t, s) PROVE IInv'
  <2> DEFINE o == [at |-> job[t].at, orig |-> job[t].got]
             f == [pc |-> "create", slot |-> s, mode |-> "mut", id |-> 0, obj |-> o]
  <2>1. Kept(o)
    BY <1>5, SavedBackup DEF RegisterBackup, IInv, ThreadInv
  <2>2. pframe[t].pc = "idle"
    BY <1>5, Places DEF RegisterBackup, Does
  <2> HIDE DEF o
  <2>3. bframe' = [bframe EXCEPT ![t] = f] /\ btable' = btable
    BY <1>5 DEF RegisterBackup, B!BeginCreate, o
  <2> QED
    BY <1>1, <1>2, <1>5, <2>1, <2>2, <2>3, BackupStep DEF RegisterBackup
<1>6. ASSUME NEW s \in BackupSlot, NEW op \in {"unsave", "inspect", "look"},
             BeginBackupUse(t, s, op)
      PROVE  IInv'
  <2> DEFINE f == [pc |-> "call", slot |-> s, mode |-> BackupMode(op), id |-> 0,
                   obj |-> NoObject]
             j == Work(op, 0, <<>>, 0)
  <2>1. WorkOK(j) /\ j.op = op /\ j.size = 0
    BY EmptyWorkOK DEF BackupOps, Work
  <2>2. pframe[t].pc = "idle"
    BY <1>6, Places DEF BeginBackupUse
  <2>3. bframe' = [bframe EXCEPT ![t] = f] /\ btable' = btable
    BY <1>6 DEF BeginBackupUse, B!BeginUse
  <2>4. f.pc = "call"
    OBVIOUS
  <2>5. Set(t, j) /\ UNCHANGED <<mem, pvars>>
    BY <1>6 DEF BeginBackupUse
  <2> HIDE DEF f, j
  <2> QED
    BY <1>2, <2>1, <2>2, <2>3, <2>4, <2>5, BackupStep DEF BackupOps
<1>7. CASE BackupFound(t)
  <2> DEFINE id == bhandle[bframe[t].slot].id
             f == [bframe[t] EXCEPT !.pc = "using", !.id = id]
             o == btable[id].obj
             j == BackupWork(job[t].op, o)
  <2>1. bframe[t].pc = "call" /\ id \in DOMAIN btable /\ btable' = btable
        /\ bframe' = [bframe EXCEPT ![t] = f]
    BY <1>7, <1>3 DEF BackupFound, B!UseLock, B!InCall
  <2>2. o \in Backups /\ Kept(o)
    BY <1>2, <2>1, Shapes
  <2>3. job[t].op \in BackupOps
    BY <2>1 DEF IInv, ThreadInv, BackupPlace
  <2>4. WorkOK(j) /\ Bare(j) = j /\ j.op = job[t].op
    BY <2>2, <2>3, BackupWorkOK
  <2>5. f.pc = "using" /\ f.id = id
    BY <1>3 DEF BP!Frames
  <2>6. Set(t, j) /\ UNCHANGED <<mem, pvars>>
    BY <1>7 DEF BackupFound
  <2>7. pframe[t].pc = "idle"
    BY <2>1, Places
  <2>8. Bare(j) = BackupWork(j.op, btable'[f.id].obj)
    BY <2>1, <2>4, <2>5
  <2>9. \A i \in DOMAIN btable' : Kept(btable'[i].obj)
    BY <1>2, <2>1
  <2> HIDE DEF f, j
  <2> QED
    BY <2>1, <2>3, <2>4, <2>5, <2>6, <2>7, <2>8, <2>9, BackupStep DEF BackupOps
<1>8. CASE BackupDone(t) \/ BackupMissing(t)
  <2>1. bframe[t].pc # "idle" /\ btable' = btable
        /\ bframe' = [bframe EXCEPT ![t] = B!IdleFrame]
    BY <1>8 DEF BackupDone, BackupMissing, B!UseEnd, B!UseMissing, B!InCall, B!Return
  <2>2. pframe[t].pc = "idle"
    BY <2>1, Places
  <2>3. Set(t, NoWork) /\ UNCHANGED <<mem, pvars>>
    BY <1>8 DEF BackupDone, BackupMissing
  <2> QED
    BY <1>1, <1>2, <1>3, <2>1, <2>2, <2>3, BackupStep
<1>9. /\ job[t].op \notin {"capture", "save", "read", "write"} \/ bframe[t].pc = "idle"
      /\ job[t].op # "unsave" \/ bframe[t].pc \in {"call", "using"}
      /\ job[t].op \notin {"modify", "restore"} \/ pframe[t].pc \in {"call", "using"}
      /\ WorkOK(job[t])
  BY DEF IInv, ThreadInv, Alone, PatchPlace, BackupPlace
<1>10. job' = job => Set(t, job[t])
  BY Shapes DEF Set
<1>11. ASSUME NEW s \in BackupSlot, BeginBackupFree(t, s) PROVE IInv'
  <2> DEFINE f == [pc |-> "free", slot |-> s, mode |-> "mut", id |-> 0, obj |-> NoObject]
  <2>1. bframe' = [bframe EXCEPT ![t] = f] /\ btable' = btable
    BY <1>11 DEF BeginBackupFree, B!BeginFree
  <2>2. pframe[t].pc = "idle" /\ job[t].op = "none"
    BY <1>11, Places DEF BeginBackupFree, Free, Does
  <2>3. Set(t, job[t]) /\ UNCHANGED <<mem, pvars>>
    BY <1>10, <1>11 DEF BeginBackupFree
  <2>4. f.pc = "free"
    OBVIOUS
  <2> HIDE DEF f
  <2> QED
    BY <1>2, <1>9, <2>1, <2>2, <2>3, <2>4, BackupStep
<1>12. CASE BackupBookkeeping(t)
  <2>1. bframe[t].pc \in {"create", "insert", "free"} /\ UNCHANGED <<mem, pvars, job>>
    BY <1>12 DEF BackupBookkeeping, B!CreateLock, B!CreateInsert, B!FreeErase, B!InCall
  <2>2. pframe[t].pc = "idle" /\ Set(t, job[t])
    BY <1>10, <2>1, Places
  <2>3. job[t].op \notin {"capture", "save", "read", "write", "modify", "restore", "unsave"}
    BY <1>9, <2>1, <2>2
  <2>4. CASE B!CreateLock(t)
    <3> DEFINE f == [bframe[t] EXCEPT !.pc = "insert", !.id = bnext]
    <3>1. bframe' = [bframe EXCEPT ![t] = f] /\ btable' = btable /\ bframe[t].pc = "create"
      BY <2>4 DEF B!CreateLock, B!InCall
    <3>2. f.pc = "insert" /\ f.obj = bframe[t].obj
      BY <1>3 DEF BP!Frames
    <3>3. Kept(f.obj)
      BY <3>1, <3>2 DEF IInv, ThreadInv, BackupPlace
    <3> HIDE DEF f
    <3> QED
      BY <1>2, <1>9, <2>1, <2>2, <2>3, <3>1, <3>2, <3>3, BackupStep
  <2>5. CASE B!CreateInsert(t)
    <3>1. Kept(bframe[t].obj) /\ bframe' = [bframe EXCEPT ![t] = B!IdleFrame]
      BY <2>5 DEF B!CreateInsert, B!InCall, B!Return, IInv, ThreadInv, BackupPlace
    <3>2. \A i \in DOMAIN btable' : btable'[i].obj = bframe[t].obj
                                    \/ (i \in DOMAIN btable /\ btable'[i] = btable[i])
      <4>1. btable' = [i \in DOMAIN btable \cup {bframe[t].id} |->
                         IF i = bframe[t].id
                         THEN [obj |-> bframe[t].obj, born |-> bserial + 1] ELSE btable[i]]
        BY <2>5 DEF B!CreateInsert
      <4> QED
        BY <4>1, OneMore
    <3>3. \A i \in DOMAIN btable' : Kept(btable'[i].obj)
      BY <1>2, <3>1, <3>2
    <3> QED
      BY <1>3, <1>9, <2>1, <2>2, <2>3, <3>1, <3>3, BackupStep
  <2>6. CASE B!FreeErase(t)
    <3>1. bframe' = [bframe EXCEPT ![t] = B!IdleFrame]
      BY <2>6 DEF B!FreeErase, B!Return
    <3>2. \A i \in DOMAIN btable' : i \in DOMAIN btable /\ btable'[i] = btable[i]
      BY <2>6 DEF B!FreeErase
    <3>3. \A i \in DOMAIN btable' : Kept(btable'[i].obj)
      BY <1>2, <3>2
    <3> QED
      BY <1>3, <1>9, <2>1, <2>2, <2>3, <3>1, <3>3, BackupStep
  <2> QED
    BY <1>12, <2>4, <2>5, <2>6 DEF BackupBookkeeping
<1> QED
  BY <1>4, <1>5, <1>6, <1>7, <1>8, <1>11, <1>12 DEF BackupNext

LEMMA NextIInv == IInv /\ [Next]_vars => IInv'
<1> SUFFICES ASSUME IInv, [Next]_vars PROVE IInv'
  OBVIOUS
<1>1. CASE \E t \in Thread : PatchNext(t)
  BY <1>1, PatchNextIInv
<1>2. CASE \E t \in Thread : BackupNext(t)
  BY <1>2, BackupNextIInv
<1>3. CASE \E t \in Thread : MemoryNext(t)
  BY <1>3, ReadByteIInv, WriteByteIInv, OutsideIInv DEF MemoryNext
<1>4. CASE CopyNext \/ UNCHANGED vars
  <2>1. UNCHANGED <<mem, job, ptable, btable, pframe, bframe>>
    BY <1>4 DEF CopyNext, P!CopyHandle, B!CopyHandle, vars, pvars, bvars
  <2>2. \A u \in Thread : ThreadInv(u)'
    BY <2>1, OthersKeep
  <2>3. NoForeignByte' /\ TableInv' /\ mem' \in [Addr -> Byte]
    BY <2>1 DEF IInv, NoForeignByte, Wanted, Span, TableInv, Kept, Fits
  <2>4. job' = [u \in Thread |-> job'[u]]
    BY <2>1, Shapes
  <2> QED
    BY <2>2, <2>3, <2>4, RegistryFacts DEF IInv
<1> QED
  BY <1>1, <1>2, <1>3, <1>4 DEF Next

-----------------------------------------------------------------------------
(* Types: the registries', the memory's, and that a work on memory has     *)
(* moved as many bytes as it says and never more than it has.              *)
THEOREM MemoryTypeOK == Spec => []TypeOK
<1>1. IInv => TypeOK
  <2> SUFFICES ASSUME IInv PROVE TypeOK
    OBVIOUS
  <2>1. mem \in [Addr -> Byte] /\ P!TypeOK /\ B!TypeOK
    BY SamePatchRegistry, SameBackupRegistry DEF IInv, PP!IInv, BP!IInv
  <2>2. ASSUME NEW t \in Thread
        PROVE  /\ job[t].op \in Ops
               /\ job[t].done \in 0 .. job[t].size
               /\ Does(t, Readers) => Len(job[t].got) = job[t].done
               /\ Does(t, Writers) => Len(job[t].data) = job[t].size
    BY DEF IInv, ThreadInv, WorkOK, Jobs, Does
  <2> QED
    BY <2>1, <2>2 DEF TypeOK
<1> QED
  BY <1>1, InitIInv, NextIInv, PTL DEF Spec

(* Under its mutex a call works for an object that is in the map, that its *)
(* caller's handle was issued for, and on that object's range and bytes.   *)
THEOREM MemoryJobBacked == Spec => []JobBacked
<1>1. IInv => JobBacked
  <2> SUFFICES ASSUME IInv, NEW t \in Thread
               PROVE  /\ pframe[t].pc = "using" =>
                           /\ pframe[t].id \in DOMAIN ptable
                           /\ ptable[pframe[t].id].obj = phandle[pframe[t].slot].obj
                           /\ Bare(job[t]) = PatchWork(job[t].op, ptable[pframe[t].id].obj)
                      /\ bframe[t].pc = "using" =>
                           /\ bframe[t].id \in DOMAIN btable
                           /\ btable[bframe[t].id].obj = bhandle[bframe[t].slot].obj
                           /\ Bare(job[t]) = BackupWork(job[t].op, btable[bframe[t].id].obj)
    BY DEF JobBacked, P!InCall, B!InCall, Bare
  <2>1. ThreadInv(t) /\ PP!IInv /\ BP!IInv
    BY DEF IInv
  <2>2. ASSUME pframe[t].pc = "using"
        PROVE  /\ pframe[t].id \in DOMAIN ptable
               /\ ptable[pframe[t].id].obj = phandle[pframe[t].slot].obj
    <3> DEFINE s == pframe[t].slot
               i == phandle[s].id
    <3>1. i = pframe[t].id /\ i \in DOMAIN ptable /\ s \in PatchSlot
      BY <2>1, <2>2 DEF PP!IInv, PP!CursorInv, PP!BorrowInv, PP!InCall
    <3>2. ptable[i] = [obj |-> phandle[s].obj, born |-> phandle[s].born]
      BY <2>1, <3>1 DEF PP!IInv, PP!NoAliasing
    <3> HIDE DEF s, i
    <3>3. ptable[i].obj = phandle[s].obj
      BY <3>2
    <3> QED
      BY <3>1, <3>3 DEF s
  <2>3. ASSUME bframe[t].pc = "using"
        PROVE  /\ bframe[t].id \in DOMAIN btable
               /\ btable[bframe[t].id].obj = bhandle[bframe[t].slot].obj
    <3> DEFINE s == bframe[t].slot
               i == bhandle[s].id
    <3>1. i = bframe[t].id /\ i \in DOMAIN btable /\ s \in BackupSlot
      BY <2>1, <2>3 DEF BP!IInv, BP!CursorInv, BP!BorrowInv, BP!InCall
    <3>2. btable[i] = [obj |-> bhandle[s].obj, born |-> bhandle[s].born]
      BY <2>1, <3>1 DEF BP!IInv, BP!NoAliasing
    <3> HIDE DEF s, i
    <3>3. btable[i].obj = bhandle[s].obj
      BY <3>2
    <3> QED
      BY <3>1, <3>3 DEF s
  <2> QED
    BY <2>1, <2>2, <2>3 DEF ThreadInv, PatchPlace, BackupPlace
<1> QED
  BY <1>1, InitIInv, NextIInv, PTL DEF Spec

(* However reads, captures, writes and restores tear one another, no byte  *)
(* stands where nobody asked for it.                                       *)
THEOREM MemoryNoForeignByte == Spec => []NoForeignByte
<1>1. IInv => NoForeignByte
  BY DEF IInv
<1> QED
  BY <1>1, InitIInv, NextIInv, PTL DEF Spec

-----------------------------------------------------------------------------
(* A program that writes through patches alone.                            *)
PatchesOnly == Regions = {} /\ Writes = {}

(* What a step does to the bytes a call has copied, besides the two that   *)
(* move a byte.                                                            *)
Still(t) ==
  \/ job'[t].done = 0
  \/ job'[t] = job[t] /\ (pframe'[t].pc = "using" => pframe[t].pc = "using")

LEMMA FreshWork ==
  ASSUME NEW o
  PROVE  /\ \A op \in PatchOps : PatchWork(op, o).done = 0
         /\ \A op \in BackupOps : BackupWork(op, o).done = 0
<1>1. \A op, at, d, n : Work(op, at, d, n).done = 0
  BY DEF Work
<1>2. ASSUME NEW op \in PatchOps PROVE PatchWork(op, o).done = 0
  <2>1. CASE op = "modify"
    BY <1>1, <2>1 DEF PatchWork
  <2>2. CASE op = "restore"
    BY <1>1, <2>2 DEF PatchWork
  <2>3. CASE op = "inspect"
    BY <1>1, <2>3 DEF PatchWork
  <2>4. CASE op = "look"
    BY <1>1, <2>4 DEF PatchWork
  <2> QED
    BY <2>1, <2>2, <2>3, <2>4 DEF PatchOps
<1>3. ASSUME NEW op \in BackupOps PROVE BackupWork(op, o).done = 0
  <2>1. CASE op = "unsave"
    BY <1>1, <2>1 DEF BackupWork
  <2>2. CASE op = "inspect"
    BY <1>1, <2>2 DEF BackupWork
  <2>3. CASE op = "look"
    BY <1>1, <2>3 DEF BackupWork
  <2> QED
    BY <2>1, <2>2, <2>3 DEF BackupOps
<1> QED
  BY <1>2, <1>3

LEMMA StepKinds ==
  ASSUME IInv, [Next]_vars
  PROVE  \/ \E u \in Thread : ReadByte(u) \/ WriteByte(u)
         \/ mem' = mem /\ \A t \in Thread : Still(t)
<1>1. NoWork.done = 0 /\ \A op, at, d, n : Work(op, at, d, n).done = 0
  BY DEF NoWork, Work
<1>2. pframe \in [Thread -> PP!Frames] /\ job = [u \in Thread |-> job[u]]
  BY Shapes
<1>3. ASSUME NEW u \in Thread, NEW j, Set(u, j), j.done = 0, mem' = mem,
             \A t \in Thread \ {u} : pframe'[t] = pframe[t]
      PROVE  mem' = mem /\ \A t \in Thread : Still(t)
  BY <1>2, <1>3 DEF Set, Still
<1>4. ASSUME NEW u \in Thread,
             \/ \E r \in Reads : StartRead(u, r)
             \/ \E r \in Writes : StartWrite(u, r)
             \/ \E r \in Requests : StartPatch(u, r)
             \/ \E r \in Regions : StartBackup(u, r)
             \/ EndRaw(u)
             \/ Discard(u)
      PROVE  mem' = mem /\ \A t \in Thread : Still(t)
  BY <1>1, <1>3, <1>4 DEF StartRead, StartWrite, StartPatch, StartBackup, EndRaw, Discard, pvars
<1>5. ASSUME NEW u \in Thread,
             \/ \E s \in PatchSlot : RegisterPatch(u, s)
             \/ \E s \in PatchSlot, op \in PatchOps : BeginPatchUse(u, s, op)
             \/ PatchDone(u)
             \/ PatchMissing(u)
      PROVE  mem' = mem /\ \A t \in Thread : Still(t)
  <2>1. mem' = mem /\ \E j : Set(u, j) /\ j.done = 0
    BY <1>1, <1>5 DEF RegisterPatch, BeginPatchUse, PatchDone, PatchMissing
  <2>2. \A t \in Thread \ {u} : pframe'[t] = pframe[t]
    BY <1>2, <1>5 DEF RegisterPatch, BeginPatchUse, PatchDone, PatchMissing, P!BeginCreate,
       P!BeginUse, P!UseEnd, P!UseMissing, P!Return
  <2> QED
    BY <1>3, <2>1, <2>2
<1>6. ASSUME NEW u \in Thread, PatchFound(u)
      PROVE  mem' = mem /\ \A t \in Thread : Still(t)
  <2> DEFINE j == PatchWork(job[u].op, ptable[phandle[pframe[u].slot].id].obj)
  <2>1. job[u].op \in PatchOps
    BY <1>6 DEF PatchFound, P!UseLock, P!InCall, IInv, ThreadInv, PatchPlace
  <2>2. j.done = 0
    BY <2>1, FreshWork
  <2>3. \A t \in Thread \ {u} : pframe'[t] = pframe[t]
    BY <1>2, <1>6 DEF PatchFound, P!UseLock
  <2>4. mem' = mem /\ Set(u, j)
    BY <1>6 DEF PatchFound
  <2> HIDE DEF j
  <2> QED
    BY <1>3, <2>2, <2>3, <2>4
<1>7. ASSUME NEW u \in Thread,
             \/ \E s \in BackupSlot : RegisterBackup(u, s)
             \/ \E s \in BackupSlot, op \in BackupOps : BeginBackupUse(u, s, op)
             \/ BackupDone(u)
             \/ BackupMissing(u)
      PROVE  mem' = mem /\ \A t \in Thread : Still(t)
  BY <1>1, <1>3, <1>7 DEF RegisterBackup, BeginBackupUse, BackupDone, BackupMissing, pvars
<1>8. ASSUME NEW u \in Thread, BackupFound(u)
      PROVE  mem' = mem /\ \A t \in Thread : Still(t)
  <2> DEFINE j == BackupWork(job[u].op, btable[bhandle[bframe[u].slot].id].obj)
  <2>1. job[u].op \in BackupOps
    BY <1>8 DEF BackupFound, B!UseLock, B!InCall, IInv, ThreadInv, BackupPlace
  <2>2. j.done = 0
    BY <2>1, FreshWork
  <2>3. mem' = mem /\ Set(u, j) /\ pframe' = pframe
    BY <1>8 DEF BackupFound, pvars
  <2> HIDE DEF j
  <2> QED
    BY <1>3, <2>2, <2>3
<1>9. ASSUME NEW u \in Thread,
             \/ \E s \in PatchSlot : BeginPatchFree(u, s)
             \/ PatchBookkeeping(u)
      PROVE  mem' = mem /\ \A t \in Thread : Still(t)
  <2>1. UNCHANGED <<mem, job>>
    BY <1>9 DEF BeginPatchFree, PatchBookkeeping
  <2>2. CASE \E s \in PatchSlot : BeginPatchFree(u, s)
    BY <1>2, <2>1, <2>2 DEF BeginPatchFree, P!BeginFree, Still
  <2>3. CASE P!CreateLock(u)
    <3>1. pframe[u] \in PP!Frames /\ pframe' = [pframe EXCEPT ![u] =
            [pframe[u] EXCEPT !.pc = "insert", !.id = pnext]]
      BY <1>2, <2>3 DEF P!CreateLock
    <3>2. [pframe[u] EXCEPT !.pc = "insert", !.id = pnext].pc = "insert"
      BY <3>1 DEF PP!Frames
    <3> QED
      BY <1>2, <2>1, <3>1, <3>2 DEF Still
  <2>4. CASE P!CreateInsert(u) \/ P!FreeErase(u)
    <3>1. pframe' = [pframe EXCEPT ![u] = P!IdleFrame] /\ P!IdleFrame.pc = "idle"
      BY <2>4 DEF P!CreateInsert, P!FreeErase, P!Return, P!IdleFrame
    <3> QED
      BY <1>2, <2>1, <3>1 DEF Still
  <2> QED
    BY <1>9, <2>2, <2>3, <2>4 DEF PatchBookkeeping
<1>10. ASSUME NEW u \in Thread,
              \/ \E s \in BackupSlot : BeginBackupFree(u, s)
              \/ BackupBookkeeping(u)
       PROVE  mem' = mem /\ \A t \in Thread : Still(t)
  BY <1>10 DEF BeginBackupFree, BackupBookkeeping, pvars, Still
<1>11. CASE CopyNext \/ UNCHANGED vars
  BY <1>11 DEF CopyNext, P!CopyHandle, B!CopyHandle, vars, pvars, Still
<1>12. ASSUME NEW u \in Thread, PatchNext(u)
       PROVE  mem' = mem /\ \A t \in Thread : Still(t)
  BY <1>4, <1>5, <1>6, <1>9, <1>12 DEF PatchNext, PatchOps
<1>13. ASSUME NEW u \in Thread, BackupNext(u)
       PROVE  mem' = mem /\ \A t \in Thread : Still(t)
  BY <1>7, <1>4, <1>8, <1>10, <1>13 DEF BackupNext, BackupOps
<1>14. ASSUME NEW u \in Thread, MemoryNext(u)
       PROVE  \/ ReadByte(u) \/ WriteByte(u)
              \/ mem' = mem /\ \A t \in Thread : Still(t)
  BY <1>4, <1>14 DEF MemoryNext
<1> QED
  BY <1>11, <1>12, <1>13, <1>14 DEF Next

(* A thread that writes a byte holds the mutex of the patches.             *)
LEMMA WriterHolds ==
  ASSUME IInv, PatchesOnly, NEW u \in Thread, WriteByte(u)
  PROVE  pmutex = u /\ pframe[u].pc = "using" /\ job[u].op # "inspect"
<1>1. ThreadInv(u) /\ job[u].op \in Writers /\ job[u].done # job[u].size
  BY DEF IInv, WriteByte, Does, Finished
<1>2. job[u].size # 0
  BY <1>1 DEF ThreadInv, WorkOK, Jobs
<1>3. job[u].op # "write"
  BY <1>1 DEF ThreadInv, WorkOK, PatchesOnly
<1>4. job[u].op # "unsave"
  <2>1. Backups = {}
    BY DEF PatchesOnly, Backups
  <2>2. bframe[u].pc # "using"
    BY <2>1, Shapes DEF IInv, BP!IInv, BP!CursorInv, BP!InCall
  <2> QED
    BY <1>1, <1>2, <2>2 DEF ThreadInv, BackupPlace
<1>5. pframe[u].pc = "using" /\ job[u].op # "inspect"
  BY <1>1, <1>2, <1>3, <1>4 DEF ThreadInv, PatchPlace, Writers
<1> QED
  BY <1>5 DEF IInv, PP!IInv, PP!LockInv

LEMMA InspectStep ==
  IInv /\ PatchesOnly /\ InspectExact /\ [Next]_vars => InspectExact'
<1> SUFFICES ASSUME IInv, PatchesOnly, InspectExact, [Next]_vars, NEW t \in Thread,
                    pframe'[t].pc = "using", job'[t].op = "inspect",
                    NEW k \in 1 .. job'[t].done
             PROVE  job'[t].got[k] = mem'[job'[t].at + k - 1]
  BY DEF InspectExact, P!InCall, Does
<1>1. ASSUME pframe[t].pc = "using", job[t].op = "inspect", NEW i \in 1 .. job[t].done
      PROVE  job[t].got[i] = mem[job[t].at + i - 1]
  BY <1>1 DEF InspectExact, P!InCall, Does
<1>2. CASE mem' = mem /\ Still(t)
  <2>1. job'[t] = job[t] /\ pframe[t].pc = "using"
    BY <1>2 DEF Still
  <2> QED
    BY <1>1, <1>2, <2>1
<1>3. ASSUME NEW u \in Thread, ReadByte(u)
      PROVE  job'[t].got[k] = mem'[job'[t].at + k - 1]
  <2>1. mem' = mem /\ pframe' = pframe
    BY <1>3 DEF ReadByte, pvars
  <2>2. CASE u # t
    <3>1. job'[t] = job[t]
      BY <1>3, <2>2, Shapes DEF ReadByte, Set
    <3> QED
      BY <1>1, <2>1, <3>1
  <2>3. CASE u = t
    <3> DEFINE w == job[t]
               v == [w EXCEPT !.done = @ + 1]
               g == Append(w.got, mem[w.at + w.done])
    <3>1. job'[t] = [v EXCEPT !.got = g]
      BY <1>3, <2>3, Shapes DEF ReadByte, Set
    <3>2. /\ w \in Jobs /\ Len(w.got) = w.done /\ w.got \in Seq(Byte) /\ w.done \in Nat
          /\ w.at \in Nat
      BY <1>3, <2>3 DEF IInv, ThreadInv, WorkOK, ReadByte, Does, Jobs
    <3>3. /\ v.op = w.op /\ v.at = w.at /\ v.done = w.done + 1
          /\ v = [op |-> w.op, at |-> w.at, data |-> w.data, size |-> w.size,
                  done |-> w.done + 1, got |-> w.got]
      BY <3>2 DEF Jobs
    <3> HIDE DEF v, g
    <3>4. /\ [v EXCEPT !.got = g].op = v.op /\ [v EXCEPT !.got = g].at = v.at
          /\ [v EXCEPT !.got = g].done = v.done /\ [v EXCEPT !.got = g].got = g
      BY <3>3
    <3>5. /\ job'[t].op = w.op /\ job'[t].at = w.at /\ job'[t].done = w.done + 1
          /\ job'[t].got = g
      BY <3>1, <3>3, <3>4
    <3>6. w.op = "inspect" /\ k \in 1 .. w.done + 1 /\ pframe[t].pc = "using"
      BY <2>1, <3>5
    <3>7. CASE k \in 1 .. w.done
      <4>1. w.got[k] = mem[w.at + k - 1]
        BY <1>1, <3>6, <3>7
      <4>2. g[k] = w.got[k]
        BY <3>2, <3>7 DEF g
      <4> QED
        BY <2>1, <3>5, <4>1, <4>2
    <3>8. CASE k = w.done + 1
      <4>1. g[k] = mem[w.at + w.done] /\ w.at + k - 1 = w.at + w.done
        BY <3>2, <3>8 DEF g
      <4> QED
        BY <2>1, <3>5, <4>1
    <3> QED
      BY <3>2, <3>6, <3>7, <3>8
  <2> QED
    BY <2>2, <2>3
<1>4. ASSUME NEW u \in Thread, WriteByte(u) PROVE FALSE
  <2>1. pmutex = u /\ job[u].op # "inspect"
    BY <1>4, WriterHolds
  <2>2. pframe' = pframe
    BY <1>4 DEF WriteByte, pvars
  <2>3. pmutex = t
    BY <2>2 DEF IInv, PP!IInv, PP!LockInv
  <2>4. job'[t].op = job[t].op
    BY <1>4, <2>1, <2>3, Shapes DEF WriteByte, Set, IInv, ThreadInv, WorkOK, Jobs
  <2> QED
    BY <2>1, <2>3, <2>4
<1> QED
  BY <1>2, <1>3, <1>4, StepKinds

(* Where the program writes through patches alone, get_curr_bytes copies   *)
(* the memory of one moment: the mutex of the patches keeps every modify   *)
(* and restore out from its first byte to its last.                        *)
THEOREM MemoryInspectExact == PatchesOnly /\ Spec => []InspectExact
<1>1. Init => InspectExact
  BY DEF Init, InspectExact, P!Init, P!InCall, P!IdleFrame
<1>2. PatchesOnly => PatchesOnly'
  BY DEF PatchesOnly
<1>3. IInv /\ PatchesOnly /\ InspectExact /\ [Next]_vars => (IInv /\ PatchesOnly /\ InspectExact)'
  BY <1>2, InspectStep, NextIInv
<1> QED
  BY <1>1, <1>3, InitIInv, PTL DEF Spec

=============================================================================
