------------------------- MODULE PatchAtomicProofs -------------------------
(***************************************************************************)
(* PatchMemory implements PatchStore, for any threads, variables, requests *)
(* and memory, where the program writes through patches alone and owns     *)
(* them as the safe layer has it: a modify or a restore takes place when   *)
(* its first byte is written.                                              *)
(***************************************************************************)
EXTENDS PatchMemoryProofs

Rewrites == {"modify", "restore"}

(* The program the refinement is about.                                    *)
SafePatches == PatchesOnly /\ SysCopies = FALSE

(* The bytes a call has written stand where it wrote them until it ends.   *)
Landed ==
  \A t \in Thread : job[t].op \in Rewrites =>
    \A k \in 1 .. job[t].done : mem[job[t].at + k - 1] = job[t].data[k]

(* A call that has written is in the critical section of the patches.      *)
LEMMA WritingHolds ==
  ASSUME IInv, NEW t \in Thread, job[t].op \in Rewrites, job[t].done # 0
  PROVE  pmutex = t /\ pframe[t].pc = "using" /\ bframe[t].pc = "idle"
<1>1. ThreadInv(t) /\ job[t].size # 0
  BY DEF IInv, ThreadInv, WorkOK, Jobs
<1>2. pframe[t].pc = "using"
  BY <1>1 DEF ThreadInv, PatchPlace, Rewrites
<1> QED
  BY <1>1, <1>2 DEF IInv, PP!IInv, PP!LockInv, ThreadInv, Alone

(* It is the only one.                                                     *)
LEMMA OneWrites ==
  ASSUME IInv, NEW t \in Writing
  PROVE  Writing = {t} /\ pmutex = t /\ pframe[t].pc = "using" /\ bframe[t].pc = "idle"
<1>1. \A u \in Writing : /\ u \in Thread /\ job[u].op \in Rewrites /\ job[u].done # 0
  BY DEF Writing, Does, Rewrites, IInv, ThreadInv, WorkOK, Jobs
<1>2. \A u \in Writing : pmutex = u
  BY <1>1, WritingHolds
<1> QED
  BY <1>1, <1>2, WritingHolds

(* The memory a program is promised, while nobody writes and while one     *)
(* call does.                                                              *)
LEMMA PromisedIdle ==
  Writing = {} => MemoryAsPromised = [a \in Addr |-> mem[a]]
  BY DEF MemoryAsPromised

LEMMA PromisedWriting ==
  ASSUME NEW t, Writing = {t}
  PROVE  MemoryAsPromised =
           [a \in Addr |-> IF a \in Span(job[t].at, job[t].size)
                           THEN job[t].data[a - job[t].at + 1] ELSE mem[a]]
<1>1. ASSUME NEW a, a \in Span(job[t].at, job[t].size)
      PROVE  (CHOOSE u \in Writing : a \in Span(job[u].at, job[u].size)) = t
  BY <1>1
<1> QED
  BY <1>1 DEF MemoryAsPromised

LEMMA PromisedIdleNext ==
  Writing' = {} => MemoryAsPromised' = [a \in Addr |-> mem'[a]]
  BY DEF MemoryAsPromised

LEMMA PromisedWritingNext ==
  ASSUME NEW t, Writing' = {t}
  PROVE  MemoryAsPromised' =
           [a \in Addr |-> IF a \in Span(job'[t].at, job'[t].size)
                           THEN job'[t].data[a - job'[t].at + 1] ELSE mem'[a]]
<1>1. ASSUME NEW a, a \in Span(job'[t].at, job'[t].size)
      PROVE  (CHOOSE u \in Writing' : a \in Span(job'[u].at, job'[u].size)) = t
  BY <1>1
<1> QED
  BY <1>1 DEF MemoryAsPromised, Span

(* Nothing shows of a step that moves no byte of a writer.                 *)
LEMMA SamePromise ==
  ASSUME mem' = mem, Writing' = Writing, \A t \in Writing : job'[t] = job[t]
  PROVE  MemoryAsPromised' = MemoryAsPromised
  BY DEF MemoryAsPromised, Span

-----------------------------------------------------------------------------
(* What a step can do to the work of a thread in a critical section of the *)
(* patches.                                                                *)
LEMMA UsingKeeps ==
  ASSUME IInv, [Next]_vars, NEW t \in Thread, pframe[t].pc = "using", job[t].op \in Rewrites
  PROVE  job'[t] = job[t] \/ PatchDone(t) \/ WriteByte(t)
<1>1. job = [u \in Thread |-> job[u]] /\ bframe[t].pc = "idle"
  BY Shapes DEF IInv, ThreadInv, Alone
<1>2. ASSUME NEW u \in Thread, PatchNext(u) PROVE job'[t] = job[t] \/ PatchDone(t)
  BY <1>1, <1>2 DEF PatchNext, StartPatch, RegisterPatch, BeginPatchUse, PatchFound, PatchDone,
     PatchMissing, BeginPatchFree, PatchBookkeeping, Set, Free, Does, P!InCall, P!UseLock,
     P!UseMissing, Rewrites
<1>3. ASSUME NEW u \in Thread, BackupNext(u) PROVE job'[t] = job[t]
  BY <1>1, <1>3 DEF BackupNext, StartBackup, RegisterBackup, BeginBackupUse, BackupFound,
     BackupDone, BackupMissing, BeginBackupFree, BackupBookkeeping, Set, Free, Does, P!InCall,
     B!InCall, B!UseLock, B!UseMissing, B!UseEnd, Rewrites
<1>4. ASSUME NEW u \in Thread, MemoryNext(u) PROVE job'[t] = job[t] \/ WriteByte(t)
  BY <1>1, <1>4 DEF MemoryNext, ReadByte, WriteByte, StartRead, StartWrite, EndRaw, Discard, Set,
     Free, Does, P!InCall, Rewrites, Readers
<1>5. CASE CopyNext \/ UNCHANGED vars
  BY <1>5 DEF CopyNext, vars
<1> QED
  BY <1>2, <1>3, <1>4, <1>5 DEF Next

(* A byte written by a modify or restore.                                  *)
LEMMA ByteWritten ==
  ASSUME IInv, PatchesOnly, NEW u \in Thread, WriteByte(u)
  PROVE  /\ job[u].op \in Rewrites /\ job[u] \in Jobs /\ job[u].done < job[u].size
         /\ Len(job[u].data) = job[u].size /\ Span(job[u].at, job[u].size) \subseteq Addr
         /\ job'[u] \in Jobs /\ job'[u].op = job[u].op /\ job'[u].at = job[u].at
         /\ job'[u].data = job[u].data /\ job'[u].size = job[u].size
         /\ job'[u].done = job[u].done + 1
         /\ mem' = [mem EXCEPT ![job[u].at + job[u].done] = job[u].data[job[u].done + 1]]
         /\ \A t \in Thread \ {u} : job'[t] = job[t] /\ pmutex # t /\ t \notin Writing
<1>1. ThreadInv(u) /\ job[u].op \in Writers /\ job[u].done # job[u].size /\ job[u].op \notin Readers
  BY DEF IInv, WriteByte, Does, Finished, Writers, Readers
<1>2. /\ job[u] \in Jobs /\ job[u].done < job[u].size
      /\ Len(job[u].data) = job[u].size /\ Span(job[u].at, job[u].size) \subseteq Addr
  BY <1>1 DEF ThreadInv, WorkOK, Jobs
<1>3. pmutex = u /\ pframe[u].pc = "using"
  BY WriterHolds
<1>4. job[u].op \in Rewrites
  BY <1>1, <1>3 DEF ThreadInv, PatchPlace, PatchOps, Writers, Readers, Rewrites
<1>5. job' = [job EXCEPT ![u] = [job[u] EXCEPT !.done = job[u].done + 1]]
      /\ mem' = [mem EXCEPT ![job[u].at + job[u].done] = job[u].data[job[u].done + 1]]
  BY DEF WriteByte, Set
<1>6. job'[u] = [job[u] EXCEPT !.done = job[u].done + 1] /\ \A t \in Thread \ {u} : job'[t] = job[t]
  BY <1>5, Shapes
<1>7. /\ job'[u] \in Jobs /\ job'[u].op = job[u].op /\ job'[u].at = job[u].at
      /\ job'[u].data = job[u].data /\ job'[u].size = job[u].size
      /\ job'[u].done = job[u].done + 1
  BY <1>2, <1>6 DEF Jobs
<1>8. \A t \in Thread \ {u} : t \notin Writing
  BY <1>3, OneWrites
<1> QED
  BY <1>2, <1>3, <1>4, <1>5, <1>6, <1>7, <1>8

(* Reading a byte does not change what a call is.                          *)
LEMMA SameOp ==
  ASSUME NEW j \in Jobs, NEW g
  PROVE  [j EXCEPT !.done = @ + 1, !.got = g].op = j.op
BY DEF Jobs

LEMMA NextLanded ==
  ASSUME IInv, PatchesOnly, Landed, [Next]_vars
  PROVE  Landed'
<1> SUFFICES ASSUME NEW t \in Thread, job'[t].op \in Rewrites, NEW k \in 1 .. job'[t].done
             PROVE  mem'[job'[t].at + k - 1] = job'[t].data[k]
  BY DEF Landed
<1>1. ASSUME mem' = mem, job'[t] = job[t] PROVE mem'[job'[t].at + k - 1] = job'[t].data[k]
  BY <1>1 DEF Landed
<1>2. ASSUME NEW u \in Thread, ReadByte(u) PROVE mem' = mem /\ job'[t] = job[t]
  <2>1. mem' = mem /\ job[u].op \in Readers
    BY <1>2 DEF ReadByte, Does
  <2>2. CASE u # t
    BY <1>2, <2>1, <2>2, Shapes DEF ReadByte, Set
  <2>3. CASE u = t
    <3> DEFINE g == Append(job[t].got, mem[job[t].at + job[t].done])
    <3>1. job'[t] = [job[t] EXCEPT !.done = @ + 1, !.got = g]
      BY <1>2, <2>3, Shapes DEF ReadByte, Set
    <3>2. job[t] \in Jobs
      BY DEF IInv, ThreadInv, WorkOK
    <3> HIDE DEF g
    <3>3. job'[t].op = job[t].op
      BY <3>1, <3>2, SameOp
    <3> QED
      BY <2>1, <2>3, <3>3 DEF Readers, Rewrites
  <2> QED
    BY <2>2, <2>3
<1>3. ASSUME NEW u \in Thread, WriteByte(u) PROVE mem'[job'[t].at + k - 1] = job'[t].data[k]
  <2>1. CASE u # t
    <3>1. job'[t] = job[t] /\ pmutex # t
      BY <1>3, <2>1, ByteWritten
    <3>2. job[t].done # 0
      BY <3>1 DEF IInv, ThreadInv, WorkOK, Jobs
    <3> QED
      BY <3>1, <3>2, WritingHolds
  <2>2. CASE u = t
    <3> DEFINE w == job[t]
    <3>1. /\ w \in Jobs /\ w.done < w.size /\ w.op \in Rewrites
          /\ job'[t].at = w.at /\ job'[t].data = w.data /\ job'[t].done = w.done + 1
          /\ mem' = [mem EXCEPT ![w.at + w.done] = w.data[w.done + 1]]
          /\ Span(w.at, w.size) \subseteq Addr
      BY <1>3, <2>2, ByteWritten
    <3>2. w.at \in Nat /\ w.done \in Nat /\ w.size \in Nat
      BY <3>1 DEF Jobs
    <3>3. w.at + k - 1 \in Addr /\ w.at + w.done \in Addr
      BY <3>1, <3>2 DEF Span
    <3>4. CASE k \in 1 .. w.done
      <4>1. mem[w.at + k - 1] = w.data[k]
        BY <3>1, <3>4 DEF Landed
      <4>2. w.at + k - 1 # w.at + w.done
        BY <3>2, <3>4
      <4> QED
        BY <3>1, <3>3, <4>1, <4>2 DEF IInv
    <3>5. CASE k = w.done + 1
      <4>1. w.at + k - 1 = w.at + w.done
        BY <3>2, <3>5
      <4> QED
        BY <3>1, <3>3, <3>5, <4>1 DEF IInv
    <3> QED
      BY <3>1, <3>2, <3>4, <3>5
  <2> QED
    BY <2>1, <2>2
<1>4. CASE mem' = mem /\ Still(t)
  BY <1>1, <1>4 DEF Still
<1> QED
  BY <1>1, <1>2, <1>3, <1>4, StepKinds

-----------------------------------------------------------------------------
(* The patch behind a call is the one its variable shows.                  *)
LEMMA HeldPatch ==
  ASSUME IInv, NEW t \in Thread, pframe[t].pc = "using"
  PROVE  /\ pframe[t].slot \in PatchSlot
         /\ PatchHeld[pframe[t].slot] = ptable[pframe[t].id].obj
         /\ ptable[pframe[t].id].obj \in Patches
<1>1. /\ pframe[t].slot \in PatchSlot /\ pframe[t].id \in DOMAIN ptable
      /\ phandle[pframe[t].slot].id = pframe[t].id
  BY DEF IInv, PP!IInv, PP!CursorInv, PP!BorrowInv, PP!InCall
<1> QED
  BY <1>1, Shapes DEF PatchHeld

(* What a modify or restore writes, and where.                             *)
LEMMA RewriteOfPatch ==
  ASSUME IInv, NEW t \in Thread, pframe[t].pc = "using", job[t].op \in Rewrites,
         NEW o, o = ptable[pframe[t].id].obj
  PROVE  /\ job[t].at = o.at /\ Len(job[t].data) = job[t].size
         /\ job[t].data = IF job[t].op = "modify" THEN o.new ELSE o.orig
<1>1. WorkOK(job[t]) /\ Bare(job[t]) = PatchWork(job[t].op, o)
  BY DEF IInv, ThreadInv, PatchPlace
<1>2. Len(job[t].data) = job[t].size
  BY <1>1 DEF WorkOK, Writers, Rewrites
<1>3. Bare(job[t]).at = job[t].at /\ Bare(job[t]).data = job[t].data
  <2> DEFINE v == [job[t] EXCEPT !.done = 0]
  <2>1. v \in Jobs /\ v.at = job[t].at /\ v.data = job[t].data
    BY <1>1 DEF WorkOK, Jobs
  <2> HIDE DEF v
  <2>2. [v EXCEPT !.got = <<>>].at = v.at /\ [v EXCEPT !.got = <<>>].data = v.data
    BY <2>1 DEF Jobs
  <2>3. Bare(job[t]) = [v EXCEPT !.got = <<>>]
    BY DEF Bare, v
  <2> QED
    BY <2>1, <2>2, <2>3
<1>4. CASE job[t].op = "modify"
  BY <1>1, <1>2, <1>3, <1>4 DEF PatchWork, Work
<1>5. CASE job[t].op = "restore"
  BY <1>1, <1>2, <1>3, <1>5 DEF PatchWork, Work
<1> QED
  BY <1>4, <1>5 DEF Rewrites

(* The first byte of a modify or restore is the whole of it; the others    *)
(* show nothing.                                                           *)
LEMMA FirstByte ==
  ASSUME IInv, IInv', PatchesOnly, NEW u \in Thread, WriteByte(u), [Next]_vars
  PROVE  [Store!Next]_(Store!storeVars)
<1> DEFINE w == job[u]
           s == pframe[u].slot
           o == PatchHeld[s]
<1>1. /\ w.op \in Rewrites /\ w.at \in Nat /\ w.done \in Nat /\ w.size \in Nat
      /\ w.done < w.size /\ Len(w.data) = w.size
      /\ Span(w.at, w.size) \subseteq Addr
      /\ job'[u].op = w.op /\ job'[u].at = w.at /\ job'[u].data = w.data
      /\ job'[u].size = w.size /\ job'[u].done = w.done + 1
      /\ mem' = [mem EXCEPT ![w.at + w.done] = w.data[w.done + 1]]
      /\ \A t \in Thread \ {u} : job'[t] = job[t] /\ t \notin Writing
  BY ByteWritten DEF Jobs
<1>2. pframe[u].pc = "using" /\ mem \in [Addr -> Byte]
  BY WriterHolds DEF IInv
<1>3. s \in PatchSlot /\ o = ptable[pframe[u].id].obj /\ o \in Patches
  BY <1>2, HeldPatch
<1>4. UNCHANGED PatchHeld
  BY DEF WriteByte, pvars, PatchHeld
<1>5. Writing' = {u}
  BY <1>1 DEF Writing, Does, Rewrites
<1>6. MemoryAsPromised' = [a \in Addr |-> IF a \in Span(w.at, w.size)
                                          THEN w.data[a - w.at + 1] ELSE mem[a]]
  <2>1. \A a \in Addr : a \notin Span(w.at, w.size) => mem'[a] = mem[a]
    BY <1>1, <1>2 DEF Span
  <2> QED
    BY <1>1, <1>5, <2>1, PromisedWritingNext
<1>7. CASE w.done = 0
  <2>1. Writing = {}
    BY <1>1, <1>7 DEF Writing
  <2>2. MemoryAsPromised = [a \in Addr |-> mem[a]]
    BY <2>1, PromisedIdle
  <2>3. MemoryAsPromised' = Store!Put(MemoryAsPromised, w.at, w.data)
    BY <1>1, <1>6, <2>2 DEF Store!Put, Span
  <2>4. w.at = o.at /\ w.data = IF w.op = "modify" THEN o.new ELSE o.orig
    BY <1>1, <1>2, <1>3, RewriteOfPatch
  <2>5. o # NoPatch
    BY <1>3, MemoryAssumption
  <2>6. Store!Modify(s) \/ Store!Restore(s)
    BY <1>1, <1>4, <2>3, <2>4, <2>5 DEF Store!Modify, Store!Restore, Rewrites
  <2> QED
    BY <1>3, <2>6 DEF Store!Next
<1>8. CASE w.done # 0
  <2>1. Writing = {u}
    BY <1>1, <1>8 DEF Writing, Does, Rewrites
  <2>2. MemoryAsPromised' = MemoryAsPromised
    BY <1>6, <2>1, PromisedWriting
  <2> QED
    BY <1>4, <2>2 DEF Store!storeVars
<1> QED
  BY <1>7, <1>8

(* The steps that move no byte keep what is promised: a call that ends has *)
(* written all it was to write, or nothing.                                *)
LEMMA PromiseKept ==
  ASSUME IInv, IInv', Landed, [Next]_vars, mem' = mem, \A t \in Thread : Still(t)
  PROVE  MemoryAsPromised' = MemoryAsPromised
<1>1. Writing' \subseteq Writing /\ \A t \in Writing' : job'[t] = job[t]
  BY DEF Still, Writing, Does
<1>2. CASE \E t \in Writing : PatchDone(t)
  <2>1. PICK t \in Writing : PatchDone(t)
    BY <1>2
  <2>2. /\ Writing = {t} /\ t \in Thread /\ job[t].op \in Rewrites /\ job[t].done # 0
        /\ job[t] \in Jobs
    <3>1. t \in Thread /\ job[t].op \in Rewrites /\ job[t].done > 0
      BY <2>1 DEF Writing, Does, Rewrites
    <3>2. job[t] \in Jobs
      BY <3>1 DEF IInv, ThreadInv, WorkOK
    <3>3. job[t].done # 0
      BY <3>1, <3>2 DEF Jobs
    <3> QED
      BY <2>1, <3>1, <3>2, <3>3, OneWrites
  <2>3. job'[t] = NoWork
    BY <2>1, <2>2, Shapes DEF PatchDone, Set
  <2>4. Writing' = {}
    BY <1>1, <2>2, <2>3 DEF Writing, Does, NoWork, Work
  <2>5. job[t].done = job[t].size
    BY <2>1, <2>2 DEF PatchDone, Finished, Refused
  <2>6. ASSUME NEW a \in Addr, a \in Span(job[t].at, job[t].size)
        PROVE  job[t].data[a - job[t].at + 1] = mem[a]
    <3> DEFINE k == a - job[t].at + 1
    <3>1. /\ k \in 1 .. job[t].done /\ job[t].at + k - 1 = a
      <4>1. job[t].at \in Nat /\ job[t].size \in Nat
        BY <2>2 DEF Jobs
      <4>2. a \in job[t].at .. job[t].at + job[t].size - 1
        BY <2>6 DEF Span
      <4> QED
        BY <2>5, <4>1, <4>2
    <3> HIDE DEF k
    <3>2. mem[job[t].at + k - 1] = job[t].data[k]
      BY <2>2, <3>1 DEF Landed
    <3> QED
      BY <3>1, <3>2 DEF k
  <2>7. MemoryAsPromised = [a \in Addr |-> mem[a]]
    BY <2>2, <2>6, PromisedWriting
  <2> QED
    BY <2>4, <2>7, PromisedIdleNext
<1>3. CASE \A t \in Writing : ~PatchDone(t)
  <2>1. ASSUME NEW t \in Writing PROVE job'[t] = job[t]
    <3>1. t \in Thread /\ pframe[t].pc = "using" /\ job[t].op \in Rewrites
      BY OneWrites DEF Writing, Does, Rewrites
    <3>2. ~WriteByte(t) \/ job'[t] = job[t]
      <4>1. ASSUME WriteByte(t) PROVE job'[t].done # 0 /\ job'[t] # job[t]
        <5>1. job[t] \in Jobs
          BY <3>1 DEF IInv, ThreadInv, WorkOK
        <5>2. job'[t] = [job[t] EXCEPT !.done = job[t].done + 1]
          BY <3>1, <4>1, Shapes DEF WriteByte, Set
        <5>3. job'[t].done = job[t].done + 1 /\ job[t].done \in Nat
          BY <5>1, <5>2 DEF Jobs
        <5> QED
          BY <5>3
      <4> QED
        BY <3>1, <4>1 DEF Still
    <3> QED
      BY <1>3, <3>1, <3>2, UsingKeeps
  <2>2. Writing' = Writing
    BY <1>1, <2>1 DEF Writing, Does
  <2> QED
    BY <2>1, <2>2, SamePromise
<1> QED
  BY <1>2, <1>3

-----------------------------------------------------------------------------
(* The registry's steps show as the birth and the end of a patch.          *)
LEMMA BookkeepingShows ==
  ASSUME IInv, SysCopies = FALSE, NEW t \in Thread, PatchBookkeeping(t),
         MemoryAsPromised' = MemoryAsPromised
  PROVE  [Store!Next]_(Store!storeVars)
<1> DEFINE s == pframe[t].slot
<1>1. /\ PP!TypeOK /\ PP!IdInv /\ PP!BorrowInv /\ PP!ValidIffHandle /\ PP!OwnedIsRegistered
  BY DEF IInv, PP!IInv
<1>2. ASSUME pframe[t].pc # "idle" PROVE s \in PatchSlot
  BY <1>1, <1>2 DEF PP!BorrowInv
<1>3. phandle \in [PatchSlot -> PP!Handles] /\ DOMAIN ptable \subseteq Nat \ {0}
  BY <1>1 DEF PP!TypeOK
<1>4. CASE P!CreateLock(t)
  BY <1>4 DEF P!CreateLock, PatchHeld, Store!storeVars
<1>5. CASE P!CreateInsert(t)
  <2> DEFINE n == pframe[t].id
             o == pframe[t].obj
  <2>1. /\ s \in PatchSlot /\ n = pnext /\ phandle[s].id = 0 /\ o \in Patches
    BY <1>1, <1>2, <1>5 DEF P!CreateInsert, P!InCall, PP!InCall, PP!IdInv, PP!BorrowInv
  <2>2. /\ ptable' = [i \in DOMAIN ptable \cup {n} |->
                        IF i = n THEN [obj |-> o, born |-> pserial + 1] ELSE ptable[i]]
        /\ phandle' = [phandle EXCEPT ![s] =
                         [id |-> n, valid |-> TRUE, obj |-> o, born |-> pserial + 1]]
    BY <1>5 DEF P!CreateInsert
  <2>3. /\ \A d \in PatchSlot : phandle[d].id < n /\ phandle[d].id \in Nat
        /\ n \in Nat
    BY <1>1, <1>3, <2>1 DEF PP!IdInv, PP!Handles, PP!TypeOK
  <2> HIDE DEF s, n, o
  <2>4. PatchHeld[s] = NoPatch
    BY <1>3, <2>1 DEF PatchHeld
  <2>5. PatchHeld' = [PatchHeld EXCEPT ![s] = o]
    <3>1. phandle'[s].id = n /\ n \in DOMAIN ptable' /\ ptable'[n].obj = o
      BY <1>3, <2>1, <2>2
    <3>2. ASSUME NEW d \in PatchSlot, d # s
          PROVE  /\ phandle'[d].id = phandle[d].id
                 /\ phandle'[d].id \in DOMAIN ptable' <=> phandle[d].id \in DOMAIN ptable
                 /\ phandle[d].id \in DOMAIN ptable =>
                      ptable'[phandle[d].id] = ptable[phandle[d].id]
      BY <1>3, <2>2, <2>3, <3>2
    <3> QED
      BY <2>1, <3>1, <3>2 DEF PatchHeld
  <2>6. PICK r \in Requests : o \in [at : {r.at}, new : {r.new}, orig : Bytes(Len(r.new))]
    BY <2>1 DEF Patches
  <2>7. /\ o = [at |-> r.at, new |-> r.new, orig |-> o.orig]
        /\ o.orig \in [1 .. Len(r.new) -> Byte]
    BY <2>6 DEF Bytes
  <2>8. Store!Create(s, r)
    BY <2>4, <2>5, <2>7 DEF Store!Create
  <2> QED
    BY <2>1, <2>8 DEF Store!Next
<1>6. CASE P!FreeErase(t)
  <2>1. /\ s \in PatchSlot
        /\ ptable' = [i \in DOMAIN ptable \ {phandle[s].id} |-> ptable[i]]
        /\ phandle' = [phandle EXCEPT ![s] = P!Cleared(@)]
    BY <1>2, <1>6 DEF P!FreeErase, P!InCall
  <2> HIDE DEF s
  <2>2. phandle'[s].id = 0
    BY <1>3, <2>1 DEF P!Cleared, PP!Handles
  <2>3. ASSUME NEW d \in PatchSlot, d # s, phandle[d].id \in DOMAIN ptable
        PROVE  phandle[d].id # phandle[s].id
    <3>1. phandle[d].valid
      BY <1>1, <1>3, <2>3 DEF PP!ValidIffHandle
    <3> QED
      BY <1>1, <2>1, <2>3, <3>1 DEF PP!OwnedIsRegistered
  <2>4. PatchHeld' = [PatchHeld EXCEPT ![s] = NoPatch]
    <3>1. 0 \notin DOMAIN ptable'
      BY <1>3, <2>1
    <3>2. ASSUME NEW d \in PatchSlot, d # s
          PROVE  /\ phandle'[d].id = phandle[d].id
                 /\ phandle'[d].id \in DOMAIN ptable' <=> phandle[d].id \in DOMAIN ptable
                 /\ phandle[d].id \in DOMAIN ptable =>
                      ptable'[phandle[d].id] = ptable[phandle[d].id]
      BY <1>3, <2>1, <2>3, <3>2
    <3>3. ASSUME NEW d \in PatchSlot
          PROVE  PatchHeld'[d] = IF d = s THEN NoPatch ELSE PatchHeld[d]
      BY <2>2, <3>1, <3>2 DEF PatchHeld
    <3>4. /\ PatchHeld = [d \in PatchSlot |-> PatchHeld[d]]
          /\ PatchHeld' = [d \in PatchSlot |-> PatchHeld'[d]]
      BY DEF PatchHeld
    <3> QED
      BY <2>1, <3>3, <3>4
  <2>5. Store!Drop(s)
    BY <2>4 DEF Store!Drop
  <2> QED
    BY <2>1, <2>5 DEF Store!Next
<1> QED
  BY <1>4, <1>5, <1>6 DEF PatchBookkeeping

(* Every other step leaves the variables' patches alone.                   *)
LEMMA HeldKept ==
  ASSUME [Next]_vars, SysCopies = FALSE
  PROVE  UNCHANGED PatchHeld \/ \E t \in Thread : PatchBookkeeping(t)
<1>1. ASSUME NEW t \in Thread, PatchNext(t), ~PatchBookkeeping(t) PROVE UNCHANGED <<ptable, phandle>>
  BY <1>1 DEF PatchNext, StartPatch, RegisterPatch, BeginPatchUse, PatchFound, PatchDone,
     PatchMissing, BeginPatchFree, P!BeginCreate, P!BeginUse, P!UseLock, P!UseEnd, P!UseMissing,
     P!BeginFree, pvars
<1>2. ASSUME NEW t \in Thread, BackupNext(t) \/ MemoryNext(t) PROVE UNCHANGED <<ptable, phandle>>
  BY <1>2 DEF BackupNext, StartBackup, RegisterBackup, BeginBackupUse, BackupFound, BackupDone,
     BackupMissing, BeginBackupFree, BackupBookkeeping, MemoryNext, ReadByte, WriteByte, StartRead,
     StartWrite, EndRaw, Discard, pvars
<1>3. ASSUME CopyNext \/ UNCHANGED vars PROVE UNCHANGED <<ptable, phandle>>
  <2>1. \A s, d : ~P!CopyHandle(s, d)
    BY DEF P!CopyHandle
  <2> QED
    BY <1>3, <2>1 DEF CopyNext, vars, pvars
<1>4. CASE UNCHANGED <<ptable, phandle>>
  BY <1>4 DEF PatchHeld
<1> QED
  BY <1>1, <1>2, <1>3, <1>4 DEF Next

LEMMA StepShows ==
  ASSUME IInv, IInv', SafePatches, Landed, [Next]_vars
  PROVE  [Store!Next]_(Store!storeVars)
<1> USE DEF SafePatches
<1>1. CASE \E u \in Thread : WriteByte(u)
  BY <1>1, FirstByte
<1>2. ASSUME NEW u \in Thread, ReadByte(u) PROVE [Store!Next]_(Store!storeVars)
  <2>1. mem' = mem /\ UNCHANGED PatchHeld /\ job[u].op \in Readers
    BY <1>2 DEF ReadByte, Does, pvars, PatchHeld
  <2>2. \A t \in Thread \ {u} : job'[t] = job[t]
    BY <1>2, Shapes DEF ReadByte, Set
  <2>3. job'[u].op = job[u].op
    <3> DEFINE v == [job[u] EXCEPT !.done = @ + 1]
               g == Append(job[u].got, mem[job[u].at + job[u].done])
    <3>1. job'[u] = [v EXCEPT !.got = g]
      BY <1>2, Shapes DEF ReadByte, Set
    <3>2. job[u] \in Jobs
      BY DEF IInv, ThreadInv, WorkOK
    <3>3. v \in Jobs /\ v.op = job[u].op
      BY <3>2 DEF Jobs
    <3> HIDE DEF v, g
    <3>4. [v EXCEPT !.got = g].op = v.op
      BY <3>3 DEF Jobs
    <3> QED
      BY <3>1, <3>3, <3>4
  <2>4. u \notin Writing /\ u \notin Writing'
    BY <2>1, <2>3 DEF Writing, Does, Readers
  <2>5. Writing' = Writing
    BY <2>2, <2>4 DEF Writing, Does
  <2>6. \A t \in Writing : job'[t] = job[t]
    BY <2>2, <2>4 DEF Writing
  <2> QED
    BY <2>1, <2>5, <2>6, SamePromise DEF Store!storeVars
<1>3. CASE mem' = mem /\ \A t \in Thread : Still(t)
  <2>1. MemoryAsPromised' = MemoryAsPromised
    BY <1>3, PromiseKept
  <2> QED
    BY <2>1, HeldKept, BookkeepingShows DEF Store!storeVars
<1> QED
  BY <1>1, <1>2, <1>3, StepKinds

(* Where a safe program writes its code through patches alone, each modify *)
(* and each restore takes place at once, and a patch keeps the bytes it    *)
(* was created with.  (km_patch_modify and km_patch_restore keep the mutex *)
(* from find() to their return, wrapper.cpp.)                              *)
THEOREM PatchesImplementStore == SafePatches /\ Spec => PatchesAreAtomic
<1>1. Init => Landed /\ Store!Init
  <2> SUFFICES ASSUME Init PROVE Landed /\ Store!Init
    OBVIOUS
  <2>1. \A t \in Thread : job[t].op = "none"
    BY DEF Init, NoWork, Work
  <2>2. Writing = {}
    BY <2>1 DEF Writing, Does
  <2>3. MemoryAsPromised = Pristine
    BY <2>2, PromisedIdle, MemoryAssumption DEF Init
  <2>4. PatchHeld = [s \in PatchSlot |-> NoPatch]
    BY DEF Init, P!Init, PatchHeld
  <2> QED
    BY <2>1, <2>3, <2>4 DEF Landed, Rewrites, Store!Init
<1>2. SafePatches => SafePatches'
  BY DEF SafePatches, PatchesOnly
<1>3. IInv /\ SafePatches /\ Landed /\ [Next]_vars => IInv' /\ Landed'
  BY NextIInv, NextLanded DEF SafePatches
<1>4. IInv /\ IInv' /\ SafePatches /\ Landed /\ [Next]_vars => [Store!Next]_(Store!storeVars)
  BY StepShows
<1> QED
  BY <1>1, <1>2, <1>3, <1>4, InitIInv, PTL DEF Spec, Store!Spec, PatchesAreAtomic
=============================================================================
