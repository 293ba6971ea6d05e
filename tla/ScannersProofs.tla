--------------------------- MODULE ScannersProofs ---------------------------
(***************************************************************************)
(* Theorems about Scanners, for any libraries, pages, threads and bounds.  *)
(* What HandleRegistryProofs proves of the registry is used by instance.   *)
(***************************************************************************)
EXTENDS Scanners, TLAPS

EP == INSTANCE HandleRegistryProofs WITH
  Object <- Page, table <- etable, nextId <- enext, mutex <- emutex,
  handle <- ehandle, frame <- eframe, serial <- eserial

(* The registry of the model and the one of its proofs are one.            *)
LEMMA SameRegistry ==
  /\ E!Init => EP!Init
  /\ E!TypeOK <=> EP!TypeOK
  /\ E!TypeOK' <=> EP!TypeOK'
  /\ \A t : E!CreateLock(t) <=> EP!CreateLock(t)
  /\ \A t : E!CreateInsert(t) <=> EP!CreateInsert(t)
  /\ \A t : E!UseMissing(t) <=> EP!UseMissing(t)
  /\ \A t : E!UseLock(t) <=> EP!UseLock(t)
  /\ \A t : E!UseEnd(t) <=> EP!UseEnd(t)
  /\ \A t : E!FreeErase(t) <=> EP!FreeErase(t)
  /\ \A t, s, o : E!BeginCreate(t, s, o) <=> EP!BeginCreate(t, s, o)
  /\ \A t, s, m : E!BeginUse(t, s, m) <=> EP!BeginUse(t, s, m)
  /\ \A t, s : E!BeginFree(t, s) <=> EP!BeginFree(t, s)
  /\ \A s, d : E!CopyHandle(s, d) <=> EP!CopyHandle(s, d)
<1> USE DEF E!InCall, EP!InCall, E!Return, EP!Return, E!IdleFrame, EP!IdleFrame,
            E!Users, EP!Users, E!MayBorrow, EP!MayBorrow, E!MayBorrowMut, EP!MayBorrowMut,
            E!MayBorrowFor, EP!MayBorrowFor
<1>1. E!Init => EP!Init
  BY DEF E!Init, EP!Init, E!NullHandle, EP!NullHandle
<1>2. (E!TypeOK <=> EP!TypeOK) /\ (E!TypeOK' <=> EP!TypeOK')
  BY DEF E!TypeOK, EP!TypeOK, E!Entries, EP!Entries, E!Handles, EP!Handles, E!Frames,
         EP!Frames, E!PCs, EP!PCs
<1>3. ASSUME NEW t
      PROVE  /\ E!CreateLock(t) <=> EP!CreateLock(t)
             /\ E!CreateInsert(t) <=> EP!CreateInsert(t)
             /\ E!UseMissing(t) <=> EP!UseMissing(t)
             /\ E!UseLock(t) <=> EP!UseLock(t)
             /\ E!UseEnd(t) <=> EP!UseEnd(t)
             /\ E!FreeErase(t) <=> EP!FreeErase(t)
  BY DEF E!CreateLock, EP!CreateLock, E!CreateInsert, EP!CreateInsert, E!UseMissing,
         EP!UseMissing, E!UseLock, EP!UseLock, E!UseEnd, EP!UseEnd, E!FreeErase,
         EP!FreeErase, E!Cleared, EP!Cleared
<1>4. ASSUME NEW t, NEW s
      PROVE  E!BeginFree(t, s) <=> EP!BeginFree(t, s)
  BY DEF E!BeginFree, EP!BeginFree
<1>5. ASSUME NEW t, NEW s, NEW o
      PROVE  E!BeginCreate(t, s, o) <=> EP!BeginCreate(t, s, o)
  BY DEF E!BeginCreate, EP!BeginCreate, E!Cardinality, EP!Cardinality
<1>6. ASSUME NEW t, NEW s, NEW m
      PROVE  E!BeginUse(t, s, m) <=> EP!BeginUse(t, s, m)
  BY DEF E!BeginUse, EP!BeginUse
<1>7. ASSUME NEW s, NEW d
      PROVE  E!CopyHandle(s, d) <=> EP!CopyHandle(s, d)
  BY DEF E!CopyHandle, EP!CopyHandle
<1> QED
  BY <1>1, <1>2, <1>3, <1>4, <1>5, <1>6, <1>7

(* What was read of a page, by a lookup or by a refresh, was read since    *)
(* the lookup began; if the page was not unloaded since then, the maps     *)
(* showed what is there now or nothing, and the headers were of the same.  *)
Kept(x, m, a) ==
  /\ x \in Snapshots
  /\ x.found <= a[x.page]
  /\ a[x.page] = x.found /\ x.maps # NoLib => m[x.page] = x.maps /\ x.elf \in {Unread, x.maps}

Sound(x, m, a) == Kept(x, m, a) /\ (a[x.page] = x.found => x.maps # NoLib)

ReadInv ==
  /\ \A t \in Thread : seen[t] # NoScan => Kept(seen[t], mapped, age)
  /\ \A i \in DOMAIN scan : Sound(scan[i], mapped, age)

(* The threads that register a scanner have read it whole and found it     *)
(* valid.                                                                  *)
FoundInv ==
  \A t \in Thread : eframe[t].pc \in {"create", "insert"} =>
    seen[t] # NoScan /\ seen[t].maps # NoLib /\ seen[t].elf # Unread

Refreshing(t, i) == eframe[t].pc = "using" /\ eframe[t].mode = "mut" /\ eframe[t].id = i

(* A scanner that is half read is being refreshed.  That nobody else works *)
(* on it then follows from the registry's LockInv.                         *)
HalfInv ==
  \A i \in DOMAIN scan : scan[i].elf = Unread => \E t \in Thread : Refreshing(t, i)

IInv ==
  /\ EP!IInv
  /\ TypeOK
  /\ ReadInv
  /\ FoundInv
  /\ HalfInv

(* Every step is a step of the registry, or none of it.                    *)
LEMMA RegistryStep == TypeOK /\ [Next]_vars => [EP!Next]_(EP!vars)
<1> SUFFICES ASSUME TypeOK, Next PROVE [EP!Next]_(EP!vars)
  BY DEF vars, evars, EP!vars
<1>1. CASE UNCHANGED evars
  BY <1>1 DEF evars, EP!vars
<1>2. ASSUME NEW t \in Thread,
             \/ E!CreateLock(t) \/ E!CreateInsert(t) \/ E!UseMissing(t)
             \/ E!UseLock(t) \/ E!UseEnd(t) \/ E!FreeErase(t)
      PROVE  EP!Next
  BY <1>2, SameRegistry DEF EP!Next, EP!Step
<1>3. ASSUME NEW t \in Thread, NEW s \in Slot,
             \/ \E p \in Page : E!BeginCreate(t, s, p)
             \/ \E m \in {"mut", "shr"} : E!BeginUse(t, s, m)
             \/ E!BeginFree(t, s)
      PROVE  EP!Next
  BY <1>3, SameRegistry DEF EP!Next, EP!Begin
<1>4. ASSUME NEW s \in Slot, NEW d \in Slot, E!CopyHandle(s, d) PROVE EP!Next
  BY <1>4, SameRegistry DEF EP!Next
<1>5. ASSUME NEW t \in Thread, NEW s \in Slot, FindElf(t, s) PROVE [EP!Next]_(EP!vars)
  <2>1. seen[t].page \in Page
    BY <1>5 DEF FindElf, TypeOK, Snapshots
  <2> QED
    BY <1>1, <1>3, <1>5, <2>1 DEF FindElf
<1> QED
  BY <1>1, <1>2, <1>3, <1>4, <1>5 DEF Next, Load, Unload, Copy, FindMaps, Lock, Insert, Call,
     Get, RefreshMaps, Refresh, BeginDrop, Drop

LEMMA InitIInv == Init => IInv
<1> SUFFICES ASSUME Init PROVE IInv
  OBVIOUS
<1> USE ScannerAssumption DEF Init
<1>1. EP!IInv
  BY SameRegistry, EP!InitIInv
<1>2. /\ DOMAIN etable = {} /\ DOMAIN scan = {}
      /\ \A t \in Thread : eframe[t].pc = "idle"
  BY DEF E!Init, E!IdleFrame
<1>3. E!TypeOK
  BY <1>1, SameRegistry DEF EP!IInv
<1> QED
  BY <1>1, <1>2, <1>3 DEF IInv, TypeOK, ReadInv, FoundInv, HalfInv

(* A step of the linker ages a page where it takes a library away, and     *)
(* brings one only where there was none.                                   *)
LEMMA LinkerKeeps ==
  ASSUME TypeOK, (\E p \in Page, l \in Lib : Load(p, l)) \/ (\E p \in Page : Unload(p)),
         NEW x
  PROVE  /\ Kept(x, mapped, age) => Kept(x, mapped', age')
         /\ Sound(x, mapped, age) => Sound(x, mapped', age')
<1> SUFFICES ASSUME Kept(x, mapped, age)
             PROVE  /\ Kept(x, mapped', age')
                    /\ age'[x.page] = x.found => age[x.page] = x.found
  BY DEF Sound
<1>1. /\ x.page \in Page /\ x.found \in Nat /\ x.maps \in Lib \cup {NoLib}
      /\ x.found <= age[x.page] /\ age[x.page] \in Nat
      /\ age[x.page] = x.found /\ x.maps # NoLib => mapped[x.page] = x.maps
  BY DEF Kept, Snapshots, TypeOK
<1>2. CASE \E p \in Page, l \in Lib : Load(p, l)
  BY <1>1, <1>2 DEF Load, TypeOK, Kept
<1>3. CASE \E p \in Page : Unload(p)
  <2>1. PICK p \in Page : Unload(p)
    BY <1>3
  <2>2. CASE x.page = p
    BY <1>1, <2>1, <2>2 DEF Unload, TypeOK, Kept
  <2>3. CASE x.page # p
    BY <1>1, <2>1, <2>3 DEF Unload, TypeOK, Kept
  <2> QED
    BY <2>2, <2>3
<1> QED
  BY <1>2, <1>3

(* What is left to show of any step, the registry's part being its own.    *)
LEMMA StepIInv ==
  ASSUME IInv, [Next]_vars,
         mapped' \in [Page -> Lib \cup {NoLib}], age' \in [Page -> 0 .. MaxAge],
         seen' \in [Thread -> Snapshots \cup {NoScan}],
         DOMAIN scan' = DOMAIN etable',
         ReadInv', FoundInv', HalfInv'
  PROVE  IInv'
<1>1. EP!IInv'
  BY RegistryStep, EP!NextIInv, ScannerAssumption DEF IInv
<1>2. E!TypeOK'
  BY <1>1, SameRegistry DEF EP!IInv
<1>3. \A i \in DOMAIN scan' : scan'[i] \in Snapshots
  BY DEF ReadInv, Sound, Kept
<1> QED
  BY <1>1, <1>2, <1>3 DEF IInv, TypeOK

(* A step of one thread that is not in the middle of a refresh leaves the  *)
(* refreshes of the others as they are.                                    *)
LEMMA OthersRefresh ==
  ASSUME NEW t \in Thread, IInv,
         \A u \in Thread \ {t} : eframe'[u] = eframe[u],
         NEW i, i \in DOMAIN scan, scan[i].elf = Unread,
         ~Refreshing(t, i)
  PROVE  \E u \in Thread : Refreshing(u, i)'
  BY DEF IInv, HalfInv, Refreshing

LEMMA LinkerIInv ==
  ASSUME IInv, [Next]_vars,
         (\E p \in Page, l \in Lib : Load(p, l)) \/ (\E p \in Page : Unload(p))
  PROVE  IInv'
<1>1. UNCHANGED <<evars, scan, seen>>
  BY DEF Load, Unload
<1>2. mapped' \in [Page -> Lib \cup {NoLib}] /\ age' \in [Page -> 0 .. MaxAge]
  BY ScannerAssumption DEF Load, Unload, IInv, TypeOK
<1>3. ReadInv'
  <2>1. \A x : /\ Kept(x, mapped, age) => Kept(x, mapped', age')
               /\ Sound(x, mapped, age) => Sound(x, mapped', age')
    BY LinkerKeeps DEF IInv
  <2> QED
    BY <1>1, <2>1 DEF IInv, ReadInv
<1>4. FoundInv' /\ HalfInv'
  BY <1>1 DEF IInv, FoundInv, HalfInv, Refreshing, evars
<1>5. seen' \in [Thread -> Snapshots \cup {NoScan}] /\ DOMAIN scan' = DOMAIN etable'
  BY <1>1 DEF IInv, TypeOK, evars
<1> QED
  BY <1>2, <1>3, <1>4, <1>5, StepIInv

(* A lookup reads the maps.                                                *)
LEMMA FindMapsIInv ==
  ASSUME IInv, [Next]_vars, NEW t \in Thread, NEW p \in Page, FindMaps(t, p)
  PROVE  IInv'
<1> DEFINE x == [page |-> p, maps |-> mapped[p], elf |-> Unread, found |-> age[p]]
<1>1. /\ UNCHANGED <<mapped, age, evars, scan>> /\ seen' = [seen EXCEPT ![t] = x]
      /\ eframe[t].pc = "idle"
  BY DEF FindMaps, Free, E!InCall
<1>2. x \in Snapshots /\ Kept(x, mapped, age)
  BY DEF Kept, Snapshots, IInv, TypeOK
<1> HIDE DEF x
<1>3. seen' \in [Thread -> Snapshots \cup {NoScan}]
  BY <1>1, <1>2 DEF IInv, TypeOK
<1>4. ReadInv'
  BY <1>1, <1>2 DEF IInv, TypeOK, ReadInv
<1>5. FoundInv' /\ HalfInv'
  BY <1>1 DEF IInv, TypeOK, FoundInv, HalfInv, Refreshing, evars
<1> QED
  BY <1>1, <1>3, <1>4, <1>5, StepIInv DEF IInv, TypeOK, evars

(* It reads the ELF, and goes on to register what is valid.                *)
LEMMA FindElfIInv ==
  ASSUME IInv, [Next]_vars, NEW t \in Thread, NEW s \in Slot, FindElf(t, s)
  PROVE  IInv'
<1> DEFINE p == seen[t].page
           x == [seen[t] EXCEPT !.elf = mapped[p]]
<1>1. /\ seen[t] \in Snapshots /\ Kept(seen[t], mapped, age) /\ eframe[t].pc = "idle"
      /\ UNCHANGED <<mapped, age, scan, etable>>
      /\ \A u \in Thread \ {t} : eframe'[u] = eframe[u]
      /\ eframe'[t].pc # "using"
  BY DEF FindElf, E!BeginCreate, evars, E!InCall, IInv, TypeOK, E!TypeOK, ReadInv
<1>2. \/ /\ seen' = [seen EXCEPT ![t] = x] /\ x.maps # NoLib /\ mapped[p] # NoLib
      \/ seen' = [seen EXCEPT ![t] = NoScan] /\ UNCHANGED eframe
  BY <1>1 DEF FindElf, evars, IInv, TypeOK, Snapshots
<1>3. /\ x \in Snapshots /\ Kept(x, mapped, age)
      /\ mapped[p] # NoLib => x.elf # Unread
  BY <1>1, ScannerAssumption DEF Kept, Snapshots, IInv, TypeOK
<1>4. seen' \in [Thread -> Snapshots \cup {NoScan}]
  BY <1>1, <1>2, <1>3 DEF IInv, TypeOK
<1>5. ReadInv'
  BY <1>1, <1>2, <1>3 DEF IInv, TypeOK, ReadInv
<1>6. FoundInv'
  BY <1>1, <1>2, <1>3, ScannerAssumption DEF IInv, TypeOK, FoundInv
<1>7. HalfInv'
  BY <1>1, OthersRefresh DEF HalfInv, Refreshing
<1> QED
  BY <1>1, <1>4, <1>5, <1>6, <1>7, StepIInv DEF IInv, TypeOK

(* The registration.                                                       *)
LEMMA InsertIInv ==
  ASSUME IInv, [Next]_vars, NEW t \in Thread, Insert(t)
  PROVE  IInv'
<1> DEFINE n == eframe[t].id
<1>1. /\ UNCHANGED <<mapped, age>> /\ eframe[t].pc = "insert"
      /\ scan' = [i \in DOMAIN scan \cup {n} |-> IF i = n THEN seen[t] ELSE scan[i]]
      /\ seen' = [seen EXCEPT ![t] = NoScan]
      /\ DOMAIN etable' = DOMAIN etable \cup {n}
      /\ eframe' = [eframe EXCEPT ![t] = E!IdleFrame]
  BY DEF Insert, E!CreateInsert, E!Return, E!InCall
<1>2. /\ seen[t] # NoScan /\ seen[t].maps # NoLib /\ seen[t].elf # Unread
      /\ Sound(seen[t], mapped, age)
  BY <1>1 DEF IInv, FoundInv, ReadInv, Sound
<1>3. ReadInv'
  BY <1>1, <1>2 DEF IInv, TypeOK, ReadInv
<1>4. FoundInv'
  BY <1>1 DEF IInv, TypeOK, E!TypeOK, E!IdleFrame, FoundInv
<1>5. HalfInv'
  <2> SUFFICES ASSUME NEW i \in DOMAIN scan', scan'[i].elf = Unread
               PROVE  \E u \in Thread : Refreshing(u, i)'
    BY DEF HalfInv
  <2>1. i \in DOMAIN scan /\ scan[i].elf = Unread
    BY <1>1, <1>2
  <2>2. \A u \in Thread \ {t} : eframe'[u] = eframe[u]
    BY <1>1 DEF IInv, TypeOK, E!TypeOK
  <2> QED
    BY <1>1, <2>1, <2>2, OthersRefresh DEF Refreshing
<1>6. seen' \in [Thread -> Snapshots \cup {NoScan}] /\ DOMAIN scan' = DOMAIN etable'
  BY <1>1 DEF IInv, TypeOK
<1> QED
  BY <1>1, <1>3, <1>4, <1>5, <1>6, StepIInv DEF IInv, TypeOK

(* The scanner a call works on is in the map.                              *)
LEMMA UsedIsScanner ==
  ASSUME IInv, NEW t \in Thread, eframe[t].pc = "using"
  PROVE  /\ eframe[t].id \in DOMAIN scan
         /\ eframe[t].id = ehandle[eframe[t].slot].id
  BY DEF IInv, EP!IInv, EP!CursorInv, EP!InCall, TypeOK

(* A refresh reads the maps.                                               *)
LEMMA RefreshMapsIInv ==
  ASSUME IInv, [Next]_vars, NEW t \in Thread, RefreshMaps(t)
  PROVE  IInv'
<1> DEFINE n == eframe[t].id
           x == [scan[n] EXCEPT !.maps = mapped[scan[n].page], !.elf = Unread]
<1>1. /\ UNCHANGED <<mapped, age, evars, seen>>
      /\ eframe[t].pc = "using" /\ eframe[t].mode = "mut"
      /\ n \in DOMAIN scan /\ Sound(scan[n], mapped, age) /\ scan[n] \in Snapshots
  BY UsedIsScanner DEF RefreshMaps, E!InCall, IInv, ReadInv, TypeOK
<1>2. scan' = [scan EXCEPT ![n] = x]
  BY DEF RefreshMaps
<1>3. Sound(x, mapped, age)
  BY <1>1 DEF Sound, Kept, Snapshots, IInv, TypeOK
<1> HIDE DEF x
<1>4. ReadInv'
  BY <1>1, <1>2, <1>3 DEF IInv, ReadInv
<1>5. HalfInv'
  BY <1>1, <1>2 DEF IInv, HalfInv, Refreshing, evars
<1>6. FoundInv'
  BY <1>1 DEF IInv, FoundInv, evars
<1>7. seen' \in [Thread -> Snapshots \cup {NoScan}] /\ DOMAIN scan' = DOMAIN etable'
  BY <1>1, <1>2 DEF IInv, TypeOK, evars
<1> QED
  BY <1>1, <1>4, <1>5, <1>6, <1>7, StepIInv DEF IInv, TypeOK

(* It reads the ELF, and ends.                                             *)
LEMMA RefreshIInv ==
  ASSUME IInv, [Next]_vars, NEW t \in Thread, Refresh(t)
  PROVE  IInv'
<1> DEFINE n == eframe[t].id
           x == [scan[n] EXCEPT !.elf = mapped[scan[n].page]]
<1>1. /\ UNCHANGED <<mapped, age, seen, etable>>
      /\ eframe[t].pc = "using" /\ scan[n].elf = Unread
      /\ n \in DOMAIN scan /\ Sound(scan[n], mapped, age) /\ scan[n] \in Snapshots
      /\ eframe' = [eframe EXCEPT ![t] = E!IdleFrame]
  BY UsedIsScanner DEF Refresh, E!UseEnd, E!Return, E!InCall, IInv, ReadInv, TypeOK
<1>2. scan' = [scan EXCEPT ![n] = x]
  BY DEF Refresh
<1>3. Sound(x, mapped, age) /\ x.elf # Unread
  BY <1>1, ScannerAssumption DEF Sound, Kept, Snapshots, IInv, TypeOK
<1> HIDE DEF x
<1>4. ReadInv'
  BY <1>1, <1>2, <1>3 DEF IInv, ReadInv
<1>5. HalfInv'
  <2> SUFFICES ASSUME NEW i \in DOMAIN scan', scan'[i].elf = Unread
               PROVE  \E u \in Thread : Refreshing(u, i)'
    BY DEF HalfInv
  <2>1. i \in DOMAIN scan /\ scan[i].elf = Unread /\ i # n
    BY <1>1, <1>2, <1>3
  <2>2. \A u \in Thread \ {t} : eframe'[u] = eframe[u]
    BY <1>1 DEF IInv, TypeOK, E!TypeOK
  <2> QED
    BY <2>1, <2>2, OthersRefresh DEF Refreshing
<1>6. FoundInv'
  BY <1>1 DEF IInv, TypeOK, E!TypeOK, E!IdleFrame, FoundInv
<1>7. seen' \in [Thread -> Snapshots \cup {NoScan}] /\ DOMAIN scan' = DOMAIN etable'
  BY <1>1, <1>2 DEF IInv, TypeOK
<1> QED
  BY <1>1, <1>4, <1>5, <1>6, <1>7, StepIInv DEF IInv, TypeOK

(* A drop erases the scanner with its entry.                               *)
LEMMA DropIInv ==
  ASSUME IInv, [Next]_vars, NEW t \in Thread, Drop(t)
  PROVE  IInv'
<1>1. /\ UNCHANGED <<mapped, age, seen>>
      /\ scan' = [i \in DOMAIN etable' |-> scan[i]]
      /\ DOMAIN etable' \subseteq DOMAIN scan
      /\ eframe' = [eframe EXCEPT ![t] = E!IdleFrame]
      /\ eframe[t].pc = "free"
  BY DEF Drop, E!FreeErase, E!Return, E!InCall, IInv, TypeOK
<1>2. FoundInv'
  BY <1>1 DEF IInv, TypeOK, E!TypeOK, E!IdleFrame, FoundInv
<1>3. ReadInv'
  BY <1>1 DEF IInv, ReadInv
<1>4. HalfInv'
  <2> SUFFICES ASSUME NEW i \in DOMAIN scan', scan'[i].elf = Unread
               PROVE  \E u \in Thread : Refreshing(u, i)'
    BY DEF HalfInv
  <2>1. i \in DOMAIN scan /\ scan[i].elf = Unread
    BY <1>1
  <2>2. \A u \in Thread \ {t} : eframe'[u] = eframe[u]
    BY <1>1 DEF IInv, TypeOK, E!TypeOK
  <2> QED
    BY <1>1, <2>1, <2>2, OthersRefresh DEF Refreshing
<1> QED
  BY <1>1, <1>2, <1>3, <1>4, StepIInv DEF IInv, TypeOK

(* The steps that are the registry's own: the call of a thread moves on,   *)
(* and neither a registration nor a refresh begins or ends there.          *)
LEMMA PlainIInv ==
  ASSUME IInv, [Next]_vars,
         \/ \E s, d \in Slot : Copy(s, d)
         \/ \E t \in Thread : Lock(t) \/ Get(t)
         \/ \E t \in Thread, s \in Slot, m \in {"mut", "shr"} : Call(t, s, m)
         \/ \E t \in Thread, s \in Slot : BeginDrop(t, s)
  PROVE  IInv'
<1>1. UNCHANGED <<mapped, age, scan, seen, etable>>
  BY DEF Copy, Lock, Get, Call, BeginDrop, E!CopyHandle, E!CreateLock, E!UseLock,
         E!UseMissing, E!UseEnd, E!BeginUse, E!BeginFree
<1>2. \/ UNCHANGED eframe
      \/ \E t \in Thread : /\ \A u \in Thread \ {t} : eframe'[u] = eframe[u]
                           /\ eframe'[t].pc \in {"create", "insert"} => eframe[t].pc = "create"
                           /\ eframe[t].pc # "using" \/ eframe[t].mode = "shr"
  <2> USE DEF IInv, TypeOK, E!TypeOK, E!InCall, E!Return, E!IdleFrame
  <2>1. CASE \E s, d \in Slot : Copy(s, d)
    BY <2>1 DEF Copy, E!CopyHandle
  <2>2. ASSUME NEW t \in Thread, E!CreateLock(t) PROVE <1>2!2
    BY <2>2 DEF E!CreateLock
  <2>3. ASSUME NEW t \in Thread, E!UseLock(t) PROVE <1>2!2
    BY <2>3 DEF E!UseLock, E!Frames
  <2>4. ASSUME NEW t \in Thread, E!UseMissing(t) PROVE <1>2!2
    BY <2>4 DEF E!UseMissing
  <2>5. ASSUME NEW t \in Thread, Get(t) PROVE <1>2!2
    BY <2>5 DEF Get, E!UseEnd
  <2>6. ASSUME NEW t \in Thread, NEW s \in Slot, NEW m \in {"mut", "shr"}, Call(t, s, m)
        PROVE  <1>2!2
    BY <2>6 DEF Call, E!BeginUse
  <2>7. ASSUME NEW t \in Thread, NEW s \in Slot, BeginDrop(t, s) PROVE <1>2!2
    BY <2>7 DEF BeginDrop, E!BeginFree
  <2> QED
    BY <2>1, <2>2, <2>3, <2>4, <2>5, <2>6, <2>7 DEF Lock
<1>3. FoundInv'
  BY <1>1, <1>2 DEF IInv, FoundInv
<1>4. HalfInv'
  <2>1. CASE UNCHANGED eframe
    BY <1>1, <2>1 DEF IInv, HalfInv, Refreshing
  <2>2. ASSUME NEW t \in Thread, \A u \in Thread \ {t} : eframe'[u] = eframe[u],
               eframe[t].pc # "using" \/ eframe[t].mode = "shr"
        PROVE  HalfInv'
    BY <1>1, <2>2, OthersRefresh DEF HalfInv, Refreshing
  <2> QED
    BY <1>2, <2>1, <2>2
<1>5. ReadInv'
  BY <1>1 DEF IInv, ReadInv
<1> QED
  BY <1>1, <1>3, <1>4, <1>5, StepIInv DEF IInv, TypeOK

LEMMA NextIInv == IInv /\ [Next]_vars => IInv'
<1> SUFFICES ASSUME IInv, [Next]_vars PROVE IInv'
  OBVIOUS
<1>1. CASE UNCHANGED vars
  <2>1. ReadInv' /\ FoundInv' /\ HalfInv'
    BY <1>1 DEF vars, evars, IInv, ReadInv, FoundInv, HalfInv, Refreshing
  <2> QED
    BY <1>1, <2>1, StepIInv DEF vars, evars, IInv, TypeOK
<1>2. CASE Next
  BY <1>2, LinkerIInv, FindMapsIInv, FindElfIInv, InsertIInv, RefreshMapsIInv, RefreshIInv,
     DropIInv, PlainIInv DEF Next
<1> QED
  BY <1>1, <1>2

(* Every variable keeps its type, and there is a scanner for every entry   *)
(* of the map.                                                             *)
THEOREM ScannersTypeOK == Spec => []TypeOK
<1>1. IInv => TypeOK
  BY DEF IInv
<1> QED
  BY InitIInv, NextIInv, <1>1, PTL DEF Spec

(* Whatever copies of a handle other threads use, none of them meets a     *)
(* scanner in the middle of its refresh.                                   *)
THEOREM ScannersHalfReadAlone == Spec => []HalfReadAlone
<1>1. IInv => HalfReadAlone
  <2> SUFFICES ASSUME IInv, NEW i \in DOMAIN scan, scan[i].elf = Unread
               PROVE  \E t \in Thread :
                        /\ E!InCall(t, "using") /\ eframe[t].mode = "mut" /\ eframe[t].id = i
                        /\ \A u \in Thread \ {t} : ~(E!InCall(u, "using") /\ eframe[u].id = i)
    BY DEF HalfReadAlone
  <2>1. PICK t \in Thread : Refreshing(t, i)
    BY DEF IInv, HalfInv
  <2>2. \A u \in Thread : eframe[u].pc = "using" => emutex = u
    BY DEF IInv, EP!IInv, EP!LockInv
  <2> QED
    BY <2>1, <2>2 DEF Refreshing, E!InCall
<1> QED
  BY InitIInv, NextIInv, <1>1, PTL DEF Spec

(* A registered scanner that is empty, or of two minds about its library,  *)
(* has seen that library unloaded.                                         *)
THEOREM ScannersUnsoundOnlyAfterUnload == Spec => []UnsoundOnlyAfterUnload
<1>1. IInv => UnsoundOnlyAfterUnload
  <2> SUFFICES ASSUME IInv, NEW i \in DOMAIN scan,
                      scan[i].elf = NoLib \/ scan[i].elf \notin {Unread, scan[i].maps}
               PROVE  age[scan[i].page] > scan[i].found
    BY DEF UnsoundOnlyAfterUnload
  <2>1. Sound(scan[i], mapped, age)
    BY DEF IInv, ReadInv
  <2>2. age[scan[i].page] # scan[i].found
    BY <2>1, ScannerAssumption DEF Sound, Kept
  <2> QED
    BY <2>1, <2>2 DEF Sound, Kept, Snapshots, IInv, TypeOK
<1> QED
  BY InitIInv, NextIInv, <1>1, PTL DEF Spec

(* A registration does not write over a scanner, a drop takes one away     *)
(* whole, and a refresh reads again the scanner its own handle names.      *)
THEOREM ScannersOnlyRefreshChanges == Spec => OnlyRefreshChanges
<1> DEFINE Changes ==
      \A i \in DOMAIN scan \cap DOMAIN scan' : scan'[i] # scan[i] =>
        \E t \in Thread : /\ E!InCall(t, "using")
                          /\ eframe[t].mode = "mut"
                          /\ ehandle[eframe[t].slot].id = i
<1>1. IInv /\ [Next]_vars => [Changes]_vars
  <2> SUFFICES ASSUME IInv, Next PROVE Changes
    OBVIOUS
  <2>1. CASE scan' = scan
    BY <2>1
  <2>2. ASSUME NEW t \in Thread, Insert(t) PROVE Changes
    <3>1. scan' = [i \in DOMAIN scan \cup {eframe[t].id} |->
                     IF i = eframe[t].id THEN seen[t] ELSE scan[i]]
      BY <2>2 DEF Insert
    <3>2. eframe[t].id \notin DOMAIN scan
      <4>1. eframe[t].id = enext /\ \A i \in DOMAIN etable : i < enext
        BY <2>2 DEF Insert, E!CreateInsert, E!InCall, IInv, EP!IInv, EP!IdInv, EP!InCall
      <4>2. enext \in Nat /\ DOMAIN scan = DOMAIN etable
        BY DEF IInv, TypeOK, E!TypeOK
      <4> QED
        BY <4>1, <4>2
    <3> QED
      BY <3>1, <3>2
  <2>3. ASSUME NEW t \in Thread, RefreshMaps(t) \/ Refresh(t) PROVE Changes
    <3>1. E!InCall(t, "using") /\ eframe[t].mode = "mut"
      BY <2>3 DEF RefreshMaps, Refresh, E!UseEnd
    <3>2. ehandle[eframe[t].slot].id = eframe[t].id
      BY <3>1, UsedIsScanner DEF E!InCall
    <3>3. \A i \in DOMAIN scan : i # eframe[t].id => scan'[i] = scan[i]
      BY <2>3 DEF RefreshMaps, Refresh
    <3> QED
      BY <3>1, <3>2, <3>3
  <2>4. ASSUME NEW t \in Thread, Drop(t) PROVE Changes
    BY <2>4 DEF Drop
  <2> QED
    BY <2>1, <2>2, <2>3, <2>4 DEF Next, Load, Unload, Copy, FindMaps, FindElf, Lock, Call,
       Get, BeginDrop
<1> QED
  BY <1>1, InitIInv, NextIInv, PTL DEF Spec, OnlyRefreshChanges
=============================================================================
