------------------------------ MODULE Scanners ------------------------------
(***************************************************************************)
(* ELF scanners: snapshots of an address space that the dynamic linker     *)
(* keeps changing.                                                         *)
(*                                                                         *)
(* A scan reads the maps of the process first and the ELF headers and      *)
(* tables in memory after them; the linker may work in between.  A scanner *)
(* is built without a mutex and, if it is valid, kept in a handle registry *)
(* (HandleRegistry).  refresh() scans its base again, in place, under      *)
(* g_elf_scanners_mutex, while copies of the handle may be in use in other *)
(* threads.                                                                *)
(***************************************************************************)
EXTENDS Naturals, FiniteSets

CONSTANTS
  Thread,    \* threads of the host program
  Slot,      \* its ElfScanner variables
  Lib,       \* libraries
  Page,      \* base addresses
  NoLib,     \* nothing is mapped
  Unread,    \* the headers, before they are read
  NoScan,    \* what a thread that is not looking up has read
  NoThread, NoSlot, NoObject,
  SysCopies, \* TRUE where raw handle structs may be copied
  MaxId,     \* bound: scanners created in one behaviour
  MaxAge     \* bound: unloads of one page

(* What a scanner has read of its page, from the maps and from the ELF     *)
(* itself, and (a history field) how often the page had been unloaded when *)
(* its lookup read the maps.                                               *)
Snapshots == [page : Page, maps : Lib \cup {NoLib}, elf : Lib \cup {NoLib, Unread}, found : Nat]

ASSUME ScannerAssumption ==
  /\ NoLib \notin Lib /\ Unread \notin Lib \cup {NoLib} /\ NoScan \notin Snapshots
  /\ NoThread \notin Thread /\ NoSlot \notin Slot /\ NoObject \notin Page
  /\ SysCopies \in BOOLEAN /\ MaxId \in Nat /\ MaxAge \in Nat

VARIABLES
  mapped, \* [Page -> what the linker has there]
  age,    \* history: [Page -> how often it was unloaded]
  etable, enext, emutex, ehandle, eframe, eserial,  \* g_elf_scanners
  scan,   \* identifier -> what the scanner has read
  seen    \* [Thread -> what the lookup under way has read]

evars == <<etable, enext, emutex, ehandle, eframe, eserial>>
vars == <<mapped, age, evars, scan, seen>>

E == INSTANCE HandleRegistry WITH
  Object <- Page, table <- etable, nextId <- enext, mutex <- emutex,
  handle <- ehandle, frame <- eframe, serial <- eserial

Free(t) == E!InCall(t, "idle") /\ seen[t] = NoScan

Init ==
  /\ mapped = [p \in Page |-> NoLib]
  /\ age = [p \in Page |-> 0]
  /\ E!Init
  /\ scan = [i \in {} |-> i]
  /\ seen = [t \in Thread |-> NoScan]

-----------------------------------------------------------------------------
(* dlopen and dlclose, by any code of the process.                         *)
Load(p, l) ==
  /\ mapped[p] = NoLib
  /\ \A q \in Page : mapped[q] # l
  /\ mapped' = [mapped EXCEPT ![p] = l]
  /\ UNCHANGED <<age, evars, scan, seen>>

Unload(p) ==
  /\ mapped[p] # NoLib
  /\ age[p] < MaxAge
  /\ mapped' = [mapped EXCEPT ![p] = NoLib]
  /\ age' = [age EXCEPT ![p] = @ + 1]
  /\ UNCHANGED <<evars, scan, seen>>

-----------------------------------------------------------------------------
(* km_elf_scanner_create and its like: the maps are read, ...              *)
FindMaps(t, p) ==
  /\ Free(t)
  /\ seen' = [seen EXCEPT ![t] = [page |-> p, maps |-> mapped[p], elf |-> Unread, found |-> age[p]]]
  /\ UNCHANGED <<mapped, age, evars, scan>>

(* A lookup that registers what it does not find valid.                    *)
FindUnchecked(t, s) ==
  /\ E!InCall(t, "idle")
  /\ seen[t] # NoScan
  /\ E!BeginCreate(t, s, seen[t].page)
  /\ seen' = [seen EXCEPT ![t].elf = mapped[seen[t].page]]
  /\ UNCHANGED <<mapped, age, scan>>

(* ... then the ELF, without either there is no valid scanner and nothing  *)
(* is registered.  (Memory that goes while it is read is taken for a read  *)
(* that fails.)                                                            *)
FindElf(t, s) ==
  /\ E!InCall(t, "idle")
  /\ seen[t] # NoScan
  /\ IF seen[t].maps # NoLib /\ mapped[seen[t].page] # NoLib
     THEN /\ E!BeginCreate(t, s, seen[t].page)
          /\ seen' = [seen EXCEPT ![t].elf = mapped[seen[t].page]]
     ELSE /\ seen' = [seen EXCEPT ![t] = NoScan]
          /\ UNCHANGED evars
  /\ UNCHANGED <<mapped, age, scan>>

Lock(t) ==
  /\ E!CreateLock(t) \/ E!UseLock(t) \/ E!UseMissing(t)
  /\ UNCHANGED <<mapped, age, scan, seen>>

(* The scanner built before the lock is copied into the map.               *)
Insert(t) ==
  LET id == eframe[t].id
  IN  /\ E!CreateInsert(t)
      /\ scan' = [i \in DOMAIN scan \cup {id} |-> IF i = id THEN seen[t] ELSE scan[i]]
      /\ seen' = [seen EXCEPT ![t] = NoScan]
      /\ UNCHANGED <<mapped, age>>

(* refresh() borrows the variable mutably, the getters share it.           *)
Call(t, s, m) ==
  /\ Free(t)
  /\ E!BeginUse(t, s, m)
  /\ UNCHANGED <<mapped, age, scan, seen>>

(* base(), find_symbol(), ...: an answer from what the scanner has read.   *)
Get(t) ==
  /\ eframe[t].mode = "shr"
  /\ E!UseEnd(t)
  /\ UNCHANGED <<mapped, age, scan, seen>>

(* refresh() works on the entry in the map: half of it is new before the   *)
(* other half is.                                                          *)
RefreshMaps(t) ==
  LET id == eframe[t].id
  IN  /\ E!InCall(t, "using")
      /\ eframe[t].mode = "mut"
      /\ scan[id].elf # Unread
      /\ scan' = [scan EXCEPT ![id].maps = mapped[scan[id].page], ![id].elf = Unread]
      /\ UNCHANGED <<mapped, age, evars, seen>>

(* A refresh that brings the scanner registered last up to date as well.   *)
RefreshOther(t) ==
  LET id == eframe[t].id
  IN  /\ E!UseEnd(t)
      /\ eframe[t].mode = "mut"
      /\ scan[id].elf = Unread
      /\ scan' = [i \in DOMAIN scan |-> IF i \in {id, enext - 1}
                                        THEN [scan[i] EXCEPT !.elf = mapped[scan[i].page]]
                                        ELSE scan[i]]
      /\ UNCHANGED <<mapped, age, seen>>

Refresh(t) ==
  LET id == eframe[t].id
  IN  /\ E!UseEnd(t)
      /\ eframe[t].mode = "mut"
      /\ scan[id].elf = Unread
      /\ scan' = [scan EXCEPT ![id].elf = mapped[scan[id].page]]
      /\ UNCHANGED <<mapped, age, seen>>

BeginDrop(t, s) ==
  /\ Free(t)
  /\ E!BeginFree(t, s)
  /\ UNCHANGED <<mapped, age, scan, seen>>

(* A scanner erased from the map of another family.                        *)
DropKeeps(t) ==
  /\ E!FreeErase(t)
  /\ UNCHANGED <<mapped, age, scan, seen>>

Drop(t) ==
  /\ E!FreeErase(t)
  /\ scan' = [i \in DOMAIN etable' |-> scan[i]]
  /\ UNCHANGED <<mapped, age, seen>>

Copy(s, d) ==
  /\ E!CopyHandle(s, d)
  /\ UNCHANGED <<mapped, age, scan, seen>>

Next ==
  \/ \E p \in Page, l \in Lib : Load(p, l)
  \/ \E p \in Page : Unload(p)
  \/ \E s, d \in Slot : Copy(s, d)
  \/ \E t \in Thread :
       \/ \E p \in Page : FindMaps(t, p)
       \/ \E s \in Slot : FindElf(t, s)
       \/ Lock(t)
       \/ Insert(t)
       \/ \E s \in Slot, m \in {"mut", "shr"} : Call(t, s, m)
       \/ Get(t)
       \/ RefreshMaps(t)
       \/ Refresh(t)
       \/ \E s \in Slot : BeginDrop(t, s)
       \/ Drop(t)

Spec == Init /\ [][Next]_vars
-----------------------------------------------------------------------------
TypeOK ==
  /\ mapped \in [Page -> Lib \cup {NoLib}]
  /\ age \in [Page -> 0 .. MaxAge]
  /\ E!TypeOK
  /\ DOMAIN scan = DOMAIN etable
  /\ \A i \in DOMAIN scan : scan[i] \in Snapshots
  /\ seen \in [Thread -> Snapshots \cup {NoScan}]

(* Nobody meets a scanner that a refresh has rewritten by half: it is in   *)
(* the map in that state while its own refresh runs, and no other call is  *)
(* working on it then, though other threads hold copies of its handle and  *)
(* free, refresh and ask through them.  (km_elf_refresh rewrites           *)
(* it->second in place; every accessor takes the same mutex.)              *)
HalfReadAlone ==
  \A i \in DOMAIN scan : scan[i].elf = Unread =>
    \E t \in Thread :
      /\ E!InCall(t, "using") /\ eframe[t].mode = "mut" /\ eframe[t].id = i
      /\ \A u \in Thread \ {t} : ~(E!InCall(u, "using") /\ eframe[u].id = i)

(* A registered scanner that answers with nothing, or with the maps of one *)
(* library and the symbols of another, has lost its library to an unload   *)
(* since its lookup: neither a lookup of a page that is being loaded nor a *)
(* refresh makes one.  (The handle stays valid: is_valid(), safe.rs:740,   *)
(* reads the struct alone.)                                                *)
UnsoundOnlyAfterUnload ==
  \A i \in DOMAIN scan :
    scan[i].elf = NoLib \/ scan[i].elf \notin {Unread, scan[i].maps} =>
      age[scan[i].page] > scan[i].found

(* Calls on one scanner see it change only by its own refresh.             *)
OnlyRefreshChanges ==
  [][\A i \in DOMAIN scan \cap DOMAIN scan' : scan'[i] # scan[i] =>
       \E t \in Thread : /\ E!InCall(t, "using")
                         /\ eframe[t].mode = "mut"
                         /\ ehandle[eframe[t].slot].id = i]_vars
=============================================================================
