----------------------- MODULE PatchDisciplineProofs -----------------------
(***************************************************************************)
(* The discipline is enough, for any threads, patches and memory, and in   *)
(* both layers: where the program writes through patches alone and keeps   *)
(* the three rules, restoring unwinds.                                     *)
(***************************************************************************)
EXTENDS PatchDiscipline, PatchAtomicProofs

(* v is what the youngest of the patches in S puts at a or, if there is    *)
(* none, what was loaded there; h is the variables that hold the patches.  *)
Top(h, S, a, v) ==
  IF S = {} THEN v = Pristine[a]
  ELSE \E s \in S : /\ \A d \in S : h[d].id <= h[s].id
                    /\ v = h[s].obj.new[a - h[s].obj.at + 1]

(* The applied patches over an address that are older than this one.       *)
Below(s, a) == {d \in Over(a) : phandle[d].id < phandle[s].id}

(* The byte a patch found at an address.                                   *)
Found(o, a) == o.orig[a - o.at + 1]

(* The addresses a call has rewritten and not yet answered for.            *)
Dirty(t) == IF job[t].op \in Rewrites THEN Span(job[t].at, job[t].done) ELSE {}

-----------------------------------------------------------------------------
Disjoint ==
  \A t, u \in Thread : t # u => CallRange(t) \cap CallRange(u) = {}

(* Copies of a handle show the same patch.                                 *)
HandleObjs ==
  \A s \in Live :
    /\ phandle[s].obj \in Patches
    /\ \A d \in Live : phandle[d].id = phandle[s].id => phandle[d].obj = phandle[s].obj

AppliedOld == \A i \in applied : i \in Nat /\ i < pnext

(* Under every live patch lies what the older ones put there.              *)
Chain ==
  \A s \in Live : \A a \in Covers(phandle[s].obj) :
    Top(phandle, Below(s, a), a, Found(phandle[s].obj, a))

Settled ==
  \A a \in Addr : (\A t \in Thread : a \notin Dirty(t)) => Top(phandle, Over(a), a, mem[a])

(* A call keeps to the rules until it ends, and a creation holds the bytes *)
(* that are still there.                                                   *)
Place(t) ==
  /\ pframe[t].pc \in {"call", "using", "free"} => Youngest(pframe[t].slot)
  /\ pframe[t].pc = "free" => phandle[pframe[t].slot].id \notin applied
  /\ job[t].op = "capture" =>
       \A k \in 1 .. job[t].done : job[t].got[k] = mem[job[t].at + k - 1]
  /\ pframe[t].pc \in {"create", "insert"} =>
       \A a \in Covers(pframe[t].obj) : Found(pframe[t].obj, a) = mem[a]

(* Unwinds is Settled where no call is under way.  A restore needs Chain,  *)
(* which a creation establishes from the bytes it holds, and which the     *)
(* calls that follow keep because they work on the youngest.               *)
DInv ==
  /\ IInv /\ Landed
  /\ Disjoint /\ HandleObjs /\ AppliedOld /\ Chain /\ Settled
  /\ \A t \in Thread : Place(t)

-----------------------------------------------------------------------------
LEMMA CoverShape ==
  ASSUME NEW o \in Patches
  PROVE  /\ o.at \in Nat /\ Len(o.new) \in Nat \ {0} /\ Len(o.orig) = Len(o.new)
         /\ Covers(o) = Span(o.at, Len(o.new)) /\ Covers(o) \subseteq Addr
         /\ o.at \in Covers(o)
<1>1. PICK r \in Requests : o \in [at : {r.at}, new : {r.new}, orig : Bytes(Len(r.new))]
  BY DEF Patches
<1>2. Len(o.new) \in Nat \ {0}
  BY <1>1, AskedFits
<1>3. /\ o.at \in Nat /\ Len(o.orig) = Len(o.new) /\ Span(o.at, Len(o.new)) \subseteq Addr
  BY PatchShape
<1>4. o.at \in Span(o.at, Len(o.new))
  BY <1>2, <1>3 DEF Span
<1> QED
  BY <1>2, <1>3, <1>4 DEF Covers

(* The addresses of a call, by where it is.                                *)
LEMMA Ranges ==
  ASSUME IInv, NEW t \in Thread
  PROVE  /\ pframe[t].pc \in {"idle", "create", "insert", "call", "using", "free"}
         /\ pframe[t].pc = "idle" /\ job[t].op = "capture" =>
              CallRange(t) = Span(job[t].at, job[t].size)
         /\ pframe[t].pc = "idle" /\ job[t].op # "capture" => CallRange(t) = {}
         /\ pframe[t].pc \in {"create", "insert"} => CallRange(t) = Covers(pframe[t].obj)
         /\ pframe[t].pc \in {"call", "using", "free"} =>
              CallRange(t) = Covers(phandle[pframe[t].slot].obj)
         /\ pframe[t].pc # "idle" =>
              pframe[t].slot \in PatchSlot /\ job[t].op # "capture" /\ bframe[t].pc = "idle"
<1>1. pframe[t] \in PP!Frames /\ PP!BorrowInv /\ Alone(t)
  BY Shapes DEF IInv, PP!IInv, ThreadInv
<1>2. pframe[t].pc \in PP!PCs
  BY <1>1 DEF PP!Frames
<1>3. pframe[t].pc # "idle" => pframe[t].slot \in PatchSlot /\ job[t].op # "capture"
                               /\ bframe[t].pc = "idle"
  BY <1>1 DEF PP!BorrowInv, Alone
<1> QED
  BY <1>2, <1>3 DEF CallRange, Does, P!InCall, PP!PCs

(* A call under the mutex works on the patch its variable shows.           *)
LEMMA UsingObject ==
  ASSUME IInv, NEW t \in Thread, pframe[t].pc = "using",
         NEW s, s = pframe[t].slot
  PROVE  /\ s \in Live /\ pframe[t].id = phandle[s].id
         /\ phandle[s].obj = ptable[pframe[t].id].obj /\ phandle[s].obj \in Patches
<1>1. /\ s \in PatchSlot /\ pframe[t].id = phandle[s].id /\ phandle[s].id \in DOMAIN ptable
      /\ PP!TypeOK /\ PP!NoAliasing
  BY DEF IInv, PP!IInv, PP!CursorInv, PP!BorrowInv, PP!InCall
<1>2. ptable[phandle[s].id] = [obj |-> phandle[s].obj, born |-> phandle[s].born]
  BY <1>1 DEF PP!NoAliasing
<1>3. s \in Live
  BY <1>1 DEF PP!TypeOK, Live
<1> QED
  BY <1>1, <1>2, <1>3, Shapes

(* What a modify or restore rewrites is its own patch's.                   *)
LEMMA RewriteRange ==
  ASSUME IInv, NEW t \in Thread, pframe[t].pc = "using", job[t].op \in Rewrites,
         NEW o, o = phandle[pframe[t].slot].obj
  PROVE  /\ o \in Patches /\ job[t].at = o.at /\ job[t].size = Len(o.new)
         /\ job[t].done \in 0 .. job[t].size
         /\ job[t].data = IF job[t].op = "modify" THEN o.new ELSE o.orig
<1>1. o = ptable[pframe[t].id].obj /\ o \in Patches
  BY UsingObject
<1>2. Len(o.orig) = Len(o.new)
  BY <1>1, CoverShape
<1>3. job[t].done \in 0 .. job[t].size
  BY DEF IInv, ThreadInv, WorkOK, Jobs
<1> QED
  BY <1>1, <1>2, <1>3, RewriteOfPatch

(* A call rewrites addresses of its own.                                   *)
LEMMA DirtyInRange ==
  ASSUME IInv, NEW t \in Thread
  PROVE  Dirty(t) \subseteq CallRange(t) /\ (Dirty(t) # {} => pframe[t].pc = "using")
<1>1. CASE job[t].op \in Rewrites /\ job[t].done # 0
  <2>1. pframe[t].pc = "using"
    BY <1>1, WritingHolds
  <2> DEFINE o == phandle[pframe[t].slot].obj
  <2>2. /\ o \in Patches /\ job[t].at = o.at /\ job[t].size = Len(o.new)
        /\ job[t].done \in 0 .. job[t].size
    BY <1>1, <2>1, RewriteRange
  <2>3. /\ o.at \in Nat /\ Len(o.new) \in Nat /\ CallRange(t) = Span(o.at, Len(o.new))
    BY <2>1, <2>2, CoverShape, Ranges
  <2> HIDE DEF o
  <2>4. Dirty(t) \subseteq CallRange(t)
    BY <1>1, <2>2, <2>3 DEF Dirty, Span
  <2> QED
    BY <2>1, <2>4
<1>2. CASE ~(job[t].op \in Rewrites /\ job[t].done # 0)
  <2>1. job[t].at \in Nat
    BY DEF IInv, ThreadInv, WorkOK, Jobs
  <2> QED
    BY <1>2, <2>1 DEF Dirty, Span
<1> QED
  BY <1>1, <1>2

-----------------------------------------------------------------------------
(* A thread that takes no step keeps its addresses and its place, if what  *)
(* stands there stays and no new patch comes over it.                      *)
LEMMA OthersPlace ==
  ASSUME DInv, NEW u \in Thread, pframe'[u] = pframe[u], job'[u] = job[u],
         pframe[u].pc \in {"call", "using", "free"} =>
           phandle'[pframe[u].slot] = phandle[pframe[u].slot],
         \A a \in CallRange(u) : mem'[a] = mem[a],
         \A d \in Live' : Covers(phandle'[d].obj) \cap CallRange(u) # {} =>
           \E e \in Live : phandle'[d] = phandle[e],
         pframe[u].pc = "free" =>
           (phandle[pframe[u].slot].id \in applied' => phandle[pframe[u].slot].id \in applied)
  PROVE  Place(u)' /\ CallRange(u)' = CallRange(u)
<1> DEFINE s == pframe[u].slot
<1>1. Place(u) /\ IInv /\ job[u] \in Jobs /\ job[u].done <= job[u].size
  BY DEF DInv, IInv, ThreadInv, WorkOK
<1>2. CallRange(u)' = CallRange(u)
  BY <1>1, Ranges DEF CallRange, Does, P!InCall, Covers, Span
<1>3. pframe[u].pc \in {"call", "using", "free"} => Youngest(s)'
  <2> SUFFICES ASSUME pframe[u].pc \in {"call", "using", "free"}, NEW d \in Live',
                      Covers(phandle'[d].obj) \cap Covers(phandle'[s].obj) # {}
               PROVE  phandle'[d].id <= phandle'[s].id
    BY DEF Youngest, Covers, Span
  <2>1. CallRange(u) = Covers(phandle[s].obj) /\ phandle'[s] = phandle[s]
    BY <1>1, Ranges
  <2>2. PICK e \in Live : phandle'[d] = phandle[e]
    BY <2>1
  <2>3. Youngest(s)
    BY <1>1 DEF Place
  <2> QED
    BY <2>1, <2>2, <2>3 DEF Youngest
<1>4. pframe[u].pc = "free" => phandle'[s].id \notin applied'
  BY <1>1 DEF Place
<1>5. ASSUME job[u].op = "capture", NEW k \in 1 .. job[u].done
      PROVE  job[u].got[k] = mem'[job[u].at + k - 1]
  <2>1. job[u].at + k - 1 \in Span(job[u].at, job[u].size)
    BY <1>1 DEF Jobs, Span
  <2>2. pframe[u].pc = "idle"
    BY <1>1, <1>5, Ranges
  <2>3. job[u].at + k - 1 \in CallRange(u)
    BY <1>1, <1>5, <2>1, <2>2, Ranges
  <2> QED
    BY <1>1, <1>5, <2>3 DEF Place
<1>6. ASSUME pframe[u].pc \in {"create", "insert"}, NEW a \in Covers(pframe[u].obj)
      PROVE  Found(pframe[u].obj, a) = mem'[a]
  BY <1>1, <1>6, Ranges DEF Place
<1> QED
  BY <1>2, <1>3, <1>4, <1>5, <1>6 DEF Place, Covers, Span, Found

(* Calls stay apart: one begins where no other is.                         *)
LEMMA DisjointStep ==
  ASSUME Disjoint, NEW t \in Thread,
         \A u \in Thread \ {t} : CallRange(u)' = CallRange(u),
         \/ CallRange(t)' \subseteq CallRange(t)
         \/ CallRange(t) = {} /\ OneCallAtATime
  PROVE  Disjoint'
<1>1. ASSUME NEW u \in Thread \ {t} PROVE CallRange(t)' \cap CallRange(u)' = {}
  <2>1. CallRange(t) \cap CallRange(u) = {}
    BY DEF Disjoint
  <2>2. CASE CallRange(t)' \subseteq CallRange(t)
    BY <2>1, <2>2
  <2>3. CASE CallRange(t) = {} /\ OneCallAtATime
    BY <2>3 DEF OneCallAtATime, Begins
  <2> QED
    BY <2>2, <2>3
<1>2. ASSUME NEW u \in Thread, NEW v \in Thread, u # v
      PROVE  CallRange(u)' \cap CallRange(v)' = {}
  <2>1. CASE u = t
    BY <1>1, <1>2, <2>1
  <2>2. CASE v = t
    BY <1>1, <1>2, <2>2
  <2>3. CASE u # t /\ v # t
    BY <1>2, <2>3 DEF Disjoint
  <2> QED
    BY <2>1, <2>2, <2>3
<1> QED
  BY <1>2 DEF Disjoint

(* The same patches, with the same ones applied, show the same bytes.      *)
LEMMA SameShown ==
  ASSUME DInv, phandle' = phandle, applied' = applied, pnext' = pnext
  PROVE  /\ Live' = Live /\ \A a : Over(a)' = Over(a)
         /\ HandleObjs' /\ AppliedOld' /\ Chain'
<1>1. HandleObjs /\ AppliedOld /\ Chain
  BY DEF DInv
<1>2. Live' = Live /\ \A a : Over(a)' = Over(a)
  BY DEF Live, Over, Covers, Span
<1>3. \A s, a : Below(s, a)' = Below(s, a)
  BY <1>2 DEF Below
<1>4. HandleObjs' /\ AppliedOld'
  BY <1>1, <1>2 DEF HandleObjs, AppliedOld, Patches, Bytes
<1>5. Chain'
  BY <1>1, <1>2, <1>3 DEF Chain, Covers, Span, Found, Top
<1> QED
  BY <1>2, <1>4, <1>5

(* A step that rewrites nothing and leaves the handles alone.              *)
LEMMA QuietStep ==
  ASSUME DInv, IInv', Landed', NEW t \in Thread,
         mem' = mem, phandle' = phandle, pnext' = pnext, applied' = applied,
         \A u \in Thread \ {t} : pframe'[u] = pframe[u] /\ job'[u] = job[u],
         Dirty(t) = {}, Dirty(t)' = {},
         \/ CallRange(t)' \subseteq CallRange(t)
         \/ CallRange(t) = {} /\ OneCallAtATime,
         Place(t)'
  PROVE  DInv'
<1>1. /\ Live' = Live /\ \A a : Over(a)' = Over(a)
      /\ HandleObjs' /\ AppliedOld' /\ Chain'
  BY SameShown
<1>2. ASSUME NEW u \in Thread \ {t} PROVE Place(u)' /\ CallRange(u)' = CallRange(u)
  BY <1>1, OthersPlace
<1>3. Disjoint'
  BY <1>2, DisjointStep DEF DInv
<1>4. \A u \in Thread : Dirty(u)' = Dirty(u)
  BY DEF Dirty, Span
<1>5. Settled'
  BY <1>1, <1>4 DEF DInv, Settled, Top
<1> QED
  BY <1>1, <1>2, <1>3, <1>5 DEF DInv

-----------------------------------------------------------------------------
(* Only a modify or a restore that returns changes what is applied.        *)
LEMMA TrackSame ==
  ASSUME Track, NEW t \in Thread, \A u \in Thread \ {t} : pframe'[u] = pframe[u],
         \/ pframe[t].pc # "using"
         \/ pframe'[t].pc # "idle"
         \/ job[t].op \notin Rewrites
         \/ ~Finished(t)
  PROVE  applied' = applied
<1>1. \A u \in Thread : ~Succeeds(u, "modify") /\ ~Succeeds(u, "restore")
  BY DEF Succeeds, Does, P!InCall, Rewrites
<1> QED
  BY <1>1 DEF Track

LEMMA TrackOne ==
  ASSUME Track, NEW t \in Thread, \A u \in Thread \ {t} : pframe'[u] = pframe[u],
         pframe[t].pc = "using", pframe'[t].pc = "idle", job[t].op \in Rewrites, Finished(t)
  PROVE  applied' = IF job[t].op = "modify" THEN applied \cup {pframe[t].id}
                                            ELSE applied \ {pframe[t].id}
<1>1. \A u \in Thread : Succeeds(u, "modify") => u = t
  BY DEF Succeeds, P!InCall
<1>2. \A u \in Thread : Succeeds(u, "restore") => u = t
  BY DEF Succeeds, P!InCall
<1>3. Succeeds(t, "modify") <=> job[t].op = "modify"
  BY DEF Succeeds, P!InCall, Does
<1>4. Succeeds(t, "restore") <=> job[t].op = "restore"
  BY DEF Succeeds, P!InCall, Does
<1> QED
  BY <1>1, <1>2, <1>3, <1>4 DEF Track, Rewrites

(* A step outside the registry of the patches, on a thread that is in none *)
(* of its calls: it ends what the thread was doing, or begins a creation.  *)
LEMMA OutsideQuiet ==
  ASSUME DInv, IInv', Landed', Track, OneCallAtATime, NEW t \in Thread, NEW j, Set(t, j),
         UNCHANGED <<mem, pvars>>, pframe[t].pc = "idle",
         j.op \notin Rewrites,
         j.op = "capture" => j.done = 0 /\ job[t].op # "capture"
  PROVE  DInv'
<1>1. IInv
  BY DEF DInv
<1>2. /\ job'[t] = j /\ \A u \in Thread \ {t} : job'[u] = job[u]
      /\ pframe' = pframe /\ phandle' = phandle /\ pnext' = pnext
  BY <1>1, Shapes DEF Set, pvars
<1>3. applied' = applied
  BY <1>2, TrackSame
<1>4. Dirty(t) = {} /\ Dirty(t)' = {}
  BY <1>1, <1>2, DirtyInRange DEF Dirty
<1>5. j.op # "capture" => CallRange(t)' = {}
  BY <1>2 DEF CallRange, Does, P!InCall
<1>6. j.op = "capture" => CallRange(t) = {}
  BY <1>1, Ranges
<1>7. Place(t)'
  BY <1>2 DEF Place
<1> QED
  BY <1>2, <1>3, <1>4, <1>5, <1>6, <1>7, QuietStep

(* A creation from its last byte to the mutex.                             *)
LEMMA RegisterQuiet ==
  ASSUME DInv, IInv', Landed', Track, NEW t \in Thread, NEW s \in PatchSlot, RegisterPatch(t, s)
  PROVE  DInv'
<1> DEFINE o == [at |-> job[t].at, new |-> job[t].data, orig |-> job[t].got]
<1>1. /\ IInv /\ WorkOK(job[t]) /\ job[t] \in Jobs /\ Place(t)
      /\ job[t].op = "capture" /\ job[t].done = job[t].size /\ pframe[t].pc = "idle"
  BY Places DEF DInv, IInv, ThreadInv, WorkOK, RegisterPatch, Does, Finished
<1>2. o \in Patches /\ o.at = job[t].at /\ o.orig = job[t].got
  BY <1>1, CapturedPatch DEF RegisterPatch
<1>3. PICK r \in Requests : job[t].data = r.new /\ job[t].size = Len(r.new)
  BY <1>1 DEF WorkOK
<1>4. Covers(o) = Span(job[t].at, job[t].size)
  BY <1>3 DEF Covers
<1> HIDE DEF o
<1>5. /\ UNCHANGED <<mem, phandle, pnext>>
      /\ pframe' = [pframe EXCEPT ![t] = [pc |-> "create", slot |-> s, mode |-> "mut",
                                          id |-> 0, obj |-> o]]
      /\ job' = [job EXCEPT ![t] = NoWork]
  BY DEF RegisterPatch, P!BeginCreate, Set, o
<1>6. /\ pframe'[t].pc = "create" /\ pframe'[t].obj = o /\ job'[t].op = "none"
      /\ \A u \in Thread \ {t} : pframe'[u] = pframe[u] /\ job'[u] = job[u]
  BY <1>1, <1>5, Shapes DEF NoWork, Work
<1>7. applied' = applied
  BY <1>1, <1>6, TrackSame
<1>8. Dirty(t) = {} /\ Dirty(t)' = {}
  BY <1>1, <1>6 DEF Dirty, Rewrites
<1>9. CallRange(t)' \subseteq CallRange(t)
  <2>1. CallRange(t)' = Covers(o)
    BY <1>6 DEF CallRange, Does, P!InCall, Covers, Span
  <2> QED
    BY <1>1, <1>4, <2>1, Ranges
<1>10. Place(t)'
  <2>1. ASSUME NEW a \in Covers(o) PROVE Found(o, a) = mem'[a]
    <3>1. a \in Span(job[t].at, job[t].size) /\ job[t].at \in Nat /\ job[t].size \in Nat
      BY <1>1, <1>4 DEF Jobs
    <3>2. /\ a - job[t].at + 1 \in 1 .. job[t].done
          /\ job[t].at + (a - job[t].at + 1) - 1 = a
      BY <1>1, <3>1 DEF Span
    <3>3. job[t].got[a - job[t].at + 1] = mem[a]
      BY <1>1, <3>2 DEF Place
    <3> QED
      BY <1>2, <1>5, <3>3 DEF Found
  <2> QED
    BY <1>6, <2>1 DEF Place, Covers, Span, Found
<1> QED
  BY <1>5, <1>6, <1>7, <1>8, <1>9, <1>10, QuietStep

(* A call or a drop begins: the rules have been kept.                      *)
LEMMA BeginQuiet ==
  ASSUME NEW t \in Thread, NEW s \in PatchSlot, NEW f, NEW j,
         DInv, IInv', Landed', Track, OneCallAtATime, YoungestOnly, RestoredBeforeDropped,
         f.pc \in {"call", "free"}, f.slot = s,
         Free(t), phandle[s].id # 0, pframe' = [pframe EXCEPT ![t] = f], Set(t, j),
         j.op # "capture", j.op \notin Rewrites \/ j.done = 0,
         UNCHANGED <<mem, phandle, pnext>>
  PROVE  DInv'
<1>1. IInv /\ HandleObjs /\ pframe[t].pc = "idle" /\ job[t].op = "none"
  BY Places DEF DInv, Free, Does
<1>2. /\ pframe'[t] = f /\ job'[t] = j
      /\ \A u \in Thread \ {t} : pframe'[u] = pframe[u] /\ job'[u] = job[u]
  BY <1>1, Shapes DEF Set
<1>3. CallRange(t) = {} /\ CallRange(t)' = Covers(phandle[s].obj)
  <2>1. CallRange(t)' = Covers(phandle[s].obj)
    BY <1>2 DEF CallRange, Does, P!InCall, Covers, Span
  <2> QED
    BY <1>1, <2>1, Ranges
<1>4. Covers(phandle[s].obj) # {}
  BY <1>1, CoverShape DEF HandleObjs, Live
<1>5. Begins(t)
  BY <1>3, <1>4 DEF Begins
<1>6. Youngest(s) /\ (f.pc = "free" => phandle[s].id \notin applied)
  BY <1>2, <1>5 DEF YoungestOnly, RestoredBeforeDropped
<1>7. applied' = applied
  BY <1>1, <1>2, TrackSame
<1>8. Dirty(t) = {} /\ Dirty(t)' = {}
  <2>1. j.at \in Nat
    BY <1>2 DEF IInv, ThreadInv, WorkOK, Jobs
  <2> QED
    BY <1>1, <1>2, <2>1 DEF Dirty, Span, Rewrites
<1>9. Place(t)'
  BY <1>2, <1>6, <1>7 DEF Place, Youngest, Live, Covers, Span
<1> QED
  BY <1>2, <1>3, <1>7, <1>8, <1>9, QuietStep

(* A step of a call that rewrites nothing, and a return that leaves what   *)
(* is applied as it was.                                                   *)
LEMMA CallQuiet ==
  ASSUME DInv, IInv', Landed', Track,
         NEW t \in Thread, NEW f, NEW j, pframe[t].pc # "idle",
         pframe' = [pframe EXCEPT ![t] = f], Set(t, j),
         UNCHANGED <<mem, phandle, pnext>>,
         job[t].op \notin Rewrites \/ job[t].done = 0,
         j.op # "capture", j.op \notin Rewrites \/ j.done = 0,
         \/ f.pc = "idle" /\ (job[t].op \in Rewrites => pframe[t].pc # "using" \/ ~Finished(t))
         \/ f.pc = "using" /\ pframe[t].pc = "call" /\ f.slot = pframe[t].slot
         \/ f.pc = "insert" /\ pframe[t].pc = "create" /\ f.obj = pframe[t].obj
  PROVE  DInv'
<1>1. IInv /\ Place(t) /\ job[t] \in Jobs
  BY DEF DInv, IInv, ThreadInv, WorkOK
<1>2. /\ pframe'[t] = f /\ job'[t] = j
      /\ \A u \in Thread \ {t} : pframe'[u] = pframe[u] /\ job'[u] = job[u]
  BY <1>1, Shapes DEF Set
<1>3. applied' = applied
  BY <1>2, TrackSame
<1>4. Dirty(t) = {} /\ Dirty(t)' = {}
  <2>1. j.at \in Nat
    BY <1>2 DEF IInv, ThreadInv, WorkOK, Jobs
  <2> QED
    BY <1>1, <1>2, <2>1 DEF Dirty, Span, Jobs
<1>5. CallRange(t)' \subseteq CallRange(t)
  <2>1. CASE f.pc = "idle"
    BY <1>2, <2>1 DEF CallRange, Does, P!InCall
  <2>2. CASE f.pc = "using" /\ pframe[t].pc = "call" /\ f.slot = pframe[t].slot
    <3>1. CallRange(t)' = Covers(phandle[f.slot].obj)
      BY <1>2, <2>2 DEF CallRange, Does, P!InCall, Covers, Span
    <3> QED
      BY <1>1, <2>2, <3>1, Ranges
  <2>3. CASE f.pc = "insert" /\ pframe[t].pc = "create" /\ f.obj = pframe[t].obj
    <3>1. CallRange(t)' = Covers(f.obj)
      BY <1>2, <2>3 DEF CallRange, Does, P!InCall, Covers, Span
    <3> QED
      BY <1>1, <2>3, <3>1, Ranges
  <2> QED
    BY <2>1, <2>2, <2>3
<1>6. Place(t)'
  BY <1>1, <1>2 DEF Place, Youngest, Live, Covers, Span, Found
<1> QED
  BY <1>2, <1>3, <1>4, <1>5, <1>6, QuietStep

(* One byte read.                                                          *)
LEMMA ReadQuiet ==
  ASSUME DInv, IInv', Landed', Track, NEW t \in Thread, ReadByte(t)
  PROVE  DInv'
<1> DEFINE w == job[t]
           v == [w EXCEPT !.done = @ + 1]
           g == Append(w.got, mem[w.at + w.done])
<1>1. /\ IInv /\ Place(t) /\ w \in Jobs /\ w.op \in Readers /\ w.got \in Seq(Byte)
      /\ Len(w.got) = w.done /\ w.done \in Nat /\ w.at \in Nat /\ w.size \in Nat
  BY DEF DInv, IInv, ThreadInv, WorkOK, ReadByte, Does, Jobs
<1>2. job'[t] = [v EXCEPT !.got = g] /\ \A u \in Thread \ {t} : job'[u] = job[u]
  BY <1>1, Shapes DEF ReadByte, Set
<1>3. v \in Jobs /\ v.op = w.op /\ v.at = w.at /\ v.size = w.size /\ v.done = w.done + 1
  BY <1>1 DEF Jobs
<1> HIDE DEF v, g
<1>4. /\ job'[t].op = w.op /\ job'[t].at = w.at /\ job'[t].size = w.size
      /\ job'[t].done = w.done + 1 /\ job'[t].got = g
  BY <1>2, <1>3 DEF Jobs
<1>5. UNCHANGED <<mem, phandle, pnext, pframe>>
  BY DEF ReadByte, pvars
<1>6. applied' = applied
  <2>1. w.op \notin Rewrites
    BY <1>1 DEF Readers, Rewrites
  <2> QED
    BY <1>5, <2>1, TrackSame
<1>7. Dirty(t) = {} /\ Dirty(t)' = {}
  BY <1>1, <1>4 DEF Dirty, Readers, Rewrites
<1>8. CallRange(t)' = CallRange(t)
  BY <1>4, <1>5 DEF CallRange, Does, P!InCall, Covers, Span
<1>9. Place(t)'
  <2>1. ASSUME w.op = "capture", NEW k \in 1 .. w.done + 1
        PROVE  g[k] = mem[w.at + k - 1]
    <3>1. CASE k \in 1 .. w.done
      BY <1>1, <2>1, <3>1 DEF g, Place
    <3>2. CASE k = w.done + 1
      <4>1. g[k] = mem[w.at + w.done] /\ w.at + k - 1 = w.at + w.done
        BY <1>1, <3>2 DEF g
      <4> QED
        BY <4>1
    <3> QED
      BY <1>1, <3>1, <3>2
  <2> QED
    BY <1>1, <1>4, <1>5, <1>6, <2>1 DEF Place, Youngest, Live, Covers, Span, Found
<1> QED
  BY <1>2, <1>5, <1>6, <1>7, <1>8, <1>9, QuietStep

(* One byte written: at an address of the writer's own, which no other     *)
(* call is looking at.                                                     *)
LEMMA WriteStep ==
  ASSUME DInv, IInv', Landed', PatchesOnly, Track, NEW t \in Thread, WriteByte(t)
  PROVE  DInv'
<1> DEFINE w == job[t]
           b == w.at + w.done
<1>1. IInv /\ Disjoint /\ Settled /\ Place(t)
  BY DEF DInv
<1>2. /\ w.op \in Rewrites /\ w \in Jobs /\ w.done < w.size /\ Span(w.at, w.size) \subseteq Addr
      /\ job'[t].op = w.op /\ job'[t].at = w.at /\ job'[t].data = w.data
      /\ job'[t].size = w.size /\ job'[t].done = w.done + 1
      /\ mem' = [mem EXCEPT ![b] = w.data[w.done + 1]]
      /\ \A u \in Thread \ {t} : job'[u] = job[u]
  BY <1>1, ByteWritten
<1>3. UNCHANGED <<phandle, pnext, pframe>> /\ pframe[t].pc = "using"
  BY <1>1, WriterHolds DEF WriteByte, pvars
<1>4. applied' = applied
  BY <1>3, TrackSame
<1>5. w.at \in Nat /\ w.done \in Nat /\ w.size \in Nat
  BY <1>2 DEF Jobs
<1>6. /\ Live' = Live /\ \A a : Over(a)' = Over(a)
      /\ HandleObjs' /\ AppliedOld' /\ Chain'
  BY <1>3, <1>4, SameShown
<1>7. b \in Span(w.at, w.size) /\ b \in CallRange(t)
  <2> DEFINE o == phandle[pframe[t].slot].obj
  <2>1. o \in Patches /\ w.at = o.at /\ w.size = Len(o.new)
    BY <1>1, <1>2, <1>3, RewriteRange
  <2>2. CallRange(t) = Span(w.at, w.size)
    BY <1>1, <1>3, <2>1, CoverShape, Ranges
  <2> QED
    BY <1>2, <1>5, <2>2 DEF Span
<1>8. CallRange(t)' = CallRange(t)
  BY <1>2, <1>3 DEF CallRange, Does, P!InCall, Covers, Span
<1>9. ASSUME NEW a \in Addr, a # b PROVE mem'[a] = mem[a]
  BY <1>1, <1>2, <1>9 DEF IInv
<1>10. \A a \in Span(w.at, w.size) : a \in Addr
  BY <1>2
<1>11. ASSUME NEW u \in Thread \ {t} PROVE Place(u)' /\ CallRange(u)' = CallRange(u)
  <2>1. b \notin CallRange(u)
    BY <1>1, <1>7 DEF Disjoint
  <2>2. ASSUME NEW a \in CallRange(u) PROVE mem'[a] = mem[a]
    BY <1>1, <1>2, <2>1, <2>2 DEF IInv
  <2> QED
    BY <1>2, <1>3, <1>4, <1>6, <2>2, OthersPlace
<1>12. Disjoint'
  BY <1>1, <1>8, <1>11, DisjointStep
<1>13. Place(t)'
  BY <1>1, <1>2, <1>3, <1>4 DEF Place, Youngest, Live, Covers, Span, Rewrites
<1>14. Settled'
  <2> SUFFICES ASSUME NEW a \in Addr, \A u \in Thread : a \notin Dirty(u)'
               PROVE  Top(phandle, Over(a), a, mem'[a])
    BY <1>3, <1>6 DEF Settled, Top
  <2>1. a \notin Span(w.at, w.done + 1)
    BY <1>2 DEF Dirty, Span
  <2>2. a # b /\ a \notin Dirty(t)
    BY <1>2, <1>5, <2>1 DEF Span, Dirty
  <2>3. ASSUME NEW u \in Thread \ {t} PROVE a \notin Dirty(u)
    BY <1>2 DEF Dirty, Span
  <2> QED
    BY <1>1, <1>9, <2>2, <2>3 DEF Settled
<1> QED
  BY <1>6, <1>11, <1>12, <1>13, <1>14 DEF DInv

-----------------------------------------------------------------------------
(* The patch a call works on is the youngest over its addresses.           *)
LEMMA NoneYounger ==
  ASSUME DInv, NEW t \in Thread, pframe[t].pc = "using", NEW s, s = pframe[t].slot
  PROVE  /\ s \in Live /\ phandle[s].obj \in Patches
         /\ \A d \in Live : phandle[d].id \in Nat
         /\ \A d \in Live : \A a \in Covers(phandle[s].obj) :
              a \in Covers(phandle[d].obj) => phandle[d].id <= phandle[s].id
         /\ \A d \in Live : phandle[d].id = phandle[s].id => phandle[d].obj = phandle[s].obj
<1>1. IInv /\ HandleObjs /\ Youngest(s)
  BY DEF DInv, Place
<1>2. s \in Live /\ phandle[s].obj \in Patches
  BY <1>1, UsingObject
<1>3. \A d \in Live : phandle[d].id \in Nat
  BY <1>1 DEF IInv, PP!IInv, PP!TypeOK, PP!Handles, Live
<1>4. ASSUME NEW d \in Live, NEW a \in Covers(phandle[s].obj), a \in Covers(phandle[d].obj)
      PROVE  phandle[d].id <= phandle[s].id
  BY <1>1, <1>4 DEF Youngest
<1> QED
  BY <1>1, <1>2, <1>3, <1>4 DEF HandleObjs

(* What a finished modify or restore has left in its range.                *)
LEMMA AllLanded ==
  ASSUME DInv, NEW t \in Thread, pframe[t].pc = "using", job[t].op \in Rewrites, Finished(t),
         NEW o, o = phandle[pframe[t].slot].obj, NEW a \in Covers(o)
  PROVE  mem[a] = IF job[t].op = "modify" THEN o.new[a - o.at + 1] ELSE Found(o, a)
<1>1. IInv /\ Landed
  BY DEF DInv
<1>2. /\ o \in Patches /\ job[t].at = o.at /\ job[t].size = Len(o.new)
      /\ job[t].data = IF job[t].op = "modify" THEN o.new ELSE o.orig
  BY <1>1, RewriteRange
<1>3. /\ o.at \in Nat /\ Len(o.new) \in Nat /\ Covers(o) = Span(o.at, Len(o.new))
  BY <1>2, CoverShape
<1>4. a - o.at + 1 \in 1 .. job[t].done /\ job[t].at + (a - o.at + 1) - 1 = a
  <2> HIDE DEF Finished
  <2>1. job[t].done = Len(o.new)
    BY <1>2 DEF Finished
  <2>2. a \in o.at .. o.at + Len(o.new) - 1
    BY <1>3 DEF Span
  <2>3. \A x, n \in Nat : \A b \in x .. x + n - 1 :
          b - x + 1 \in 1 .. n /\ x + (b - x + 1) - 1 = b
    OBVIOUS
  <2> DEFINE n == Len(o.new)
             x == o.at
  <2>4. x \in Nat /\ n \in Nat /\ a \in x .. x + n - 1
    BY <1>3, <2>2
  <2> HIDE DEF n, x
  <2>5. a - x + 1 \in 1 .. n /\ x + (a - x + 1) - 1 = a
    BY <2>3, <2>4
  <2> QED
    BY <1>2, <2>1, <2>5 DEF n, x
<1>5. mem[a] = job[t].data[a - o.at + 1]
  BY <1>1, <1>2, <1>4 DEF Landed
<1> QED
  BY <1>2, <1>5 DEF Found

(* A modify or restore that returns true: what it has left in its range is *)
(* what the patches applied from now on show there.                        *)
LEMMA FinishStep ==
  ASSUME DInv, IInv', Landed', Track, NEW t \in Thread, pframe[t].pc = "using",
         job[t].op \in Rewrites, Finished(t), PatchDone(t)
  PROVE  DInv'
<1> DEFINE s == pframe[t].slot
           o == phandle[s].obj
           i == phandle[s].id
<1>1. /\ IInv /\ Disjoint /\ HandleObjs /\ AppliedOld /\ Chain /\ Settled
  BY DEF DInv
<1>2. /\ UNCHANGED <<mem, phandle, pnext>>
      /\ pframe' = [pframe EXCEPT ![t] = P!IdleFrame] /\ job' = [job EXCEPT ![t] = NoWork]
  BY DEF PatchDone, P!UseEnd, P!Return, Set
<1>3. /\ pframe'[t].pc = "idle" /\ job'[t].op = "none"
      /\ \A u \in Thread \ {t} : pframe'[u] = pframe[u] /\ job'[u] = job[u]
  BY <1>1, <1>2, Shapes DEF NoWork, Work, P!IdleFrame
<1>4. /\ s \in Live /\ o \in Patches /\ \A d \in Live : phandle[d].id \in Nat
      /\ \A d \in Live : \A a \in Covers(o) : a \in Covers(phandle[d].obj) => phandle[d].id <= i
      /\ \A d \in Live : phandle[d].id = i => phandle[d].obj = o
      /\ i \in Nat
  BY NoneYounger
<1>5. applied' = IF job[t].op = "modify" THEN applied \cup {i} ELSE applied \ {i}
  BY <1>1, <1>3, TrackOne, UsingObject
<1>6. \A a \in Covers(o) : mem[a] = IF job[t].op = "modify" THEN o.new[a - o.at + 1] ELSE Found(o, a)
  BY AllLanded
<1>7. i < pnext
  BY <1>1, <1>4 DEF IInv, PP!IInv, PP!IdInv, Live
<1> HIDE DEF s, o, i
<1>8. Live' = Live
  BY <1>2 DEF Live
<1>9. ASSUME NEW a
      PROVE  Over(a)' = {d \in Live : phandle[d].id \in applied' /\ a \in Covers(phandle[d].obj)}
  BY <1>2, <1>8 DEF Over, Covers, Span
<1>10. ASSUME NEW a, a \notin Covers(o) PROVE Over(a)' = Over(a)
  BY <1>4, <1>5, <1>9, <1>10 DEF Over
<1>11. ASSUME NEW d \in Live, NEW a \in Covers(phandle[d].obj) PROVE Below(d, a)' = Below(d, a)
  <2>1. Below(d, a)' = {e \in Over(a)' : phandle[e].id < phandle[d].id}
    BY <1>2 DEF Below
  <2>2. ASSUME NEW e \in Live, phandle[e].id < phandle[d].id, a \in Covers(phandle[e].obj)
        PROVE  phandle[e].id # i
    <3>1. SUFFICES ASSUME phandle[e].id = i PROVE FALSE
      OBVIOUS
    <3>2. a \in Covers(o)
      BY <1>4, <2>2, <3>1
    <3>3. phandle[d].id <= i /\ phandle[d].id \in Nat /\ i \in Nat
      BY <1>4, <3>1, <3>2
    <3> QED
      BY <2>2, <3>1, <3>3
  <2> QED
    BY <1>5, <1>9, <2>1, <2>2 DEF Over, Below
<1>12. HandleObjs' /\ AppliedOld'
  <2>1. HandleObjs'
    BY <1>1, <1>2, <1>8 DEF HandleObjs, Patches, Bytes
  <2>2. AppliedOld'
    BY <1>1, <1>2, <1>4, <1>5, <1>7 DEF AppliedOld
  <2> QED
    BY <2>1, <2>2
<1>13. Chain'
  BY <1>1, <1>2, <1>8, <1>11 DEF Chain, Covers, Span, Found, Top
<1>14. ASSUME NEW a \in Covers(o), job[t].op = "modify" PROVE Top(phandle, Over(a)', a, mem[a])
  <2>1. i \in applied'
    BY <1>5, <1>14
  <2>2. phandle[s].id = i /\ phandle[s].obj = o
    BY DEF i, o
  <2>3. s \in Over(a)'
    BY <1>4, <1>9, <2>1, <2>2
  <2>4. \A d \in Over(a)' : phandle[d].id <= phandle[s].id
    BY <1>4, <1>9, <2>2
  <2> QED
    BY <1>6, <1>14, <2>2, <2>3, <2>4 DEF Top
<1>15. ASSUME NEW a \in Covers(o), job[t].op = "restore" PROVE Top(phandle, Over(a)', a, mem[a])
  <2>1. phandle[s].id = i /\ phandle[s].obj = o
    BY DEF i, o
  <2>2. i \in Nat /\ applied' = applied \ {i}
    BY <1>4, <1>5, <1>15, <2>1
  <2>3. Over(a)' = Below(s, a)
    <3>1. ASSUME NEW d \in Live, a \in Covers(phandle[d].obj)
          PROVE  phandle[d].id # i <=> phandle[d].id < i
      BY <1>4, <2>2, <3>1
    <3> QED
      BY <1>9, <2>1, <2>2, <3>1 DEF Over, Below
  <2>4. Top(phandle, Below(s, a), a, Found(o, a))
    BY <1>1, <1>4, <2>1 DEF Chain
  <2>5. mem[a] = Found(o, a)
    BY <1>6, <1>15
  <2> QED
    BY <2>3, <2>4, <2>5
<1>16. Settled'
  <2> SUFFICES ASSUME NEW a \in Addr, \A u \in Thread : a \notin Dirty(u)'
               PROVE  Top(phandle, Over(a)', a, mem[a])
    BY <1>2 DEF Settled, Top
  <2>1. CASE a \in Covers(o)
    BY <1>14, <1>15, <2>1 DEF Rewrites
  <2>2. CASE a \notin Covers(o)
    <3>1. a \notin Dirty(t)
      <4>1. CallRange(t) = Covers(o)
        BY <1>1, Ranges DEF o, s
      <4> QED
        BY <1>1, <2>2, <4>1, DirtyInRange
    <3>2. \A u \in Thread \ {t} : a \notin Dirty(u)
      BY <1>3 DEF Dirty, Span
    <3>3. Top(phandle, Over(a), a, mem[a])
      BY <1>1, <3>1, <3>2 DEF Settled
    <3> QED
      BY <1>10, <2>2, <3>3
  <2> QED
    BY <2>1, <2>2
<1>17. ASSUME NEW u \in Thread \ {t} PROVE Place(u)' /\ CallRange(u)' = CallRange(u)
  <2>1. pframe[u].pc = "free" =>
          (phandle[pframe[u].slot].id \in applied' => phandle[pframe[u].slot].id \in applied)
    <3> SUFFICES ASSUME pframe[u].pc = "free", phandle[pframe[u].slot].id = i PROVE FALSE
      BY <1>5
    <3>1. CallRange(u) = Covers(phandle[pframe[u].slot].obj) /\ pframe[u].slot \in PatchSlot
      BY <1>1, Ranges
    <3>2. pframe[u].slot \in Live
      BY <1>4, <3>1 DEF Live, i
    <3>3. CallRange(u) = Covers(o) /\ CallRange(t) = Covers(o)
      BY <1>1, <1>4, <3>1, <3>2, Ranges DEF o, s
    <3> QED
      BY <1>1, <1>4, <3>3, CoverShape DEF Disjoint
  <2> QED
    BY <1>2, <1>3, <1>8, <2>1, OthersPlace
<1>18. CallRange(t)' = {}
  BY <1>3 DEF CallRange, Does, P!InCall
<1>19. Disjoint'
  BY <1>1, <1>17, <1>18, DisjointStep
<1>20. Place(t)'
  BY <1>3 DEF Place
<1> QED
  BY <1>12, <1>13, <1>16, <1>17, <1>19, <1>20 DEF DInv

-----------------------------------------------------------------------------
(* A creation ends: the new patch is the youngest, and what it found is    *)
(* what the others show.                                                   *)
LEMMA InsertStep ==
  ASSUME DInv, IInv', Landed', Track, NEW t \in Thread,
         P!CreateInsert(t), UNCHANGED <<mem, job>>
  PROVE  DInv'
<1> DEFINE s == pframe[t].slot
           o == pframe[t].obj
           n == pframe[t].id
<1>1. /\ IInv /\ Disjoint /\ HandleObjs /\ AppliedOld /\ Chain /\ Settled /\ Place(t)
  BY DEF DInv
<1>2. /\ pframe[t].pc = "insert" /\ s \in PatchSlot /\ n = pnext /\ phandle[s].id = 0
      /\ o \in Patches /\ phandle \in [PatchSlot -> PP!Handles] /\ pnext \in Nat \ {0}
      /\ \A d \in PatchSlot : phandle[d].id < n
  BY <1>1 DEF IInv, PP!IInv, PP!IdInv, PP!BorrowInv, PP!TypeOK, PP!InCall, P!InCall, P!CreateInsert
<1>3. /\ pnext' = n + 1
      /\ phandle' = [phandle EXCEPT ![s] =
                       [id |-> n, valid |-> TRUE, obj |-> o, born |-> pserial + 1]]
      /\ pframe' = [pframe EXCEPT ![t] = P!IdleFrame]
  BY DEF P!CreateInsert, P!Return
<1>4. /\ pframe'[t].pc = "idle" /\ \A u \in Thread \ {t} : pframe'[u] = pframe[u]
  BY <1>1, <1>3, Shapes DEF P!IdleFrame
<1>5. applied' = applied
  BY <1>2, <1>4, TrackSame
<1>6. job[t].op # "capture" /\ job[t].op \notin Rewrites /\ CallRange(t) = Covers(o)
  BY <1>1, <1>2, Ranges DEF IInv, ThreadInv, PatchPlace, Rewrites
<1>7. \A a \in Covers(o) : Found(o, a) = mem[a]
  BY <1>1, <1>2 DEF Place
<1>8. \A u \in Thread \ {t} : pframe[u].pc # "idle" => pframe[u].slot # s
  BY <1>1, <1>2 DEF IInv, PP!IInv, PP!BorrowInv
<1> HIDE DEF s, o, n
<1>9. /\ phandle'[s].id = n /\ phandle'[s].obj = o
      /\ \A d \in PatchSlot \ {s} : phandle'[d] = phandle[d]
  BY <1>2, <1>3
<1>10. s \notin Live /\ Live' = Live \cup {s}
  BY <1>2, <1>9 DEF Live
<1>11. \A d \in Live : d # s /\ phandle'[d] = phandle[d]
  BY <1>9, <1>10 DEF Live
<1>12. n \notin applied
  BY <1>1, <1>2 DEF AppliedOld
<1>13. ASSUME NEW a PROVE Over(a)' = Over(a)
  <2>1. Over(a)' = {d \in Live' : phandle'[d].id \in applied' /\ a \in Covers(phandle'[d].obj)}
    BY DEF Over, Covers, Span
  <2> QED
    BY <1>5, <1>9, <1>10, <1>11, <1>12, <2>1 DEF Over
<1>14. ASSUME NEW d \in Live, NEW a PROVE Below(d, a)' = Below(d, a)
  <2>1. Below(d, a)' = {e \in Over(a)' : phandle'[e].id < phandle'[d].id}
    BY DEF Below
  <2> QED
    BY <1>11, <1>13, <2>1 DEF Below, Over
<1>15. ASSUME NEW d, d = s, NEW a PROVE Below(d, a)' = Over(a)
  <2>1. Below(d, a)' = {e \in Over(a)' : phandle'[e].id < phandle'[d].id}
    BY DEF Below
  <2>2. \A e \in Over(a) : e \in Live /\ phandle'[e].id < n
    BY <1>2, <1>11 DEF Over, Live
  <2> QED
    BY <1>9, <1>13, <1>15, <2>1, <2>2
<1>16. ASSUME NEW S, NEW a, NEW v, S \subseteq Live, Top(phandle, S, a, v) PROVE Top(phandle', S, a, v)
  BY <1>11, <1>16 DEF Top
<1>17. ASSUME NEW a \in Addr, NEW u \in Thread, a \in Covers(o) PROVE a \notin Dirty(u)
  <2>1. CASE u = t
    BY <1>6, <2>1 DEF Dirty
  <2>2. CASE u # t
    BY <1>1, <1>6, <1>17, <2>2, DirtyInRange DEF Disjoint
  <2> QED
    BY <2>1, <2>2
<1>18. HandleObjs'
  <2> SUFFICES ASSUME NEW d \in Live'
               PROVE  /\ phandle'[d].obj \in Patches
                      /\ \A e \in Live' : phandle'[e].id = phandle'[d].id =>
                                           phandle'[e].obj = phandle'[d].obj
    BY DEF HandleObjs, Patches, Bytes
  <2>1. \A e \in Live : phandle[e].id # n
    BY <1>2 DEF Live
  <2> QED
    BY <1>1, <1>2, <1>9, <1>10, <1>11, <2>1 DEF HandleObjs
<1>19. AppliedOld'
  BY <1>1, <1>2, <1>3, <1>5 DEF AppliedOld
<1>20. Chain'
  <2> SUFFICES ASSUME NEW d \in Live', NEW a \in Covers(phandle'[d].obj)
               PROVE  Top(phandle', Below(d, a)', a, Found(phandle'[d].obj, a))
    BY DEF Chain, Covers, Span, Found, Top
  <2>1. CASE d = s
    <3>1. o \in Patches /\ a \in Covers(o) /\ a \in Addr
      BY <1>2, <1>9, <2>1, CoverShape
    <3>2. Top(phandle, Over(a), a, mem[a])
      BY <1>1, <1>17, <3>1 DEF Settled
    <3>3. Over(a) \subseteq Live
      BY DEF Over
    <3> QED
      BY <1>7, <1>9, <1>15, <1>16, <2>1, <3>1, <3>2, <3>3
  <2>2. CASE d # s
    <3>1. d \in Live /\ phandle'[d] = phandle[d]
      BY <1>10, <1>11, <2>2
    <3>2. Top(phandle, Below(d, a), a, Found(phandle[d].obj, a)) /\ Below(d, a) \subseteq Live
      BY <1>1, <3>1 DEF Chain, Below, Over
    <3> QED
      BY <1>14, <1>16, <3>1, <3>2
  <2> QED
    BY <2>1, <2>2
<1>21. Settled'
  <2> SUFFICES ASSUME NEW a \in Addr, \A u \in Thread : a \notin Dirty(u)
               PROVE  Top(phandle', Over(a)', a, mem[a])
    BY DEF Settled, Top, Dirty, Span
  <2>1. Top(phandle, Over(a), a, mem[a]) /\ Over(a) \subseteq Live
    BY <1>1 DEF Settled, Over
  <2> QED
    BY <1>13, <1>16, <2>1
<1>22. ASSUME NEW u \in Thread \ {t} PROVE Place(u)' /\ CallRange(u)' = CallRange(u)
  <2>1. pframe[u].pc \in {"call", "using", "free"} =>
          phandle'[pframe[u].slot] = phandle[pframe[u].slot]
    BY <1>1, <1>8, <1>9, Ranges
  <2>2. ASSUME NEW d \in Live', Covers(phandle'[d].obj) \cap CallRange(u) # {}
        PROVE  \E e \in Live : phandle'[d] = phandle[e]
    <3>1. d # s
      BY <1>1, <1>6, <1>9, <2>2 DEF Disjoint
    <3> QED
      BY <1>10, <1>11, <3>1
  <2>3. job'[u] = job[u] /\ mem' = mem
    OBVIOUS
  <2> QED
    BY <1>4, <1>5, <2>1, <2>2, <2>3, OthersPlace
<1>23. CallRange(t)' = {}
  BY <1>4, <1>6 DEF CallRange, Does, P!InCall
<1>24. Disjoint'
  BY <1>1, <1>22, <1>23, DisjointStep
<1>25. Place(t)'
  BY <1>4, <1>6 DEF Place
<1> QED
  BY <1>18, <1>19, <1>20, <1>21, <1>22, <1>24, <1>25 DEF DInv

(* A drop ends: its patch is not applied, so nothing shows.                *)
LEMMA EraseStep ==
  ASSUME DInv, IInv', Landed', Track, NEW t \in Thread,
         P!FreeErase(t), UNCHANGED <<mem, job>>
  PROVE  DInv'
<1> DEFINE s == pframe[t].slot
<1>1. /\ IInv /\ Disjoint /\ HandleObjs /\ AppliedOld /\ Chain /\ Settled /\ Place(t)
  BY DEF DInv
<1>2. /\ pframe[t].pc = "free" /\ s \in PatchSlot /\ phandle \in [PatchSlot -> PP!Handles]
  BY <1>1, Ranges DEF IInv, PP!IInv, PP!TypeOK, P!FreeErase, P!InCall
<1>3. /\ pnext' = pnext /\ phandle' = [phandle EXCEPT ![s] = P!Cleared(@)]
      /\ pframe' = [pframe EXCEPT ![t] = P!IdleFrame]
  BY DEF P!FreeErase, P!Return
<1>4. /\ pframe'[t].pc = "idle" /\ \A u \in Thread \ {t} : pframe'[u] = pframe[u]
  BY <1>1, <1>3, Shapes DEF P!IdleFrame
<1>5. applied' = applied
  BY <1>2, <1>4, TrackSame
<1>6. job[t].op # "capture" /\ phandle[s].id \notin applied
  BY <1>1, <1>2, Ranges DEF Place
<1>7. \A u \in Thread \ {t} : pframe[u].pc # "idle" => pframe[u].slot # s
  BY <1>1, <1>2 DEF IInv, PP!IInv, PP!BorrowInv
<1> HIDE DEF s
<1>8. phandle'[s].id = 0 /\ \A d \in PatchSlot \ {s} : phandle'[d] = phandle[d]
  BY <1>2, <1>3 DEF P!Cleared, PP!Handles
<1>9. Live' = Live \ {s}
  BY <1>2, <1>8 DEF Live
<1>10. \A d \in Live' : d \in Live /\ phandle'[d] = phandle[d]
  BY <1>8, <1>9 DEF Live
<1>11. ASSUME NEW a PROVE Over(a)' = Over(a) /\ Over(a) \subseteq Live'
  <2>1. Over(a)' = {d \in Live' : phandle'[d].id \in applied' /\ a \in Covers(phandle'[d].obj)}
    BY DEF Over, Covers, Span
  <2>2. s \notin Over(a)
    BY <1>6 DEF Over
  <2> QED
    BY <1>5, <1>9, <1>10, <2>1, <2>2 DEF Over
<1>12. ASSUME NEW d \in Live', NEW a PROVE Below(d, a)' = Below(d, a) /\ Below(d, a) \subseteq Live'
  <2>1. Below(d, a)' = {e \in Over(a)' : phandle'[e].id < phandle'[d].id}
    BY DEF Below
  <2> QED
    BY <1>10, <1>11, <2>1 DEF Below
<1>13. ASSUME NEW S, NEW a, NEW v, S \subseteq Live', Top(phandle, S, a, v) PROVE Top(phandle', S, a, v)
  BY <1>10, <1>13 DEF Top
<1>14. HandleObjs' /\ AppliedOld'
  <2>1. HandleObjs'
    BY <1>1, <1>10 DEF HandleObjs, Patches, Bytes
  <2> QED
    BY <1>1, <1>3, <1>5, <2>1 DEF AppliedOld
<1>15. Chain'
  <2> SUFFICES ASSUME NEW d \in Live', NEW a \in Covers(phandle'[d].obj)
               PROVE  Top(phandle', Below(d, a)', a, Found(phandle'[d].obj, a))
    BY DEF Chain, Covers, Span, Found, Top
  <2>1. d \in Live /\ phandle'[d] = phandle[d]
    BY <1>10
  <2>2. Top(phandle, Below(d, a), a, Found(phandle[d].obj, a))
    BY <1>1, <2>1 DEF Chain
  <2> QED
    BY <1>12, <1>13, <2>1, <2>2
<1>16. Settled'
  <2> SUFFICES ASSUME NEW a \in Addr, \A u \in Thread : a \notin Dirty(u)'
               PROVE  Top(phandle', Over(a)', a, mem[a])
    BY DEF Settled, Top, Dirty, Span
  <2>1. Top(phandle, Over(a), a, mem[a])
    BY <1>1 DEF Settled, Dirty, Span
  <2> QED
    BY <1>11, <1>13, <2>1
<1>17. ASSUME NEW u \in Thread \ {t} PROVE Place(u)' /\ CallRange(u)' = CallRange(u)
  <2>1. pframe[u].pc \in {"call", "using", "free"} =>
          phandle'[pframe[u].slot] = phandle[pframe[u].slot]
    BY <1>1, <1>7, <1>8, Ranges
  <2>2. job'[u] = job[u] /\ mem' = mem
    OBVIOUS
  <2> QED
    BY <1>4, <1>5, <1>10, <2>1, <2>2, OthersPlace
<1>18. CallRange(t)' = {}
  BY <1>4, <1>6 DEF CallRange, Does, P!InCall
<1>19. Disjoint'
  BY <1>1, <1>17, <1>18, DisjointStep
<1>20. Place(t)'
  BY <1>4, <1>6 DEF Place
<1> QED
  BY <1>14, <1>15, <1>16, <1>17, <1>19, <1>20 DEF DInv

(* A copy of a handle shows the same patch once more.                      *)
LEMMA CopyStep ==
  ASSUME DInv, IInv', Landed', Track, NEW s \in PatchSlot, NEW c \in PatchSlot,
         P!CopyHandle(s, c), UNCHANGED <<mem, job>>
  PROVE  DInv'
<1>1. /\ IInv /\ Disjoint /\ HandleObjs /\ AppliedOld /\ Chain /\ Settled
  BY DEF DInv
<1>2. /\ phandle[s].id # 0 /\ phandle[c].id = 0 /\ phandle' = [phandle EXCEPT ![c] = phandle[s]]
      /\ pnext' = pnext /\ pframe' = pframe
      /\ \A u \in Thread : pframe[u].pc # "idle" => pframe[u].slot # c
  BY DEF P!CopyHandle, P!MayBorrowMut, P!Users
<1>3. phandle \in [PatchSlot -> PP!Handles]
  BY <1>1 DEF IInv, PP!IInv, PP!TypeOK
<1>4. applied' = applied
  <2>1. \A u \in Thread : ~Succeeds(u, "modify") /\ ~Succeeds(u, "restore")
    BY <1>2 DEF Succeeds, P!InCall
  <2> QED
    BY <2>1 DEF Track
<1>5. /\ s \in Live /\ c \notin Live /\ Live' = Live \cup {c} /\ phandle'[c] = phandle[s]
      /\ \A d \in PatchSlot \ {c} : phandle'[d] = phandle[d]
  BY <1>2, <1>3 DEF Live
<1>6. \A d \in Live : d # c /\ phandle'[d] = phandle[d]
  BY <1>5 DEF Live
<1>7. \A d \in Live : phandle[d].id \in Nat
  BY <1>3 DEF Live, PP!Handles
<1>8. \A d \in Live' : \E e \in Live : phandle'[d] = phandle[e]
  BY <1>5, <1>6
<1>9. ASSUME NEW S, NEW Z, NEW a, NEW v, S \subseteq Live, S \subseteq Z,
             \A z \in Z : \E e \in S : phandle'[z] = phandle[e], Top(phandle, S, a, v)
      PROVE  Top(phandle', Z, a, v)
  <2>1. CASE S = {}
    BY <1>9, <2>1 DEF Top
  <2>2. CASE S # {}
    <3>1. PICK e \in S : /\ \A d \in S : phandle[d].id <= phandle[e].id
                         /\ v = phandle[e].obj.new[a - phandle[e].obj.at + 1]
      BY <1>9, <2>2 DEF Top
    <3>2. e \in Z /\ phandle'[e] = phandle[e]
      BY <1>6, <1>9
    <3>3. \A z \in Z : phandle'[z].id <= phandle'[e].id
      BY <1>9, <3>1, <3>2
    <3> QED
      BY <3>1, <3>2, <3>3 DEF Top
  <2> QED
    BY <2>1, <2>2
<1>10. ASSUME NEW a
       PROVE  /\ Over(a) \subseteq Over(a)' /\ Over(a) \subseteq Live
              /\ \A z \in Over(a)' : \E e \in Over(a) : phandle'[z] = phandle[e]
  <2>1. Over(a)' = {d \in Live' : phandle'[d].id \in applied' /\ a \in Covers(phandle'[d].obj)}
    BY DEF Over, Covers, Span
  <2> QED
    BY <1>4, <1>5, <1>6, <1>8, <2>1 DEF Over
<1>11. ASSUME NEW d \in Live', NEW e \in Live, phandle'[d] = phandle[e], NEW a
       PROVE  /\ Below(e, a) \subseteq Below(d, a)' /\ Below(e, a) \subseteq Live
              /\ \A z \in Below(d, a)' : \E x \in Below(e, a) : phandle'[z] = phandle[x]
  <2>1. Below(d, a)' = {z \in Over(a)' : phandle'[z].id < phandle'[d].id}
    BY DEF Below
  <2>2. Below(e, a) \subseteq Below(d, a)'
    BY <1>6, <1>10, <1>11, <2>1 DEF Below
  <2>3. ASSUME NEW z \in Below(d, a)' PROVE \E x \in Below(e, a) : phandle'[z] = phandle[x]
    <3>1. PICK x \in Over(a) : phandle'[z] = phandle[x]
      BY <1>10, <2>1
    <3> QED
      BY <1>11, <2>1, <3>1 DEF Below
  <2> QED
    BY <1>10, <2>2, <2>3 DEF Below
<1>12. HandleObjs' /\ AppliedOld'
  <2>1. HandleObjs'
    BY <1>1, <1>8 DEF HandleObjs, Patches, Bytes
  <2> QED
    BY <1>1, <1>2, <1>4, <2>1 DEF AppliedOld
<1>13. Chain'
  <2> SUFFICES ASSUME NEW d \in Live', NEW a \in Covers(phandle'[d].obj)
               PROVE  Top(phandle', Below(d, a)', a, Found(phandle'[d].obj, a))
    BY DEF Chain, Covers, Span, Found, Top
  <2>1. PICK e \in Live : phandle'[d] = phandle[e]
    BY <1>8
  <2>2. Top(phandle, Below(e, a), a, Found(phandle[e].obj, a))
    BY <1>1, <2>1 DEF Chain
  <2> QED
    BY <1>9, <1>11, <2>1, <2>2
<1>14. Settled'
  <2> SUFFICES ASSUME NEW a \in Addr, \A u \in Thread : a \notin Dirty(u)'
               PROVE  Top(phandle', Over(a)', a, mem[a])
    BY DEF Settled, Top, Dirty, Span
  <2>1. Top(phandle, Over(a), a, mem[a])
    BY <1>1 DEF Settled, Dirty, Span
  <2> QED
    BY <1>9, <1>10, <2>1
<1>15. ASSUME NEW u \in Thread PROVE Place(u)' /\ CallRange(u)' = CallRange(u)
  <2>1. pframe[u].pc \in {"call", "using", "free"} =>
          phandle'[pframe[u].slot] = phandle[pframe[u].slot]
    BY <1>1, <1>2, <1>5, Ranges
  <2>2. job'[u] = job[u] /\ mem' = mem
    OBVIOUS
  <2> QED
    BY <1>2, <1>4, <1>8, <2>1, <2>2, OthersPlace
<1>16. Disjoint'
  BY <1>1, <1>15 DEF Disjoint
<1> QED
  BY <1>12, <1>13, <1>14, <1>15, <1>16 DEF DInv

(* A step that shows in nothing the discipline is about.                   *)
LEMMA SameStep ==
  ASSUME DInv, IInv', Landed', UNCHANGED <<mem, pvars, job, applied>>
  PROVE  DInv'
<1>1. HandleObjs' /\ AppliedOld' /\ Chain' /\ Live' = Live /\ \A a : Over(a)' = Over(a)
  BY SameShown DEF pvars
<1>2. \A t : CallRange(t)' = CallRange(t) /\ Dirty(t)' = Dirty(t)
  BY DEF CallRange, Does, P!InCall, Covers, Span, Dirty, pvars
<1>3. Disjoint' /\ Settled'
  BY <1>1, <1>2 DEF DInv, Disjoint, Settled, Top, pvars
<1>4. \A t \in Thread : Place(t)'
  BY <1>1 DEF DInv, Place, Youngest, Covers, Span, Found, pvars
<1> QED
  BY <1>1, <1>3, <1>4 DEF DInv

-----------------------------------------------------------------------------
LEMMA InitDInv == DInit => DInv
<1> SUFFICES ASSUME DInit PROVE DInv
  OBVIOUS
<1>1. IInv
  BY InitIInv DEF DInit
<1>2. /\ mem = Pristine /\ applied = {} /\ \A t \in Thread : job[t].op = "none" /\ pframe[t].pc = "idle"
      /\ \A s \in PatchSlot : phandle[s].id = 0
  BY DEF DInit, Init, P!Init, P!IdleFrame, P!NullHandle, NoWork, Work
<1>3. Live = {} /\ \A a : Over(a) = {}
  BY <1>2 DEF Live, Over
<1>4. \A t \in Thread : CallRange(t) = {} /\ Place(t)
  BY <1>1, <1>2, Ranges DEF Place
<1>5. Landed /\ Disjoint /\ HandleObjs /\ AppliedOld /\ Chain /\ Settled
  BY <1>2, <1>3, <1>4 DEF Landed, Rewrites, Disjoint, HandleObjs, AppliedOld, Chain, Settled, Top
<1> QED
  BY <1>1, <1>4, <1>5 DEF DInv

(* The steps of the patches' registry and of the creations before it.      *)
LEMMA PatchNextDInv ==
  ASSUME DInv, IInv', Landed', DNext, NEW t \in Thread, PatchNext(t)
  PROVE  DInv'
<1>1. /\ IInv /\ Track /\ OneCallAtATime /\ YoungestOnly /\ RestoredBeforeDropped
  BY DEF DInv, DNext
<1>2. NoWork.op = "none" /\ NoWork.done = 0 /\ P!IdleFrame.pc = "idle"
  BY DEF NoWork, Work, P!IdleFrame
<1>3. /\ job[t] \in Jobs /\ job[t].done <= job[t].size /\ pframe[t] \in PP!Frames
      /\ pframe[t].pc = "call" => job[t].op \in PatchOps /\ job[t].size = 0
      /\ job[t].op \in Rewrites => pframe[t].pc \in {"call", "using"}
      /\ job[t].op = "capture" => pframe[t].pc = "idle"
  BY <1>1, Shapes DEF IInv, ThreadInv, WorkOK, PatchPlace, Alone, Rewrites
<1>4. pframe[t].pc = "call" => job[t].done = 0
  BY <1>3 DEF Jobs
<1>5. job' = job => Set(t, job[t])
  BY <1>1, Shapes DEF Set
<1>6. ASSUME NEW r \in Requests, StartPatch(t, r) PROVE DInv'
  <2> DEFINE j == Work("capture", r.at, r.new, Len(r.new))
  <2>1. j.op = "capture" /\ j.done = 0
    BY DEF Work
  <2>2. pframe[t].pc = "idle" /\ job[t].op = "none" /\ Set(t, j) /\ UNCHANGED <<mem, pvars>>
    BY <1>6 DEF StartPatch, Free, P!InCall, Does
  <2> HIDE DEF j
  <2> QED
    BY <1>1, <2>1, <2>2, OutsideQuiet DEF Rewrites
<1>7. ASSUME NEW s \in PatchSlot, RegisterPatch(t, s) PROVE DInv'
  BY <1>1, <1>7, RegisterQuiet
<1>8. ASSUME NEW s \in PatchSlot, NEW op \in {"modify", "restore", "inspect", "look"},
             BeginPatchUse(t, s, op)
      PROVE  DInv'
  <2> DEFINE f == [pc |-> "call", slot |-> s, mode |-> PatchMode(op), id |-> 0, obj |-> NoObject]
             j == Work(op, 0, <<>>, 0)
  <2>1. j.op = op /\ j.done = 0 /\ f.pc = "call" /\ f.slot = s
    BY DEF Work
  <2>2. /\ Free(t) /\ phandle[s].id # 0 /\ pframe' = [pframe EXCEPT ![t] = f] /\ Set(t, j)
        /\ UNCHANGED <<mem, phandle, pnext>>
    BY <1>8 DEF BeginPatchUse, P!BeginUse
  <2> HIDE DEF f, j
  <2>3. f.pc \in {"call", "free"} /\ j.op # "capture" /\ (j.op \notin Rewrites \/ j.done = 0)
    BY <2>1
  <2> QED
    BY <1>1, <1>8, <2>1, <2>2, <2>3, BeginQuiet
<1>9. CASE PatchFound(t)
  <2> DEFINE id == phandle[pframe[t].slot].id
             f == [pframe[t] EXCEPT !.pc = "using", !.id = id]
             o == ptable[id].obj
             j == PatchWork(job[t].op, o)
  <2>1. /\ pframe[t].pc = "call" /\ id \in DOMAIN ptable /\ pframe' = [pframe EXCEPT ![t] = f]
        /\ UNCHANGED <<mem, phandle, pnext>> /\ Set(t, j)
    BY <1>9 DEF PatchFound, P!UseLock, P!InCall
  <2>2. f.pc = "using" /\ f.slot = pframe[t].slot
    BY <1>3 DEF PP!Frames
  <2>3. o \in Patches /\ Kept(o)
    BY <1>1, <2>1, Shapes DEF IInv, TableInv
  <2>4. j.op = job[t].op /\ j.done = 0
    BY <1>3, <2>1, <2>3, PatchWorkOK, FreshWork
  <2> HIDE DEF f, j
  <2> QED
    BY <1>1, <1>3, <1>4, <2>1, <2>2, <2>4, CallQuiet DEF PatchOps
<1>10. CASE PatchDone(t)
  <2>1. /\ pframe[t].pc = "using" /\ pframe' = [pframe EXCEPT ![t] = P!IdleFrame]
        /\ UNCHANGED <<mem, phandle, pnext>> /\ Set(t, NoWork)
        /\ Finished(t) \/ job[t].done = 0
    BY <1>10 DEF PatchDone, P!UseEnd, P!InCall, P!Return, Refused
  <2>2. CASE job[t].op \in Rewrites /\ Finished(t)
    BY <1>1, <1>10, <2>1, <2>2, FinishStep
  <2>3. CASE ~(job[t].op \in Rewrites /\ Finished(t))
    BY <1>1, <1>2, <2>1, <2>3, CallQuiet
  <2> QED
    BY <2>2, <2>3
<1>11. CASE PatchMissing(t)
  <2>1. /\ pframe[t].pc = "call" /\ pframe' = [pframe EXCEPT ![t] = P!IdleFrame]
        /\ UNCHANGED <<mem, phandle, pnext>> /\ Set(t, NoWork)
    BY <1>11 DEF PatchMissing, P!UseMissing, P!InCall, P!Return
  <2> QED
    BY <1>1, <1>2, <1>4, <2>1, CallQuiet
<1>12. ASSUME NEW s \in PatchSlot, BeginPatchFree(t, s) PROVE DInv'
  <2> DEFINE f == [pc |-> "free", slot |-> s, mode |-> "mut", id |-> 0, obj |-> NoObject]
  <2>1. f.pc = "free" /\ f.slot = s
    OBVIOUS
  <2>2. /\ Free(t) /\ phandle[s].id # 0 /\ pframe' = [pframe EXCEPT ![t] = f] /\ Set(t, job[t])
        /\ UNCHANGED <<mem, phandle, pnext>> /\ job[t].op = "none"
    BY <1>5, <1>12 DEF BeginPatchFree, P!BeginFree, Free, Does
  <2> HIDE DEF f
  <2>3. f.pc \in {"call", "free"} /\ job[t].op # "capture" /\ job[t].op \notin Rewrites
    BY <2>1, <2>2 DEF Rewrites
  <2> QED
    BY <1>1, <1>12, <2>1, <2>2, <2>3, BeginQuiet
<1>13. CASE P!CreateLock(t) /\ UNCHANGED <<mem, bvars, job>>
  <2> DEFINE f == [pframe[t] EXCEPT !.pc = "insert", !.id = pnext]
  <2>1. /\ pframe[t].pc = "create" /\ pframe' = [pframe EXCEPT ![t] = f]
        /\ UNCHANGED <<mem, phandle, pnext>> /\ Set(t, job[t])
    BY <1>5, <1>13 DEF P!CreateLock, P!InCall
  <2>2. f.pc = "insert" /\ f.obj = pframe[t].obj
    BY <1>3 DEF PP!Frames
  <2> HIDE DEF f
  <2> QED
    BY <1>1, <1>3, <2>1, <2>2, CallQuiet
<1>14. CASE (P!CreateInsert(t) \/ P!FreeErase(t)) /\ UNCHANGED <<mem, bvars, job>>
  BY <1>1, <1>14, InsertStep, EraseStep
<1> QED
  BY <1>6, <1>7, <1>8, <1>9, <1>10, <1>11, <1>12, <1>13, <1>14 DEF PatchNext, PatchBookkeeping

(* The steps outside it.                                                   *)
LEMMA OutsideDInv ==
  ASSUME DInv, IInv', Landed', PatchesOnly, DNext, NEW t \in Thread,
         BackupNext(t) \/ MemoryNext(t)
  PROVE  DInv'
<1>1. IInv /\ Track /\ OneCallAtATime
  BY DEF DInv, DNext
<1>2. NoWork.op = "none" /\ \A op, at, d, n : Work(op, at, d, n).op = op
  BY DEF NoWork, Work
<1>3. ~BackupFound(t)
  <2>1. Backups = {}
    BY DEF PatchesOnly, Backups
  <2>2. \A i \in DOMAIN btable : FALSE
    BY <1>1, <2>1, Shapes
  <2> QED
    BY <2>2 DEF BackupFound, B!UseLock
<1>4. ASSUME NEW j, Set(t, j), UNCHANGED <<mem, pvars>>, pframe[t].pc = "idle",
             j.op \notin Rewrites \cup {"capture"}
      PROVE  DInv'
  BY <1>1, <1>4, OutsideQuiet
<1>5. CASE \/ \E r \in Regions : StartBackup(t, r)
           \/ \E r \in Reads : StartRead(t, r)
           \/ \E r \in Writes : StartWrite(t, r)
  <2>1. /\ pframe[t].pc = "idle" /\ UNCHANGED <<mem, pvars>>
        /\ \E op \in {"save", "read", "write"} : \E at, d, n : Set(t, Work(op, at, d, n))
    BY <1>1, <1>5, Places DEF StartBackup, StartRead, StartWrite
  <2> QED
    BY <1>2, <1>4, <2>1 DEF Rewrites
<1>6. CASE \E s \in BackupSlot, op \in {"unsave", "inspect", "look"} : BeginBackupUse(t, s, op)
  <2>1. /\ pframe[t].pc = "idle" /\ UNCHANGED <<mem, pvars>>
        /\ \E op \in {"unsave", "inspect", "look"} : Set(t, Work(op, 0, <<>>, 0))
    BY <1>1, <1>6, Places DEF BeginBackupUse
  <2> QED
    BY <1>2, <1>4, <2>1 DEF Rewrites
<1>7. CASE \/ \E s \in BackupSlot : RegisterBackup(t, s)
           \/ BackupDone(t) \/ BackupMissing(t) \/ EndRaw(t) \/ Discard(t)
  <2>1. pframe[t].pc = "idle" /\ UNCHANGED <<mem, pvars>> /\ Set(t, NoWork)
    BY <1>1, <1>7, Places DEF RegisterBackup, BackupDone, BackupMissing, EndRaw, Discard, Does,
       B!UseEnd, B!UseMissing, B!InCall
  <2> QED
    BY <1>2, <1>4, <2>1 DEF Rewrites
<1>8. CASE (\E s \in BackupSlot : BeginBackupFree(t, s)) \/ BackupBookkeeping(t)
  <2>1. UNCHANGED <<mem, pvars, job>>
    BY <1>8 DEF BeginBackupFree, BackupBookkeeping
  <2>2. applied' = applied
    BY <1>1, <2>1, TrackSame DEF pvars
  <2> QED
    BY <2>1, <2>2, SameStep
<1>9. CASE ReadByte(t)
  BY <1>1, <1>9, ReadQuiet
<1>10. CASE WriteByte(t)
  BY <1>1, <1>10, WriteStep
<1> QED
  BY <1>3, <1>5, <1>6, <1>7, <1>8, <1>9, <1>10 DEF BackupNext, MemoryNext

LEMMA NextDInv == DInv /\ PatchesOnly /\ [DNext]_dvars => DInv'
<1> SUFFICES ASSUME DInv, PatchesOnly, [DNext]_dvars PROVE DInv'
  OBVIOUS
<1>1. [Next]_vars /\ IInv' /\ Landed'
  <2>1. [Next]_vars
    BY DEF DNext, dvars
  <2> QED
    BY <2>1, NextIInv, NextLanded DEF DInv
<1>2. ASSUME DNext, CopyNext PROVE DInv'
  <2>1. Track
    BY <1>2 DEF DNext
  <2>2. CASE \E s, d \in PatchSlot : P!CopyHandle(s, d) /\ UNCHANGED <<mem, bvars, job>>
    BY <1>1, <2>1, <2>2, CopyStep
  <2>3. CASE \E s, d \in BackupSlot : B!CopyHandle(s, d) /\ UNCHANGED <<mem, pvars, job>>
    <3>1. UNCHANGED <<mem, pvars, job>>
      BY <2>3
    <3>2. \A u \in Thread : ~Succeeds(u, "modify") /\ ~Succeeds(u, "restore")
      BY <3>1 DEF Succeeds, P!InCall, pvars
    <3>3. applied' = applied
      BY <2>1, <3>2 DEF Track
    <3> QED
      BY <1>1, <3>1, <3>3, SameStep
  <2> QED
    BY <1>2, <2>2, <2>3 DEF CopyNext
<1>3. CASE UNCHANGED dvars
  BY <1>1, <1>3, SameStep DEF dvars, vars
<1> QED
  BY <1>1, <1>2, <1>3, PatchNextDInv, OutsideDInv DEF DNext, Next

-----------------------------------------------------------------------------
(* Where the program writes through patches alone, makes one call at a     *)
(* time on an address, works on the youngest of the patches that overlap   *)
(* and restores before it drops, restoring unwinds: an address no call is  *)
(* on shows the youngest applied patch over it or, where there is none,    *)
(* the byte that was loaded there.  The original bytes of a patch are read *)
(* once, at its creation (KittyMemory's MemoryPatch, wrapper.cpp:124-391). *)
THEOREM DisciplineUnwinds == PatchesOnly /\ DSpec => []Unwinds
<1>1. DInv => Unwinds
  <2> SUFFICES ASSUME DInv, NEW a \in Addr, \A t \in Thread : a \notin CallRange(t)
               PROVE  Top(phandle, Over(a), a, mem[a])
    BY DEF Unwinds, Top
  <2>1. \A t \in Thread : a \notin Dirty(t)
    BY DirtyInRange DEF DInv
  <2> QED
    BY <2>1 DEF DInv, Settled
<1>2. PatchesOnly => PatchesOnly'
  BY DEF PatchesOnly
<1> QED
  BY <1>1, <1>2, InitDInv, NextDInv, PTL DEF DSpec

(* A program that has restored everything it modified, and is in no call,  *)
(* has its memory back as it was loaded, whatever patches it still holds.  *)
Quiescent == applied = {} /\ \A t \in Thread : Free(t)

THEOREM DisciplinePristine == PatchesOnly /\ DSpec => [](Quiescent => mem = Pristine)
<1>1. DInv /\ Quiescent => mem = Pristine
  <2> SUFFICES ASSUME DInv, Quiescent PROVE mem = Pristine
    OBVIOUS
  <2>1. \A t \in Thread : Dirty(t) = {}
    BY DEF Quiescent, Free, Does, Dirty, Rewrites
  <2>2. \A a \in Addr : Over(a) = {} /\ mem[a] = Pristine[a]
    BY <2>1 DEF DInv, Settled, Top, Over, Quiescent
  <2> QED
    BY <2>2, MemoryAssumption DEF DInv, IInv
<1>2. PatchesOnly => PatchesOnly'
  BY DEF PatchesOnly
<1> QED
  BY <1>1, <1>2, InitDInv, NextDInv, PTL DEF DSpec
=============================================================================
