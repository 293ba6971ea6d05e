-------------------------- MODULE PatchDiscipline --------------------------
(***************************************************************************)
(* What a host program must do for restore() to undo modify(), and that it *)
(* is enough.  A patch keeps the bytes it found, not the bytes below other *)
(* patches: restored out of order, or created while another call is        *)
(* writing, it puts back bytes of a patch that is gone.  A disciplined     *)
(* program                                                                 *)
(*   - makes one call at a time on an address (creations included);        *)
(*   - works on the youngest of the live patches that overlap;             *)
(*   - restores a patch before it drops it: the drop writes nothing.       *)
(***************************************************************************)
EXTENDS PatchMemory

VARIABLE applied  \* identifiers of the patches modified and not restored

dvars == <<vars, applied>>

Covers(o) == Span(o.at, Len(o.new))

(* The addresses the call of a thread concerns.                            *)
CallRange(t) ==
  IF Does(t, {"capture"}) THEN Span(job[t].at, job[t].size)
  ELSE IF P!InCall(t, "idle") THEN {}
  ELSE IF P!InCall(t, "create") \/ P!InCall(t, "insert") THEN Covers(pframe[t].obj)
  ELSE Covers(phandle[pframe[t].slot].obj)

Live == {s \in PatchSlot : phandle[s].id # 0}

Youngest(s) ==
  \A d \in Live : Covers(phandle[d].obj) \cap Covers(phandle[s].obj) # {} =>
    phandle[d].id <= phandle[s].id

Begins(t) == CallRange(t) = {} /\ CallRange(t)' # {}

OneCallAtATime ==
  \A t, u \in Thread : t # u /\ Begins(t) => CallRange(t)' \cap CallRange(u) = {}

YoungestOnly ==
  \A t \in Thread :
    Begins(t) /\ pframe'[t].pc \in {"call", "free"} => Youngest(pframe'[t].slot)

RestoredBeforeDropped ==
  \A t \in Thread :
    Begins(t) /\ pframe'[t].pc = "free" => phandle[pframe'[t].slot].id \notin applied

(* A modify or a restore that returns true.                                *)
Succeeds(t, op) ==
  /\ Does(t, {op})
  /\ P!InCall(t, "using")
  /\ Finished(t)
  /\ pframe'[t].pc = "idle"

Track ==
  applied' = (applied \cup {pframe[t].id : t \in {u \in Thread : Succeeds(u, "modify")}})
               \ {pframe[t].id : t \in {u \in Thread : Succeeds(u, "restore")}}

DInit == Init /\ applied = {}

DNext == Next /\ Track /\ OneCallAtATime /\ YoungestOnly /\ RestoredBeforeDropped

DSpec == DInit /\ [][DNext]_dvars
-----------------------------------------------------------------------------
(* Outside the calls under way, an address holds the byte of the youngest  *)
(* applied patch over it, and where there is none the byte loaded there:   *)
(* restoring the patches, youngest first, gives the pristine memory back.  *)
(* (MemoryPatch keeps get_OrigBytes from its creation, README.md:104-108.) *)
Over(a) == {s \in Live : phandle[s].id \in applied /\ a \in Covers(phandle[s].obj)}

Unwinds ==
  \A a \in Addr \ UNION {CallRange(t) : t \in Thread} :
    IF Over(a) = {} THEN mem[a] = Pristine[a]
    ELSE \E s \in Over(a) :
           /\ \A d \in Over(a) : phandle[d].id <= phandle[s].id
           /\ mem[a] = phandle[s].obj.new[a - phandle[s].obj.at + 1]
=============================================================================
