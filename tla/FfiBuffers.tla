----------------------------- MODULE FfiBuffers -----------------------------
(***************************************************************************)
(* How a result crosses from C++ to Rust.  One of unknown length comes in  *)
(* a block that the C++ side mallocs and fills, and that the Rust side     *)
(* copies into a Vec or a String and gives back to free: lists             *)
(* (find_*_all, the maps, the soinfos) as a pointer and a count, strings   *)
(* as a pointer.  A single address comes by value with 0 for none          *)
(* (find_*_first, the symbol lookups), a single struct in a zeroed one of  *)
(* the caller's (get_address_map, find_soinfo).  Validators and files are  *)
(* objects made with new, on the same heap, which lends again to any       *)
(* thread what was given back.                                             *)
(***************************************************************************)
CONSTANTS
  Thread,  \* threads of the host program
  Cell,    \* blocks the allocator can hand out
  Item,    \* contents of a list, string or struct, or an address
  Empty,   \* the list with nothing found, the string of length 0, none
  Null,    \* a null pointer
  Junk,    \* contents of a block nobody has filled
  Zeroed,  \* the struct the caller passes in
  Nothing, \* an Err, a None or an empty Vec
  Slot,    \* km_ptr_validator_t and km_io_file_t structs of the host
  State,   \* what an object can hold: cache flag and cache, open or closed
  Made     \* what a new object holds

ASSUME BufferAssumption ==
  /\ Null \notin Cell
  /\ Empty \notin {Nothing, Zeroed}
  /\ Item \cap {Empty, Junk, Zeroed, Nothing} = {}
  /\ Made \in State

VARIABLES
  free,  \* the blocks the allocator may hand out
  bytes, \* [Cell -> what the block contains], freed or not
  call,  \* [Thread -> the call the thread is in, or has made last]
  object \* [Slot -> the struct's handle, and what its owner's calls have
         \*          left in the object]

vars == <<free, bytes, call, object>>

Data == Item \cup {Empty}
Kind == {"list", "string", "word", "struct"}

(* kind: what the function returns; found: what the C++ side computed;     *)
(* ptr: the block; out: what the caller gets; oom: malloc returned null.   *)
NoCall == [pc |-> "idle", kind |-> "list", found |-> Empty, ptr |-> Null,
           out |-> Nothing, oom |-> FALSE]

NoObject == [handle |-> Null, set |-> Made]

At(t, where) == call[t].pc = where
Go(t, c) == call' = [call EXCEPT ![t] = c]

Init ==
  /\ free = Cell
  /\ bytes = [c \in Cell |-> Junk]
  /\ call = [t \in Thread |-> NoCall]
  /\ object = [s \in Slot |-> NoObject]

-----------------------------------------------------------------------------
(* The C++ side has computed its result.  A list with nothing in it is a   *)
(* null pointer and a count of 0; an empty string is a block of one byte.  *)
(* The struct is written only where there is something to write.           *)
NoBlock(k, d) == k \in {"word", "struct"} \/ (k = "list" /\ d = Empty)

Compute(t, k, d) ==
  /\ At(t, "idle")
  /\ Go(t, [NoCall EXCEPT !.pc = IF NoBlock(k, d) THEN "returned" ELSE "malloc",
                          !.kind = k, !.found = d,
                          !.out = IF k # "struct" THEN Nothing
                                  ELSE IF d = Empty THEN Zeroed ELSE d])
  /\ UNCHANGED <<free, bytes, object>>

Malloc(t, c) ==
  /\ At(t, "malloc")
  /\ c \in free
  /\ free' = free \ {c}
  /\ Go(t, [call[t] EXCEPT !.pc = "fill", !.ptr = c])
  /\ UNCHANGED <<bytes, object>>

(* malloc returned null: the count is 0, the string null.                  *)
MallocFails(t) ==
  /\ At(t, "malloc")
  /\ Go(t, [call[t] EXCEPT !.pc = "returned", !.oom = TRUE])
  /\ UNCHANGED <<free, bytes, object>>

Fill(t) ==
  /\ At(t, "fill")
  /\ bytes' = [bytes EXCEPT ![call[t].ptr] = call[t].found]
  /\ Go(t, [call[t] EXCEPT !.pc = "returned"])
  /\ UNCHANGED <<free, object>>

-----------------------------------------------------------------------------
(* The Rust side: nothing to copy and nothing to free.                     *)
ReturnNothing(t) ==
  /\ At(t, "returned")
  /\ call[t].ptr = Null
  /\ call[t].kind \in {"list", "string"}
  /\ Go(t, [call[t] EXCEPT !.pc = "idle"])
  /\ UNCHANGED <<free, bytes, object>>

(* An address: 0 is None.                                                  *)
ReturnWord(t) ==
  /\ At(t, "returned")
  /\ call[t].kind = "word"
  /\ Go(t, [call[t] EXCEPT !.pc = "idle",
                           !.out = IF call[t].found = Empty THEN Nothing ELSE call[t].found])
  /\ UNCHANGED <<free, bytes, object>>

(* A struct: the flag the C++ side returns says whether it was written.    *)
ReturnStruct(t) ==
  /\ At(t, "returned")
  /\ call[t].kind = "struct"
  /\ Go(t, [call[t] EXCEPT !.pc = "idle",
                           !.out = IF call[t].found = Empty THEN Nothing ELSE call[t].out])
  /\ UNCHANGED <<free, bytes, object>>

(* A copy taken after the block went back to the allocator.                *)
CopyAfterFree(t) ==
  /\ \/ /\ At(t, "returned")
        /\ call[t].ptr # Null
        /\ free' = free \cup {call[t].ptr}
        /\ Go(t, [call[t] EXCEPT !.pc = "late"])
     \/ /\ At(t, "late")
        /\ Go(t, [call[t] EXCEPT !.pc = "copied", !.out = bytes[call[t].ptr]])
        /\ UNCHANGED free
  /\ UNCHANGED <<bytes, object>>

(* to_vec(), collect() or into_owned().                                    *)
Copy(t) ==
  /\ At(t, "returned")
  /\ call[t].ptr # Null
  /\ Go(t, [call[t] EXCEPT !.pc = "copied", !.out = bytes[call[t].ptr]])
  /\ UNCHANGED <<free, bytes, object>>

(* A return that forgets the block.                                        *)
GiveBackNever(t) ==
  /\ At(t, "copied")
  /\ Go(t, [call[t] EXCEPT !.pc = "idle", !.ptr = Null])
  /\ UNCHANGED <<free, bytes, object>>

(* A pointer cleared before it is given back.                              *)
GiveBackCleared(t) ==
  /\ At(t, "copied")
  /\ free' = free \cup {Null}
  /\ Go(t, [call[t] EXCEPT !.pc = "idle", !.ptr = Null])
  /\ UNCHANGED <<bytes, object>>

(* km_free_results, km_free_maps, km_free_soinfos, km_free_string.         *)
GiveBack(t) ==
  /\ At(t, "copied")
  /\ free' = free \cup {call[t].ptr}
  /\ Go(t, [call[t] EXCEPT !.pc = "idle", !.ptr = Null])
  /\ UNCHANGED <<bytes, object>>

-----------------------------------------------------------------------------
(* A validator or a file: new runs a constructor over the block.           *)
NewObject(s, c) ==
  /\ object[s].handle = Null
  /\ c \in free
  /\ free' = free \ {c}
  /\ bytes' = [bytes EXCEPT ![c] = Made]
  /\ object' = [object EXCEPT ![s] = [handle |-> c, set |-> Made]]
  /\ UNCHANGED call

(* A setter, or a query that renews the cache.                             *)
UseObject(s, v) ==
  /\ object[s].handle # Null
  /\ bytes' = [bytes EXCEPT ![object[s].handle] = v]
  /\ object' = [object EXCEPT ![s].set = v]
  /\ UNCHANGED <<free, call>>

(* A delete that leaves the pointer in the struct.                         *)
FreeObjectKeeps(s) ==
  /\ object[s].handle # Null
  /\ free' = free \cup {object[s].handle}
  /\ UNCHANGED <<bytes, call, object>>

(* The struct's next free or query finds a null handle and does nothing.   *)
FreeObject(s) ==
  /\ object[s].handle # Null
  /\ free' = free \cup {object[s].handle}
  /\ object' = [object EXCEPT ![s] = NoObject]
  /\ UNCHANGED <<bytes, call>>

CallNext(t) ==
  \/ \E k \in Kind, d \in Data : Compute(t, k, d)
  \/ \E c \in Cell : Malloc(t, c)
  \/ MallocFails(t)
  \/ Fill(t)
  \/ ReturnNothing(t)
  \/ ReturnWord(t)
  \/ ReturnStruct(t)
  \/ Copy(t)
  \/ GiveBack(t)

ObjectNext(s) ==
  \/ \E c \in Cell : NewObject(s, c)
  \/ \E v \in State : UseObject(s, v)
  \/ FreeObject(s)

Next ==
  \/ \E t \in Thread : CallNext(t)
  \/ \E s \in Slot : ObjectNext(s)

Spec == Init /\ [][Next]_vars
-----------------------------------------------------------------------------
Calls == [pc : {"idle", "malloc", "fill", "returned", "copied"},
          kind : Kind, found : Data, ptr : Cell \cup {Null},
          out : Data \cup State \cup {Nothing, Junk, Zeroed}, oom : BOOLEAN]

Objects == [handle : Cell \cup {Null}, set : State]

TypeOK ==
  /\ free \subseteq Cell
  /\ bytes \in [Cell -> Data \cup State \cup {Junk}]
  /\ call \in [Thread -> Calls]
  /\ object \in [Slot -> Objects]

(* Every block that is not free is the block of exactly one call under way *)
(* or one object: none leaks, whichever way a call returned, none is freed *)
(* twice, and none is shared.  (km_free_... after every copy, safe.rs;     *)
(* handle = nullptr after every delete, wrapper.cpp.)                      *)
BlocksOwned ==
  /\ \A c \in Cell \ free : \/ \E t \in Thread : call[t].ptr = c
                          \/ \E s \in Slot : object[s].handle = c
  /\ \A t \in Thread : call[t].ptr # Null =>
       /\ call[t].ptr \notin free
       /\ ~At(t, "idle")
       /\ \A u \in Thread : call[u].ptr = call[t].ptr => u = t
       /\ \A s \in Slot : object[s].handle # call[t].ptr
  /\ \A s \in Slot : object[s].handle # Null =>
       /\ object[s].handle \notin free
       /\ \A r \in Slot : object[r].handle = object[s].handle => r = s

(* A caller gets what its own call computed, not what another thread put   *)
(* into the block since and not the struct it passed in, and misses it     *)
(* only when malloc failed or there was nothing.                           *)
ResultIsOwn ==
  \A t \in Thread : At(t, "idle") /\ call[t] # NoCall =>
    \/ call[t].out = call[t].found
    \/ /\ call[t].out = Nothing
       /\ call[t].oom \/ (call[t].kind # "string" /\ call[t].found = Empty)

(* As long as a struct has its handle, the object holds what the calls     *)
(* through that struct left in it, though there is no table behind the     *)
(* pointer and a struct may be freed again and again.                      *)
ObjectsIntact ==
  \A s \in Slot : object[s].handle # Null => bytes[object[s].handle] = object[s].set
=============================================================================
