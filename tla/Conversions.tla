---------------------------- MODULE Conversions ----------------------------
(***************************************************************************)
(* The sequential conversions of safe.rs: hex text to bytes, which the     *)
(* Rust side cleans and the C++ side decodes into a buffer whose size Rust *)
(* has chosen, hex text to a patch, and an address to its page.  A call's  *)
(* outcome is kept in a variable so that it can be judged as a whole.      *)
(***************************************************************************)
EXTENDS PageMath, FiniteSets, SequencesExt

CONSTANTS
  Digit,    \* hex digits, "0" among them
  Other,    \* characters that are none of "0", "x" and space
  Nul,      \* the character '\0', one of Other
  MaxText,  \* bound: the length of a text
  Probe     \* the addresses asked about

ASSUME ConversionAssumption ==
  /\ "0" \in Digit /\ Nul \in Other
  /\ Digit \cap (Other \cup {"x", " "}) = {} /\ Other \cap {"x", " "} = {}
  /\ MaxText \in Nat /\ Probe \subseteq Address

VARIABLE call  \* the call under way, with its outcome

Text == UNION {[1 .. n -> Digit \cup Other \cup {"x", " "}] : n \in 0 .. MaxText}

NoCall == [op |-> "none"]

(* Outcomes: Ok(value), Err(..), a panic.                                  *)
Ok(v) == [kind |-> "ok", value |-> v]
Err == [kind |-> "err"]
Panic == [kind |-> "panic"]
-----------------------------------------------------------------------------
(* The characters of s at the places in I, in their order.                 *)
Pick(s, I) == [i \in 1 .. Cardinality(I) |-> s[CHOOSE k \in I : Cardinality(I \cap (1 .. k)) = i]]

(* hex.replace(" ", "").replace("0x", ""): one pass, so "00xx" leaves      *)
(* "0x".                                                                   *)
Clean(s) ==
  LET dense == Pick(s, {i \in DOMAIN s : s[i] # " "})
      first == {i \in 1 .. Len(dense) - 1 : dense[i] = "0" /\ dense[i + 1] = "x"}
  IN  Pick(dense, DOMAIN dense \ (first \cup {i + 1 : i \in first}))

Even(s) == Len(s) % 2 = 0
AllHex(s) == Range(s) \subseteq Digit

(* What the library may make of its argument before it validates it: some  *)
(* versions drop a "0x" in front.                                          *)
Trimmed(s) == {s} \cup (IF IsPrefix(<<"0", "x">>, s) THEN {SubSeq(s, 3, Len(s))} ELSE {})

ValidateHex(s) == s # <<>> /\ Even(s) /\ AllHex(s)

(* The bytes the library writes, one for each pair of digits.              *)
dataFromHex(s) == [i \in 1 .. Len(s) \div 2 |-> <<s[2 * i - 1], s[2 * i]>>]

Zero == <<"0", "0">>

(* A decoder that does not compare the lengths: what the library does not  *)
(* write stays zero.                                                       *)
DecodeUnmeasured(s, len) ==
  {IF ValidateHex(h)
   THEN Ok([i \in 1 .. len |-> IF i <= Len(h) \div 2 THEN dataFromHex(h)[i] ELSE Zero])
   ELSE Err : h \in Trimmed(s)}

(* km_hex_to_data into a buffer of len bytes.                              *)
Decode(s, len) ==
  {IF ValidateHex(h) /\ Len(h) \div 2 = len THEN Ok(dataFromHex(h)) ELSE Err : h \in Trimmed(s)}

(* hex_to_data; CString::new panics on a '\0'.                             *)
DataOutcomes(s) ==
  LET hex == Clean(s)
  IN  IF ~Even(hex) THEN {Err}
      ELSE IF Nul \in Range(hex) THEN {Panic}
      ELSE Decode(hex, Len(hex) \div 2)

(* Patch::with_hex: an address that cannot be read, or nothing to write,   *)
(* gives Ok of a patch that is not valid.                                  *)
Patches(s) ==
  {Ok(<<>>)} \cup {Ok(dataFromHex(h)) : h \in {g \in Trimmed(s) : ValidateHex(g)}}

(* A with_hex that leaves the characters to the library.                   *)
PatchOutcomesUnchecked(s) ==
  LET hex == Clean(s)
  IN  IF ~Even(hex) THEN {Err}
      ELSE IF Nul \in Range(hex) THEN {Panic}
      ELSE Patches(hex)

PatchOutcomes(s) ==
  LET hex == Clean(s)
  IN  IF ~Even(hex) \/ ~AllHex(hex) THEN {Err} ELSE Patches(hex)
-----------------------------------------------------------------------------
Init == call = NoCall

hex_to_data(s) == \E o \in DataOutcomes(s) : call' = [op |-> "data", in |-> s, out |-> o]

with_hex(s) == \E o \in PatchOutcomes(s) : call' = [op |-> "patch", in |-> s, out |-> o]

page_start(x) == call' = [op |-> "start", in |-> x, out |-> Ok(km_page_start_fn(x))]

page_end(x) ==
  \E o \in {Ok(km_page_end_fn(x))} \cup (IF Overflows(x) THEN {Panic} ELSE {}) :
    call' = [op |-> "end", in |-> x, out |-> o]

Call ==
  /\ call = NoCall
  /\ \/ \E s \in Text : hex_to_data(s) \/ with_hex(s)
     \/ \E x \in Probe : page_start(x) \/ page_end(x)

Return ==
  /\ call # NoCall
  /\ call' = NoCall

Next == Call \/ Return

Spec == Init /\ [][Next]_call
-----------------------------------------------------------------------------
(* hex_to_data gives one byte for each pair of digits the caller wrote and *)
(* no byte nobody wrote, though one side sizes the buffer and the other    *)
(* fills it.                                                               *)
DataWhole ==
  call.op = "data" /\ call.out.kind = "ok" =>
    /\ Len(call.out.value) = Len(Clean(call.in)) \div 2
    /\ FlattenSeq(call.out.value) = Clean(call.in)

(* with_hex and hex_to_data, written twice, take the same texts to the     *)
(* same bytes; only the empty text tells them apart.  with_hex answers,    *)
(* whatever it is given.                                                   *)
SameTexts ==
  call.op = "patch" =>
    /\ call.out # Panic
    /\ \/ call.out = Err /\ \A o \in DataOutcomes(call.in) : o.kind # "ok"
       \/ call.out.kind = "ok" /\ Clean(call.in) = <<>>
       \/ call.out.kind = "ok" /\ call.out.value = <<>> /\ Err \notin DataOutcomes(call.in)
       \/ call.out.kind = "ok" /\ DataOutcomes(call.in) = {call.out}

(* page_start and page_end give the boundaries around an address.  Where   *)
(* the last page starts the addition of page_end overflows already: a      *)
(* checked build panics from there on.  A release build wraps twice and    *)
(* still answers that address for itself, and 0 for those after it.        *)
PagesExact ==
  /\ call.op = "start" => StartsPage(call.in, call.out.value)
  /\ call.op = "end" =>
       \/ call.out.kind = "ok" /\ EndsPage(call.in, call.out.value)
       \/ call.in > Word - KM_PAGE_SIZE /\ call.out = Ok(0)
       \/ call.in >= Word - KM_PAGE_SIZE /\ call.out = Panic
=============================================================================
