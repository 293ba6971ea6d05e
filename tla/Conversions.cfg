\* Texts of six characters, and an address space of four pages.
CONSTANTS
  Word = 16384
  Digit <- Digits
  Other <- Others
  Nul = "nul"
  MaxText = 6
  Probe <- Probes
SPECIFICATION Spec
INVARIANTS DataWhole SameTexts PagesExact
