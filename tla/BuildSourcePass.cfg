\* The build script run, killed, repeated and skipped over one OUT_DIR.
SPECIFICATION Spec
INVARIANTS TypeOK PinnedUnlessCut SubmodulesFollow LinksItsTree
