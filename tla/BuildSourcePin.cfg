\* build.rs:51-53: the clone is pinned until the wrapper is updated.
SPECIFICATION Spec
INVARIANTS Pinned
