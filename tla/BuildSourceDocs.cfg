\* build.rs:9: the bindings kept in the repository are for docs.rs.
SPECIFICATION Spec
INVARIANTS PregeneratedForDocsOnly
