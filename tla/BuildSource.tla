---------------------------- MODULE BuildSource ----------------------------
(***************************************************************************)
(* Where build.rs takes the C++ library from, and when cargo runs it.      *)
(*                                                                         *)
(* OUT_DIR outlives the build script: a run finds what an earlier run,     *)
(* finished or not, left in OUT_DIR/KittyMemory.  A run may be killed at   *)
(* any step, and git may fail at any command.  A run that succeeded tells  *)
(* cargo what it depends on; until that changes cargo builds with what the *)
(* run left, and does not run the script.                                  *)
(***************************************************************************)

VARIABLES
  env,    \* what the last run was given
  now,    \* what cargo was last called with
  pc,     \* the step build.rs is at
  dest,   \* OUT_DIR/KittyMemory: "absent", "partial", "head" or "pinned"
  subs,   \* the commit whose submodules it has, "none" if not all are there
  source, \* the tree handed to the C++ compiler
  result, \* how the last run ended
  cut,    \* history: a run ended before it had checked out its clone
  missed  \* history: git could not update the submodules in the last run

vars == <<env, now, pc, dest, subs, source, result, cut, missed>>

(* A run's environment: DOCS_RS, KITTYMEMORY_PATH, ./KittyMemory, the      *)
(* target and ANDROID_NDK_HOME or NDK_HOME.  Targets do not share OUT_DIR. *)
Envs == [docs : BOOLEAN, path : BOOLEAN, local : BOOLEAN,
         target : {"android", "ios", "desktop"}, ndk : BOOLEAN]

Steps == {"idle", "clone", "checkout", "submodules", "update", "compile", "bindgen"}

Results == {"none", "docs", "built", "failed", "killed"}

Init ==
  /\ env \in Envs
  /\ now = env
  /\ pc = "idle"
  /\ dest = "absent"
  /\ subs = "none"
  /\ source = "none"
  /\ result = "none"
  /\ cut = FALSE
  /\ missed = FALSE

End(r) ==
  /\ pc' = "idle"
  /\ result' = r

(* The tree a run that is not for docs.rs takes.                           *)
Tree(e) == IF e.path THEN "path" ELSE IF e.local THEN "local" ELSE "dest"

-----------------------------------------------------------------------------
(* A script that does not name KITTYMEMORY_PATH to cargo.                  *)
FreshUnnamed(e) == result \in {"docs", "built"}

(* cargo need not run the script: the last run succeeded, and of what that *)
(* run named nothing has changed.  A run for docs.rs names bindings.rs;    *)
(* any other the wrapper, KITTYMEMORY_PATH and the keystone feature, which *)
(* OUT_DIR depends on anyway.  (A change of a file is an input of Start.)  *)
Fresh(e) ==
  /\ result \in {"docs", "built"}
  /\ env.docs \/ e.path = env.path

Skip(e) ==
  /\ pc = "idle"
  /\ e.target = env.target
  /\ Fresh(e)
  /\ now' = e
  /\ UNCHANGED <<env, pc, dest, subs, source, result, cut, missed>>

(* cargo starts the script.  For docs.rs it copies the bindings kept in    *)
(* the repository; else it picks the tree, and clones if there is none.    *)
Start(e, edited) ==
  /\ pc = "idle"
  /\ e.target = env.target
  /\ edited \/ ~Fresh(e)
  /\ env' = e
  /\ now' = e
  /\ IF e.docs
     THEN End("docs") /\ source' = "none"
     ELSE /\ UNCHANGED result
          /\ source' = Tree(e)
          /\ pc' = IF source' # "dest" THEN "compile"
                   ELSE IF dest = "absent" THEN "clone" ELSE "update"
  /\ missed' = FALSE
  /\ UNCHANGED <<dest, subs, cut>>

(* A clone with --depth 1.                                                 *)
CloneShallow(ok) ==
  /\ pc = "clone"
  /\ dest' = "shallow"
  /\ pc' = "checkout"
  /\ UNCHANGED <<subs, result, cut, env, now, source, missed>>

(* git clone --recursive: a clone that fails removes what it made, unless  *)
(* it fails at a submodule.                                                *)
Clone(ok) ==
  /\ pc = "clone"
  /\ IF ok
     THEN /\ dest' = "head"
          /\ subs' = "head"
          /\ pc' = "checkout"
          /\ UNCHANGED <<result, cut>>
     ELSE /\ dest' \in {"absent", "head"}
          /\ cut' = (cut \/ dest' = "head")
          /\ End("failed")
          /\ UNCHANGED subs
  /\ UNCHANGED <<env, now, source, missed>>

(* A clone that is built as it comes.                                      *)
CheckoutForgotten(ok) ==
  /\ pc = "checkout"
  /\ pc' = "submodules"
  /\ UNCHANGED <<env, now, dest, subs, source, result, cut, missed>>

(* git checkout 33f7e46, which leaves the submodules where they are; a     *)
(* failure panics and leaves the clone.                                    *)
Checkout(ok) ==
  /\ pc = "checkout"
  /\ IF ok
     THEN /\ dest' = "pinned"
          /\ pc' = "submodules"
          /\ UNCHANGED <<result, cut>>
     ELSE End("failed") /\ cut' = TRUE /\ UNCHANGED dest
  /\ UNCHANGED <<env, now, subs, source, missed>>

(* git submodule update, which may fail halfway.  (In a partial tree there *)
(* is nothing it could do.)                                                *)
GitSubmodules(ok) ==
  /\ subs' \in (IF dest = "partial" \/ subs = dest THEN {subs}
                ELSE IF ok THEN {dest} ELSE {subs, "none"})
  /\ missed' = ~ok

(* After a checkout its status is not looked at.                           *)
Submodules(ok) ==
  /\ pc = "submodules"
  /\ GitSubmodules(ok)
  /\ pc' = "compile"
  /\ UNCHANGED <<env, now, dest, source, result, cut>>

(* A run that builds a tree it finds as it is.                             *)
UpdateSkipped(ok) ==
  /\ pc = "update"
  /\ pc' = "compile"
  /\ UNCHANGED <<env, now, dest, subs, source, result, cut, missed>>

(* The tree is there already: its submodules are updated, and a failure is *)
(* a warning.  What is checked out is left as it is.                       *)
Update(ok) ==
  /\ pc = "update"
  /\ GitSubmodules(ok)
  /\ pc' = "compile"
  /\ UNCHANGED <<env, now, dest, source, result, cut>>

(* The C++ compiler, after a search for the keystone library that only     *)
(* switches the feature off: a partial tree never compiles.                *)
Compile(ok) ==
  /\ pc = "compile"
  /\ ok => ~(source = "dest" /\ dest = "partial")
  /\ IF ok THEN pc' = "bindgen" /\ UNCHANGED result ELSE End("failed")
  /\ UNCHANGED <<env, now, dest, subs, source, cut, missed>>

(* The bindings are generated with the clang of the Android NDK.           *)
Bindgen ==
  /\ pc = "bindgen"
  /\ End(IF env.ndk THEN "built" ELSE "failed")
  /\ UNCHANGED <<env, now, dest, subs, source, cut, missed>>

(* The run is killed.  In the middle of a clone git may leave a directory. *)
Kill ==
  /\ pc # "idle"
  /\ End("killed")
  /\ dest' \in (IF pc = "clone" THEN {"absent", "partial", "head"}
                ELSE IF pc = "checkout" THEN {"head", "pinned"} ELSE {dest})
  /\ subs' \in (IF pc = "clone" THEN {"none"} \cup ({dest'} \cap {"head"})
                ELSE IF pc \in {"submodules", "update"} THEN {subs, "none", dest} \ {"partial"}
                ELSE {subs})
  /\ cut' = (cut \/ pc \in {"clone", "checkout"})
  /\ UNCHANGED <<env, now, source, missed>>

Next ==
  \/ \E e \in Envs, edited \in BOOLEAN : Start(e, edited)
  \/ \E e \in Envs : Skip(e)
  \/ \E ok \in BOOLEAN : Clone(ok) \/ Checkout(ok) \/ Submodules(ok) \/ Update(ok) \/ Compile(ok)
  \/ Bindgen
  \/ Kill

Spec == Init /\ [][Next]_vars
-----------------------------------------------------------------------------
TypeOK ==
  /\ env \in Envs
  /\ now \in Envs
  /\ pc \in Steps
  /\ dest \in {"absent", "partial", "head", "pinned"}
  /\ subs \in {"none", "head", "pinned"}
  /\ source \in {"none", "path", "local", "dest"}
  /\ result \in Results
  /\ cut \in BOOLEAN
  /\ missed \in BOOLEAN

ClonesOwnTree == pc \in {"compile", "bindgen"} /\ source = "dest"

(* The clone is built at the commit the wrapper was written against, in    *)
(* any order of failed, killed and repeated runs none of which stopped     *)
(* before it had checked out its clone.  (build.rs:36-67)                  *)
PinnedUnlessCut == ClonesOwnTree /\ ~cut => dest = "pinned"

(* A clone is compiled with the submodules of the commit it stands at,     *)
(* wherever earlier runs were killed or failed (after the checkout and     *)
(* before the submodules, in the middle of them), if git can update them   *)
(* in the run that compiles it: the run that finds the tree repairs them.  *)
(* (build.rs:63-66 and 73-76)                                              *)
SubmodulesFollow ==
  ClonesOwnTree /\ ~missed /\ dest # "partial" => subs = dest

(* What an ordinary build links was made from the tree that its own        *)
(* environment asks for, whether the script ran for it or not, unless      *)
(* ./KittyMemory came or went since the run: build.rs:23-26 names to cargo *)
(* what chooses the tree, except that directory.                           *)
LinksItsTree ==
  pc = "idle" /\ result = "built" /\ now.local = env.local => source = Tree(now)

(* "For docs.rs builds, use pre-generated bindings" (build.rs:9): a build  *)
(* that is not for docs.rs does not use them.                              *)
PregeneratedForDocsOnly == pc = "idle" /\ result = "docs" => now.docs

(* "we pin until the wrapper is updated" (build.rs:51-53): the clone is    *)
(* never built at another commit.                                          *)
Pinned == ClonesOwnTree => dest = "pinned"

(* "Android NDK (for Android targets)" (README.md:85): a run that compiled *)
(* the library for another target does not fail for want of the NDK.       *)
NdkForAndroidOnly ==
  [][Bindgen /\ env.target # "android" => result' = "built"]_vars
=============================================================================
