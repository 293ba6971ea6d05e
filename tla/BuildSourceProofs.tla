------------------------- MODULE BuildSourceProofs -------------------------
(***************************************************************************)
(* Theorems about BuildSource, for any sequence of runs.                   *)
(***************************************************************************)
EXTENDS BuildSource, TLAPS

(* While no run was cut, the tree in OUT_DIR is unpinned only between the  *)
(* clone and the checkout of the run under way; a run that builds it has   *)
(* found it or made it.                                                    *)
PinInv ==
  ~cut => /\ pc = "clone" => dest = "absent"
          /\ pc = "checkout" => dest = "head"
          /\ pc # "checkout" => dest \in {"absent", "pinned"}
          /\ pc \in {"submodules", "update"} => dest = "pinned"
          /\ pc \in {"compile", "bindgen"} /\ source = "dest" => dest = "pinned"

(* A run works on the tree its environment asks for, and what cargo skips  *)
(* a run for asks for the same one, but for ./KittyMemory.                 *)
TreeInv ==
  /\ pc # "idle" => source = Tree(env) /\ now = env /\ ~env.docs
  /\ pc = "idle" /\ result = "built" =>
       source = Tree(env) /\ ~env.docs /\ now.path = env.path

(* A run clones where nothing is, checks out what it has cloned, updates   *)
(* the submodules of a tree that is there, and compiles it after that.     *)
SubsInv ==
  /\ pc = "clone" => dest = "absent"
  /\ pc = "checkout" => dest = "head"
  /\ pc \in {"submodules", "update"} => dest # "absent"
  /\ SubmodulesFollow

IInv == TypeOK /\ PinInv /\ TreeInv /\ SubsInv

LEMMA InitIInv == Init => IInv
<1> SUFFICES ASSUME Init PROVE IInv
  OBVIOUS
<1> QED
  BY DEF Init, IInv, TypeOK, PinInv, TreeInv, SubsInv, SubmodulesFollow, ClonesOwnTree, Steps,
         Results

LEMMA NextIInv == IInv /\ [Next]_vars => IInv'
<1> SUFFICES ASSUME IInv, [Next]_vars PROVE IInv'
  OBVIOUS
<1> USE DEF IInv, TypeOK, PinInv, TreeInv, SubsInv, SubmodulesFollow, ClonesOwnTree, Steps,
            Results, End
<1>1. ASSUME NEW e \in Envs, NEW edited \in BOOLEAN, Start(e, edited) PROVE IInv'
  <2>1. Tree(e) \in {"path", "local", "dest"}
    BY DEF Tree
  <2>2. env' = e /\ now' = e /\ Tree(env') = Tree(e)
    BY <1>1 DEF Start, Tree
  <2>3. CASE e.docs
    BY <1>1, <2>2, <2>3 DEF Start
  <2>4. CASE ~e.docs
    BY <1>1, <2>1, <2>2, <2>4 DEF Start
  <2> QED
    BY <2>3, <2>4
<1>2. ASSUME NEW e \in Envs, Skip(e) PROVE IInv'
  BY <1>2 DEF Skip, Fresh, Tree
<1>3. ASSUME NEW ok \in BOOLEAN, Clone(ok) PROVE IInv'
  BY <1>3 DEF Clone, Tree
<1>4. ASSUME NEW ok \in BOOLEAN, Checkout(ok) PROVE IInv'
  BY <1>4 DEF Checkout, Tree
<1>5. ASSUME NEW ok \in BOOLEAN, Compile(ok) PROVE IInv'
  BY <1>5 DEF Compile, Tree
<1>6. ASSUME NEW ok \in BOOLEAN, Submodules(ok) \/ Update(ok) PROVE IInv'
  BY <1>6 DEF Submodules, Update, GitSubmodules, Tree
<1>7. CASE Bindgen
  BY <1>7 DEF Bindgen, Tree
<1>8. CASE Kill
  BY <1>8 DEF Kill, Tree
<1>9. CASE UNCHANGED vars
  BY <1>9 DEF vars, Tree
<1> QED
  BY <1>1, <1>2, <1>3, <1>4, <1>5, <1>6, <1>7, <1>8, <1>9 DEF Next

(* The trees, steps and outcomes are those named.                          *)
THEOREM BuildTypeOK == Spec => []TypeOK
<1>1. IInv => TypeOK
  BY DEF IInv
<1> QED
  BY InitIInv, NextIInv, <1>1, PTL DEF Spec

(* However runs and skipped runs alternate, a build links the tree its own *)
(* environment asks for, unless ./KittyMemory came or went.                *)
THEOREM BuildLinksItsTree == Spec => []LinksItsTree
<1>1. IInv => LinksItsTree
  BY DEF IInv, TreeInv, LinksItsTree, Tree
<1> QED
  BY InitIInv, NextIInv, <1>1, PTL DEF Spec

(* However many runs fail, are killed or are repeated, a clone is built    *)
(* pinned as long as none stopped before it had checked out its clone.     *)
THEOREM BuildPinnedUnlessCut == Spec => []PinnedUnlessCut
<1>1. IInv => PinnedUnlessCut
  BY DEF IInv, PinInv, PinnedUnlessCut, ClonesOwnTree, TypeOK
<1> QED
  BY InitIInv, NextIInv, <1>1, PTL DEF Spec

(* Wherever runs were killed or failed, a clone that a run compiles after  *)
(* git has updated its submodules has those of its own commit.             *)
THEOREM BuildSubmodulesFollow == Spec => []SubmodulesFollow
<1>1. IInv => SubmodulesFollow
  BY DEF IInv, SubsInv
<1> QED
  BY InitIInv, NextIInv, <1>1, PTL DEF Spec
=============================================================================
