----------------------------- MODULE MCCuration -----------------------------
(***************************************************************************)
(* One field of an item with two files: one editor, enrichment and scans   *)
(* (Fields); and the roots of a catalog with a nested folder, a link into  *)
(* it, copies in two roots and a former podcast dir (Roots).  Each         *)
(* behaviour is one of either, so that one run checks both.                *)
(***************************************************************************)
EXTENDS Fields, Roots

VARIABLE runs  \* the part this behaviour is of

M == <<"m">>
MS == <<"m", "s">>
N == <<"n">>
K == <<"k">>
MCFolder == {M, MS, N, K}
MCReach == [p \in MCFolder |-> IF p = K THEN MS ELSE p]
MCWalkable == MCFolder \ {N}
MCOnDisk == {<<"m", "x">>, <<"m", "s", "x">>, <<"n", "y">>, <<"n", "x">>}
RootAt(p, md) == [path |-> p, mode |-> md]
MCConfigs == {[roots |-> <<RootAt(M, "in-place")>>, inbox |-> {}, pod |-> {N}],
              [roots |-> <<RootAt(N, "managed")>>, inbox |-> {}, pod |-> {}]}

\* The variables of the part a behaviour is not of keep one value.  Those of the field
\* keep a state it starts in, where what Fields says of it holds too.
FieldsStart == FieldsInit /\ field = "mood" /\ column = ""
RootsIdle == up = 0 /\ conf = 0 /\ libs = 0 /\ reopenOwed = 0 /\ rows = 0 /\ items = 0 /\ entries = 0 /\ removal = 0
   /\ scanning = 0 /\ left = 0 /\ unchecked = 0 /\ unanswered = 0 /\ staleScan = 0 /\ rootOps = 0
MCInit ==
  \/ runs = "fields" /\ FieldsInit /\ RootsIdle
  \/ runs = "roots" /\ RootsInit /\ FieldsStart

\* Bound: no write-back is under way from the last stamp on.
LastStampAlone == stamp' = MaxStamp => back' = [w \in Writers |-> Idle]

\* Bound: what a write-back records after a write fails to land for the primary file alone.
OthersRecorded ==
  \A w \in Writers :
    LET f == back[w].file
        went == back'[w].step
    IN f # Main =>
         /\ back[w].step \in {"written", "lossy"} /\ went \notin {"idle", back[w].step}
              => owed' \cap PaidByWrite(w) = {}
         /\ back[w].step = "loss" /\ went = "stamp" => f \in lost'
         /\ back[w].step = "note" /\ went = "stamp" => f \notin lost'
         /\ back[w].step = "stamp" /\ went = "next" => settled'[f] >= back[w].upTo

MCNext ==
  \/ runs = "fields" /\ FieldsNext /\ LastStampAlone /\ OthersRecorded /\ UNCHANGED <<rootVars, runs>>
  \/ runs = "roots" /\ RootsNext /\ UNCHANGED <<fieldVars, runs>>

MCVars == <<fieldVars, rootVars, runs>>
MCSpec == MCInit /\ [][MCNext]_MCVars

(***************************************************************************)
(* The property of the roots, over the behaviours of their own part;       *)
(* FieldsTold and CurationKept are those of Fields.                        *)
(***************************************************************************)
\* Roots stand apart, the rows and items of each are its own, a root that was
\* left stays out, and what a removal re-reads is still there (waxbin.go).
RootsHold ==
  /\ [](runs = "roots" => RootsTypeOK /\ RootsApart /\ RowsUnderRoot /\ ItemsSettled /\ LeftRootsStayOut /\ FallbackInPlace)
  /\ [][runs = "roots" => PromotedStand]_MCVars
=============================================================================
