-------------------------- MODULE MCConfiguration ---------------------------
(***************************************************************************)
(* Configuration for TLC, with processes, apps, ports and files that are   *)
(* alike.  The ssh configuration and the other settings share no state, so *)
(* a behaviour changes the one or the others: generate is run on a file as *)
(* an upgrade and a login leave it, and other commands where nothing is    *)
(* generated.  Where the code guards against no overlap the properties say *)
(* no more, and the behaviour is followed no further.                      *)
(***************************************************************************)
EXTENDS Configuration

Alike == Permutations(Cmd) \cup Permutations(App) \cup Permutations(Port) \cup Permutations(Path)

Ready == file \in Left(Current) /\ file.whoami = Typed /\ file.mrtap /\ want = Effective

Bound ==
  /\ excuse \subseteq {"killed"}
  /\ \/ Ready
     \/ /\ ssh = <<"own">> /\ made = {} /\ linked = {}
        /\ \A c \in Cmd : kind[c] # "generate"
=============================================================================
