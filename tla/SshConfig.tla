----------------------------- MODULE SshConfig ------------------------------
(***************************************************************************)
(* What `zli generate sshConfig' makes of the user's ssh configuration.    *)
(* That file is a sequence of pieces: the user's own, the zli's note, and  *)
(* include statements of generated files, each with a description before   *)
(* it unless an old zli has put it in.  A file that is missing is empty.   *)
(***************************************************************************)
EXTENDS Sequences, SequencesExt

CONSTANT Path     \* generated files, one per configuration name or as given

Description == "description"
Note == "note"

\* configContents.includes, for a piece.
Includes(text, piece) == piece \in ToSet(text)

\* The include statement is preceded by a description, its own.
Described(text, i) == i > 1 /\ text[i - 1] = Description

\* A slip: the statement of an older zli is left where it was.
LinkedAgain(text, path) ==
  IF ~Includes(text, path) \/ (~Includes(text, Description) /\ ~Includes(text, Note))
  THEN <<Description, path>> \o (IF Includes(text, Note) THEN <<>> ELSE <<Note>>) \o text
  ELSE text

\* linkNewConfigFile
Linked(text, path) ==
  LET zli == <<Description, path>>
  IN IF ~Includes(text, path)
     THEN zli \o (IF Includes(text, Note) THEN <<>> ELSE <<Note>>) \o text
     ELSE IF ~Includes(text, Description) /\ ~Includes(text, Note)
     THEN zli \o <<Note>> \o RemoveFirst(text, path)
     ELSE text

\* A slip: what follows a statement goes with it.
UnincludedWithNext(text, path) ==
  LET described == {i \in 1..Len(text) : text[i] = path /\ Described(text, i)}
  IN IF described # {}
     THEN LET i == CHOOSE i \in described : \A j \in described : i <= j
          IN SubSeq(text, 1, i - 2) \o SubSeq(text, i + 2, Len(text))
     ELSE text

\* A statement without description goes only if no other has one either.
Unincluded(text, path) ==
  LET described == {i \in 1..Len(text) : text[i] = path /\ Described(text, i)}
  IN IF described # {}
     THEN LET i == CHOOSE i \in described : \A j \in described : i <= j
          IN SubSeq(text, 1, i - 2) \o SubSeq(text, i + 1, Len(text))
     ELSE IF ~Includes(text, Description) THEN RemoveFirst(text, path) ELSE text

\* deleteBzConfigContents: the note goes with the last description.
Unlinked(text, path) ==
  LET rest == Unincluded(text, path)
  IN IF Includes(rest, Description) THEN rest ELSE RemoveFirst(rest, Note)

\* A piece is there, and once.
Once(text, piece) == \E i \in 1..Len(text) : \A j \in 1..Len(text) : text[j] = piece <=> i = j
=============================================================================
