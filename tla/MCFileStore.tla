---------------------------- MODULE MCFileStore ----------------------------
(* Instances of FileStore for TLC. *)
EXTENDS FileStore

\* The first upload comes in two pieces, the others and the PUT in one; a
\* PUT may also be stored before its piece has come.
CONSTANT First
MCLength == [w \in Writers |-> IF w = First THEN 2 ELSE 1]
=============================================================================
