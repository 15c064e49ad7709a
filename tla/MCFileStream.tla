---------------------------- MODULE MCFileStream ----------------------------
(* An instance of FileStream: two bytes, a buffer of two.                    *)
EXTENDS FileStream
=============================================================================
