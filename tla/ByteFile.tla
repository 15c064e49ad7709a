------------------------------ MODULE ByteFile ------------------------------
(***************************************************************************)
(* What a stream to a file promises: a file of bytes and a position in it. *)
(* A read or a write is at the position and moves it, unread-char moves it *)
(* back, file-position says and sets it, and what is in the file when the  *)
(* stream is closed is what has been written.  Nothing is said any more    *)
(* once the program has been careless with the stream.                     *)
(***************************************************************************)
EXTENDS Integers, Sequences

CONSTANTS
  Bytes, HOLE, EOF, NONE, Units,
  Positions  (* the elements that the program may want to go to              *)

VARIABLES
  contents,  (* the bytes of the file                                        *)
  pos,       (* the position                                                 *)
  unit,      (* bytes per element                                            *)
  back_only, (* the stream refuses to go forward, but for its end            *)
  open,
  careless,
  result     (* the last call and what it returned, or was asked to do       *)

kind == <<unit, back_only>>
abstract == <<contents, pos, unit, back_only, open, careless, result>>

Returns(op, val) == result' = [op |-> op, val |-> val]

(* The file f with the byte b at p; writing beyond the end leaves a hole.     *)
Put(f, p, b) ==
  [i \in 1 .. (IF p < Len(f) THEN Len(f) ELSE p + 1) |->
     IF i = p + 1 THEN b ELSE IF i <= Len(f) THEN f[i] ELSE HOLE]

Init ==
  /\ contents \in Seq(Bytes)
  /\ pos = 0
  /\ unit \in Units
  /\ ~back_only
  /\ ~open
  /\ ~careless
  /\ result = [op |-> "none", val |-> NONE]

(* Only a stream that reads the bytes of a file from its start goes back     *)
(* only.                                                                     *)
Open ==
  /\ ~open /\ open'
  /\ unit' \in Units
  /\ \/ contents' = contents /\ pos' \in {0, Len(contents)}
     \/ contents' = << >> /\ pos' = 0
  /\ back_only' => unit' = 1 /\ pos' = 0 /\ contents' = contents
  /\ Returns("open", NONE)

Read(op) ==
  /\ open
  /\ IF pos < Len(contents)
       THEN pos' = pos + 1 /\ Returns(op, contents[pos + 1])
       ELSE pos' = pos /\ Returns(op, EOF)
  /\ UNCHANGED <<contents, kind, open>>

Unread ==
  /\ open
  /\ result.op = "read_char" /\ result.val # EOF
  /\ pos' = pos - 1
  /\ Returns("unread_char", result.val)
  /\ UNCHANGED <<contents, kind, open>>

Listen ==
  /\ open
  /\ Returns("listen", pos < Len(contents))
  /\ UNCHANGED <<contents, pos, kind, open>>

Write(b) ==
  /\ open
  /\ contents' = Put(contents, pos, b)
  /\ pos' = pos + 1
  /\ Returns("write", b)
  /\ UNCHANGED <<kind, open>>

FinishOutput ==
  /\ open
  /\ Returns("finish_output", NONE)
  /\ UNCHANGED <<contents, pos, kind, open>>

FilePosition ==
  /\ open
  /\ Returns("file_position", pos \div unit)
  /\ UNCHANGED <<contents, pos, kind, open>>

(* The stream goes to the n-th element, or stays where it is and says so.    *)
Seek(n) ==
  IF back_only /\ n * unit > pos
    THEN pos' = pos /\ Returns("position_refused", n)
    ELSE pos' = n * unit /\ Returns("set_file_position", n)

SeekEnd == pos' = Len(contents) /\ Returns("set_file_position", NONE)

SetFilePosition ==
  /\ open
  /\ SeekEnd \/ \E n \in Positions : Seek(n)
  /\ UNCHANGED <<contents, kind, open>>

FileLength ==
  /\ open
  /\ Returns("file_length", Len(contents) \div unit)
  /\ UNCHANGED <<contents, pos, kind, open>>

Close ==
  /\ open /\ ~open'
  /\ ~back_only'
  /\ Returns("close", NONE)
  /\ UNCHANGED <<contents, unit>>

(* Whatever is asked of a closed stream leaves the file alone.               *)
WhileClosed ==
  /\ ~open /\ ~open'
  /\ UNCHANGED <<contents, kind>>

Careful ==
  \/ Open
  \/ \E op \in {"read_char", "read_byte"} : Read(op)
  \/ Unread
  \/ Listen
  \/ \E b \in Bytes : Write(b)
  \/ FinishOutput
  \/ FilePosition
  \/ SetFilePosition
  \/ FileLength
  \/ Close
  \/ WhileClosed

Next == careless' \/ Careful

Spec == Init /\ [][Next]_abstract

=============================================================================
