----------------------------- MODULE FileStream -----------------------------
(***************************************************************************)
(* FileStream (kernel): the streams that open makes.                       *)
(*                                                                         *)
(* An :input stream of bytes or characters reads the mapped file; if the   *)
(* file cannot be mapped (it is empty) or the elements are larger, it      *)
(* reads from the descriptor.  An :output stream of bytes or characters    *)
(* that does not append collects them in a buffer; the others write each   *)
(* byte at once.  unread-char and listen keep one character in _last_char. *)
(*                                                                         *)
(* One stream at a time is open on the file, and system calls succeed.     *)
(***************************************************************************)
EXTENDS Integers, Sequences

CONSTANTS
  Bytes,
  HOLE,        (* the byte that reads in a part never written               *)
  EOF, NONE,
  Units,       (* bytes per element of the streams to be opened             *)
  BufferSize,  (* 4096 in the code                                          *)
  MaxFile      (* bound: length of the file and positions in it             *)

ASSUME FileAssumption ==
  /\ HOLE \in Bytes
  /\ EOF \notin Bytes /\ NONE \notin Bytes
  /\ Units \subseteq Nat \ {0}
  /\ BufferSize \in Nat \ {0}
  /\ MaxFile \in Nat

VARIABLES
  file,         (* what is on the disk                                      *)
  open,         (* _open                                                    *)
  direction,
  unit,         (* _bytes_per_unit                                          *)
  mapped,       (* _data is not NULL; _data_size is the length of the file  *)
  data_offset,  (* _data_offset                                             *)
  fd_pos,       (* the offset of the descriptor                             *)
  last_char,    (* _last_char; NONE is -1                                   *)
  buffered,     (* _output_buffer is not NULL                               *)
  buffer,       (* its first _output_buffer_offset bytes                    *)
  careless,     (* the program has done to the open stream what the code    *)
                (* does not provide for                                     *)
  result        (* the last call and what it returned, or was asked to do   *)

fixed == <<direction, unit, buffered>>
vars == <<file, open, direction, unit, mapped, data_offset, fd_pos, last_char,
          buffered, buffer, careless, result>>

Positions == 0 .. MaxFile

Init ==
  /\ file \in UNION {[1 .. n -> Bytes] : n \in 0 .. 1}
  /\ open = FALSE
  /\ direction = "input"
  /\ unit \in Units
  /\ mapped = FALSE
  /\ data_offset = 0
  /\ fd_pos = 0
  /\ last_char = NONE
  /\ buffered = FALSE
  /\ buffer = << >>
  /\ careless = FALSE
  /\ result = [op |-> "none", val |-> NONE]

Returns(op, val) == result' = [op |-> op, val |-> val]

Charge(condition) == careless' = (careless \/ (open /\ condition))

-----------------------------------------------------------------------------

(* The system calls; all of them fail once the descriptor is closed.         *)

(* The file f after b has been written at p; beyond its end there is a hole. *)
Overlay(f, p, b) ==
  IF b = << >> THEN f
  ELSE [i \in 1 .. (IF Len(f) > p + Len(b) THEN Len(f) ELSE p + Len(b)) |->
          IF p < i /\ i <= p + Len(b) THEN b[i - p]
          ELSE IF i <= Len(f) THEN f[i] ELSE HOLE]

WRITE(b) ==
  IF open
    THEN file' = Overlay(file, fd_pos, b) /\ fd_pos' = fd_pos + Len(b)
    ELSE UNCHANGED <<file, fd_pos>>

(* Read one byte: c is what READ() and the test of its result yield.         *)
READ(c) ==
  IF open /\ fd_pos < Len(file)
    THEN c = file[fd_pos + 1] /\ fd_pos' = fd_pos + 1
    ELSE c = EOF /\ UNCHANGED fd_pos

-----------------------------------------------------------------------------

(* The constructor; a file is mapped, and a buffer made, only if the elements*)
(* are bytes, and mmap() refuses an empty file.                              *)
FileStream(d, u, if_exists) ==
  /\ ~open
  /\ open' = TRUE
  /\ direction' = d
  /\ unit' = u
  /\ file' = IF d # "input" /\ if_exists = "supersede" THEN << >> ELSE file
  /\ mapped' = (d = "input" /\ u = 1 /\ file # << >>)
  /\ data_offset' = 0
  /\ fd_pos' = IF d # "input" /\ if_exists = "append" THEN Len(file) ELSE 0
  /\ last_char' = NONE
  /\ buffered' = (d = "output" /\ u = 1 /\ if_exists # "append")
  /\ buffer' = << >>
  /\ careless' = FALSE
  /\ Returns("open", NONE)

(* The byte at the position of the mapped file or of the descriptor.         *)
NextByte(c) ==
  IF mapped
    THEN /\ UNCHANGED fd_pos
         /\ IF data_offset < Len(file)
              THEN c = file[data_offset + 1] /\ data_offset' = data_offset + 1
              ELSE c = EOF /\ UNCHANGED data_offset
    ELSE READ(c) /\ UNCHANGED data_offset

(* Mutant: what has been pushed back is looked at after the mapped file.     *)
GetChar_late(c) ==
  IF last_char # NONE /\ ~(mapped /\ data_offset < Len(file))
    THEN c = last_char /\ last_char' = NONE /\ UNCHANGED <<data_offset, fd_pos>>
    ELSE NextByte(c) /\ UNCHANGED last_char

(* int FileStream::read_char()                                               *)
GetChar(c) ==
  IF last_char # NONE
    THEN c = last_char /\ last_char' = NONE /\ UNCHANGED <<data_offset, fd_pos>>
    ELSE NextByte(c) /\ UNCHANGED last_char

CanRead == direction # "output"
CanWrite == direction # "input"

read_char ==
  /\ CanRead
  /\ \E c \in Bytes \cup {EOF} : GetChar(c) /\ Returns("read_char", c)
  /\ UNCHANGED <<file, open, fixed, mapped, buffer, careless>>

(* _last_char is not looked at.                                              *)
read_byte ==
  /\ CanRead
  /\ \E c \in Bytes \cup {EOF} : NextByte(c) /\ Returns("read_byte", c)
  /\ Charge(last_char # NONE)
  /\ UNCHANGED <<file, open, fixed, mapped, last_char, buffer>>

(* Nothing checks that c is the character read last.                         *)
unread_char(c) ==
  /\ CanRead
  /\ last_char' = c
  /\ Returns("unread_char", c)
  /\ Charge(result # [op |-> "read_char", val |-> c])
  /\ UNCHANGED <<file, open, fixed, mapped, data_offset, fd_pos, buffer>>

(* Read a character and push it back.                                        *)
listen ==
  /\ CanRead
  /\ \E c \in Bytes \cup {EOF} :
       /\ IF last_char # NONE
            THEN c = last_char /\ UNCHANGED <<data_offset, fd_pos>>
            ELSE NextByte(c)
       /\ last_char' = IF c = EOF THEN last_char ELSE c
       /\ Returns("listen", c # EOF)
  /\ UNCHANGED <<file, open, fixed, mapped, buffer, careless>>

-----------------------------------------------------------------------------

flush_output_buffer == WRITE(buffer) /\ buffer' = << >>

(* Mutant: the buffer is found to be full one byte too late.                 *)
write_byte_to_output_buffer_late(b) ==
  IF Len(buffer) > BufferSize
    THEN WRITE(buffer) /\ buffer' = <<b>>
    ELSE buffer' = Append(buffer, b) /\ UNCHANGED <<file, fd_pos>>

write_byte_to_output_buffer(b) ==
  IF Len(buffer) >= BufferSize
    THEN WRITE(buffer) /\ buffer' = <<b>>
    ELSE buffer' = Append(buffer, b) /\ UNCHANGED <<file, fd_pos>>

(* write_char() and write_byte()                                             *)
write(b) ==
  /\ CanWrite
  /\ fd_pos + Len(buffer) < MaxFile
  /\ IF buffered THEN write_byte_to_output_buffer(b) ELSE WRITE(<<b>>) /\ UNCHANGED buffer
  /\ Charge(last_char # NONE)
  /\ Returns("write", b)
  /\ UNCHANGED <<open, fixed, mapped, data_offset, last_char>>

Flush == IF buffered THEN flush_output_buffer ELSE UNCHANGED <<file, fd_pos, buffer>>

finish_output ==
  /\ Flush
  /\ Returns("finish_output", NONE)
  /\ UNCHANGED <<open, fixed, mapped, data_offset, last_char, careless>>

(* Mutant: the stream is closed with bytes still in its buffer.              *)
close_unflushed ==
  /\ open' = FALSE
  /\ mapped' = FALSE
  /\ Returns("close", NONE)
  /\ UNCHANGED <<file, fd_pos, buffer, fixed, data_offset, last_char, careless>>

close ==
  /\ Flush
  /\ open' = FALSE
  /\ mapped' = FALSE
  /\ Returns("close", NONE)
  /\ UNCHANGED <<fixed, data_offset, last_char, careless>>

-----------------------------------------------------------------------------

(* The buffer is flushed first; what has been pushed back is not counted.    *)
file_position ==
  /\ IF mapped
       THEN Returns("file_position", data_offset) /\ UNCHANGED <<file, fd_pos, buffer>>
       ELSE /\ Flush
            /\ Returns("file_position", IF open THEN fd_pos' \div unit ELSE NONE)
  /\ Charge(last_char # NONE)
  /\ UNCHANGED <<open, fixed, mapped, data_offset, last_char>>

(* T or NIL, and the position asked for; NONE is :end.                       *)
ReturnsSet(granted, n) ==
  Returns(IF granted THEN "set_file_position" ELSE "position_refused", n)

(* Mutant: a mapped file goes anywhere.                                      *)
seek_mapped_anywhere(n) ==
  /\ mapped
  /\ data_offset' = n
  /\ ReturnsSet(TRUE, n)
  /\ UNCHANGED fd_pos

(* A mapped file goes back only.                                             *)
seek_mapped(n) ==
  /\ mapped
  /\ data_offset' = IF n <= data_offset THEN n ELSE data_offset
  /\ ReturnsSet(n <= data_offset, n)
  /\ UNCHANGED fd_pos

seek_mapped_end ==
  /\ mapped
  /\ data_offset' = Len(file)
  /\ ReturnsSet(TRUE, NONE)
  /\ UNCHANGED fd_pos

(* The buffer is not flushed first.                                          *)
lseek(to, n) ==
  /\ ~mapped
  /\ fd_pos' = IF open THEN to ELSE fd_pos
  /\ ReturnsSet(open, n)
  /\ UNCHANGED data_offset

(* The argument is a position, which :start is one of, or :end; _last_char   *)
(* stays what it is.                                                         *)
set_file_position ==
  /\ \/ \E n \in Positions :
          \/ seek_mapped(n)
          \/ n * unit + Len(buffer) <= MaxFile /\ lseek(n * unit, n)
     \/ seek_mapped_end
     \/ lseek(Len(file), NONE) /\ Len(file) + Len(buffer) <= MaxFile
  /\ Charge(last_char # NONE \/ buffer # << >>)
  /\ UNCHANGED <<file, open, fixed, mapped, last_char, buffer>>

(* The buffer is not flushed first.                                          *)
file_length ==
  /\ Returns("file_length", IF open THEN Len(file) \div unit ELSE NONE)
  /\ Charge(buffer # << >>)
  /\ UNCHANGED <<file, open, fixed, mapped, data_offset, fd_pos, last_char, buffer>>

Next ==
  \/ \E d \in {"input", "output", "io"}, u \in Units :
       \E if_exists \in {"supersede", "overwrite", "append"} :
         FileStream(d, u, if_exists)
  \/ read_char
  \/ read_byte
  \/ \E c \in Bytes : unread_char(c)
  \/ listen
  \/ \E b \in Bytes : write(b)
  \/ finish_output
  \/ file_position
  \/ set_file_position
  \/ file_length
  \/ close

Spec == Init /\ [][Next]_vars

-----------------------------------------------------------------------------

(* Types; the offset into a mapped file stays inside of it, wherever the     *)
(* program positions the stream.                                             *)
TypeOK ==
  /\ file \in Seq(Bytes)
  /\ {open, mapped, buffered, careless} \subseteq BOOLEAN
  /\ direction \in {"input", "output", "io"}
  /\ unit \in Units
  /\ data_offset \in Nat /\ fd_pos \in Nat
  /\ mapped => data_offset <= Len(file)
  /\ last_char \in Bytes \cup {NONE}
  /\ buffer \in Seq(Bytes)

(* _output_buffer[_output_buffer_offset++] never writes beyond the buffer,   *)
(* whatever is called on the stream, closed or not.                          *)
NoOverrun == Len(buffer) <= BufferSize

(* Where the stream is, what has been pushed back included.                  *)
Position ==
  (IF mapped THEN data_offset ELSE fd_pos + Len(buffer))
    - (IF last_char = NONE THEN 0 ELSE 1)

(* What unread-char or listen has pushed back is the byte of the file just   *)
(* before the offset, so that reading it again is reading the file.          *)
PushedBackIsNext ==
  open /\ ~careless /\ last_char # NONE =>
    Position \in 0 .. Len(file) - 1 /\ last_char = file[Position + 1]

Abstract == INSTANCE ByteFile WITH
  contents <- IF open THEN Overlay(file, fd_pos, buffer) ELSE file,
  pos <- IF open THEN Position ELSE 0,
  back_only <- mapped

(* As long as the program is careful (it flushes before it sets the position *)
(* or asks for the length, pushes back only what it has just read, and reads *)
(* that again before it does anything but read characters), mapping,         *)
(* buffering and pushing back cannot be seen, but for the positions ahead    *)
(* that a mapped file refuses; a position that is granted is the one asked   *)
(* for, and closing loses nothing.                                           *)
IsByteFile == Abstract!Spec

=============================================================================
