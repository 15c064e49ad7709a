--------------------------- MODULE FileStreamProofs ---------------------------
(***************************************************************************)
(* Proofs, for any bytes, element sizes and buffer size and any program,   *)
(* that the output buffer is never overrun, that what has been pushed back *)
(* is the next byte of the file, and that a stream used with care is a     *)
(* file of bytes with a position.                                          *)
(***************************************************************************)
EXTENDS FileStream, TLAPS

-------------------------------------------------------------------------------
(* Writing bytes to a file.                                                    *)

(* The length and the bytes of the file after a write.                         *)
LEMMA OverlayBytes ==
  ASSUME NEW f \in Seq(Bytes), NEW p \in Nat, NEW b \in Seq(Bytes), b # << >>
  PROVE  /\ Overlay(f, p, b) \in Seq(Bytes)
         /\ Len(Overlay(f, p, b)) = IF Len(f) > p + Len(b) THEN Len(f) ELSE p + Len(b)
         /\ \A i \in 1 .. Len(Overlay(f, p, b)) :
              Overlay(f, p, b)[i] =
                IF p < i /\ i <= p + Len(b) THEN b[i - p]
                ELSE IF i <= Len(f) THEN f[i] ELSE HOLE
<1> DEFINE n == IF Len(f) > p + Len(b) THEN Len(f) ELSE p + Len(b)
           e(i) == IF p < i /\ i <= p + Len(b) THEN b[i - p]
                   ELSE IF i <= Len(f) THEN f[i] ELSE HOLE
<1>1. n \in Nat /\ \A i \in 1 .. n : e(i) \in Bytes
  BY FileAssumption
<1>2. Overlay(f, p, b) = [i \in 1 .. n |-> e(i)] BY DEF Overlay
<1> HIDE DEF n, e
<1>3. [i \in 1 .. n |-> e(i)] \in Seq(Bytes) /\ Len([i \in 1 .. n |-> e(i)]) = n
  BY <1>1
<1>4. QED BY <1>2, <1>3 DEF n, e

(* Writing nothing, or something, yields a file.                               *)
LEMMA OverlayType ==
  ASSUME NEW f \in Seq(Bytes), NEW p \in Nat, NEW b \in Seq(Bytes)
  PROVE  Overlay(f, p, b) \in Seq(Bytes)
<1>1. CASE b = << >> BY <1>1 DEF Overlay
<1>2. CASE b # << >> BY <1>2, OverlayBytes
<1>3. QED BY <1>1, <1>2

(* One more byte in the buffer is one more byte in the file.                   *)
LEMMA OverlayAppend ==
  ASSUME NEW f \in Seq(Bytes), NEW p \in Nat, NEW b \in Seq(Bytes), NEW x \in Bytes
  PROVE  Overlay(f, p, Append(b, x)) = Abstract!Put(Overlay(f, p, b), p + Len(b), x)
<1> DEFINE c == Append(b, x)
           o == Overlay(f, p, b)
           q == Overlay(f, p, c)
           n == IF p + Len(b) < Len(o) THEN Len(o) ELSE p + Len(b) + 1
<1>1. /\ c \in Seq(Bytes) /\ c # << >> /\ Len(c) = Len(b) + 1 /\ Len(b) \in Nat
      /\ c[Len(b) + 1] = x /\ \A i \in 1 .. Len(b) : c[i] = b[i]
  OBVIOUS
<1>2. /\ q \in Seq(Bytes)
      /\ Len(q) = IF Len(f) > p + Len(c) THEN Len(f) ELSE p + Len(c)
      /\ \A i \in 1 .. Len(q) :
           q[i] = IF p < i /\ i <= p + Len(c) THEN c[i - p]
                  ELSE IF i <= Len(f) THEN f[i] ELSE HOLE
  BY <1>1, OverlayBytes
<1>3. /\ o \in Seq(Bytes)
      /\ Len(o) = IF b = << >> \/ Len(f) > p + Len(b) THEN Len(f) ELSE p + Len(b)
      /\ \A i \in 1 .. Len(o) :
           o[i] = IF p < i /\ i <= p + Len(b) THEN b[i - p]
                  ELSE IF i <= Len(f) THEN f[i] ELSE HOLE
  <2>1. CASE b = << >> BY <2>1 DEF Overlay
  <2>2. CASE b # << >> BY <2>2, OverlayBytes
  <2>3. QED BY <2>1, <2>2
<1> HIDE DEF c, o, q
<1>4. Len(q) = n
  <2>1. b = << >> => Len(b) = 0 OBVIOUS
  <2>2. Len(f) \in Nat /\ Len(o) \in Nat BY <1>3
  <2>3. Len(q) = IF Len(f) > p + Len(b) + 1 THEN Len(f) ELSE p + Len(b) + 1
    BY <1>1, <1>2
  <2>4. CASE b = << >> BY <1>3, <2>1, <2>2, <2>3, <2>4
  <2>5. CASE b # << >>
    <3>1. Len(o) = IF Len(f) > p + Len(b) THEN Len(f) ELSE p + Len(b)
      BY <1>3, <2>5
    <3>2. Len(b) \in Nat BY <1>1
    <3> HIDE DEF n
    <3>3. n = IF p + Len(b) < Len(o) THEN Len(o) ELSE p + Len(b) + 1 BY DEF n
    <3>4. QED BY <2>2, <2>3, <3>1, <3>2, <3>3
  <2>6. QED BY <2>4, <2>5
<1>5. \A i \in 1 .. n :
        q[i] = IF i = p + Len(b) + 1 THEN x ELSE IF i <= Len(o) THEN o[i] ELSE HOLE
  <2> SUFFICES ASSUME NEW i \in 1 .. n
               PROVE  q[i] = IF i = p + Len(b) + 1 THEN x
                             ELSE IF i <= Len(o) THEN o[i] ELSE HOLE
    OBVIOUS
  <2>1. b = << >> => Len(b) = 0 OBVIOUS
  <2>2. Len(f) \in Nat /\ Len(o) \in Nat /\ i \in Nat /\ i >= 1 BY <1>1, <1>3
  <2>3. CASE i = p + Len(b) + 1
    <3>1. i - p = Len(b) + 1 /\ p < i /\ i <= p + Len(c) BY <1>1, <2>2, <2>3
    <3>2. q[i] = c[i - p] BY <1>2, <1>4, <3>1
    <3>3. QED BY <1>1, <2>3, <3>1, <3>2
  <2>4. CASE p < i /\ i < p + Len(b) + 1
    <3>0. i - p \in 1 .. Len(b) /\ i <= p + Len(c) BY <1>1, <2>2, <2>4
    <3>1. q[i] = c[i - p] /\ c[i - p] = b[i - p] BY <1>1, <1>2, <1>4, <2>4, <3>0
    <3>2. i <= Len(o) /\ o[i] = b[i - p] BY <1>1, <1>3, <2>1, <2>2, <2>4
    <3>3. QED BY <2>4, <3>1, <3>2
  <2>5. CASE i <= p \/ i > p + Len(b) + 1
    <3>1. q[i] = IF i <= Len(f) THEN f[i] ELSE HOLE BY <1>1, <1>2, <1>4, <2>2, <2>5
    <3>2. i <= Len(o) => o[i] = IF i <= Len(f) THEN f[i] ELSE HOLE
      BY <1>1, <1>3, <2>2, <2>5
    <3>3. i > Len(o) => i > Len(f) BY <1>1, <1>3, <2>1, <2>2, <2>5
    <3>4. QED BY <1>1, <2>2, <2>5, <3>1, <3>2, <3>3
  <2>6. QED BY <1>1, <2>2, <2>3, <2>4, <2>5
<1>6. Abstract!Put(o, p + Len(b), x) =
        [i \in 1 .. n |-> IF i = p + Len(b) + 1 THEN x
                          ELSE IF i <= Len(o) THEN o[i] ELSE HOLE]
  BY DEF Abstract!Put
<1>7. q = [i \in 1 .. n |-> q[i]] BY <1>2, <1>4
<1>8. QED BY <1>5, <1>6, <1>7 DEF c, o, q

-------------------------------------------------------------------------------
(* Types and kinds of streams.                                                 *)

(* A buffer is an :output stream's, a mapped file an open :input stream's, and *)
(* only a stream that can be read has a character pushed back.                 *)
Kinds ==
  /\ buffered => direction = "output" /\ unit = 1
  /\ ~buffered => buffer = << >>
  /\ mapped => open /\ direction = "input" /\ unit = 1
  /\ direction = "output" => last_char = NONE

StreamInv == TypeOK /\ Kinds /\ NoOverrun

(* The types, one by one.                                                      *)
LEMMA Types ==
  ASSUME TypeOK
  PROVE  /\ file \in Seq(Bytes) /\ Len(file) \in Nat
         /\ open \in BOOLEAN /\ mapped \in BOOLEAN /\ buffered \in BOOLEAN
         /\ careless \in BOOLEAN
         /\ direction \in {"input", "output", "io"}
         /\ unit \in Units /\ unit \in Nat \ {0}
         /\ data_offset \in Nat /\ fd_pos \in Nat
         /\ mapped => data_offset <= Len(file)
         /\ last_char \in Bytes \cup {NONE}
         /\ buffer \in Seq(Bytes) /\ Len(buffer) \in Nat
BY FileAssumption DEF TypeOK

(* Where the next byte is read.                                                *)
Offset == IF mapped THEN data_offset ELSE fd_pos

(* A read yields the byte at the offset and moves the offset.                  *)
LEMMA NextByteReads ==
  ASSUME StreamInv, NEW c, NextByte(c), mapped' = mapped
  PROVE  /\ data_offset' \in Nat /\ fd_pos' \in Nat
         /\ mapped => data_offset' <= Len(file)
         /\ open => IF Offset < Len(file)
                      THEN c = file[Offset + 1] /\ Offset' = Offset + 1
                      ELSE c = EOF /\ Offset' = Offset
BY Types DEF StreamInv, Kinds, NextByte, READ, Offset

(* Flushing moves the buffer to the file.                                      *)
LEMMA FlushWrites ==
  ASSUME StreamInv, Flush
  PROVE  /\ buffer' = << >>
         /\ open => /\ file' = Overlay(file, fd_pos, buffer)
                    /\ fd_pos' = fd_pos + Len(buffer)
         /\ ~open => UNCHANGED <<file, fd_pos>>
         /\ ~buffered => UNCHANGED <<file, fd_pos>>
         /\ file' \in Seq(Bytes) /\ fd_pos' \in Nat
<1>1. CASE buffered
  <2>1. /\ buffer' = << >>
        /\ open => /\ file' = Overlay(file, fd_pos, buffer)
                   /\ fd_pos' = fd_pos + Len(buffer)
        /\ ~open => UNCHANGED <<file, fd_pos>>
    BY <1>1 DEF Flush, flush_output_buffer, WRITE
  <2>2. Overlay(file, fd_pos, buffer) \in Seq(Bytes)
    BY Types, OverlayType DEF StreamInv
  <2>3. QED BY <1>1, <2>1, <2>2, Types DEF StreamInv
<1>2. CASE ~buffered
  <2>1. buffer = << >> /\ UNCHANGED <<file, fd_pos, buffer>>
    BY <1>2 DEF Flush, StreamInv, Kinds
  <2>2. Overlay(file, fd_pos, buffer) = file BY <2>1 DEF Overlay
  <2>3. QED BY <2>1, <2>2, Types DEF StreamInv
<1>3. QED BY <1>1, <1>2

(* A byte written is a byte in the file or in the buffer, in its place.        *)
LEMMA WriteWrites ==
  ASSUME StreamInv, NEW b \in Bytes, write(b)
  PROVE  /\ open =>
              /\ Overlay(file', fd_pos', buffer') =
                   Abstract!Put(Overlay(file, fd_pos, buffer), fd_pos + Len(buffer), b)
              /\ fd_pos' + Len(buffer') = fd_pos + Len(buffer) + 1
         /\ ~open => UNCHANGED <<file, fd_pos>>
         /\ file' \in Seq(Bytes) /\ fd_pos' \in Nat /\ buffer' \in Seq(Bytes)
         /\ Len(buffer') <= BufferSize
         /\ ~buffered => buffer' = << >>
<1> DEFINE o == Overlay(file, fd_pos, buffer)
<1>0. /\ file \in Seq(Bytes) /\ fd_pos \in Nat /\ buffer \in Seq(Bytes)
      /\ Len(buffer) \in Nat /\ Len(buffer) <= BufferSize
      /\ open \in BOOLEAN /\ buffered \in BOOLEAN
  BY Types DEF StreamInv, NoOverrun
<1>1. o \in Seq(Bytes) BY <1>0, OverlayType
<1>2. << >> \in Seq(Bytes) /\ <<b>> \in Seq(Bytes) /\ Append(<< >>, b) = <<b>>
      /\ Len(<<b>>) = 1 /\ Len(<< >>) = 0
  OBVIOUS
<1>3. CASE buffered /\ Len(buffer) >= BufferSize
  <2>1. buffer' = <<b>> /\ WRITE(buffer)
    BY <1>3 DEF write, write_byte_to_output_buffer
  <2>2. CASE ~open
    BY <1>0, <1>2, <1>3, <2>1, <2>2, FileAssumption DEF WRITE
  <2>3. CASE open
    <3>1. file' = o /\ fd_pos' = fd_pos + Len(buffer) BY <2>1, <2>3 DEF WRITE
    <3> DEFINE p == fd_pos + Len(buffer)
    <3>0. p \in Nat BY <1>0
    <3> HIDE DEF o, p
    <3>2. Overlay(o, p, Append(<< >>, b)) =
            Abstract!Put(Overlay(o, p, << >>), p + Len(<< >>), b)
      BY <1>1, <1>2, <3>0, OverlayAppend
    <3>3. Overlay(o, p, << >>) = o BY DEF Overlay
    <3>4. p + Len(<< >>) = p BY <1>2, <3>0
    <3> USE DEF p
    <3>5. Overlay(file', fd_pos', buffer') = Abstract!Put(o, fd_pos + Len(buffer), b)
      BY <1>2, <2>1, <3>1, <3>2, <3>3, <3>4
    <3>6. QED BY <1>0, <1>1, <1>2, <1>3, <2>1, <2>3, <3>1, <3>5, FileAssumption DEF o
  <2>4. QED BY <1>0, <2>2, <2>3
<1>4. CASE buffered /\ ~(Len(buffer) >= BufferSize)
  <2>1. buffer' = Append(buffer, b) /\ UNCHANGED <<file, fd_pos>>
    BY <1>4 DEF write, write_byte_to_output_buffer
  <2>2. Overlay(file, fd_pos, Append(buffer, b)) = Abstract!Put(o, fd_pos + Len(buffer), b)
    BY <1>0, OverlayAppend
  <2>3. Append(buffer, b) \in Seq(Bytes) /\ Len(Append(buffer, b)) = Len(buffer) + 1
    BY <1>0
  <2>4. QED BY <1>0, <1>4, <2>1, <2>2, <2>3, FileAssumption
<1>5. CASE ~buffered
  <2>1. buffer = << >> /\ buffer' = << >> /\ WRITE(<<b>>)
    BY <1>5 DEF write, StreamInv, Kinds
  <2>2. CASE ~open BY <1>0, <2>1, <2>2 DEF WRITE
  <2>3. CASE open
    <3>1. file' = Overlay(file, fd_pos, <<b>>) /\ fd_pos' = fd_pos + 1
      BY <1>2, <2>1, <2>3 DEF WRITE
    <3>2. Overlay(file, fd_pos, Append(buffer, b)) = Abstract!Put(o, fd_pos + Len(buffer), b)
      BY <1>0, OverlayAppend
    <3>3. file' = Abstract!Put(o, fd_pos + Len(buffer), b) BY <1>2, <2>1, <3>1, <3>2
    <3>4. Overlay(file', fd_pos', buffer') = file' BY <2>1 DEF Overlay
    <3>5. file' \in Seq(Bytes) BY <1>0, <1>2, <3>1, OverlayType
    <3> HIDE DEF o
    <3>6. QED BY <1>0, <1>2, <2>1, <2>3, <3>1, <3>3, <3>4, <3>5, FileAssumption DEF o
  <2>4. QED BY <1>0, <2>2, <2>3
<1>6. QED BY <1>0, <1>3, <1>4, <1>5

(* A step that leaves the kind of the stream and the pushed-back character     *)
(* alone keeps the invariant if the file and the buffer stay what they are.    *)
LEMMA StreamInvStep ==
  ASSUME StreamInv, UNCHANGED <<direction, unit, buffered>>,
         open' \in BOOLEAN, mapped' \in BOOLEAN, careless' \in BOOLEAN,
         file' \in Seq(Bytes), data_offset' \in Nat, fd_pos' \in Nat,
         mapped' => open' /\ mapped /\ data_offset' <= Len(file'),
         last_char' \in Bytes \cup {NONE}, direction = "output" => last_char' = NONE,
         buffer' \in Seq(Bytes), Len(buffer') <= BufferSize,
         ~buffered => buffer' = << >>
  PROVE  StreamInv'
<1>1. TypeOK' BY DEF StreamInv, TypeOK
<1>2. Kinds' BY DEF StreamInv, Kinds
<1>3. QED BY <1>1, <1>2 DEF StreamInv, NoOverrun

(* Every operation keeps the types, the kind of the stream and the bound of    *)
(* the buffer.                                                                 *)
LEMMA StreamInvNext ==
  ASSUME StreamInv, [Next]_vars
  PROVE  StreamInv'
<1> USE DEF fixed
<1>0. /\ file \in Seq(Bytes) /\ Len(file) \in Nat
      /\ open \in BOOLEAN /\ mapped \in BOOLEAN /\ buffered \in BOOLEAN
      /\ careless \in BOOLEAN
      /\ unit \in Nat \ {0}
      /\ data_offset \in Nat /\ fd_pos \in Nat
      /\ mapped => data_offset <= Len(file)
      /\ last_char \in Bytes \cup {NONE}
      /\ buffer \in Seq(Bytes) /\ Len(buffer) <= BufferSize
      /\ ~buffered => buffer = << >>
      /\ mapped => open /\ ~buffered
      /\ direction = "output" => last_char = NONE
  BY Types DEF StreamInv, Kinds, NoOverrun
<1>1. ASSUME NEW d \in {"input", "output", "io"}, NEW u \in Units,
             NEW if_exists \in {"supersede", "overwrite", "append"},
             FileStream(d, u, if_exists)
      PROVE  StreamInv'
  <2>1. file' \in Seq(Bytes) /\ (d = "input" => file' = file)
    BY <1>0, <1>1 DEF FileStream
  <2>2. fd_pos' \in Nat BY <1>0, <1>1 DEF FileStream
  <2>0. {open, mapped, buffered, careless}' \subseteq BOOLEAN
    <3>1. open' = TRUE /\ careless' = FALSE BY <1>1 DEF FileStream
    <3>2. mapped' \in BOOLEAN /\ buffered' \in BOOLEAN BY <1>1 DEF FileStream
    <3>3. QED BY <3>1, <3>2, Zenon
  <2>3. TypeOK' BY <1>0, <1>1, <2>1, <2>2, <2>0 DEF FileStream, TypeOK
  <2>4. Kinds' BY <1>1 DEF FileStream, Kinds
  <2>5. NoOverrun' BY <1>1, FileAssumption DEF FileStream, NoOverrun
  <2>6. QED BY <2>3, <2>4, <2>5 DEF StreamInv
<1>2. CASE read_char
  <2>1. PICK c \in Bytes \cup {EOF} : GetChar(c) BY <1>2 DEF read_char
  <2>2. UNCHANGED <<file, open, fixed, mapped, buffer, careless>>
        /\ direction # "output"
    BY <1>2 DEF read_char, CanRead
  <2>3. CASE last_char # NONE
    BY <1>0, <2>1, <2>2, <2>3, StreamInvStep DEF GetChar
  <2>4. CASE last_char = NONE
    <3>1. NextByte(c) /\ last_char' = last_char BY <2>1, <2>4 DEF GetChar
    <3>2. QED BY <1>0, <2>2, <3>1, NextByteReads, StreamInvStep
  <2>5. QED BY <2>3, <2>4
<1>3. CASE read_byte
  <2>1. PICK c \in Bytes \cup {EOF} : NextByte(c) BY <1>3 DEF read_byte
  <2>2. UNCHANGED <<file, open, fixed, mapped, last_char, buffer>>
        /\ careless' \in BOOLEAN
    BY <1>3 DEF read_byte, Charge
  <2>3. QED BY <1>0, <2>1, <2>2, NextByteReads, StreamInvStep
<1>4. ASSUME NEW c \in Bytes, unread_char(c) PROVE StreamInv'
  <2>1. careless' \in BOOLEAN BY <1>4 DEF unread_char, Charge
  <2>2. QED BY <1>0, <1>4, <2>1, StreamInvStep DEF unread_char, CanRead
<1>5. CASE listen
  <2>1. PICK c \in Bytes \cup {EOF} :
          /\ IF last_char # NONE
               THEN c = last_char /\ UNCHANGED <<data_offset, fd_pos>>
               ELSE NextByte(c)
          /\ last_char' = IF c = EOF THEN last_char ELSE c
    BY <1>5 DEF listen
  <2>2. UNCHANGED <<file, open, fixed, mapped, buffer, careless>>
        /\ direction # "output"
    BY <1>5 DEF listen, CanRead
  <2>3. /\ data_offset' \in Nat /\ fd_pos' \in Nat
        /\ mapped => data_offset' <= Len(file)
    BY <1>0, <2>1, <2>2, NextByteReads
  <2>4. QED BY <1>0, <2>1, <2>2, <2>3, StreamInvStep
<1>6. ASSUME NEW b \in Bytes, write(b) PROVE StreamInv'
  <2>1. /\ UNCHANGED <<open, fixed, mapped, data_offset, last_char>>
        /\ careless' \in BOOLEAN /\ direction # "input"
    BY <1>6 DEF write, Charge, CanWrite
  <2>2. ~mapped BY <2>1 DEF StreamInv, Kinds
  <2>3. QED BY <1>0, <1>6, <2>1, <2>2, WriteWrites, StreamInvStep
<1>7. CASE finish_output
  <2>1. Flush /\ UNCHANGED <<open, fixed, mapped, data_offset, last_char, careless>>
    BY <1>7 DEF finish_output
  <2>2. QED BY <1>0, <2>1, FlushWrites, FileAssumption, StreamInvStep
<1>8. CASE close
  <2>1. Flush /\ UNCHANGED <<fixed, data_offset, last_char, careless>>
        /\ open' = FALSE /\ mapped' = FALSE
    BY <1>8 DEF close
  <2>2. open' \in BOOLEAN /\ mapped' \in BOOLEAN /\ ~mapped' BY <2>1, Zenon
  <2>3. /\ file' \in Seq(Bytes) /\ fd_pos' \in Nat
        /\ buffer' = << >> /\ buffer' \in Seq(Bytes) /\ Len(buffer') <= BufferSize
    BY <2>1, FlushWrites, FileAssumption
  <2>4. QED BY <1>0, <2>1, <2>2, <2>3, StreamInvStep
<1>9. CASE file_position
  <2>1. /\ UNCHANGED <<open, fixed, mapped, data_offset, last_char>>
        /\ careless' \in BOOLEAN
    BY <1>9 DEF file_position, Charge
  <2>2. CASE mapped
    BY <1>0, <1>9, <2>1, <2>2, StreamInvStep DEF file_position
  <2>3. CASE ~mapped
    <3>1. Flush BY <1>9, <2>3 DEF file_position
    <3>2. QED BY <1>0, <2>1, <2>3, <3>1, FlushWrites, FileAssumption, StreamInvStep
  <2>4. QED BY <2>2, <2>3
<1>10. CASE set_file_position
  <2>1. /\ UNCHANGED <<file, open, fixed, mapped, last_char, buffer>>
        /\ careless' \in BOOLEAN
    BY <1>10 DEF set_file_position, Charge
  <2>2. /\ data_offset' \in Nat /\ fd_pos' \in Nat
        /\ mapped => data_offset' <= Len(file)
    <3>1. ASSUME NEW n \in Positions, seek_mapped(n) PROVE <2>2
      BY <1>0, <3>1 DEF seek_mapped, Positions
    <3>2. ASSUME NEW n \in Positions, lseek(n * unit, n) PROVE <2>2
      <4>1. n * unit \in Nat BY <1>0, FileAssumption DEF Positions
      <4>2. QED BY <1>0, <3>2, <4>1 DEF lseek
    <3>3. CASE seek_mapped_end BY <1>0, <3>3 DEF seek_mapped_end
    <3>4. CASE lseek(Len(file), NONE) BY <1>0, <3>4 DEF lseek
    <3>5. QED BY <1>10, <3>1, <3>2, <3>3, <3>4 DEF set_file_position
  <2>3. QED BY <1>0, <2>1, <2>2, StreamInvStep
<1>11. CASE file_length
  <2>1. /\ UNCHANGED <<file, open, fixed, mapped, data_offset, fd_pos, last_char, buffer>>
        /\ careless' \in BOOLEAN
    BY <1>11 DEF file_length, Charge
  <2>2. QED BY <1>0, <2>1, StreamInvStep
<1>12. CASE UNCHANGED vars BY <1>0, <1>12, StreamInvStep DEF vars
<1>13. QED
  BY <1>1, <1>2, <1>3, <1>4, <1>5, <1>6, <1>7, <1>8, <1>9, <1>10, <1>11, <1>12
     DEF Next

(* The first state.                                                            *)
LEMMA StreamInvInit == Init => StreamInv
<1> SUFFICES ASSUME Init PROVE StreamInv OBVIOUS
<1>1. file \in Seq(Bytes)
  <2>1. PICK n \in 0 .. 1 : file \in [1 .. n -> Bytes] BY DEF Init
  <2>2. QED BY <2>1
<1>2. {open, mapped, buffered, careless} \subseteq BOOLEAN BY Zenon DEF Init
<1>3. TypeOK BY <1>1, <1>2 DEF Init, TypeOK
<1>4. QED BY <1>3, FileAssumption DEF Init, StreamInv, Kinds, NoOverrun

(* Types, and an offset that stays inside the mapped file.                     *)
THEOREM TypeCorrect == Spec => []TypeOK
<1>1. StreamInv => TypeOK BY DEF StreamInv
<1>2. StreamInv /\ [Next]_vars => StreamInv' BY StreamInvNext
<1>3. QED BY StreamInvInit, <1>1, <1>2, PTL DEF Spec

(* The output buffer is never written beyond its end.                          *)
THEOREM BufferNotOverrun == Spec => []NoOverrun
<1>1. StreamInv => NoOverrun BY DEF StreamInv
<1>2. StreamInv /\ [Next]_vars => StreamInv' BY StreamInvNext
<1>3. QED BY StreamInvInit, <1>1, <1>2, PTL DEF Spec

-------------------------------------------------------------------------------
(* What has been pushed back.                                                  *)

(* The character that read-char has just returned is the byte before the       *)
(* position, so that unread-char pushes the right one back.                    *)
JustRead ==
  open /\ ~careless /\ result.op = "read_char" /\ result.val # EOF =>
    /\ last_char = NONE
    /\ Position \in 1 .. Len(file)
    /\ file[Position] = result.val

PushInv == PushedBackIsNext /\ JustRead

(* A stream that can be read, or has a character pushed back, has no buffer.   *)
LEMMA ReadPosition ==
  ASSUME StreamInv, CanRead \/ last_char # NONE
  PROVE  /\ ~buffered /\ buffer = << >>
         /\ Position = Offset - (IF last_char = NONE THEN 0 ELSE 1)
         /\ Offset \in Nat
BY Types DEF StreamInv, Kinds, CanRead, Position, Offset

(* The same after a step.                                                      *)
LEMMA ReadPositionAfter ==
  ASSUME StreamInv', CanRead'
  PROVE  /\ Position' = Offset' - (IF last_char' = NONE THEN 0 ELSE 1)
         /\ Offset' \in Nat
<1>1. ~buffered' /\ buffer' = << >> BY DEF StreamInv, Kinds, CanRead
<1>2. data_offset' \in Nat /\ fd_pos' \in Nat BY DEF StreamInv, TypeOK
<1>3. Len(buffer') = 0 BY <1>1
<1>4. QED BY <1>2, <1>3 DEF Position, Offset

(* A call that may not be made with a character pushed back.                   *)
LEMMA NothingPushedBack ==
  ASSUME NEW op, NEW val, op # "read_char", Returns(op, val),
         open' /\ ~careless' => last_char' = NONE
  PROVE  PushInv'
BY DEF Returns, PushInv, PushedBackIsNext, JustRead

(* A call that leaves the stream where it is.                                  *)
LEMMA SamePosition ==
  ASSUME PushInv, NEW op, NEW val, op # "read_char", Returns(op, val),
         UNCHANGED <<file, open, last_char>>,
         open => careless' = careless /\ Position' = Position
  PROVE  PushInv'
BY DEF Returns, PushInv, PushedBackIsNext, JustRead

(* Every operation keeps it.                                                   *)
LEMMA PushInvNext ==
  ASSUME StreamInv, StreamInv', PushInv, [Next]_vars
  PROVE  PushInv'
<1> USE DEF fixed
<1>0. /\ file \in Seq(Bytes) /\ Len(file) \in Nat
      /\ open \in BOOLEAN /\ mapped \in BOOLEAN /\ careless \in BOOLEAN
      /\ data_offset \in Nat /\ fd_pos \in Nat
      /\ last_char \in Bytes \cup {NONE}
  BY Types DEF StreamInv
<1>1. ASSUME NEW d \in {"input", "output", "io"}, NEW u \in Units,
             NEW if_exists \in {"supersede", "overwrite", "append"},
             FileStream(d, u, if_exists)
      PROVE  PushInv'
  BY <1>1, NothingPushedBack DEF FileStream
<1>2. CASE read_char
  <2>1. PICK c \in Bytes \cup {EOF} : GetChar(c) /\ Returns("read_char", c)
    BY <1>2 DEF read_char
  <2>2. UNCHANGED <<file, open, fixed, mapped, buffer, careless>> /\ CanRead
    BY <1>2 DEF read_char
  <2>3. /\ Position = Offset - (IF last_char = NONE THEN 0 ELSE 1)
        /\ Offset \in Nat
    BY <2>2, ReadPosition
  <2>4. CanRead' BY <2>2 DEF CanRead
  <2>5. /\ Position' = Offset' - (IF last_char' = NONE THEN 0 ELSE 1)
        /\ Offset' \in Nat
    BY <2>4, ReadPositionAfter
  <2>6. result'.op = "read_char" /\ result'.val = c BY <2>1 DEF Returns
  <2>7. CASE last_char # NONE
    <3>1. c = last_char /\ last_char' = NONE /\ Offset' = Offset
      BY <2>1, <2>2, <2>7 DEF GetChar, Offset
    <3>2. Position' = Position + 1 BY <2>3, <2>5, <2>7, <3>1
    <3>3. open /\ ~careless =>
            Position \in 0 .. Len(file) - 1 /\ last_char = file[Position + 1]
      BY <2>7 DEF PushInv, PushedBackIsNext
    <3>4. PushedBackIsNext' BY <3>1 DEF PushedBackIsNext
    <3>5. JustRead' BY <1>0, <2>2, <2>6, <3>1, <3>2, <3>3 DEF JustRead
    <3>6. QED BY <3>4, <3>5 DEF PushInv
  <2>8. CASE last_char = NONE
    <3>1. NextByte(c) /\ last_char' = NONE BY <2>1, <2>8 DEF GetChar
    <3>2. open => IF Offset < Len(file)
                    THEN c = file[Offset + 1] /\ Offset' = Offset + 1
                    ELSE c = EOF /\ Offset' = Offset
      BY <2>2, <3>1, NextByteReads
    <3>3. PushedBackIsNext' BY <3>1 DEF PushedBackIsNext
    <3>4. JustRead'
      <4>1. SUFFICES ASSUME open, c # EOF
                     PROVE  Position' \in 1 .. Len(file) /\ file[Position'] = c
        BY <2>2, <2>6, <3>1 DEF JustRead
      <4>2. Offset < Len(file) /\ c = file[Offset + 1] /\ Offset' = Offset + 1
        BY <3>2, <4>1
      <4>3. Position' = Offset + 1 BY <2>5, <3>1, <4>2
      <4>4. QED BY <1>0, <2>3, <4>2, <4>3
    <3>5. QED BY <3>3, <3>4 DEF PushInv
  <2>9. QED BY <2>7, <2>8
<1>3. CASE read_byte
  <2>1. PICK c \in Bytes \cup {EOF} : Returns("read_byte", c) BY <1>3 DEF read_byte
  <2>2. /\ last_char' = last_char /\ open' = open
        /\ open /\ ~careless' => last_char = NONE
    BY <1>3 DEF read_byte, Charge
  <2>3. QED BY <2>1, <2>2, NothingPushedBack
<1>4. ASSUME NEW c \in Bytes, unread_char(c) PROVE PushInv'
  <2>1. /\ last_char' = c /\ Returns("unread_char", c) /\ CanRead
        /\ UNCHANGED <<file, open, fixed, mapped, data_offset, fd_pos, buffer>>
        /\ open /\ ~careless' => ~careless /\ result = [op |-> "read_char", val |-> c]
    BY <1>4 DEF unread_char, Charge
  <2>2. c # EOF /\ c # NONE BY FileAssumption
  <2>3. open /\ ~careless' => /\ last_char = NONE
                              /\ Position \in 1 .. Len(file)
                              /\ file[Position] = c
    BY <2>1, <2>2 DEF PushInv, JustRead
  <2>4. Position = Offset - (IF last_char = NONE THEN 0 ELSE 1) /\ Offset \in Nat
    BY <2>1, ReadPosition
  <2>5. CanRead' BY <2>1 DEF CanRead
  <2>6. Position' = Offset' - 1 BY <2>1, <2>2, <2>5, ReadPositionAfter
  <2>7. Offset' = Offset BY <2>1 DEF Offset
  <2>8. PushedBackIsNext'
    BY <1>0, <2>1, <2>3, <2>4, <2>6, <2>7 DEF PushedBackIsNext
  <2>9. JustRead' BY <2>1 DEF JustRead, Returns
  <2>10. QED BY <2>8, <2>9 DEF PushInv
<1>5. CASE listen
  <2>1. PICK c \in Bytes \cup {EOF} :
          /\ IF last_char # NONE
               THEN c = last_char /\ UNCHANGED <<data_offset, fd_pos>>
               ELSE NextByte(c)
          /\ last_char' = IF c = EOF THEN last_char ELSE c
          /\ Returns("listen", c # EOF)
    BY <1>5 DEF listen
  <2>2. UNCHANGED <<file, open, fixed, mapped, buffer, careless>> /\ CanRead
    BY <1>5 DEF listen
  <2>3. Position = Offset - (IF last_char = NONE THEN 0 ELSE 1) /\ Offset \in Nat
    BY <2>2, ReadPosition
  <2>4. CanRead' BY <2>2 DEF CanRead
  <2>5. Position' = Offset' - (IF last_char' = NONE THEN 0 ELSE 1) /\ Offset' \in Nat
    BY <2>4, ReadPositionAfter
  <2>6. JustRead' BY <2>1 DEF JustRead, Returns
  <2>7. CASE last_char # NONE
    <3>1. last_char' = last_char /\ Offset' = Offset
      BY <2>1, <2>2, <2>7 DEF Offset
    <3>2. Position' = Position BY <2>3, <2>5, <3>1
    <3>3. PushedBackIsNext'
      BY <2>2, <3>1, <3>2 DEF PushInv, PushedBackIsNext
    <3>4. QED BY <2>6, <3>3 DEF PushInv
  <2>8. CASE last_char = NONE
    <3>1. NextByte(c) BY <2>1, <2>8
    <3>2. open => IF Offset < Len(file)
                    THEN c = file[Offset + 1] /\ Offset' = Offset + 1
                    ELSE c = EOF /\ Offset' = Offset
      BY <2>2, <3>1, NextByteReads
    <3>3. PushedBackIsNext'
      <4>1. SUFFICES ASSUME open, last_char' # NONE
                     PROVE  /\ Position' \in 0 .. Len(file) - 1
                            /\ last_char' = file[Position' + 1]
        BY <2>2 DEF PushedBackIsNext
      <4>2. c # EOF /\ last_char' = c BY <2>1, <2>8, <4>1
      <4>3. Offset < Len(file) /\ c = file[Offset + 1] /\ Offset' = Offset + 1
        BY <3>2, <4>1, <4>2
      <4>4. Position' = Offset BY <2>3, <2>5, <4>1, <4>3
      <4>5. QED BY <1>0, <2>3, <4>2, <4>3, <4>4
    <3>4. QED BY <2>6, <3>3 DEF PushInv
  <2>9. QED BY <2>7, <2>8
<1>6. ASSUME NEW b \in Bytes, write(b) PROVE PushInv'
  <2>1. /\ Returns("write", b) /\ last_char' = last_char /\ open' = open
        /\ open /\ ~careless' => last_char = NONE
    BY <1>6 DEF write, Charge
  <2>2. QED BY <2>1, NothingPushedBack
<1>7. CASE finish_output
  <2>1. /\ Flush /\ Returns("finish_output", NONE)
        /\ UNCHANGED <<open, fixed, mapped, data_offset, last_char, careless>>
    BY <1>7 DEF finish_output
  <2>2. CASE last_char = NONE BY <2>1, <2>2, NothingPushedBack
  <2>3. CASE last_char # NONE
    <3>1. ~buffered BY <2>3, ReadPosition
    <3>2. UNCHANGED <<file, fd_pos, buffer>> BY <2>1, <3>1 DEF Flush
    <3>3. Position' = Position BY <2>1, <3>2 DEF Position
    <3>4. QED BY <2>1, <3>2, <3>3, SamePosition
  <2>4. QED BY <2>2, <2>3
<1>8. CASE close
  <2>1. ~open' /\ Returns("close", NONE) BY <1>8 DEF close
  <2>2. QED BY <2>1, NothingPushedBack
<1>9. CASE file_position
  <2>1. /\ \E n : Returns("file_position", n)
        /\ last_char' = last_char /\ open' = open
        /\ open /\ ~careless' => last_char = NONE
    BY <1>9 DEF file_position, Charge
  <2>2. QED BY <2>1, NothingPushedBack
<1>10. CASE set_file_position
  <2>1. /\ \E op, x : op # "read_char" /\ Returns(op, x)
        /\ last_char' = last_char /\ open' = open
        /\ open /\ ~careless' => last_char = NONE
    BY <1>10 DEF set_file_position, Charge, seek_mapped, seek_mapped_end, lseek, ReturnsSet
  <2>2. QED BY <2>1, NothingPushedBack
<1>11. CASE file_length
  <2>1. /\ \E n : Returns("file_length", n)
        /\ UNCHANGED <<file, open, fixed, mapped, data_offset, fd_pos, last_char, buffer>>
        /\ open => careless' = (careless \/ buffer # << >>)
    BY <1>11 DEF file_length, Charge
  <2>2. Position' = Position BY <2>1 DEF Position
  <2>3. CASE last_char = NONE BY <2>1, <2>3, NothingPushedBack
  <2>4. CASE last_char # NONE
    <3>1. buffer = << >> BY <2>4, ReadPosition
    <3>2. QED BY <1>0, <2>1, <2>2, <3>1, SamePosition
  <2>5. QED BY <2>3, <2>4
<1>12. CASE UNCHANGED vars
  BY <1>12 DEF vars, PushInv, PushedBackIsNext, JustRead, Position
<1>13. QED
  BY <1>1, <1>2, <1>3, <1>4, <1>5, <1>6, <1>7, <1>8, <1>9, <1>10, <1>11, <1>12
     DEF Next

(* All that is known of the states of a stream.                                *)
LEMMA Invariants == Spec => [](StreamInv /\ PushInv)
<1>1. Init => StreamInv /\ PushInv
  BY StreamInvInit DEF Init, PushInv, PushedBackIsNext, JustRead
<1>2. StreamInv /\ PushInv /\ [Next]_vars => StreamInv' /\ PushInv'
  BY StreamInvNext, PushInvNext
<1>3. QED BY <1>1, <1>2, PTL DEF Spec

(* What has been pushed back is the byte of the file just before the offset,   *)
(* unless the program was careless.                                            *)
THEOREM PushedBack == Spec => []PushedBackIsNext
<1>1. StreamInv /\ PushInv => PushedBackIsNext BY DEF PushInv
<1>2. QED BY <1>1, Invariants, PTL

-------------------------------------------------------------------------------
(* Refinement.                                                                 *)

(* A call to a closed stream.                                                  *)
LEMMA ClosedStep ==
  ASSUME ~open, ~open', UNCHANGED <<file, unit, mapped>>
  PROVE  Abstract!Next
BY DEF Abstract!Next, Abstract!Careful, Abstract!WhileClosed, Abstract!kind

(* Reading characters, and pushing them back.                                  *)
LEMMA ReadCharRefines ==
  ASSUME StreamInv, StreamInv', PushInv, read_char, open, ~careless
  PROVE  Abstract!Read("read_char")
<1> USE DEF fixed
<1>0. file \in Seq(Bytes) /\ Len(file) \in Nat BY Types DEF StreamInv
<1>1. PICK c \in Bytes \cup {EOF} : GetChar(c) /\ Returns("read_char", c)
  BY DEF read_char
<1>2. UNCHANGED <<file, open, fixed, mapped, buffer, careless>> /\ CanRead
  BY DEF read_char
<1>3. /\ Position = Offset - (IF last_char = NONE THEN 0 ELSE 1)
      /\ Offset \in Nat /\ buffer = << >>
  BY <1>2, ReadPosition
<1>4. CanRead' BY <1>2 DEF CanRead
<1>5. /\ Position' = Offset' - (IF last_char' = NONE THEN 0 ELSE 1)
      /\ Offset' \in Nat
  BY <1>4, ReadPositionAfter
<1>6. Overlay(file, fd_pos, buffer) = file /\ Overlay(file', fd_pos', buffer') = file
  BY <1>2, <1>3 DEF Overlay
<1>7. IF Position < Len(file)
        THEN Position' = Position + 1 /\ c = file[Position + 1]
        ELSE Position' = Position /\ c = EOF
  <2>1. CASE last_char # NONE
    <3>1. c = last_char /\ last_char' = NONE /\ Offset' = Offset
      BY <1>1, <1>2, <2>1 DEF GetChar, Offset
    <3>2. Position \in 0 .. Len(file) - 1 /\ last_char = file[Position + 1]
      BY <2>1 DEF PushInv, PushedBackIsNext
    <3>3. QED BY <1>0, <1>3, <1>5, <2>1, <3>1, <3>2
  <2>2. CASE last_char = NONE
    <3>1. NextByte(c) /\ last_char' = NONE BY <1>1, <2>2 DEF GetChar
    <3>2. IF Offset < Len(file)
            THEN c = file[Offset + 1] /\ Offset' = Offset + 1
            ELSE c = EOF /\ Offset' = Offset
      BY <1>2, <3>1, NextByteReads
    <3>3. Position = Offset BY <1>3, <2>2
    <3>4. last_char' = NONE BY <3>1
    <3>5. Position' = Offset' BY <1>4, <3>4, ReadPositionAfter
    <3>6. QED BY <3>2, <3>3, <3>5
  <2>3. QED BY <2>1, <2>2
<1>8. QED BY <1>1, <1>2, <1>6, <1>7 DEF Abstract!Read, Abstract!kind, Abstract!Returns, Returns

(* read-byte, when nothing has been pushed back.                               *)
LEMMA ReadByteRefines ==
  ASSUME StreamInv, StreamInv', read_byte, open, ~careless'
  PROVE  Abstract!Read("read_byte")
<1> USE DEF fixed
<1>1. PICK c \in Bytes \cup {EOF} : NextByte(c) /\ Returns("read_byte", c)
  BY DEF read_byte
<1>2. /\ UNCHANGED <<file, open, fixed, mapped, last_char, buffer>> /\ CanRead
      /\ last_char = NONE
  BY DEF read_byte, Charge
<1>3. Position = Offset /\ Offset \in Nat /\ buffer = << >> BY <1>2, ReadPosition
<1>4. CanRead' BY <1>2 DEF CanRead
<1>5. Position' = Offset' /\ Offset' \in Nat BY <1>2, <1>4, ReadPositionAfter
<1>6. Overlay(file, fd_pos, buffer) = file /\ Overlay(file', fd_pos', buffer') = file
  BY <1>2, <1>3 DEF Overlay
<1>7. IF Offset < Len(file)
        THEN c = file[Offset + 1] /\ Offset' = Offset + 1
        ELSE c = EOF /\ Offset' = Offset
  BY <1>1, <1>2, NextByteReads
<1>8. QED
  BY <1>1, <1>2, <1>3, <1>5, <1>6, <1>7 DEF Abstract!Read, Abstract!kind, Abstract!Returns, Returns

(* unread-char of the character that has just been read.                       *)
LEMMA UnreadRefines ==
  ASSUME StreamInv, StreamInv', PushInv, NEW c \in Bytes, unread_char(c), open,
         ~careless'
  PROVE  Abstract!Unread
<1> USE DEF fixed
<1>1. /\ last_char' = c /\ Returns("unread_char", c) /\ CanRead
      /\ UNCHANGED <<file, open, fixed, mapped, data_offset, fd_pos, buffer>>
      /\ ~careless /\ result = [op |-> "read_char", val |-> c]
  BY DEF unread_char, Charge
<1>2. c # EOF /\ c # NONE BY FileAssumption
<1>3. result.op = "read_char" /\ result.val = c BY <1>1
<1>4. last_char = NONE BY <1>1, <1>2, <1>3 DEF PushInv, JustRead
<1>5. Position = Offset /\ Offset \in Nat BY <1>1, <1>4, ReadPosition
<1>6. CanRead' BY <1>1 DEF CanRead
<1>7. Position' = Offset' - 1 BY <1>1, <1>2, <1>6, ReadPositionAfter
<1>8. Offset' = Offset BY <1>1 DEF Offset
<1>9. QED
  BY <1>1, <1>2, <1>3, <1>5, <1>7, <1>8 DEF Abstract!Unread, Abstract!kind, Abstract!Returns, Returns

(* listen says whether a byte is left.                                         *)
LEMMA ListenRefines ==
  ASSUME StreamInv, StreamInv', PushInv, listen, open, ~careless
  PROVE  Abstract!Listen
<1> USE DEF fixed
<1>0. file \in Seq(Bytes) /\ Len(file) \in Nat BY Types DEF StreamInv
<1>1. PICK c \in Bytes \cup {EOF} :
        /\ IF last_char # NONE
             THEN c = last_char /\ UNCHANGED <<data_offset, fd_pos>>
             ELSE NextByte(c)
        /\ last_char' = IF c = EOF THEN last_char ELSE c
        /\ Returns("listen", c # EOF)
  BY DEF listen
<1>2. UNCHANGED <<file, open, fixed, mapped, buffer, careless>> /\ CanRead
  BY DEF listen
<1>3. /\ Position = Offset - (IF last_char = NONE THEN 0 ELSE 1)
      /\ Offset \in Nat /\ buffer = << >>
  BY <1>2, ReadPosition
<1>4. CanRead' BY <1>2 DEF CanRead
<1>5. /\ Position' = Offset' - (IF last_char' = NONE THEN 0 ELSE 1)
      /\ Offset' \in Nat
  BY <1>4, ReadPositionAfter
<1>6. Overlay(file, fd_pos, buffer) = file /\ Overlay(file', fd_pos', buffer') = file
  BY <1>2, <1>3 DEF Overlay
<1>7. Position' = Position /\ ((c # EOF) <=> Position < Len(file))
  <2>1. CASE last_char # NONE
    <3>1. c = last_char /\ Offset' = Offset BY <1>1, <1>2, <2>1 DEF Offset
    <3>2. last_char \in Bytes /\ c # EOF BY <2>1, <3>1, Types, FileAssumption DEF StreamInv
    <3>3. last_char' = last_char BY <1>1, <3>1, <3>2
    <3>4. Position < Len(file)
      BY <1>0, <2>1 DEF PushInv, PushedBackIsNext
    <3>5. QED BY <1>3, <1>5, <3>1, <3>2, <3>3, <3>4
  <2>2. CASE last_char = NONE
    <3>1. NextByte(c) BY <1>1, <2>2
    <3>2. IF Offset < Len(file)
            THEN c = file[Offset + 1] /\ Offset' = Offset + 1
            ELSE c = EOF /\ Offset' = Offset
      BY <1>2, <3>1, NextByteReads
    <3>3. CASE Offset < Len(file)
      <4>1. c \in Bytes BY <1>0, <1>3, <3>2, <3>3
      <4>2. c # EOF /\ c # NONE /\ last_char' = c BY <1>1, <4>1, FileAssumption
      <4>3. QED BY <1>3, <1>5, <2>2, <3>2, <3>3, <4>2
    <3>4. CASE ~(Offset < Len(file))
      <4>1. c = EOF /\ Offset' = Offset BY <3>2, <3>4
      <4>2. last_char' = NONE BY <1>1, <2>2, <4>1
      <4>3. QED BY <1>3, <1>5, <2>2, <3>4, <4>1, <4>2
    <3>5. QED BY <3>3, <3>4
  <2>3. QED BY <2>1, <2>2
<1>8. result' = [op |-> "listen", val |-> Position < Len(file)]
  BY <1>1, <1>7 DEF Returns
<1>9. QED BY <1>2, <1>6, <1>7, <1>8 DEF Abstract!Listen, Abstract!kind, Abstract!Returns

(* A byte is written, through the buffer or not.                               *)
LEMMA WriteRefines ==
  ASSUME StreamInv, NEW b \in Bytes, write(b), open, ~careless'
  PROVE  Abstract!Write(b)
<1> USE DEF fixed
<1>1. /\ UNCHANGED <<open, fixed, mapped, last_char>> /\ CanWrite
      /\ last_char = NONE /\ Returns("write", b)
  BY DEF write, Charge
<1>2. ~mapped BY <1>1 DEF StreamInv, Kinds, CanWrite
<1>3. /\ Overlay(file', fd_pos', buffer') =
           Abstract!Put(Overlay(file, fd_pos, buffer), fd_pos + Len(buffer), b)
      /\ fd_pos' + Len(buffer') = fd_pos + Len(buffer) + 1
      /\ fd_pos' \in Nat /\ buffer' \in Seq(Bytes)
  BY WriteWrites
<1>4. fd_pos \in Nat /\ buffer \in Seq(Bytes) /\ Len(buffer) \in Nat
  BY Types DEF StreamInv
<1>5. Position = fd_pos + Len(buffer) BY <1>1, <1>2, <1>4 DEF Position
<1>6. Position' = fd_pos' + Len(buffer') BY <1>1, <1>2, <1>3 DEF Position
<1>7. QED
  BY <1>1, <1>3, <1>5, <1>6 DEF Abstract!Write, Abstract!kind, Abstract!Returns, Returns

(* The buffer moves to the file: the program sees no difference.               *)
LEMMA FlushUnseen ==
  ASSUME StreamInv, Flush, open, UNCHANGED <<mapped, data_offset, last_char>>
  PROVE  /\ Overlay(file', fd_pos', buffer') = Overlay(file, fd_pos, buffer)
         /\ file' = Overlay(file, fd_pos, buffer)
         /\ Position' = Position
<1>1. /\ buffer' = << >> /\ file' = Overlay(file, fd_pos, buffer)
      /\ fd_pos' = fd_pos + Len(buffer) /\ fd_pos' \in Nat
  BY FlushWrites
<1>2. Overlay(file', fd_pos', buffer') = file' BY <1>1 DEF Overlay
<1>3. Len(buffer') = 0 BY <1>1
<1>4. Position' = Position BY <1>1, <1>3 DEF Position
<1>5. QED BY <1>1, <1>2, <1>4

(* file-position, when nothing has been pushed back.                           *)
LEMMA FilePositionRefines ==
  ASSUME StreamInv, file_position, open, ~careless'
  PROVE  Abstract!FilePosition
<1> USE DEF fixed
<1>1. /\ UNCHANGED <<open, fixed, mapped, data_offset, last_char>>
      /\ last_char = NONE
  BY DEF file_position, Charge
<1>2. /\ unit \in Nat \ {0} /\ data_offset \in Nat /\ fd_pos \in Nat
      /\ buffer \in Seq(Bytes) /\ Len(buffer) \in Nat
  BY Types DEF StreamInv
<1>3. CASE mapped
  <2>1. /\ Returns("file_position", data_offset) /\ UNCHANGED <<file, fd_pos, buffer>>
    BY <1>3 DEF file_position
  <2>2. unit = 1 BY <1>3 DEF StreamInv, Kinds
  <2>3. Position = data_offset BY <1>1, <1>2, <1>3 DEF Position
  <2>4. Position' = Position BY <1>1, <2>1 DEF Position
  <2>5. data_offset = Position \div unit BY <1>2, <2>2, <2>3
  <2>6. QED
    BY <1>1, <2>1, <2>4, <2>5 DEF Abstract!FilePosition, Abstract!kind, Abstract!Returns, Returns
<1>4. CASE ~mapped
  <2>1. Flush /\ Returns("file_position", fd_pos' \div unit)
    BY <1>4 DEF file_position
  <2>2. /\ Overlay(file', fd_pos', buffer') = Overlay(file, fd_pos, buffer)
        /\ Position' = Position
    BY <1>1, <2>1, FlushUnseen
  <2>3. fd_pos' = fd_pos + Len(buffer) BY <2>1, FlushWrites
  <2>4. Position = fd_pos' BY <1>1, <1>2, <1>4, <2>3 DEF Position
  <2>5. QED
    BY <1>1, <2>1, <2>2, <2>4 DEF Abstract!FilePosition, Abstract!kind, Abstract!Returns, Returns
<1>5. QED BY <1>3, <1>4

(* Setting the position, with nothing pushed back and nothing in the buffer.   *)
LEMMA SetFilePositionRefines ==
  ASSUME StreamInv, set_file_position, open, ~careless'
  PROVE  Abstract!SetFilePosition
<1> USE DEF fixed
<1>1. /\ UNCHANGED <<file, open, fixed, mapped, last_char, buffer>>
      /\ last_char = NONE /\ buffer = << >>
  BY DEF set_file_position, Charge
<1>2. /\ unit \in Nat \ {0} /\ data_offset \in Nat /\ fd_pos \in Nat
      /\ Len(file) \in Nat /\ Len(buffer) = 0
      /\ mapped => unit = 1
  BY <1>1, Types DEF StreamInv, Kinds
<1>3. Overlay(file, fd_pos, buffer) = file /\ Overlay(file', fd_pos', buffer') = file
  BY <1>1 DEF Overlay
<1>4. /\ fd_pos' \in Nat /\ data_offset' \in Nat =>
           Position' = IF mapped THEN data_offset' ELSE fd_pos'
      /\ Position = IF mapped THEN data_offset ELSE fd_pos
  BY <1>1, <1>2 DEF Position
<1>5. Abstract!SeekEnd \/ \E n \in Positions : Abstract!Seek(n)
  <2>1. ASSUME NEW n \in Positions, seek_mapped(n) PROVE Abstract!Seek(n)
    <3>1. n \in Nat /\ mapped /\ unit = 1 /\ fd_pos' = fd_pos
      BY <1>2, <2>1, FileAssumption DEF seek_mapped, Positions
    <3>2. n * unit = n /\ Position = data_offset BY <1>4, <3>1
    <3>3. CASE n <= data_offset
      <4>1. data_offset' = n /\ Returns("set_file_position", n)
        BY <2>1, <3>3 DEF seek_mapped, ReturnsSet
      <4>2. Position' = n BY <1>2, <1>4, <3>1, <4>1
      <4>3. ~(n * unit > Position) BY <1>2, <3>1, <3>2, <3>3
      <4>4. QED
        BY <1>1, <3>2, <4>1, <4>2, <4>3 DEF Abstract!Seek, Abstract!Returns, Returns
    <3>4. CASE ~(n <= data_offset)
      <4>1. data_offset' = data_offset /\ Returns("position_refused", n)
        BY <2>1, <3>4 DEF seek_mapped, ReturnsSet
      <4>2. Position' = Position BY <1>2, <1>4, <3>1, <4>1
      <4>3. n * unit > Position BY <1>2, <3>1, <3>2, <3>4
      <4>4. QED
        BY <1>1, <3>1, <4>1, <4>2, <4>3 DEF Abstract!Seek, Abstract!Returns, Returns
    <3>5. QED BY <3>3, <3>4
  <2>2. ASSUME NEW n \in Positions, lseek(n * unit, n) PROVE Abstract!Seek(n)
    <3>1. n \in Nat BY FileAssumption DEF Positions
    <3>2. n * unit \in Nat BY <1>2, <3>1
    <3>3. /\ ~mapped /\ fd_pos' = n * unit /\ data_offset' = data_offset
          /\ Returns("set_file_position", n)
      BY <2>2 DEF lseek, ReturnsSet
    <3>4. Position' = n * unit BY <1>2, <1>4, <3>2, <3>3
    <3>5. QED BY <1>1, <3>3, <3>4 DEF Abstract!Seek, Abstract!Returns, Returns
  <2>3. CASE seek_mapped_end
    <3>1. /\ mapped /\ data_offset' = Len(file) /\ fd_pos' = fd_pos
          /\ Returns("set_file_position", NONE)
      BY <2>3 DEF seek_mapped_end, ReturnsSet
    <3>2. Position' = Len(file) BY <1>2, <1>4, <3>1
    <3>3. QED BY <1>1, <1>3, <3>1, <3>2 DEF Abstract!SeekEnd, Abstract!Returns, Returns
  <2>4. CASE lseek(Len(file), NONE)
    <3>1. /\ ~mapped /\ fd_pos' = Len(file) /\ data_offset' = data_offset
          /\ Returns("set_file_position", NONE)
      BY <2>4 DEF lseek, ReturnsSet
    <3>2. Position' = Len(file) BY <1>2, <1>4, <3>1
    <3>3. QED BY <1>1, <1>3, <3>1, <3>2 DEF Abstract!SeekEnd, Abstract!Returns, Returns
  <2>5. QED BY <2>1, <2>2, <2>3, <2>4 DEF set_file_position
<1>6. QED
  BY <1>1, <1>3, <1>5 DEF Abstract!SetFilePosition, Abstract!kind

(* The position of an empty buffer with nothing pushed back.                   *)
LEMMA PlusMinusZero ==
  ASSUME NEW n \in Nat
  PROVE  (n + 0) - 0 = n
OBVIOUS

(* Opening the file, for reading or writing, at its start or at its end.       *)
LEMMA OpenRefines ==
  ASSUME StreamInv, NEW d \in {"input", "output", "io"}, NEW u \in Units,
         NEW if_exists \in {"supersede", "overwrite", "append"},
         FileStream(d, u, if_exists)
  PROVE  Abstract!Open
<1>1. /\ ~open /\ open' /\ unit' = u /\ buffer' = << >> /\ last_char' = NONE
      /\ data_offset' = 0 /\ Returns("open", NONE)
  BY DEF FileStream
<1>2. \/ file' = file /\ fd_pos' \in {0, Len(file)}
      \/ file' = << >> /\ fd_pos' = 0
  BY DEF FileStream
<1>3. mapped' => fd_pos' = 0
  <2>1. CASE d = "input" BY <2>1 DEF FileStream
  <2>2. CASE d # "input"
    <3>1. mapped' = (d = "input" /\ u = 1 /\ file # << >>) BY DEF FileStream
    <3>2. ~mapped' BY <2>2, <3>1
    <3>3. QED BY <3>2
  <2>3. QED BY <2>1, <2>2
<1>4. Len(file) \in Nat /\ fd_pos' \in Nat BY <1>2, Types DEF StreamInv
<1>5. Position' = fd_pos'
  <2>1. Position' = (IF mapped' THEN data_offset' ELSE fd_pos' + Len(buffer'))
                      - (IF last_char' = NONE THEN 0 ELSE 1)
    BY DEF Position
  <2>2. last_char' = NONE /\ data_offset' = 0 /\ Len(buffer') = 0 BY <1>1
  <2>3. CASE mapped' BY <1>3, <2>1, <2>2, <2>3
  <2>4. CASE ~mapped'
    <3>1. Position' = (fd_pos' + 0) - 0 BY <2>1, <2>2, <2>4
    <3>2. (fd_pos' + 0) - 0 = fd_pos' BY <1>4, PlusMinusZero, Zenon
    <3>3. QED BY <3>1, <3>2, Zenon
  <2>5. QED BY <2>3, <2>4
<1>6. Overlay(file', fd_pos', buffer') = file' BY <1>1 DEF Overlay
<1>7. mapped' => unit' = 1 /\ file' = file
  <2>1. mapped' = (d = "input" /\ u = 1 /\ file # << >>) BY DEF FileStream
  <2>2. mapped' => d = "input" BY <2>1
  <2>3. QED BY <1>1, <2>1, <2>2 DEF FileStream
<1>8. QED BY <1>1, <1>2, <1>3, <1>5, <1>6, <1>7 DEF Abstract!Open, Abstract!Returns, Returns

(* Every operation is one of the abstract file, or the program is careless.    *)
LEMMA StepRefines ==
  ASSUME StreamInv, StreamInv', PushInv, Next
  PROVE  Abstract!Next
<1> USE DEF fixed
<1>0. open \in BOOLEAN /\ careless \in BOOLEAN BY Types DEF StreamInv
<1>1. CASE careless' BY <1>1 DEF Abstract!Next
<1>2. ASSUME NEW d \in {"input", "output", "io"}, NEW u \in Units,
             NEW if_exists \in {"supersede", "overwrite", "append"},
             FileStream(d, u, if_exists)
      PROVE  Abstract!Next
  BY <1>2, OpenRefines DEF Abstract!Next, Abstract!Careful
<1>3. CASE read_char /\ ~careless'
  <2>1. CASE open
    BY <1>3, <2>1, ReadCharRefines DEF read_char, Abstract!Next, Abstract!Careful
  <2>2. CASE ~open BY <1>3, <2>2, ClosedStep DEF read_char
  <2>3. QED BY <2>1, <2>2
<1>4. CASE read_byte /\ ~careless'
  <2>1. CASE open BY <1>4, <2>1, ReadByteRefines DEF Abstract!Next, Abstract!Careful
  <2>2. CASE ~open BY <1>4, <2>2, ClosedStep DEF read_byte
  <2>3. QED BY <2>1, <2>2
<1>5. ASSUME NEW c \in Bytes, unread_char(c), ~careless' PROVE Abstract!Next
  <2>1. CASE open BY <1>5, <2>1, UnreadRefines DEF Abstract!Next, Abstract!Careful
  <2>2. CASE ~open BY <1>5, <2>2, ClosedStep DEF unread_char
  <2>3. QED BY <2>1, <2>2
<1>6. CASE listen /\ ~careless'
  <2>1. CASE open
    BY <1>6, <2>1, ListenRefines DEF listen, Abstract!Next, Abstract!Careful
  <2>2. CASE ~open BY <1>6, <2>2, ClosedStep DEF listen
  <2>3. QED BY <2>1, <2>2
<1>7. ASSUME NEW b \in Bytes, write(b), ~careless' PROVE Abstract!Next
  <2>1. CASE open BY <1>7, <2>1, WriteRefines DEF Abstract!Next, Abstract!Careful
  <2>2. CASE ~open
    <3>1. file' = file BY <1>7, <2>2, WriteWrites
    <3>2. QED BY <1>7, <2>2, <3>1, ClosedStep DEF write
  <2>3. QED BY <2>1, <2>2
<1>8. CASE finish_output
  <2>1. /\ Flush /\ Returns("finish_output", NONE)
        /\ UNCHANGED <<open, fixed, mapped, data_offset, last_char>>
    BY <1>8 DEF finish_output
  <2>2. CASE open
    <3>1. /\ Overlay(file', fd_pos', buffer') = Overlay(file, fd_pos, buffer)
          /\ Position' = Position
      BY <2>1, <2>2, FlushUnseen
    <3>2. Abstract!FinishOutput
      BY <2>1, <2>2, <3>1 DEF Abstract!FinishOutput, Abstract!kind, Abstract!Returns, Returns
    <3>3. QED BY <3>2 DEF Abstract!Next, Abstract!Careful
  <2>3. CASE ~open
    <3>1. file' = file BY <2>1, <2>3, FlushWrites
    <3>2. QED BY <2>1, <2>3, <3>1, ClosedStep
  <2>4. QED BY <2>2, <2>3
<1>9. CASE close
  <2>1. /\ Flush /\ Returns("close", NONE) /\ ~open' /\ ~mapped'
        /\ UNCHANGED <<fixed, data_offset, last_char>>
    BY <1>9 DEF close
  <2>2. CASE open
    <3>1. file' = Overlay(file, fd_pos, buffer) BY <2>1, <2>2, FlushWrites
    <3>2. Abstract!Close
      BY <2>1, <2>2, <3>1 DEF Abstract!Close, Abstract!Returns, Returns
    <3>3. QED BY <3>2 DEF Abstract!Next, Abstract!Careful
  <2>3. CASE ~open
    <3>1. file' = file BY <2>1, <2>3, FlushWrites
    <3>2. mapped' = mapped
      BY <1>9, <2>3 DEF close, StreamInv, TypeOK, Kinds
    <3>3. QED BY <2>1, <2>3, <3>1, <3>2, ClosedStep
  <2>4. QED BY <2>2, <2>3
<1>10. CASE file_position /\ ~careless'
  <2>1. CASE open
    BY <1>10, <2>1, FilePositionRefines DEF Abstract!Next, Abstract!Careful
  <2>2. CASE ~open
    <3>1. ~mapped BY <2>2 DEF StreamInv, Kinds
    <3>2. Flush BY <1>10, <3>1 DEF file_position
    <3>3. file' = file BY <2>2, <3>2, FlushWrites
    <3>4. QED BY <1>10, <2>2, <3>3, ClosedStep DEF file_position
  <2>3. QED BY <2>1, <2>2
<1>11. CASE set_file_position /\ ~careless'
  <2>1. CASE open
    BY <1>11, <2>1, SetFilePositionRefines DEF Abstract!Next, Abstract!Careful
  <2>2. CASE ~open BY <1>11, <2>2, ClosedStep DEF set_file_position
  <2>3. QED BY <2>1, <2>2
<1>12. CASE file_length /\ ~careless'
  <2>1. UNCHANGED <<file, open, fixed, mapped, data_offset, fd_pos, last_char, buffer>>
    BY <1>12 DEF file_length
  <2>2. CASE open
    <3>1. buffer = << >> /\ Returns("file_length", Len(file) \div unit)
      BY <1>12, <2>2 DEF file_length, Charge
    <3>2. Overlay(file, fd_pos, buffer) = file /\ Overlay(file', fd_pos', buffer') = file
      BY <2>1, <3>1 DEF Overlay
    <3>3. Position' = Position BY <2>1 DEF Position
    <3>4. Abstract!FileLength
      BY <2>1, <2>2, <3>1, <3>2, <3>3 DEF Abstract!FileLength, Abstract!kind, Abstract!Returns, Returns
    <3>5. QED BY <3>4 DEF Abstract!Next, Abstract!Careful
  <2>3. CASE ~open BY <2>1, <2>3, ClosedStep
  <2>4. QED BY <2>2, <2>3
<1>13. QED
  BY <1>1, <1>2, <1>3, <1>4, <1>5, <1>6, <1>7, <1>8, <1>9, <1>10, <1>11, <1>12 DEF Next

(* A stream used with care is a file of bytes with a position: mapping,        *)
(* buffering and pushing back cannot be seen, and closing loses nothing.       *)
THEOREM Refinement == Spec => IsByteFile
<1>1. Init => Abstract!Init
  BY StreamInvInit, Types DEF Init, Abstract!Init, StreamInv
<1>2. StreamInv /\ StreamInv' /\ PushInv /\ [Next]_vars => [Abstract!Next]_(Abstract!abstract)
  <2> SUFFICES ASSUME StreamInv, StreamInv', PushInv, [Next]_vars
               PROVE  [Abstract!Next]_(Abstract!abstract)
    OBVIOUS
  <2>1. CASE Next BY <2>1, StepRefines
  <2>2. CASE UNCHANGED vars BY <2>2 DEF vars, Abstract!abstract, Position
  <2>3. QED BY <2>1, <2>2
<1>3. QED BY <1>1, <1>2, Invariants, PTL DEF Spec, IsByteFile, Abstract!Spec

===============================================================================
