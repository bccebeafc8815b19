-------------------------------- MODULE Buf --------------------------------
(***************************************************************************)
(* The packet buffer (src/buf.c): a fixed array in which a packet moves as *)
(* headers are put before it and taken away.  A buffer is a record, as in  *)
(* buf.h: the length, the offset of the first byte in the array ("data")   *)
(* and the array's content, as much of it as the caller looks at.  A call  *)
(* that fails prints and changes nothing, and no caller looks at its       *)
(* result.                                                                 *)
(***************************************************************************)
EXTENDS Integers

CONSTANT BufMaxLen   \* BUF_MAX_LEN, the bytes of the array

ASSUME BufAssumption == BufMaxLen \in Nat

\* A fresh packet ends in the middle: half of the array is there for headers.
Origin == BufMaxLen \div 2

\* Mutant: the packet begins in the middle instead of ending there.
buf_init_behind(b, n) ==
  IF n >= Origin THEN b ELSE [len |-> n, data |-> Origin, payload |-> b.payload]

buf_init(b, n) ==
  IF n >= Origin THEN b ELSE [len |-> n, data |-> Origin - n, payload |-> b.payload]

buf_add_header(b, n) ==
  IF b.data < n THEN b
  ELSE [len |-> b.len + n, data |-> b.data - n, payload |-> b.payload]

buf_remove_header(b, n) ==
  IF b.len < n THEN b
  ELSE [len |-> b.len - n, data |-> b.data + n, payload |-> b.payload]

buf_add_padding(b, n) ==
  IF b.data + b.len + n >= BufMaxLen THEN b
  ELSE [b EXCEPT !.len = @ + n]

buf_remove_padding(b, n) ==
  IF b.len < n THEN b ELSE [b EXCEPT !.len = @ - n]

\* Mutant: the copy's data is not set.
buf_copy_unset(b) == [b EXCEPT !.data = 0]

\* The array is copied as it is, but the copy begins where buf_init puts a packet
\* of that length: it is the packet only if the packet was there too.
buf_copy(b) == buf_init(b, b.len)

\* The packet lies inside the array.
InArray(b) == 0 <= b.data /\ 0 <= b.len /\ b.data + b.len <= BufMaxLen
=============================================================================
