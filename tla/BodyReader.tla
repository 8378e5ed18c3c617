----------------------------- MODULE BodyReader ------------------------------
(***************************************************************************)
(* nbhttp/body.go: the buffers that hold the body of a message.  append    *)
(* fills the spare capacity of the last buffer before it takes a new one,  *)
(* Read copies out of the first ones and frees those it has emptied.       *)
(***************************************************************************)
LOCAL INSTANCE Integers
LOCAL INSTANCE Sequences

CONSTANT MaxHTTPBodySize   \* 0 for no limit

NewBodyReader == [index |-> 0, left |-> 0, buffers |-> <<>>, closed |-> FALSE]

\* What Malloc returns for d, when the allocator's size class has some spare
\* room behind it.
Buffer(d, spare) == [data |-> d, cap |-> Len(d) + spare]

TooLong(br, d) == MaxHTTPBodySize > 0 /\ Len(d) + br.left > MaxHTTPBodySize

\* append, for data that is not too long.
append(br, d, spare) ==
  LET k     == Len(br.buffers)
      tail  == br.buffers[k]
      room  == IF k = 0 THEN 0 ELSE tail.cap - Len(tail.data)
      nc    == IF room < Len(d) THEN room ELSE Len(d)
      first == IF k = 0 THEN <<>>
               ELSE [br.buffers EXCEPT ![k].data = @ \o SubSeq(d, 1, nc)]
      rest  == SubSeq(d, nc + 1, Len(d))
  IN  [br EXCEPT !.left = @ + Len(d),
                 !.buffers = IF rest = <<>> THEN first ELSE Append(first, Buffer(rest, spare))]

\* Mutant: the index is set to what the last Read copied.
AdvanceTo(index, nc) == nc

\* br.index += nc
Advance(index, nc) == index + nc

\* One round of Read's loop: copy from the first buffer, and free it when it
\* is used up.
Round(r) ==
  LET br   == r.reader
      head == br.buffers[1].data
      room == Len(head) - br.index
      nc   == IF r.need < room THEN r.need ELSE room
  IN  IF r.need = 0 \/ br.left <= 0 THEN r
      ELSE IF br.buffers = <<>> THEN [r EXCEPT !.reader.left = 0]
      ELSE [need |-> r.need - nc,
            out |-> r.out \o SubSeq(head, br.index + 1, br.index + nc),
            reader |-> IF nc >= room
                       THEN [br EXCEPT !.left = @ - nc, !.buffers = Tail(@), !.index = 0]
                       ELSE [br EXCEPT !.left = @ - nc, !.index = Advance(@, nc)]]

\* The rounds, as many as can be needed: one that does not end the loop frees a
\* buffer.
Rounds(br, n) ==
  LET after[k \in 0 .. Len(br.buffers) + 1] ==
        IF k = 0 THEN [need |-> n, out |-> <<>>, reader |-> br] ELSE Round(after[k - 1])
  IN  after

\* Read into a buffer of n bytes: the bytes copied, and the reader afterwards.
\* Nothing copied means io.EOF.
Read(br, n) ==
  IF br.closed THEN [need |-> n, out |-> <<>>, reader |-> br]
  ELSE Rounds(br, n)[Len(br.buffers) + 1]

Close(br) == [index |-> 0, left |-> 0, buffers |-> <<>>, closed |-> TRUE]
=============================================================================
