------------------------------ MODULE MCStructGen ------------------------------
(***************************************************************************)
(* Small programs, laid out the way HLSL packs constant buffers: members   *)
(* are four-byte aligned and do not straddle a 16-byte register, structs   *)
(* and arrays begin a register, and only what follows fills it up.         *)
(***************************************************************************)
EXTENDS StructGen, SequencesExt

Plain(n, e) == [kind |-> "plain", bytes |-> n, type |-> 1, elems |-> e]
Nested(t, e) == [kind |-> "struct", bytes |-> 0, type |-> t, elems |-> e]
Other == [kind |-> "other", bytes |-> 4, type |-> 1, elems |-> 0]

Up(n) == ((n + 15) \div 16) * 16

\* Where a member of so many bytes goes, and where it ends.
Place(at, m, bytes) ==
  IF m.kind = "struct" \/ m.elems > 0 \/ (at % 16) + bytes > 16 THEN Up(at) ELSE at
End(at, m, bytes) ==
  IF m.elems > 0 THEN at + Up(bytes) * (m.elems - 1) + bytes ELSE at + bytes

\* Lays out up to two members; ends gives the ends of the earlier structs.
Bytes(m, ends) == IF m.kind = "struct" THEN ends[m.type] ELSE m.bytes
Offset(shapes, ends, i) ==
  IF i = 1 THEN 0
  ELSE Place(End(0, shapes[1], Bytes(shapes[1], ends)), shapes[2], Bytes(shapes[2], ends))
EndOf(shapes, ends) ==
  IF shapes = << >> THEN 0
  ELSE LET n == Len(shapes)
       IN  End(Offset(shapes, ends, n), shapes[n], Bytes(shapes[n], ends))
Lay(shapes, ends) ==
  [i \in 1 .. Len(shapes) |->
     [kind |-> shapes[i].kind, bytes |-> shapes[i].bytes, type |-> shapes[i].type,
      elems |-> shapes[i].elems, offset |-> Offset(shapes, ends, i)]]

Layouts(a, b, c) ==
  LET ea == EndOf(a, << >>)
      eb == EndOf(b, <<ea>>)
  IN  [members |-> <<Lay(a, << >>), Lay(b, <<ea>>), Lay(c, <<ea, eb>>)>>,
       spans   |-> <<ea, eb, EndOf(c, <<ea, eb>>)>>]

Firsts == {<< >>, <<Plain(4, 0)>>, <<Plain(12, 0), Plain(12, 0)>>,
           <<Plain(16, 2), Plain(4, 0)>>, <<Plain(4, 2), Plain(4, 0)>>}
Seconds == SeqOf({Plain(4, 0), Nested(1, 0), Nested(1, 2)}, 2)
Thirds  == SeqOf({Plain(4, 0), Nested(1, 0), Nested(2, 0)}, 2) \cup {<<Nested(1, 0), Other>>}

Call(t, m) == [type |-> t, meta |-> m]
MCCalls ==
  {<<Call(3, TRUE)>>, <<Call(1, FALSE), Call(3, TRUE), Call(2, FALSE)>>,
   <<Call(2, TRUE), Call(2, FALSE), Call(1, TRUE)>>}

MCPrograms ==
  {[members |-> l.members, spans |-> l.spans, calls |-> k] :
     l \in {Layouts(a, b, c) : a \in Firsts, b \in Seconds, c \in Thirds}, k \in MCCalls}
================================================================================
