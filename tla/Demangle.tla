-------------------------------- MODULE Demangle --------------------------------
(***************************************************************************)
(* demangle (generateCPP.cpp): the recursive descent that reads a          *)
(* function's signature out of its mangled name, beside the mangler of the *)
(* compiler, which decides what the name is.                               *)
(*                                                                         *)
(* A mangled name is a sequence of tokens: an identifier with the @ that   *)
(* ends it, a digit that refers back, a number, or a single character.  A  *)
(* text is the sequence of its words; the empty one is failure, as in the  *)
(* code.                                                                   *)
(***************************************************************************)
EXTENDS Integers, Sequences, SequencesExt

Identifier(w) == <<"identifier", w, 0>>
Digit(n)      == <<"digit", "", n>>     \* the character of n, 0 to 9
Char(c)       == <<c, "", 0>>

Words(texts, separator) ==
  FoldLeft(LAMBDA w, t : IF w = << >> THEN t ELSE w \o separator \o t, << >>, texts)

-------------------------------------------------------------------------------
(* The demangler: s is the name; p says where the cursor is, the names seen so
   far, the text and the list read last, and whether a vector was indexed out
   of its range. *)

Begin == [at |-> 1, names |-> << >>, text |-> << >>, list |-> << >>, listed |-> TRUE,
          outOfRange |-> FALSE]

Look(s, p) == IF p.at <= Len(s) THEN s[p.at] ELSE Char("end")
Peek(s, p) == Look(s, [p EXCEPT !.at = @ + 1])
Skip(p, n) == [p EXCEPT !.at = @ + n]
Says(p, text) == [p EXCEPT !.text = text]
Fails(p) == Says(p, << >>)
Starts(s, p, c) == Look(s, p) = Char(c)

\* An element of a vector by its digit, counted from 0.
Referred(s, p, seen) ==
  LET n == Look(s, p)[3]
  IN  IF n < Len(seen) THEN Says(Skip(p, 1), seen[n + 1])
      ELSE [Says(Skip(p, 1), <<"?">>) EXCEPT !.outOfRange = TRUE]

\* A name read in full can be referred to from then on.  Mutant: only plain names can.
RememberedPlain(p) == IF Len(p.text) # 1 THEN p ELSE [p EXCEPT !.names = Append(@, p.text)]
Remembered(p) == IF p.text = << >> THEN p ELSE [p EXCEPT !.names = Append(@, p.text)]

\* The one digit of a number is the number less one.
NumberOf(token) ==
  IF token[1] = "digit" THEN <<IF token[3] < 9 THEN ToString(token[3] + 1) ELSE ":">>
  ELSE <<"letter">>

RECURSIVE DemangleTypeImpl(_, _), DemangleTypes(_, _, _), DemangleClass(_, _, _)

DemangleType(s, p, types) ==
  IF Look(s, p)[1] = "digit" THEN Referred(s, p, types) ELSE DemangleTypeImpl(s, p)

DemangleTemplateType(s, p, types) ==
  IF ~Starts(s, p, "$") THEN DemangleType(s, p, types)
  ELSE IF Peek(s, p) = Digit(0) THEN Says(Skip(p, 3), NumberOf(Look(s, Skip(p, 2))))
  ELSE Fails(Skip(p, 1))

\* The loop of demangleTypeList; q is p after one more type.
Listed(p, types) == [Skip(p, 1) EXCEPT !.list = types, !.listed = TRUE]
Unlisted(p) == [p EXCEPT !.listed = FALSE]
AnotherType(s, q, types) ==
  IF q.text = << >> THEN Unlisted(q) ELSE DemangleTypes(s, q, Append(types, q.text))
DemangleTypes(s, p, types) ==
  IF Starts(s, p, "@") THEN Listed(p, types)
  ELSE AnotherType(s, DemangleTemplateType(s, p, types), types)

DemangleTypeList(s, p) ==
  IF Starts(s, p, "X") THEN Listed(p, << >>) ELSE DemangleTypes(s, p, << >>)

Templated(word, p) ==
  IF ~p.listed THEN Fails(p)
  ELSE Says(p, <<word, "<">> \o Words(p.list, <<", ">>) \o <<">">>)

DemangleNameFragmentImpl(s, p) ==
  IF Starts(s, p, "?") /\ Peek(s, p) = Char("$")
    THEN Templated(Look(s, Skip(p, 2))[2], DemangleTypeList(s, Skip(p, 3)))
    ELSE Says(Skip(p, 1), <<Look(s, p)[2]>>)

DemangleNameFragment(s, p) ==
  IF Look(s, p)[1] = "digit" THEN Referred(s, p, p.names)
  ELSE Remembered(DemangleNameFragmentImpl(s, p))

\* The loops of demangleTypeImpl and of demangleQualifiedName over the parts of
\* a name; q is p after one more part.
AnotherPart(s, q, sofar) ==
  IF q.text = << >> THEN q ELSE DemangleClass(s, q, sofar \o q.text)
DemangleClass(s, p, sofar) ==
  IF Starts(s, p, "@") THEN Says(Skip(p, 1), sofar)
  ELSE AnotherPart(s, DemangleNameFragment(s, p), sofar)

DemangleTypeImpl(s, p) ==
  CASE Starts(s, p, "X") -> Says(Skip(p, 1), <<"void">>)
    [] Starts(s, p, "M") -> Says(Skip(p, 1), <<"float">>)
    [] Starts(s, p, "?") /\ Peek(s, p) = Char("A") -> DemangleTypeImpl(s, Skip(p, 2))
    [] Starts(s, p, "?") /\ Peek(s, p) # Char("A") -> Fails(Skip(p, 1))
    [] Starts(s, p, "V") \/ Starts(s, p, "U") -> DemangleClass(s, Skip(p, 1), << >>)
    [] OTHER -> Fails(p)

RECURSIVE Qualified(_, _, _)
AnotherScope(s, q, name) ==
  IF q.text = << >> THEN q ELSE Qualified(s, q, q.text \o <<"::">> \o name)
Qualified(s, p, name) ==
  IF Starts(s, p, "@") THEN Says(Skip(p, 1), name)
  ELSE AnotherScope(s, DemangleNameFragment(s, p), name)

FromFirst(s, q) == IF q.text = << >> THEN q ELSE Qualified(s, q, q.text)
DemangleQualifiedName(s, p) == FromFirst(s, DemangleNameFragment(s, p))

\* demangle: the checks around the three parts.
NotKnown(p) == [known |-> FALSE, outOfRange |-> p.outOfRange]
EndSignature(s, name, returnType, p) ==
  IF ~p.listed \/ ~Starts(s, p, "Z") THEN NotKnown(p)
  ELSE [known |-> TRUE, outOfRange |-> p.outOfRange, name |-> name, returnType |-> returnType,
        parameterTypes |-> p.list]
Parameters(s, name, p) ==
  IF p.text = << >> THEN NotKnown(p)
  ELSE EndSignature(s, name, p.text, DemangleTypeList(s, p))
Returns(s, p) ==
  IF ~Starts(s, p, "Y") \/ Peek(s, p) # Char("A") THEN NotKnown(p)
  ELSE Parameters(s, p.text, DemangleType(s, Skip(p, 2), << >>))
Demangle(s) ==
  IF ~Starts(s, Begin, "\\01") \/ Peek(s, Begin) # Char("?") THEN NotKnown(Begin)
  ELSE Returns(s, DemangleQualifiedName(s, Skip(Begin, 2)))

-------------------------------------------------------------------------------
(* The compiler's side: declarations, and the mangler.  A declaration is a
   function's name and scopes, inner to outer, the type it returns and those of
   its parameters. *)

Type(kind, name, scope, args, n) == [kind |-> kind, name |-> name, scope |-> scope, args |-> args, n |-> n]
Void      == Type("void", "", << >>, << >>, 0)
Float     == Type("float", "", << >>, << >>, 0)
Integer   == Type("int", "", << >>, << >>, 0)      \* one of those the demangler leaves out
Number(n) == Type("number", "", << >>, << >>, n)
Struct(w, scope) == Type("struct", w, scope, << >>, 0)
Class(w, args)   == Type("class", w, << >>, args, 0)

\* A scope's names as texts; a name in its scopes.
Scopes(scope) == [k \in DOMAIN scope |-> <<scope[k]>>]
InScope(w, scope) == Words(Reverse(Scopes(<<w>> \o scope)), <<"::">>)

\* What a type is called.
RECURSIVE Called(_)
Called(t) ==
  CASE t.kind = "number" -> <<ToString(t.n)>>
    [] t.kind = "class" ->
         <<t.name, "<">> \o Words([k \in DOMAIN t.args |-> Called(t.args[k])], <<", ">>) \o <<">">>
    [] t.kind = "struct" -> InScope(t.name, t.scope)
    [] OTHER -> <<t.kind>>

\* m is what has been written, the names and the types that can be referred to,
\* and whether a name has been.
Fresh == [out |-> << >>, names |-> << >>, types |-> << >>, again |-> FALSE]
Put(m, tokens) == [m EXCEPT !.out = @ \o tokens]

Position(x, s) == CHOOSE k \in DOMAIN s : s[k] = x

\* The first ten names are remembered; what is known is written as its digit.
Refer(m, text) == [Put(m, <<Digit(Position(text, m.names) - 1)>>) EXCEPT !.again = TRUE]
Remember(m, text) == IF Len(m.names) < 10 THEN [m EXCEPT !.names = Append(@, text)] ELSE m
MangleName(m, text) ==
  IF Contains(m.names, text) THEN Refer(m, text)
  ELSE Remember(Put(m, <<Identifier(text[1])>>), text)
MangleScope(m, scope) == Put(FoldLeft(MangleName, m, Scopes(scope)), <<Char("@")>>)

\* One to ten are a digit, larger numbers hexadecimal digits from A and an @.
Letters == <<"A", "B", "C", "D", "E", "F", "G", "H", "I", "J", "K", "L", "M", "N", "O", "P">>
NumberTokens(n) ==
  <<Char("$"), Digit(0)>> \o
  (IF n <= 10 THEN <<Digit(n - 1)>>
   ELSE <<Char(Letters[(n \div 16) + 1]), Char(Letters[(n % 16) + 1]), Char("@")>>)

\* A template's name and arguments have names of their own, and together count
\* as one name outside.
RECURSIVE MangleType(_, _)
MangleTemplate(t) ==
  Put(FoldLeft(MangleType, MangleName(Put(Fresh, <<Char("?"), Char("$")>>), <<t.name>>), t.args),
      <<Char("@")>>)
WithTemplate(m, t, inner) ==
  Remember([Put(m, inner.out) EXCEPT !.again = @ \/ inner.again], Called(t))
MangleType(m, t) ==
  CASE t.kind = "void" -> Put(m, <<Char("X")>>)
    [] t.kind = "float" -> Put(m, <<Char("M")>>)
    [] t.kind = "int" -> Put(m, <<Char("H")>>)
    [] t.kind = "number" -> Put(m, NumberTokens(t.n))
    [] t.kind = "struct" -> MangleScope(MangleName(Put(m, <<Char("U")>>), <<t.name>>), t.scope)
    [] t.kind = "class" /\ Contains(m.names, Called(t)) ->
         Put(Refer(Put(m, <<Char("V")>>), Called(t)), <<Char("@")>>)
    [] t.kind = "class" /\ ~Contains(m.names, Called(t)) ->
         Put(WithTemplate(Put(m, <<Char("V")>>), t, MangleTemplate(t)), <<Char("@")>>)

\* Parameter types of more than one character are remembered, up to ten of them.
Short(t) == t.kind \in {"void", "float", "int"}
MangleParameter(m, t) ==
  IF Contains(m.types, t) THEN Put(m, <<Digit(Position(t, m.types) - 1)>>)
  ELSE IF Short(t) \/ Len(m.types) = 10 THEN MangleType(m, t)
  ELSE [MangleType(m, t) EXCEPT !.types = Append(@, t)]

Returned(m, t) == MangleType(Put(m, IF Short(t) THEN << >> ELSE <<Char("?"), Char("A")>>), t)
Taken(m, types) ==
  IF types = << >> THEN Put(m, <<Char("X"), Char("Z")>>)
  ELSE Put(FoldLeft(MangleParameter, m, types), <<Char("@"), Char("Z")>>)
Mangle(d) ==
  LET named == MangleScope(MangleName(Put(Fresh, <<Char("\\01"), Char("?")>>), <<d.name>>), d.scope)
  IN  Taken(Returned(Put(named, <<Char("Y"), Char("A")>>), d.returnType), d.parameterTypes)

-------------------------------------------------------------------------------
(* When the reading is right *)

RECURSIVE Within(_)
Within(t) == {t} \cup UNION {Within(t.args[k]) : k \in DOMAIN t.args}
TypesIn(d) == UNION {Within(t) : t \in Range(d.parameterTypes) \cup {d.returnType}}

Supported(d) ==
  \A t \in TypesIn(d) : t.kind # "int" /\ (t.kind = "number" => t.n <= 10)

\* What the code's own grammar cannot express: a type in a scope, the number ten.
OutsideGrammar(d) == \E t \in TypesIn(d) : t.scope # << >> \/ t.n = 10

\* A parameter that refers back to the type of an earlier one, with one before
\* it that the mangler does not count and demangleTypeList does.
TypesMiscounted(d) ==
  \E i, j, k \in DOMAIN d.parameterTypes :
    /\ i < j /\ j < k
    /\ d.parameterTypes[j] = d.parameterTypes[k] /\ ~Short(d.parameterTypes[k])
    /\ \A h \in 1 .. j - 1 : d.parameterTypes[h] # d.parameterTypes[j]
    /\ Short(d.parameterTypes[i]) \/ \E h \in 1 .. i - 1 : d.parameterTypes[h] = d.parameterTypes[i]

\* A name is referred back to, and a template has named arguments: these are
\* counted apart by the mangler and with the others by the demangler.
NamesMiscounted(d, m) ==
  /\ m.again
  /\ \E t \in TypesIn(d) : \E a \in Range(t.args) : a.kind \in {"struct", "class"}

TypesRead(d, r) ==
  /\ r.returnType = Called(d.returnType)
  /\ r.parameterTypes = [k \in DOMAIN d.parameterTypes |-> Called(d.parameterTypes[k])]

\* Hazards generateCPP.cpp:109 and :153.  A declaration whose types the
\* demangler knows, and no other, is given a signature; no back reference leaves
\* its vector; the signature has the function's name; and its types are those
\* declared exactly but for types outside the grammar, and for back references
\* that are counted otherwise than they were written: those to parameters
\* always, those to names in some cases.
ReadsAsDeclared(d, m, r) ==
  /\ ~r.outOfRange
  /\ r.known <=> Supported(d)
  /\ r.known =>
       /\ r.name = InScope(d.name, d.scope)
       /\ OutsideGrammar(d) \/ TypesMiscounted(d) => ~TypesRead(d, r)
       /\ TypesRead(d, r) \/ OutsideGrammar(d) \/ TypesMiscounted(d) \/ NamesMiscounted(d, m)
================================================================================
