---------------------------- MODULE MCIncludeExport ----------------------------
EXTENDS IncludeExport, SequencesExt

\* Up to three items in the source file, two and one in the files it includes:
\* nesting, repeated and cyclic includes, exports before and after each.
MCSources ==
  {[body |-> (Root :> r @@ "a" :> a @@ "b" :> b), defined |-> d] :
     r \in SeqOf(Item, 3), a \in SeqOf(Item, 2), b \in SeqOf(Item, 1), d \in BOOLEAN}
================================================================================
