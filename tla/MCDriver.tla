------------------------------- MODULE MCDriver -------------------------------
EXTENDS Driver

Words == {"-g", "-I", "-T", "-E", "-CPP", "-HLSL", "-GLSL", "-SPIRV", "w"}

MCWord == Words \cup {"", "main", "src", "dir", "ps_6_2", "vs_6_2", "-GLSLES",
                    "VS", "aVS", "bVS", "aPS"}

UpTo(n) == UNION {[1 .. k -> Words] : k \in 0 .. n}
After(prefix, tails) == {prefix \o t : t \in tails}

\* Too few arguments, every command line of up to three words, and those with
\* a profile and two more words: enough for two targets, two operands, or a
\* target after an operand that looks like one.
MCArgvs ==
  {<< >>, <<"src">>}
    \cup After(<<"src", "dir">>, UpTo(3))
    \cup After(<<"src", "dir", "-T", "ps_6_2">>, UpTo(2))
    \cup {<<"src", "dir", "-T", "vs_6_2", "-GLSLES", "-E", "VS", "-SPIRV">>}

\* No entry point, one of each kind, and two of one kind.
MCExports ==
  {[vs |-> << >>, ps |-> << >>],
   [vs |-> <<"aVS">>, ps |-> <<"aPS">>],
   [vs |-> <<"aVS", "bVS">>, ps |-> << >>]}
===============================================================================
