--------------------------- MODULE ControlFlowProofs ---------------------------
(***************************************************************************)
(* The dominators of every function, and the places of its variables.      *)
(*                                                                         *)
(* The blocks that the walk has entered and not yet numbered are on its    *)
(* stack, each above the block that leads to it; so a numbered block has   *)
(* an open edge into it, and what is reached from the entry has a number.  *)
(* Meeting the predecessors of each block in post order then gives a tree, *)
(* and where no edge leads back past a block's dominators the ancestors in *)
(* the tree are the dominators.                                            *)
(*                                                                         *)
(* A variable is declared in the common dominator of its uses, or in the   *)
(* first block of the outermost loop around it; and what is declared below *)
(* a loop that is around no other cannot be come back to from a use.       *)
(***************************************************************************)
EXTENDS VariableScope, SpirvParserProofs, Recursion

-------------------------------------------------------------------------------
(* What can be reached *)

\* Edges do not lead out of a set, but to the block that is avoided.
Follows(edges, S, avoided) == \A e \in edges : e[1] \in S /\ e[2] # avoided => e[2] \in S

\* A chain of growing sets of blocks stands still before there are no more blocks.
IsChain(f, N, B, Step) ==
  /\ Step \in [SUBSET B -> SUBSET B] /\ \A S \in SUBSET B : S \subseteq Step[S]
  /\ f \in [0 .. N -> SUBSET B] /\ \A n \in 1 .. N : f[n] = Step[f[n - 1]]
LEMMA GrowsToEnd ==
  ASSUME NEW B, IsFiniteSet(B), NEW N, N = Cardinality(B), NEW f, NEW Step, IsChain(f, N, B, Step)
  PROVE  Step[f[N]] = f[N]
  <1> USE DEF IsChain
  <1>1. N \in Nat
    BY FS_CardinalityType
  <1> DEFINE T == {n \in 0 .. N : Step[f[n]] = f[n] \/ Cardinality(f[n]) >= n}
  <1>2. 0 \in T
    BY <1>1, FS_CardinalityType, FS_Subset
  <1>3. ASSUME NEW n \in 1 .. N, n - 1 \in T PROVE n \in T
    <2>0. n - 1 \in 0 .. N /\ n \in 0 .. N
      BY <1>1
    <2>1. f[n - 1] \in SUBSET B /\ f[n] \in SUBSET B /\ f[n] = Step[f[n - 1]] /\ f[n - 1] \subseteq f[n]
      BY <2>0
    <2>2. CASE f[n] = f[n - 1]
      <3>1. Step[f[n]] = f[n]
        BY <2>1, <2>2
      <3> QED
        BY <3>1, <2>0
    <2>3. CASE f[n] # f[n - 1]
      <3>1. IsFiniteSet(f[n - 1]) /\ IsFiniteSet(f[n])
        BY <2>1, FS_Subset
      <3>2. Cardinality(f[n - 1]) < Cardinality(f[n])
        <4>1. f[n - 1] \in SUBSET f[n]
          BY <2>1
        <4>2. /\ Cardinality(f[n - 1]) <= Cardinality(f[n])
              /\ Cardinality(f[n]) = Cardinality(f[n - 1]) => f[n] = f[n - 1]
          BY <3>1, <4>1, FS_Subset
        <4>3. Cardinality(f[n - 1]) \in Nat /\ Cardinality(f[n]) \in Nat
          BY <3>1, FS_CardinalityType
        <4> QED
          BY <2>3, <4>2, <4>3
      <3>3. Cardinality(f[n - 1]) \in Nat /\ Cardinality(f[n]) \in Nat
        BY <3>1, FS_CardinalityType
      <3>4. Cardinality(f[n - 1]) >= n - 1
        BY <1>3, <2>1, <2>3
      <3>5. Cardinality(f[n]) >= n
        BY <3>2, <3>3, <3>4, <1>1
      <3> QED
        BY <3>5, <2>0
    <2> QED
      BY <2>2, <2>3
  <1>4. N \in T
    <2> HIDE DEF T
    <2>1. 0 .. N \subseteq T
      BY <1>1, <1>2, <1>3, InductTo
    <2> QED
      BY <2>1, <1>1
  <1>5. CASE Cardinality(f[N]) >= N
    <2>1. f[N] \in SUBSET B
      BY <1>1
    <2>2. f[N] = B
      <3>1. IsFiniteSet(f[N])
        BY <2>1, FS_Subset
      <3>2. Cardinality(f[N]) \in Nat /\ Cardinality(f[N]) <= N /\ (f[N] # B => Cardinality(f[N]) < N)
        BY <2>1, <3>1, FS_Subset, FS_CardinalityType
      <3> QED
        BY <3>2, <1>1, <1>5
    <2> QED
      BY <2>1, <2>2
  <1> QED
    BY <1>4, <1>5

LEMMA ReachesLeast ==
  ASSUME IsFiniteSet(DOMAIN blocks), NEW edges, NEW from \in SUBSET DOMAIN blocks, NEW avoided,
         \A e \in edges : e[2] \in DOMAIN blocks
  PROVE  LET r == Reaches(edges, from, avoided)
         IN  /\ r \in SUBSET DOMAIN blocks /\ from \ {avoided} \subseteq r /\ avoided \notin r
             /\ Follows(edges, r, avoided)
             /\ \A T : from \ {avoided} \subseteq T /\ Follows(edges, T, avoided) => r \subseteq T
  <1> DEFINE B == DOMAIN blocks
             N == Cardinality(B)
             Next(S) == S \cup {e[2] : e \in {d \in edges : d[1] \in S /\ d[2] # avoided}}
             Step == [S \in SUBSET B |-> Next(S)]
             E(up, n) == IF n = 0 THEN from \ {avoided} ELSE Next(up[n - 1])
             fixed(up) == up = [n \in 0 .. N |-> E(up, n)]
             f == CHOOSE up : fixed(up)
  <1>1. Reaches(edges, from, avoided) = f[N]
    BY DEF Reaches
  <1>2. N \in Nat
    BY FS_CardinalityType
  <1>3. \A S \in SUBSET B : Next(S) \in SUBSET B /\ S \subseteq Next(S)
    OBVIOUS
  <1>4. Step \in [SUBSET B -> SUBSET B] /\ \A S \in SUBSET B : Step[S] = Next(S)
    BY <1>3
  <1>5. \E up : fixed(up)
    <2> DEFINE H == [n \in 1 .. N |-> Step]
    <2>1. H \in [1 .. N -> [SUBSET B -> SUBSET B]]
      BY <1>4
    <2>2. PICK g \in [0 .. N -> SUBSET B] : g[0] = from \ {avoided} /\ \A n \in 1 .. N : g[n] = H[n][g[n - 1]]
      <3> DEFINE first == from \ {avoided}
                 Values == SUBSET B
      <3>1. first \in Values
        OBVIOUS
      <3>2. H \in [1 .. N -> [Values -> Values]]
        BY <2>1
      <3> HIDE DEF H, N, Values, first
      <3>3. PICK g : IsList(g, N, Values, first, H)
        BY <1>2, <3>1, <3>2, Unfolds
      <3> QED
        BY <3>3 DEF first, Values, IsList
    <2>3. ASSUME NEW n \in 0 .. N PROVE g[n] = E(g, n)
      <3>1. CASE n = 0
        BY <2>2, <3>1
      <3>2. CASE n # 0
        <4>1. n \in 1 .. N /\ n - 1 \in 0 .. N
          BY <1>2, <3>2
        <4>2. g[n] = Step[g[n - 1]] /\ g[n - 1] \in SUBSET B
          BY <2>2, <4>1
        <4> HIDE DEF Step, Next
        <4> QED
          BY <1>4, <3>2, <4>2
      <3> QED
        BY <3>1, <3>2
    <2>4. fixed(g)
      <3> HIDE DEF E
      <3> QED
        BY <2>2, <2>3
    <2> QED
      BY <2>4
  <1>6. f = [n \in 0 .. N |-> E(f, n)]
    <2> HIDE DEF E
    <2> QED
      BY <1>5
  <1> HIDE DEF f
  <1>7. f[0] = from \ {avoided} /\ \A n \in 1 .. N : f[n] = Next(f[n - 1])
    <2>1. f[0] = E(f, 0)
      <3> HIDE DEF E
      <3> QED
        BY <1>2, <1>6
    <2>2. ASSUME NEW n \in 1 .. N PROVE f[n] = E(f, n)
      <3>1. n \in 0 .. N
        OBVIOUS
      <3> HIDE DEF E
      <3> QED
        BY <1>6, <3>1
    <2> HIDE DEF Next
    <2> QED
      BY <1>2, <2>1, <2>2
  <1> HIDE DEF N, B, Next
  <1>8. 0 .. N \subseteq {n \in 0 .. N : f[n] \in SUBSET B}
    <2> DEFINE T == {n \in 0 .. N : f[n] \in SUBSET B}
    <2>1. 0 \in T
      BY <1>2, <1>7 DEF B
    <2>2. ASSUME NEW n \in 1 .. N, n - 1 \in T PROVE n \in T
      BY <1>2, <1>3, <1>7, <2>2
    <2> HIDE DEF T
    <2>3. 0 .. N \subseteq T
      BY <1>2, <2>1, <2>2, InductTo
    <2> QED
      BY <2>3 DEF T
  <1>9. f \in [0 .. N -> SUBSET B]
    BY <1>6, <1>8
  <1>10. Next(f[N]) = f[N]
    <2>1. \A n \in 1 .. N : f[n - 1] \in SUBSET B /\ f[n] = Step[f[n - 1]] /\ f[n - 1] \subseteq f[n]
      <3> TAKE n \in 1 .. N
      <3>1. n - 1 \in 0 .. N
        BY <1>2
      <3> HIDE DEF Step
      <3> QED
        BY <1>3, <1>4, <1>7, <1>9, <3>1
    <2>2. Step[f[N]] = f[N]
      <3> HIDE DEF Step
      <3>1. IsFiniteSet(B) /\ N = Cardinality(B)
        BY DEF B, N
      <3>2. \A S \in SUBSET B : S \subseteq Step[S]
        BY <1>3, <1>4
      <3>3. \A n \in 1 .. N : f[n] = Step[f[n - 1]]
        BY <2>1
      <3>5. Step \in [SUBSET B -> SUBSET B]
        BY <1>4
      <3> QED
        <4>1. IsChain(f, N, B, Step)
          BY <1>9, <3>2, <3>3, <3>5 DEF IsChain
        <4> QED
          BY <3>1, <4>1, GrowsToEnd
    <2> HIDE DEF Step
    <2> QED
      BY <1>2, <1>4, <1>9, <2>2
  <1>11. ASSUME NEW T, from \ {avoided} \subseteq T, Follows(edges, T, avoided) PROVE f[N] \subseteq T
    <2> DEFINE I == {n \in 0 .. N : f[n] \subseteq T}
    <2>1. 0 \in I
      BY <1>2, <1>7, <1>11
    <2>2. ASSUME NEW n \in 1 .. N, n - 1 \in I PROVE n \in I
      <3>1. f[n] = Next(f[n - 1]) /\ f[n - 1] \subseteq T
        BY <1>7, <2>2
      <3>2. Next(f[n - 1]) \subseteq T
        BY <1>11, <3>1 DEF Next, Follows
      <3> QED
        BY <3>1, <3>2
    <2> HIDE DEF I
    <2>3. 0 .. N \subseteq I
      BY <1>2, <2>1, <2>2, InductTo
    <2> QED
      BY <1>2, <2>3 DEF I
  <1>12. avoided \notin f[N]
    <2> DEFINE T == B \ {avoided}
    <2>1. from \ {avoided} \subseteq T /\ Follows(edges, T, avoided)
      BY DEF B, Follows
    <2> QED
      BY <1>11, <2>1
  <1>13. from \ {avoided} \subseteq f[N] /\ Follows(edges, f[N], avoided)
    <2>1. Follows(edges, f[N], avoided)
      BY <1>10 DEF Next, Follows
    <2> DEFINE I == {n \in 0 .. N : from \ {avoided} \subseteq f[n]}
    <2>2. 0 \in I
      BY <1>2, <1>7
    <2>3. ASSUME NEW n \in 1 .. N, n - 1 \in I PROVE n \in I
      BY <1>7, <2>3 DEF Next
    <2> HIDE DEF I
    <2>4. 0 .. N \subseteq I
      BY <1>2, <2>2, <2>3, InductTo
    <2> QED
      BY <1>2, <2>1, <2>4 DEF I
  <1>14. f[N] \in SUBSET B
    BY <1>2, <1>9
  <1> QED
    BY <1>1, <1>11, <1>12, <1>13, <1>14 DEF B

-------------------------------------------------------------------------------
(* The graph that the walk leaves behind *)

Resolved == DOMAIN visit_order
Succ(b) == Range(EdgesOf(succeeding_edges, b))
Pred(b) == Range(EdgesOf(preceding_edges, b))

\* Blocks have the numbers of their places.
Numbered ==
  /\ post_order \in Seq(Resolved)
  /\ visit_order \in [Resolved -> 1 .. Len(post_order)]
  /\ \A k \in 1 .. Len(post_order) : visit_order[post_order[k]] = k
  /\ \A b \in Resolved : post_order[visit_order[b]] = b

\* Edges lead to what was resolved before, and are known at both of their ends.
EdgesForward ==
  /\ DOMAIN preceding_edges \subseteq Resolved
  /\ \A b \in DOMAIN preceding_edges : preceding_edges[b] \in Seq(Resolved)
  /\ \A a \in Resolved : \A b \in Succ(a) : b \in Resolved /\ visit_order[b] < visit_order[a]
  /\ \A a, b \in Resolved : a \in Pred(b) <=> b \in Succ(a)

\* The walk is over: the entry block came last, all other blocks have an edge that
\* leads to them, and nothing leads to a block that was not resolved.
WalkedWhole ==
  /\ IsFiniteSet(DOMAIN blocks) /\ DOMAIN blocks \subseteq Block /\ Resolved \subseteq DOMAIN blocks
  /\ Numbered /\ EdgesForward
  /\ entry_block \in Resolved /\ visit_order[entry_block] = Len(post_order)
  /\ \A b \in Resolved : b # entry_block => Pred(b) # {}
  /\ \A b \in Resolved : Range(Targets(b)) \subseteq Resolved

ForwardFlow == {e \in Resolved \X Resolved : e[2] \in Succ(e[1])}
Around(a) == Reaches(ForwardFlow, {entry_block}, a)

\* The blocks that every way to a block goes through, on the edges of the walk.
Doms(b) == {a \in Resolved : b \notin Around(a)}

LEMMA AroundLeast ==
  ASSUME WalkedWhole, NEW a
  PROVE  /\ Around(a) \subseteq Resolved /\ a \notin Around(a)
         /\ entry_block # a => entry_block \in Around(a)
         /\ Follows(ForwardFlow, Around(a), a)
         /\ \A T : (entry_block # a => entry_block \in T) /\ Follows(ForwardFlow, T, a) => Around(a) \subseteq T
  <1>1. {entry_block} \in SUBSET DOMAIN blocks /\ \A e \in ForwardFlow : e[2] \in DOMAIN blocks
    BY DEF WalkedWhole, ForwardFlow
  <1> DEFINE r == Reaches(ForwardFlow, {entry_block}, a)
  <1>2. /\ {entry_block} \ {a} \subseteq r /\ a \notin r /\ Follows(ForwardFlow, r, a)
        /\ \A T : {entry_block} \ {a} \subseteq T /\ Follows(ForwardFlow, T, a) => r \subseteq T
    <2>1. IsFiniteSet(DOMAIN blocks)
      BY DEF WalkedWhole
    <2> HIDE DEF r
    <2> QED
      BY <1>1, <2>1, ReachesLeast DEF r
  <1> HIDE DEF r
  <1>3. r = Around(a)
    BY DEF r, Around
  <1>4. Follows(ForwardFlow, Resolved, a) /\ entry_block \in Resolved
    BY DEF Follows, ForwardFlow, WalkedWhole
  <1> QED
    BY <1>2, <1>3, <1>4

\* Places are numbers, and no two blocks have the same.
LEMMA Places ==
  ASSUME WalkedWhole
  PROVE  /\ Len(post_order) \in Nat
         /\ \A b \in Resolved : visit_order[b] \in 1 .. Len(post_order)
         /\ \A a, b \in Resolved : visit_order[a] = visit_order[b] => a = b
         /\ \A b \in Resolved : b # entry_block => visit_order[b] < visit_order[entry_block]
         /\ visit_order \in [Resolved -> 0 .. Len(post_order)]
  <1>1. Numbered /\ entry_block \in Resolved /\ visit_order[entry_block] = Len(post_order)
    BY DEF WalkedWhole
  <1>2. Len(post_order) \in Nat
    BY <1>1 DEF Numbered
  <1>3. \A b \in Resolved : visit_order[b] \in 1 .. Len(post_order)
    BY <1>1 DEF Numbered
  <1>4. \A a, b \in Resolved : visit_order[a] = visit_order[b] => a = b
    BY <1>1 DEF Numbered
  <1>5. \A b \in Resolved : b # entry_block => visit_order[b] < visit_order[entry_block]
    <2> SUFFICES ASSUME NEW b \in Resolved, b # entry_block PROVE visit_order[b] < visit_order[entry_block]
      OBVIOUS
    <2>1. visit_order[b] # visit_order[entry_block]
      BY <1>1, <1>4
    <2> QED
      BY <1>1, <1>2, <1>3, <2>1
  <1>6. visit_order \in [Resolved -> 0 .. Len(post_order)]
    <2>1. 1 .. Len(post_order) \subseteq 0 .. Len(post_order)
      BY <1>2
    <2> QED
      BY <1>1, <2>1 DEF Numbered
  <1> QED
    BY <1>2, <1>3, <1>4, <1>5, <1>6

LEMMA DomsOfEntry ==
  ASSUME WalkedWhole
  PROVE  Doms(entry_block) = {entry_block}
  BY AroundLeast DEF Doms, WalkedWhole

\* The entry block aside, a block is dominated by itself and by what dominates all
\* blocks before it.
LEMMA DomsOfOther ==
  ASSUME WalkedWhole, NEW b \in Resolved, b # entry_block
  PROVE  Doms(b) = {b} \cup {a \in Resolved : \A p \in Pred(b) : a \in Doms(p)}
  <1>1. Pred(b) \subseteq Resolved /\ \A p \in Pred(b) : <<p, b>> \in ForwardFlow
    <2>1. EdgesOf(preceding_edges, b) \in Seq(Resolved)
      BY DEF EdgesOf, WalkedWhole, EdgesForward
    <2>2. Pred(b) \subseteq Resolved
      BY <2>1 DEF Pred, Range
    <2> QED
      BY <2>2 DEF ForwardFlow, WalkedWhole, EdgesForward
  <1>2. \A p \in Resolved : <<p, b>> \in ForwardFlow => p \in Pred(b)
    BY DEF ForwardFlow, WalkedWhole, EdgesForward
  <1>3. b \in Doms(b)
    BY AroundLeast DEF Doms
  <1>4. ASSUME NEW a \in Doms(b), a # b, NEW p \in Pred(b) PROVE a \in Doms(p)
    <2>1. Follows(ForwardFlow, Around(a), a)
      BY AroundLeast
    <2>2. p \notin Around(a)
      BY <1>1, <1>4, <2>1 DEF Doms, Follows
    <2> QED
      BY <2>2 DEF Doms
  <1>5. ASSUME NEW a \in Resolved, a # b, \A p \in Pred(b) : a \in Doms(p) PROVE a \in Doms(b)
    <2> DEFINE T == Around(a) \ {b}
    <2>1. /\ Around(a) \subseteq Resolved
          /\ entry_block # a => entry_block \in Around(a)
          /\ Follows(ForwardFlow, Around(a), a)
      BY AroundLeast
    <2>2. Follows(ForwardFlow, T, a)
      <3> SUFFICES ASSUME NEW e \in ForwardFlow, e[1] \in T, e[2] # a PROVE e[2] \in T
        BY DEF Follows
      <3>1. e[2] \in Around(a)
        BY <2>1 DEF Follows
      <3>2. e[2] # b
        <4> SUFFICES ASSUME e[2] = b PROVE FALSE
          OBVIOUS
        <4>1. e = <<e[1], b>> /\ e[1] \in Resolved
          BY DEF ForwardFlow
        <4>2. e[1] \in Pred(b)
          BY <1>2, <4>1
        <4> QED
          BY <1>5, <4>2 DEF Doms
      <3> QED
        BY <3>1, <3>2
    <2>3. entry_block # a => entry_block \in T
      BY <2>1
    <2>4. Around(a) \subseteq T
      <3> HIDE DEF T
      <3> QED
        BY <2>2, <2>3, AroundLeast
    <2> QED
      BY <2>4 DEF Doms
  <1>6. Doms(b) \subseteq Resolved
    BY DEF Doms
  <1> QED
    BY <1>3, <1>4, <1>5, <1>6

LEMMA PredBefore ==
  ASSUME WalkedWhole, NEW b \in Resolved
  PROVE  \A p \in Pred(b) : p \in Resolved /\ visit_order[p] > visit_order[b]
  <1>1. EdgesOf(preceding_edges, b) \in Seq(Resolved)
    BY DEF EdgesOf, WalkedWhole, EdgesForward
  <1>2. Pred(b) \subseteq Resolved
    BY <1>1 DEF Pred, Range
  <1>3. \A p \in Pred(b) : visit_order[b] < visit_order[p]
    BY <1>2 DEF WalkedWhole, EdgesForward
  <1>4. \A p \in Resolved : visit_order[p] \in Nat
    BY Places
  <1> QED
    BY <1>2, <1>3, <1>4

\* What dominates a block is itself or comes later in the order.
LEMMA DomsAbove ==
  ASSUME WalkedWhole
  PROVE  \A b \in Resolved : \A a \in Doms(b) : a \in Resolved /\ (a = b \/ visit_order[a] > visit_order[b])
  <1> DEFINE S == {b \in Resolved : \A a \in Doms(b) : a = b \/ visit_order[a] > visit_order[b]}
  <1>1. ASSUME NEW b \in Resolved, \A p \in Resolved : visit_order[p] > visit_order[b] => p \in S
        PROVE  b \in S
    <2>1. CASE b = entry_block
      BY <2>1, DomsOfEntry
    <2>2. CASE b # entry_block
      <3>1. Doms(b) = {b} \cup {a \in Resolved : \A p \in Pred(b) : a \in Doms(p)}
        BY <2>2, DomsOfOther
      <3>2. PICK p \in Pred(b) : TRUE
        BY <2>2 DEF WalkedWhole
      <3>3. p \in Resolved /\ visit_order[p] > visit_order[b] /\ p \in S
        BY <1>1, <3>2, PredBefore
      <3>4. \A a \in Resolved : visit_order[a] \in Nat
        BY Places
      <3>5. ASSUME NEW a \in Doms(b), a # b PROVE visit_order[a] > visit_order[b]
        <4>1. a \in Resolved /\ a \in Doms(p)
          BY <3>1, <3>5
        <4>2. a = p \/ visit_order[a] > visit_order[p]
          BY <3>3, <4>1
        <4> QED
          BY <3>3, <3>4, <4>1, <4>2
      <3> QED
        BY <3>5
    <2> QED
      BY <2>1, <2>2
  <1>2. Resolved \subseteq S
    <2> HIDE DEF S
    <2>1. visit_order \in [Resolved -> 0 .. Len(post_order)] /\ Len(post_order) \in Nat
      BY Places
    <2> QED
      BY <1>1, <2>1, InductDown
  <1> QED
    BY <1>2 DEF Doms

\* Every block can be reached on the edges of the walk.
LEMMA AllAround ==
  ASSUME WalkedWhole
  PROVE  Around(0) = Resolved
  <1>1. /\ Around(0) \subseteq Resolved /\ Follows(ForwardFlow, Around(0), 0)
        /\ entry_block # 0 => entry_block \in Around(0)
    BY AroundLeast
  <1>2. 0 \notin Resolved
    BY BlockAssumption DEF WalkedWhole
  <1>3. ASSUME NEW b \in Resolved, \A p \in Resolved : visit_order[p] > visit_order[b] => p \in Around(0)
        PROVE  b \in Around(0)
    <2>1. CASE b = entry_block
      BY <1>1, <1>2, <2>1
    <2>2. CASE b # entry_block
      <3>1. PICK p \in Pred(b) : TRUE
        BY <2>2 DEF WalkedWhole
      <3>2. p \in Resolved /\ p \in Around(0)
        BY <1>3, <3>1, PredBefore
      <3>3. <<p, b>> \in ForwardFlow
        BY <3>1, <3>2 DEF ForwardFlow, WalkedWhole, EdgesForward
      <3> QED
        BY <1>1, <1>2, <3>2, <3>3 DEF Follows
    <2> QED
      BY <2>1, <2>2
  <1>4. Resolved \subseteq Around(0)
    <2>1. visit_order \in [Resolved -> 0 .. Len(post_order)] /\ Len(post_order) \in Nat
      BY Places
    <2> QED
      BY <1>3, <2>1, InductDown
  <1> QED
    BY <1>1, <1>4

-------------------------------------------------------------------------------
(* The common dominator *)

LEMMA DomsDiffer ==
  ASSUME WalkedWhole, NEW a \in Resolved, NEW b \in Resolved
  PROVE  a \in Doms(a) /\ (Doms(a) = Doms(b) => a = b)
  <1>1. a \in Doms(a) /\ b \in Doms(b)
    BY AroundLeast DEF Doms
  <1>2. visit_order[a] \in Nat /\ visit_order[b] \in Nat
    BY Places
  <1> QED
    BY <1>1, <1>2, DomsAbove

\* A tree of dominators of some blocks.
IsTree(d) ==
  /\ DOMAIN d \subseteq Resolved /\ d \in [DOMAIN d -> DOMAIN d]
  /\ entry_block \in DOMAIN d /\ d[entry_block] = entry_block
  /\ \A b \in DOMAIN d : b # entry_block => Doms(b) = {b} \cup Doms(d[b]) /\ visit_order[d[b]] > visit_order[b]

\* Of two blocks the one that was resolved first has a dominator that the other
\* may share, and does not dominate the other.
LEMMA MeetAbove ==
  ASSUME WalkedWhole, NEW d, IsTree(d), NEW a \in DOMAIN d, NEW b \in DOMAIN d, visit_order[a] < visit_order[b]
  PROVE  /\ d[a] \in DOMAIN d /\ visit_order[d[a]] > visit_order[a]
         /\ Doms(a) \cap Doms(b) = Doms(d[a]) \cap Doms(b)
  <1>1. a \in Resolved /\ b \in Resolved
    BY DEF IsTree
  <1>2. \A c \in Resolved : visit_order[c] \in Nat
    BY Places
  <1>3. a # entry_block
    <2> SUFFICES ASSUME a = entry_block PROVE FALSE
      OBVIOUS
    <2>1. b = entry_block \/ visit_order[b] < visit_order[entry_block]
      BY <1>1, Places
    <2> QED
      BY <1>1, <1>2, <2>1
  <1>4. Doms(a) = {a} \cup Doms(d[a]) /\ visit_order[d[a]] > visit_order[a] /\ d[a] \in DOMAIN d
    BY <1>3 DEF IsTree
  <1>5. a \notin Doms(b)
    BY <1>1, <1>2, DomsAbove
  <1> QED
    BY <1>4, <1>5

\* Pairs of blocks, by the sum of their places.
LEMMA InductOnPairs ==
  ASSUME WalkedWhole, NEW D \in SUBSET Resolved, NEW S,
         \A a, b \in D :
           (\A x, y \in D : visit_order[x] + visit_order[y] > visit_order[a] + visit_order[b] => <<x, y>> \in S)
             => <<a, b>> \in S
  PROVE  \A a, b \in D : <<a, b>> \in S
  <1> DEFINE N == Len(post_order) + Len(post_order)
             Q == D \X D
             o == [q \in Q |-> visit_order[q[1]] + visit_order[q[2]]]
  <1>1. Len(post_order) \in Nat /\ \A b \in Resolved : visit_order[b] \in 1 .. Len(post_order)
    BY Places
  <1>2. N \in Nat /\ o \in [Q -> 0 .. N]
    <2>1. \A q \in Q : visit_order[q[1]] + visit_order[q[2]] \in 0 .. N
      BY <1>1
    <2> QED
      BY <1>1, <2>1
  <1>3. \A a, b \in D : <<a, b>> \in Q /\ o[<<a, b>>] = visit_order[a] + visit_order[b]
    OBVIOUS
  <1>4. ASSUME NEW q \in Q, \A p \in Q : o[p] > o[q] => p \in S PROVE q \in S
    <2>1. PICK a \in D, b \in D : q = <<a, b>>
      OBVIOUS
    <2>2. ASSUME NEW x \in D, NEW y \in D, visit_order[x] + visit_order[y] > visit_order[a] + visit_order[b]
          PROVE  <<x, y>> \in S
      <3> HIDE DEF Q, o
      <3> QED
        BY <1>3, <1>4, <2>1, <2>2
    <2> QED
      BY <2>1, <2>2
  <1>5. Q \subseteq S
    <2> HIDE DEF Q, o, N
    <2> QED
      BY <1>2, <1>4, InductDown
  <1> QED
    BY <1>3, <1>5

LEMMA MeetExists ==
  ASSUME WalkedWhole, NEW d, IsTree(d)
  PROVE  \A a, b \in DOMAIN d : \E c \in DOMAIN d : Doms(c) = Doms(a) \cap Doms(b)
  <1> DEFINE D == DOMAIN d
             S == {q \in D \X D : \E c \in D : Doms(c) = Doms(q[1]) \cap Doms(q[2])}
  <1>1. D \in SUBSET Resolved
    BY DEF IsTree
  <1>2. \A c \in D : visit_order[c] \in Nat
    BY <1>1, Places
  <1>3. ASSUME NEW a \in D, NEW b \in D,
               \A x, y \in D : visit_order[x] + visit_order[y] > visit_order[a] + visit_order[b] => <<x, y>> \in S
        PROVE  <<a, b>> \in S
    <2> SUFFICES \E c \in D : Doms(c) = Doms(a) \cap Doms(b)
      OBVIOUS
    <2>1. CASE a = b
      BY <2>1
    <2>2. CASE visit_order[a] < visit_order[b]
      <3>1. /\ d[a] \in D /\ visit_order[d[a]] > visit_order[a]
            /\ Doms(a) \cap Doms(b) = Doms(d[a]) \cap Doms(b)
        BY <2>2, MeetAbove
      <3>2. visit_order[d[a]] + visit_order[b] > visit_order[a] + visit_order[b]
        BY <1>2, <3>1
      <3>3. <<d[a], b>> \in S
        <4> HIDE DEF S
        <4> QED
          BY <1>3, <3>1, <3>2
      <3> QED
        BY <3>1, <3>3
    <2>3. CASE visit_order[b] < visit_order[a]
      <3>1. /\ d[b] \in D /\ visit_order[d[b]] > visit_order[b]
            /\ Doms(b) \cap Doms(a) = Doms(d[b]) \cap Doms(a)
        BY <2>3, MeetAbove
      <3>2. visit_order[a] + visit_order[d[b]] > visit_order[a] + visit_order[b]
        BY <1>2, <3>1
      <3>3. <<a, d[b]>> \in S
        <4> HIDE DEF S
        <4> QED
          BY <1>3, <3>1, <3>2
      <3> QED
        BY <3>1, <3>3
    <2>4. a = b \/ visit_order[a] # visit_order[b]
      BY <1>1, Places
    <2> QED
      BY <1>2, <2>1, <2>2, <2>3, <2>4
  <1>4. \A a, b \in D : <<a, b>> \in S
    <2> HIDE DEF S, D
    <2> QED
      BY <1>1, <1>3, InductOnPairs
  <1> QED
    BY <1>4

LEMMA CommonDominatorMeets ==
  ASSUME WalkedWhole, NEW d, IsTree(d), NEW x \in DOMAIN d, NEW y \in DOMAIN d
  PROVE  /\ CommonDominator(d, x, y) \in DOMAIN d
         /\ Doms(CommonDominator(d, x, y)) = Doms(x) \cap Doms(y)
  <1>0. \A a, b \in DOMAIN d : \E c \in DOMAIN d : Doms(c) = Doms(a) \cap Doms(b)
    BY MeetExists
  <1> DEFINE E(m, a, b) == IF a = b THEN a
                           ELSE IF visit_order[a] < visit_order[b] THEN m[<<d[a], b>>]
                           ELSE m[<<a, d[b]>>]
             fixed(m) == m = [q \in (DOMAIN d) \X (DOMAIN d) |-> E(m, q[1], q[2])]
             meet == CHOOSE m : fixed(m)
  <1>1. CommonDominator(d, x, y) = meet[<<x, y>>]
    BY DEF CommonDominator
  <1>2. DOMAIN d \in SUBSET Resolved /\ \A c \in DOMAIN d : visit_order[c] \in Nat
    BY Places DEF IsTree
  <1>3. \A a, b \in DOMAIN d : a # b => visit_order[a] # visit_order[b]
    BY <1>2, Places
  <1>4. \E m : fixed(m)
    <2> DEFINE Both(a, b) == CHOOSE c \in DOMAIN d : Doms(c) = Doms(a) \cap Doms(b)
               m == [q \in (DOMAIN d) \X (DOMAIN d) |-> Both(q[1], q[2])]
    <2>1. ASSUME NEW a \in DOMAIN d, NEW b \in DOMAIN d
          PROVE  Both(a, b) \in DOMAIN d /\ Doms(Both(a, b)) = Doms(a) \cap Doms(b)
      <3>1. \E c \in DOMAIN d : Doms(c) = Doms(a) \cap Doms(b)
        BY <1>0
      <3> QED
        BY <3>1
    <2>2. ASSUME NEW a \in DOMAIN d, NEW b \in DOMAIN d, NEW c \in DOMAIN d, Doms(c) = Doms(a) \cap Doms(b)
          PROVE  Both(a, b) = c
      <3>1. Both(a, b) \in DOMAIN d /\ Doms(Both(a, b)) = Doms(c)
        BY <2>1, <2>2
      <3> HIDE DEF Both
      <3> QED
        BY <1>2, <3>1, DomsDiffer
    <2> HIDE DEF Both
    <2>3. ASSUME NEW a \in DOMAIN d, NEW b \in DOMAIN d PROVE m[<<a, b>>] = Both(a, b)
      OBVIOUS
    <2>4. ASSUME NEW a \in DOMAIN d, NEW b \in DOMAIN d PROVE Both(a, b) = E(m, a, b)
      <3>1. CASE a = b
        BY <2>2, <3>1
      <3>2. CASE a # b /\ visit_order[a] < visit_order[b]
        <4>1. d[a] \in DOMAIN d /\ Doms(a) \cap Doms(b) = Doms(d[a]) \cap Doms(b)
          BY <3>2, MeetAbove
        <4>2. m[<<d[a], b>>] = Both(d[a], b) /\ Doms(Both(d[a], b)) = Doms(a) \cap Doms(b) /\ Both(d[a], b) \in DOMAIN d
          BY <2>1, <2>3, <4>1
        <4>3. Both(a, b) = Both(d[a], b)
          BY <2>2, <4>2
        <4> HIDE DEF m
        <4> QED
          BY <3>2, <4>2, <4>3
      <3>3. CASE a # b /\ ~(visit_order[a] < visit_order[b])
        <4>0. visit_order[b] < visit_order[a]
          BY <1>2, <1>3, <3>3
        <4>1. d[b] \in DOMAIN d /\ Doms(b) \cap Doms(a) = Doms(d[b]) \cap Doms(a)
          BY <4>0, MeetAbove
        <4>2. m[<<a, d[b]>>] = Both(a, d[b]) /\ Doms(Both(a, d[b])) = Doms(a) \cap Doms(b) /\ Both(a, d[b]) \in DOMAIN d
          BY <2>1, <2>3, <4>1
        <4>3. Both(a, b) = Both(a, d[b])
          BY <2>2, <4>2
        <4> HIDE DEF m
        <4> QED
          BY <3>3, <4>2, <4>3
      <3> QED
        BY <3>1, <3>2, <3>3
    <2>5. [q \in (DOMAIN d) \X (DOMAIN d) |-> Both(q[1], q[2])] = [q \in (DOMAIN d) \X (DOMAIN d) |-> E(m, q[1], q[2])]
      <3> HIDE DEF m, E
      <3> QED
        BY <2>4
    <2>6. fixed(m)
      <3> HIDE DEF E
      <3> QED
        BY <2>5
    <2> QED
      BY <2>6
  <1>5. fixed(meet)
    <2> HIDE DEF fixed
    <2> QED
      BY <1>4
  <1> HIDE DEF meet
  <1>6. ASSUME NEW a \in DOMAIN d, NEW b \in DOMAIN d PROVE meet[<<a, b>>] = E(meet, a, b)
    <2>1. meet = [q \in (DOMAIN d) \X (DOMAIN d) |-> E(meet, q[1], q[2])]
      BY <1>5
    <2> HIDE DEF E
    <2> QED
      BY <2>1
  <1> DEFINE S == {q \in (DOMAIN d) \X (DOMAIN d) : meet[<<q[1], q[2]>>] \in DOMAIN d /\ Doms(meet[<<q[1], q[2]>>]) = Doms(q[1]) \cap Doms(q[2])}
  <1>7. ASSUME NEW a \in DOMAIN d, NEW b \in DOMAIN d,
               \A s, t \in DOMAIN d : visit_order[s] + visit_order[t] > visit_order[a] + visit_order[b] => <<s, t>> \in S
        PROVE  <<a, b>> \in S
    <2> SUFFICES meet[<<a, b>>] \in DOMAIN d /\ Doms(meet[<<a, b>>]) = Doms(a) \cap Doms(b)
      OBVIOUS
    <2>1. CASE a = b
      BY <1>6, <2>1
    <2>2. CASE visit_order[a] < visit_order[b]
      <3>1. /\ d[a] \in DOMAIN d /\ visit_order[d[a]] > visit_order[a]
            /\ Doms(a) \cap Doms(b) = Doms(d[a]) \cap Doms(b)
        BY <2>2, MeetAbove
      <3>2. visit_order[d[a]] + visit_order[b] > visit_order[a] + visit_order[b]
        BY <1>2, <3>1
      <3>3. <<d[a], b>> \in S
        <4> HIDE DEF S
        <4> QED
          BY <1>7, <3>1, <3>2
      <3>4. meet[<<a, b>>] = meet[<<d[a], b>>]
        <4>1. a # b
          BY <1>2, <2>2
        <4> QED
          BY <1>6, <2>2, <4>1
      <3> QED
        BY <3>1, <3>3, <3>4
    <2>3. CASE visit_order[b] < visit_order[a]
      <3>1. /\ d[b] \in DOMAIN d /\ visit_order[d[b]] > visit_order[b]
            /\ Doms(b) \cap Doms(a) = Doms(d[b]) \cap Doms(a)
        BY <2>3, MeetAbove
      <3>2. visit_order[a] + visit_order[d[b]] > visit_order[a] + visit_order[b]
        BY <1>2, <3>1
      <3>3. <<a, d[b]>> \in S
        <4> HIDE DEF S
        <4> QED
          BY <1>7, <3>1, <3>2
      <3>4. meet[<<a, b>>] = meet[<<a, d[b]>>]
        <4>1. a # b /\ ~(visit_order[a] < visit_order[b])
          BY <1>2, <2>3
        <4> QED
          BY <1>6, <4>1
      <3> QED
        BY <3>1, <3>3, <3>4
    <2>4. a = b \/ visit_order[a] # visit_order[b]
      BY <1>3
    <2> QED
      BY <1>2, <2>1, <2>2, <2>3, <2>4
  <1>8. \A a, b \in DOMAIN d : <<a, b>> \in S
    <2> HIDE DEF S
    <2> QED
      BY <1>2, <1>7, InductOnPairs
  <1> QED
    BY <1>1, <1>8

-------------------------------------------------------------------------------
(* The tree of immediate dominators *)

\* Taken one after the other, the blocks before a block have their common
\* dominators.
LEMMA DominatingMeets ==
  ASSUME WalkedWhole, NEW d, IsTree(d), NEW edges \in Seq(DOMAIN d), edges # << >>
  PROVE  /\ Dominating(d, edges) \in DOMAIN d
         /\ Doms(Dominating(d, edges)) = {a \in Resolved : \A p \in Range(edges) : a \in Doms(p)}
  <1> DEFINE L == Len(edges)
             Meet(c, p) == CommonDominator(d, c, p)
             E(u, n) == IF n = 1 THEN edges[1] ELSE Meet(u[n - 1], edges[n])
             fixed(u) == u = [n \in 1 .. L |-> E(u, n)]
             common == CHOOSE u : fixed(u)
             Of(n) == {a \in Resolved : \A k \in 1 .. n : a \in Doms(edges[k])}
  <1>1. Dominating(d, edges) = common[L]
    BY DEF Dominating
  <1>2. L \in Nat /\ L >= 1 /\ \A n \in 1 .. L : edges[n] \in DOMAIN d
    OBVIOUS
  <1>3. \A c, p \in DOMAIN d : Meet(c, p) \in DOMAIN d /\ Doms(Meet(c, p)) = Doms(c) \cap Doms(p)
    BY CommonDominatorMeets
  <1> HIDE DEF Meet, L
  <1>4. \E u : fixed(u)
    <2> DEFINE D == DOMAIN d
               first == edges[1]
               H == [n \in 1 .. L - 1 |-> [c \in D |-> Meet(c, edges[n + 1])]]
    <2>1. first \in D /\ L - 1 \in Nat
      BY <1>2
    <2>2. H \in [1 .. L - 1 -> [D -> D]]
      <3>1. \A n \in 1 .. L - 1 : edges[n + 1] \in D
        BY <1>2
      <3> QED
        BY <1>3, <3>1
    <2>3. PICK g : IsList(g, L - 1, D, first, H)
      <3> HIDE DEF D, first, H
      <3> QED
        BY <2>1, <2>2, Unfolds
    <2>4. /\ g \in [0 .. L - 1 -> D] /\ g[0] = first
          /\ \A n \in 1 .. L - 1 : g[n] = H[n][g[n - 1]]
      BY <2>3 DEF IsList
    <2> DEFINE u == [n \in 1 .. L |-> g[n - 1]]
    <2>5. ASSUME NEW n \in 1 .. L PROVE g[n - 1] = E(u, n)
      <3>1. CASE n = 1
        BY <2>4, <3>1
      <3>2. CASE n # 1
        <4>1. n - 1 \in 1 .. L - 1 /\ n - 1 \in 1 .. L /\ (n - 1) - 1 \in 0 .. L - 1 /\ (n - 1) + 1 = n
          BY <1>2, <3>2
        <4>2. g[n - 1] = H[n - 1][g[(n - 1) - 1]]
          BY <2>4, <4>1
        <4>3. g[(n - 1) - 1] \in D
          BY <2>4, <4>1
        <4>4. H[n - 1][g[(n - 1) - 1]] = Meet(g[(n - 1) - 1], edges[n])
          <5> HIDE DEF D
          <5> QED
            BY <4>1, <4>3
        <4>5. u[n - 1] = g[(n - 1) - 1]
          BY <4>1
        <4> QED
          BY <3>2, <4>2, <4>4, <4>5
      <3> QED
        BY <3>1, <3>2
    <2>6. fixed(u)
      <3> HIDE DEF E
      <3> QED
        BY <2>5
    <2> QED
      BY <2>6
  <1>5. common = [n \in 1 .. L |-> E(common, n)]
    <2> HIDE DEF E
    <2> QED
      BY <1>4
  <1> HIDE DEF common
  <1>6. common[1] = edges[1] /\ \A n \in 2 .. L : common[n] = Meet(common[n - 1], edges[n])
    <2>1. \A n \in 1 .. L : common[n] = E(common, n)
      <3> HIDE DEF E
      <3> QED
        BY <1>5
    <2> QED
      BY <1>2, <2>1
  <1> DEFINE I == {n \in 0 .. L - 1 : common[n + 1] \in DOMAIN d /\ Doms(common[n + 1]) = Of(n + 1)}
  <1>7. 0 \in I
    <2>1. Of(1) = Doms(edges[1])
      <3>1. \A k \in 1 .. 1 : k = 1
        OBVIOUS
      <3>2. Doms(edges[1]) \subseteq Resolved
        BY DEF Doms
      <3> QED
        BY <3>1, <3>2
    <2> QED
      BY <1>2, <1>6, <2>1
  <1>8. ASSUME NEW n \in 1 .. L - 1, n - 1 \in I PROVE n \in I
    <2>1. n + 1 \in 2 .. L /\ n \in 1 .. L /\ n + 1 \in 1 .. L /\ (n - 1) + 1 = n /\ (n + 1) - 1 = n
      BY <1>2
    <2>2. common[n] \in DOMAIN d /\ Doms(common[n]) = Of(n)
      BY <1>8, <2>1
    <2>3. common[n + 1] = Meet(common[n], edges[n + 1])
      BY <1>6, <2>1
    <2>4. common[n + 1] \in DOMAIN d /\ Doms(common[n + 1]) = Of(n) \cap Doms(edges[n + 1])
      BY <1>2, <1>3, <2>1, <2>2, <2>3
    <2>5. Of(n) \cap Doms(edges[n + 1]) = Of(n + 1)
      <3>1. \A k : k \in 1 .. n + 1 <=> k \in 1 .. n \/ k = n + 1
        BY <1>2
      <3> QED
        BY <3>1
    <2> QED
      BY <2>4, <2>5, <1>2
  <1>9. L - 1 \in I
    <2>1. L - 1 \in Nat /\ L - 1 \in 0 .. L - 1
      BY <1>2
    <2> HIDE DEF I
    <2>2. 0 .. L - 1 \subseteq I
      BY <1>7, <1>8, <2>1, InductTo
    <2> QED
      BY <2>1, <2>2
  <1>10. common[L] \in DOMAIN d /\ Doms(common[L]) = Of(L)
    BY <1>2, <1>9
  <1>11. Of(L) = {a \in Resolved : \A p \in Range(edges) : a \in Doms(p)}
    <2>1. Range(edges) = {edges[k] : k \in 1 .. L}
      BY DEF Range, L
    <2> QED
      BY <2>1
  <1> QED
    BY <1>1, <1>10, <1>11

\* The n blocks that were resolved last, and the entry block.
LastResolved(n) == {b \in Resolved : visit_order[b] > Len(post_order) - n} \cup {entry_block}

\* What is known after n blocks.
Known(n) == {d \in [LastResolved(n) -> LastResolved(n)] : IsTree(d)}

\* A block's part in the tree.
Learnt(d, block) ==
  IF EdgesOf(preceding_edges, block) = << >> THEN d
  ELSE Extended(d, block, Dominating(d, preceding_edges[block]))

LEMMA EntryFirst ==
  ASSUME WalkedWhole
  PROVE  Pred(entry_block) = {} /\ EdgesOf(preceding_edges, entry_block) = << >>
  <1>1. entry_block \in Resolved /\ visit_order[entry_block] = Len(post_order)
    BY DEF WalkedWhole
  <1>2. Pred(entry_block) = {}
    <2> SUFFICES ASSUME NEW p \in Pred(entry_block) PROVE FALSE
      OBVIOUS
    <2>1. p \in Resolved /\ visit_order[p] > visit_order[entry_block]
      BY <1>1, PredBefore
    <2> QED
      BY <1>1, <2>1, Places
  <1>3. EdgesOf(preceding_edges, entry_block) \in Seq(Resolved)
    BY <1>1 DEF EdgesOf, WalkedWhole, EdgesForward
  <1>4. EdgesOf(preceding_edges, entry_block) = << >>
    <2> DEFINE s == EdgesOf(preceding_edges, entry_block)
    <2>1. s \in Seq(Resolved) /\ Range(s) = {}
      BY <1>2, <1>3 DEF Pred
    <2> HIDE DEF s
    <2>2. s = << >>
      BY <2>1 DEF Range
    <2> QED
      BY <2>2 DEF s
  <1> QED
    BY <1>2, <1>4

LEMMA LearntKnown ==
  ASSUME WalkedWhole, NEW n \in 1 .. Len(post_order), NEW d \in Known(n - 1)
  PROVE  Learnt(d, post_order[Len(post_order) - n + 1]) \in Known(n)
  <1> DEFINE N == Len(post_order)
             b == post_order[N - n + 1]
             P == LastResolved(n - 1)
  <1>1. N \in Nat /\ N - n + 1 \in 1 .. N /\ \A x \in Resolved : visit_order[x] \in 1 .. N
    BY Places
  <1>2. b \in Resolved /\ visit_order[b] = N - n + 1
    <2>1. Numbered
      BY DEF WalkedWhole
    <2> QED
      BY <1>1, <2>1 DEF Numbered
  <1> HIDE DEF b
  <1>3. LastResolved(n) = P \cup {b}
    <2>1. \A x \in Resolved : visit_order[x] > N - n <=> visit_order[x] > N - (n - 1) \/ x = b
      <3> SUFFICES ASSUME NEW x \in Resolved
                   PROVE  visit_order[x] > N - n <=> visit_order[x] > N - (n - 1) \/ x = b
        OBVIOUS
      <3>1. visit_order[x] = visit_order[b] => x = b
        BY <1>2, Places
      <3> QED
        BY <1>1, <1>2, <3>1
    <2> QED
      BY <1>2, <2>1 DEF LastResolved
  <1>4. d \in [P -> P] /\ IsTree(d) /\ DOMAIN d = P /\ P \subseteq Resolved
    <2>1. d \in [P -> P] /\ IsTree(d)
      BY DEF Known
    <2> HIDE DEF P
    <2> QED
      BY <2>1 DEF IsTree
  <1>5. CASE b = entry_block
    <2>1. P \cup {b} = P
      BY <1>5 DEF LastResolved
    <2>2. Learnt(d, b) = d
      BY <1>5, EntryFirst DEF Learnt
    <2> HIDE DEF P
    <2>3. d \in Known(n)
      BY <1>3, <1>4, <2>1 DEF Known
    <2> QED
      BY <2>2, <2>3 DEF b
  <1>6. CASE b # entry_block
    <2> DEFINE edges == EdgesOf(preceding_edges, b)
    <2>1. edges \in Seq(Resolved) /\ Pred(b) = Range(edges)
      BY <1>2 DEF EdgesOf, WalkedWhole, EdgesForward, Pred
    <2>2. Pred(b) # {}
      BY <1>2, <1>6 DEF WalkedWhole
    <2>3. edges # << >> /\ edges = preceding_edges[b]
      <3>1. edges # << >>
        BY <2>1, <2>2 DEF Range
      <3> QED
        BY <3>1 DEF EdgesOf
    <2>4. \A p \in Pred(b) : p \in P /\ visit_order[p] > visit_order[b]
      <3> SUFFICES ASSUME NEW p \in Pred(b) PROVE p \in P /\ visit_order[p] > visit_order[b]
        OBVIOUS
      <3>1. p \in Resolved /\ visit_order[p] > visit_order[b]
        BY <1>2, PredBefore
      <3> QED
        BY <1>1, <1>2, <3>1 DEF LastResolved
    <2> HIDE DEF edges
    <2>5. edges \in Seq(P)
      <3>1. \A k \in 1 .. Len(edges) : edges[k] \in P
        BY <2>1, <2>4 DEF Range
      <3> QED
        BY <2>1, <3>1
    <2> DEFINE c == Dominating(d, edges)
    <2>6. c \in P /\ Doms(c) = {a \in Resolved : \A p \in Pred(b) : a \in Doms(p)}
      <3>1. edges \in Seq(DOMAIN d)
        BY <1>4, <2>5
      <3>2. c \in DOMAIN d /\ Doms(c) = {a \in Resolved : \A p \in Range(edges) : a \in Doms(p)}
        BY <1>4, <2>3, <3>1, DominatingMeets
      <3> QED
        BY <1>4, <2>1, <3>2
    <2> HIDE DEF c
    <2>7. Doms(b) = {b} \cup Doms(c)
      BY <1>2, <1>6, <2>6, DomsOfOther
    <2>8. visit_order[c] > visit_order[b]
      <3>1. PICK p \in Pred(b) : TRUE
        BY <2>2
      <3>2. c \in Resolved /\ c \in Doms(c)
        BY <1>4, <2>6, DomsDiffer
      <3>3. c \in Doms(p) /\ p \in Resolved
        BY <1>4, <2>4, <2>6, <3>2
      <3>4. c = p \/ visit_order[c] > visit_order[p]
        BY <3>3, DomsAbove
      <3>5. visit_order[p] > visit_order[b]
        BY <2>4
      <3> QED
        BY <1>1, <1>2, <3>2, <3>3, <3>4, <3>5
    <2> DEFINE e == Extended(d, b, c)
    <2>9. b \notin P
      BY <1>1, <1>2, <1>6 DEF LastResolved
    <2> HIDE DEF P
    <2>10. e \in [P \cup {b} -> P \cup {b}] /\ DOMAIN e = P \cup {b} /\ e[b] = c /\ \A x \in P : e[x] = d[x]
      BY <1>4, <2>6, <2>9 DEF Extended
    <2> HIDE DEF e
    <2>11. IsTree(e)
      <3>1. /\ DOMAIN e \subseteq Resolved /\ e \in [DOMAIN e -> DOMAIN e]
            /\ entry_block \in DOMAIN e /\ e[entry_block] = entry_block
        BY <1>2, <1>4, <2>10 DEF IsTree
      <3>2. ASSUME NEW x \in DOMAIN e, x # entry_block
            PROVE  Doms(x) = {x} \cup Doms(e[x]) /\ visit_order[e[x]] > visit_order[x]
        <4>1. CASE x = b
          BY <2>7, <2>8, <2>10, <4>1
        <4>2. CASE x # b
          <5>1. x \in P /\ e[x] = d[x]
            BY <2>10, <4>2
          <5> QED
            BY <1>4, <3>2, <5>1 DEF IsTree
        <4> QED
          BY <4>1, <4>2
      <3> QED
        BY <3>1, <3>2 DEF IsTree
    <2>12. Learnt(d, b) = e
      BY <2>3 DEF Learnt, e, c, edges
    <2>13. e \in Known(n)
      BY <1>3, <2>10, <2>11 DEF Known
    <2> QED
      BY <2>12, <2>13 DEF b
  <1> QED
    BY <1>5, <1>6

LEMMA NothingKnown ==
  ASSUME WalkedWhole
  PROVE  [b \in {entry_block} |-> entry_block] \in Known(0)
  <1>2. LastResolved(0) = {entry_block}
    <2>1. \A x \in Resolved : ~(visit_order[x] > Len(post_order) - 0)
      BY Places
    <2> QED
      BY <2>1 DEF LastResolved
  <1>3. entry_block \in Resolved
    BY DEF WalkedWhole
  <1> QED
    BY <1>2, <1>3 DEF Known, IsTree

LEMMA DominatorsKnown ==
  ASSUME WalkedWhole
  PROVE  Dominators \in Known(Len(post_order))
  <1> DEFINE N == Len(post_order)
             root == [b \in {entry_block} |-> entry_block]
             Nth(n) == Reverse(post_order)[n]
             E(u, n) == IF n = 0 THEN root ELSE Learnt(u[n - 1], Nth(n))
             fixed(u) == u = [n \in 0 .. N |-> E(u, n)]
             known == CHOOSE u : fixed(u)
  <1>1. Dominators = known[N]
    BY DEF Dominators, Learnt
  <1>2. N \in Nat
    BY Places
  <1>3. root \in Known(0)
    BY NothingKnown
  <1>4. ASSUME NEW n \in 1 .. N, NEW d \in Known(n - 1) PROVE Learnt(d, Nth(n)) \in Known(n)
    <2>1. post_order \in Seq(Resolved)
      BY DEF WalkedWhole, Numbered
    <2>2. Nth(n) = post_order[N - n + 1]
      BY <1>2, <2>1 DEF Reverse
    <2> QED
      BY <2>2, LearntKnown
  <1> HIDE DEF root, Nth, N
  <1>5. \E u : fixed(u)
    <2> DEFINE V == UNION {Known(n) : n \in 0 .. N}
               H == [n \in 1 .. N |-> [d \in V |-> IF d \in Known(n - 1) THEN Learnt(d, Nth(n)) ELSE d]]
    <2>1. \A n \in 0 .. N : Known(n) \subseteq V
      OBVIOUS
    <2>2. root \in V
      BY <1>2, <1>3
    <2>3. H \in [1 .. N -> [V -> V]]
      <3> SUFFICES ASSUME NEW n \in 1 .. N, NEW d \in V
                   PROVE  (IF d \in Known(n - 1) THEN Learnt(d, Nth(n)) ELSE d) \in V
        OBVIOUS
      <3>1. n \in 0 .. N
        BY <1>2
      <3>2. d \in Known(n - 1) => Learnt(d, Nth(n)) \in Known(n)
        BY <1>4
      <3> HIDE DEF V
      <3> QED
        BY <2>1, <3>1, <3>2
    <2> HIDE DEF V
    <2>4. PICK g : IsList(g, N, V, root, H)
      <3> HIDE DEF H
      <3> QED
        BY <1>2, <2>2, <2>3, Unfolds
    <2>5. g \in [0 .. N -> V] /\ g[0] = root /\ \A n \in 1 .. N : g[n] = H[n][g[n - 1]]
      <3> HIDE DEF H
      <3> QED
        BY <2>4 DEF IsList
    <2>6. ASSUME NEW n \in 1 .. N, g[n - 1] \in Known(n - 1) PROVE g[n] = Learnt(g[n - 1], Nth(n))
      <3>1. g[n - 1] \in V
        BY <1>2, <2>5
      <3>2. H[n][g[n - 1]] = Learnt(g[n - 1], Nth(n))
        BY <2>6, <3>1
      <3> HIDE DEF H
      <3> QED
        BY <2>5, <3>2
    <2> DEFINE I == {n \in 0 .. N : g[n] \in Known(n)}
    <2>7. 0 \in I
      BY <1>2, <1>3, <2>5
    <2>8. ASSUME NEW n \in 1 .. N, n - 1 \in I PROVE n \in I
      BY <1>2, <1>4, <2>6, <2>8
    <2>9. 0 .. N \subseteq I
      <3> HIDE DEF I
      <3> QED
        BY <1>2, <2>7, <2>8, InductTo
    <2>10. ASSUME NEW n \in 0 .. N PROVE g[n] = E(g, n)
      <3>1. CASE n = 0
        BY <2>5, <3>1
      <3>2. CASE n # 0
        <4>1. n \in 1 .. N /\ n - 1 \in 0 .. N
          BY <1>2, <3>2
        <4>2. g[n - 1] \in Known(n - 1)
          BY <2>9, <4>1
        <4> QED
          BY <2>6, <3>2, <4>1, <4>2
      <3> QED
        BY <3>1, <3>2
    <2>11. fixed(g)
      <3> HIDE DEF E
      <3> QED
        BY <2>5, <2>10
    <2> QED
      BY <2>11
  <1>6. known = [n \in 0 .. N |-> E(known, n)]
    <2> HIDE DEF E
    <2> QED
      BY <1>5
  <1> HIDE DEF known
  <1>7. known[0] = root /\ \A n \in 1 .. N : known[n] = Learnt(known[n - 1], Nth(n))
    <2>1. \A n \in 0 .. N : known[n] = E(known, n)
      <3> HIDE DEF E
      <3> QED
        BY <1>6
    <2> QED
      BY <1>2, <2>1
  <1> DEFINE I == {n \in 0 .. N : known[n] \in Known(n)}
  <1>8. 0 \in I
    BY <1>2, <1>3, <1>7
  <1>9. ASSUME NEW n \in 1 .. N, n - 1 \in I PROVE n \in I
    <2>1. known[n] \in Known(n)
      BY <1>4, <1>7, <1>9
    <2> QED
      BY <1>2, <2>1
  <1>10. 0 .. N \subseteq I
    <2> HIDE DEF I
    <2> QED
      BY <1>2, <1>8, <1>9, InductTo
  <1>11. known[N] \in Known(N)
    BY <1>2, <1>10
  <1> QED
    BY <1>1, <1>11 DEF N

\* All blocks that were resolved are in the tree.
LEMMA DominatorsTree ==
  ASSUME WalkedWhole
  PROVE  IsTree(Dominators) /\ DOMAIN Dominators = Resolved
  <1> DEFINE N == Len(post_order)
  <1>1. Dominators \in [LastResolved(N) -> LastResolved(N)] /\ IsTree(Dominators)
    BY DominatorsKnown DEF Known
  <1>2. LastResolved(N) = Resolved
    <2>1. \A x \in Resolved : visit_order[x] > N - N
      BY Places
    <2>2. entry_block \in Resolved
      BY DEF WalkedWhole
    <2> QED
      BY <2>1, <2>2 DEF LastResolved
  <1> QED
    BY <1>1, <1>2

\* The chain of immediate dominators from a block up has all of its dominators.
LEMMA AncestorsDominate ==
  ASSUME WalkedWhole, IsTree(immediate_dominators), DOMAIN immediate_dominators = Resolved, NEW b \in Resolved
  PROVE  Ancestors(b) = Doms(b)
  <1> DEFINE up == {<<a, immediate_dominators[a]>> : a \in DOMAIN immediate_dominators}
             above == Ancestors(b)
             T == {x \in Resolved : Doms(x) \subseteq Doms(b)}
  <1>1. 0 \notin Resolved /\ immediate_dominators \in [Resolved -> Resolved]
    BY BlockAssumption DEF WalkedWhole, IsTree
  <1>2. \A e \in up : e[1] \in Resolved /\ e[2] = immediate_dominators[e[1]]
    OBVIOUS
  <1>3. /\ {b} \ {0} \subseteq above /\ Follows(up, above, 0)
        /\ \A S : {b} \ {0} \subseteq S /\ Follows(up, S, 0) => above \subseteq S
    <2>1. {b} \in SUBSET DOMAIN blocks /\ \A e \in up : e[2] \in DOMAIN blocks
      BY <1>1, <1>2 DEF WalkedWhole
    <2>2. IsFiniteSet(DOMAIN blocks)
      BY DEF WalkedWhole
    <2>3. above = Reaches(up, {b}, 0)
      BY DEF Ancestors
    <2> HIDE DEF above, up
    <2> DEFINE r == Reaches(up, {b}, 0)
    <2>4. /\ {b} \ {0} \subseteq r /\ Follows(up, r, 0)
          /\ \A S : {b} \ {0} \subseteq S /\ Follows(up, S, 0) => r \subseteq S
      <3> HIDE DEF r
      <3> QED
        BY <2>1, <2>2, ReachesLeast DEF r
    <2> QED
      BY <2>3, <2>4
  <1>4. \A x \in Resolved : <<x, immediate_dominators[x]>> \in up
    OBVIOUS
  <1> HIDE DEF above, up
  <1>5. \A x \in Resolved :
          /\ x = entry_block => Doms(x) = {x}
          /\ x # entry_block => Doms(x) = {x} \cup Doms(immediate_dominators[x])
    BY <1>1, DomsOfEntry DEF IsTree
  <1>6. immediate_dominators[entry_block] = entry_block /\ entry_block \in Resolved
    BY DEF IsTree, WalkedWhole
  <1>7. Follows(up, T, 0)
    <2> SUFFICES ASSUME NEW e \in up, e[1] \in T, e[2] # 0 PROVE e[2] \in T
      BY DEF Follows
    <2> DEFINE x == e[1]
    <2>1. x \in Resolved /\ e[2] = immediate_dominators[x] /\ e[2] \in Resolved /\ Doms(x) \subseteq Doms(b)
      BY <1>1, <1>2
    <2>2. CASE x # entry_block
      BY <1>5, <2>1, <2>2
    <2>3. CASE x = entry_block
      BY <1>6, <2>1, <2>3
    <2> QED
      BY <2>2, <2>3
  <1>8. above \subseteq T
    <2>1. {b} \ {0} \subseteq T
      OBVIOUS
    <2> HIDE DEF T
    <2> QED
      BY <1>3, <1>7, <2>1
  <1>9. above \subseteq Doms(b)
    <2>1. \A x \in Resolved : x \in Doms(x)
      BY DomsDiffer
    <2> QED
      BY <1>8, <2>1
  <1> DEFINE S == {x \in Resolved : x \in above => Doms(x) \subseteq above}
  <1>10. ASSUME NEW x \in Resolved, \A y \in Resolved : visit_order[y] > visit_order[x] => y \in S
         PROVE  x \in S
    <2> SUFFICES ASSUME x \in above PROVE Doms(x) \subseteq above
      OBVIOUS
    <2>1. CASE x = entry_block
      BY <1>5, <2>1
    <2>2. CASE x # entry_block
      <3> DEFINE y == immediate_dominators[x]
      <3>1. y \in Resolved /\ visit_order[y] > visit_order[x]
        BY <1>1, <2>2 DEF IsTree
      <3>2. y \in above
        <4>1. <<x, y>> \in up
          BY <1>4
        <4>2. y # 0
          BY <1>1, <3>1
        <4> HIDE DEF y
        <4> QED
          BY <1>3, <4>1, <4>2 DEF Follows
      <3>3. Doms(y) \subseteq above
        BY <1>10, <3>1, <3>2
      <3> QED
        BY <1>5, <2>2, <3>3
    <2> QED
      BY <2>1, <2>2
  <1>11. Resolved \subseteq S
    <2> HIDE DEF S
    <2>1. visit_order \in [Resolved -> 0 .. Len(post_order)] /\ Len(post_order) \in Nat
      BY Places
    <2> QED
      BY <1>10, <2>1, InductDown
  <1>12. b \in above
    BY <1>1, <1>3
  <1> QED
    BY <1>9, <1>11, <1>12 DEF above

-------------------------------------------------------------------------------
(* Back edges *)

All(a) == Reaches(AllEdges, {entry_block}, a)

LEMMA AllLeast ==
  ASSUME WalkedWhole, NEW a
  PROVE  /\ \A e \in AllEdges : e[1] \in Resolved /\ e[2] \in Resolved
         /\ ForwardFlow \subseteq AllEdges
         /\ All(a) \subseteq Resolved /\ a \notin All(a)
         /\ entry_block # a => entry_block \in All(a)
         /\ Follows(AllEdges, All(a), a)
         /\ \A T : (entry_block # a => entry_block \in T) /\ Follows(AllEdges, T, a) => All(a) \subseteq T
  <1>1. ASSUME NEW e \in AllEdges PROVE e[1] \in Resolved /\ e[2] \in Resolved
    <2>1. e[1] \in Resolved /\ e[2] \in Range(Targets(e[1])) \cup Succ(e[1])
      BY DEF AllEdges, Succ, Resolved
    <2> QED
      BY <2>1 DEF WalkedWhole, EdgesForward
  <1>2. ForwardFlow \subseteq AllEdges
    <2>1. Resolved \subseteq Block
      BY DEF WalkedWhole
    <2> QED
      BY <2>1 DEF ForwardFlow, AllEdges, Succ, Resolved
  <1>3. {entry_block} \in SUBSET DOMAIN blocks /\ \A e \in AllEdges : e[2] \in DOMAIN blocks
    BY <1>1 DEF WalkedWhole
  <1> DEFINE r == Reaches(AllEdges, {entry_block}, a)
  <1>4. /\ {entry_block} \ {a} \subseteq r /\ a \notin r /\ Follows(AllEdges, r, a)
        /\ \A T : {entry_block} \ {a} \subseteq T /\ Follows(AllEdges, T, a) => r \subseteq T
    <2>1. IsFiniteSet(DOMAIN blocks)
      BY DEF WalkedWhole
    <2> HIDE DEF r
    <2> QED
      BY <1>3, <2>1, ReachesLeast DEF r
  <1> HIDE DEF r
  <1>5. r = All(a)
    BY DEF r, All
  <1>6. Follows(AllEdges, Resolved, a) /\ entry_block \in Resolved
    BY <1>1 DEF Follows, WalkedWhole
  <1> QED
    BY <1>1, <1>2, <1>4, <1>5, <1>6

LEMMA AroundAll ==
  ASSUME WalkedWhole, NEW a
  PROVE  Around(a) \subseteq All(a)
  <1>1. Follows(ForwardFlow, All(a), a) /\ (entry_block # a => entry_block \in All(a))
    BY AllLeast DEF Follows
  <1> QED
    BY <1>1, AroundLeast

\* In a reducible function the edges that are left out make no difference.
LEMMA ReducibleAround ==
  ASSUME WalkedWhole, Reducible, NEW a \in Resolved
  PROVE  All(a) = Around(a)
  <1>1. ASSUME NEW e \in AllEdges, e[1] \in Around(a), e[2] # a, e[2] \notin Around(a) PROVE FALSE
    <2> DEFINE x == e[1]
               y == e[2]
    <2>1. x \in Resolved /\ y \in Resolved
      BY AllLeast
    <2>2. ~(y \in Succ(x))
      <3> SUFFICES ASSUME y \in Succ(x) PROVE FALSE
        OBVIOUS
      <3>1. <<x, y>> \in ForwardFlow
        BY <2>1 DEF ForwardFlow
      <3> QED
        BY <1>1, <3>1, AroundLeast DEF Follows
    <2>3. x \notin All(y)
      BY <2>2 DEF Reducible, Dominates, DominatedBy, All, Succ
    <2>4. Around(a) \subseteq Around(a) \cap Around(y)
      <3> DEFINE T == Around(a) \cap Around(y)
      <3>1. entry_block # a => entry_block \in T
        BY <1>1, AroundLeast
      <3>2. Follows(ForwardFlow, T, a)
        <4> SUFFICES ASSUME NEW f \in ForwardFlow, f[1] \in T, f[2] # a PROVE f[2] \in T
          BY DEF Follows
        <4>1. f[2] \in Around(a)
          BY AroundLeast DEF Follows
        <4>2. f[2] # y
          BY <1>1, <4>1
        <4> QED
          BY <4>1, <4>2, AroundLeast DEF Follows
      <3> HIDE DEF T
      <3> QED
        BY <3>1, <3>2, AroundLeast DEF T
    <2>5. Around(y) \subseteq All(y)
      BY AroundAll
    <2> QED
      BY <1>1, <2>3, <2>4, <2>5
  <1>2. Follows(AllEdges, Around(a), a) /\ (entry_block # a => entry_block \in Around(a))
    BY <1>1, AroundLeast DEF Follows
  <1>3. All(a) \subseteq Around(a)
    BY <1>2, AllLeast
  <1> QED
    BY <1>3, AroundAll

LEMMA WholeIsExact ==
  ASSUME WalkedWhole, immediate_dominators = Dominators
  PROVE  DominatorsExact
  <1>1. IsTree(immediate_dominators) /\ DOMAIN immediate_dominators = Resolved
    BY DominatorsTree
  <1>2. \A k, l \in DOMAIN post_order : k # l => post_order[k] # post_order[l]
    BY DEF WalkedWhole, Numbered
  <1>3. Reaches(AllEdges, {entry_block}, 0) = DOMAIN visit_order
    <2>1. Around(0) \subseteq All(0) /\ All(0) \subseteq Resolved /\ Around(0) = Resolved
      BY AroundAll, AllLeast, AllAround
    <2> QED
      BY <2>1 DEF All, Resolved
  <1>4. \A b \in DOMAIN visit_order :
          /\ \A t \in Range(EdgesOf(succeeding_edges, b)) : visit_order[t] < visit_order[b]
          /\ b # entry_block => visit_order[immediate_dominators[b]] > visit_order[b]
    BY <1>1 DEF WalkedWhole, EdgesForward, IsTree, Resolved, Succ
  <1>5. ASSUME Reducible, NEW a \in DOMAIN visit_order
        PROVE  DominatedBy(AllEdges, a) = {b \in DOMAIN visit_order : a \in Ancestors(b)}
    <2>1. DominatedBy(AllEdges, a) = Resolved \ All(a)
      BY DEF DominatedBy, All, Resolved
    <2>2. All(a) = Around(a)
      BY <1>5, ReducibleAround DEF Resolved
    <2>3. ASSUME NEW b \in Resolved PROVE b \notin Around(a) <=> a \in Ancestors(b)
      BY <1>1, <1>5, AncestorsDominate DEF Doms, Resolved
    <2> QED
      BY <2>1, <2>2, <2>3 DEF Resolved
  <1> QED
    BY <1>1, <1>2, <1>3, <1>4, <1>5 DEF DominatorsExact, Resolved

-------------------------------------------------------------------------------
(* Lists of blocks *)

LEMMA AddedRange ==
  ASSUME NEW S, NEW list \in Seq(S), NEW value \in S
  PROVE  /\ AddUnique(list, value) \in Seq(S)
         /\ Range(AddUnique(list, value)) = Range(list) \cup {value}
  <1>1. CASE value \in Range(list)
    BY <1>1 DEF AddUnique
  <1>2. CASE value \notin Range(list)
    <2>1. AddUnique(list, value) = Append(list, value)
      BY <1>2 DEF AddUnique
    <2>2. DOMAIN Append(list, value) = 1 .. Len(list) + 1 /\ DOMAIN list = 1 .. Len(list)
      OBVIOUS
    <2>3. \A k \in 1 .. Len(list) : Append(list, value)[k] = list[k]
      OBVIOUS
    <2>4. Append(list, value)[Len(list) + 1] = value
      OBVIOUS
    <2>5. 1 .. Len(list) + 1 = 1 .. Len(list) \cup {Len(list) + 1}
      OBVIOUS
    <2>6. Range(Append(list, value)) = Range(list) \cup {value}
      BY <2>2, <2>3, <2>4, <2>5 DEF Range
    <2> QED
      BY <2>1, <2>6
  <1> QED
    BY <1>1, <1>2

LEMMA DistinctRange ==
  ASSUME NEW S, NEW s \in Seq(S), NEW but
  PROVE  /\ Distinct(s, but) \in Seq(Range(s) \ but)
         /\ Range(Distinct(s, but)) = Range(s) \ but
  <1> DEFINE N == Len(s)
             W == Range(s) \ but
             V == Seq(W)
             E(up, n) == IF n = 0 THEN << >> ELSE IF s[n] \in but THEN up[n - 1] ELSE AddUnique(up[n - 1], s[n])
             fixed(up) == up = [n \in 0 .. N |-> E(up, n)]
             f == CHOOSE up : fixed(up)
             H == [n \in 1 .. N |-> [w \in V |-> IF s[n] \in but THEN w ELSE AddUnique(w, s[n])]]
  <1>1. Distinct(s, but) = f[N]
    BY DEF Distinct
  <1>2. N \in Nat /\ DOMAIN s = 1 .. N
    OBVIOUS
  <1>3. \A n \in 1 .. N : s[n] \notin but => s[n] \in W
    BY <1>2 DEF Range
  <1>4. H \in [1 .. N -> [V -> V]]
    <2> SUFFICES ASSUME NEW n \in 1 .. N, NEW w \in V, s[n] \notin but PROVE AddUnique(w, s[n]) \in V
      OBVIOUS
    <2>1. s[n] \in W
      BY <1>3
    <2> HIDE DEF W, H
    <2> QED
      BY <2>1, AddedRange
  <1>5. PICK g : IsList(g, N, V, << >>, H)
    <2>1. << >> \in V
      OBVIOUS
    <2> HIDE DEF H, N, V
    <2> QED
      BY <1>2, <1>4, <2>1, Unfolds
  <1>6. g \in [0 .. N -> V] /\ g[0] = << >> /\ \A n \in 1 .. N : g[n] = H[n][g[n - 1]]
    BY <1>5 DEF IsList
  <1>7. fixed(g)
    <2>1. ASSUME NEW n \in 0 .. N PROVE g[n] = E(g, n)
      <3>1. CASE n = 0
        BY <1>6, <3>1
      <3>2. CASE n # 0
        <4>1. n \in 1 .. N /\ n - 1 \in 0 .. N
          BY <1>2, <3>2
        <4>2. g[n] = H[n][g[n - 1]] /\ g[n - 1] \in V
          BY <1>6, <4>1
        <4> HIDE DEF V
        <4> QED
          BY <3>2, <4>1, <4>2
      <3> QED
        BY <3>1, <3>2
    <2> HIDE DEF E, H
    <2> QED
      BY <1>6, <2>1
  <1>8. fixed(f)
    <2> HIDE DEF fixed
    <2> QED
      BY <1>7
  <1> HIDE DEF f, H
  <1>9. f[0] = << >>
    <2> HIDE DEF E
    <2>1. f[0] = E(f, 0)
      BY <1>2, <1>8
    <2> QED
      BY <2>1 DEF E
  <1>10. \A n \in 1 .. N : f[n] = IF s[n] \in but THEN f[n - 1] ELSE AddUnique(f[n - 1], s[n])
    <2> SUFFICES ASSUME NEW n \in 1 .. N PROVE f[n] = IF s[n] \in but THEN f[n - 1] ELSE AddUnique(f[n - 1], s[n])
      OBVIOUS
    <2>1. f[n] = E(f, n)
      <3> HIDE DEF E
      <3>1. n \in 0 .. N
        BY <1>2
      <3> QED
        BY <1>8, <3>1
    <2> QED
      BY <1>2, <2>1
  <1> DEFINE upto(n) == {s[k] : k \in 1 .. n}
             T == {n \in 0 .. N : f[n] \in V /\ Range(f[n]) = upto(n) \ but}
  <1>11. 0 \in T
    <2>1. Range(<< >>) = {}
      BY DEF Range
    <2>2. upto(0) = {}
      OBVIOUS
    <2>3. f[0] \in V
      BY <1>9
    <2> HIDE DEF upto, V
    <2> QED
      BY <1>2, <1>9, <2>1, <2>2, <2>3
  <1>12. ASSUME NEW n \in 1 .. N, n - 1 \in T PROVE n \in T
    <2>1. n \in 0 .. N /\ f[n - 1] \in V /\ Range(f[n - 1]) = upto(n - 1) \ but
      BY <1>2, <1>12
    <2>2. upto(n) = upto(n - 1) \cup {s[n]}
      <3>1. 1 .. n = 1 .. n - 1 \cup {n}
        BY <1>2
      <3> QED
        BY <3>1
    <2>3. CASE s[n] \in but
      <3>1. f[n] = f[n - 1]
        BY <1>10, <2>3
      <3> HIDE DEF upto, V
      <3> QED
        BY <2>1, <2>2, <2>3, <3>1
    <2>4. CASE s[n] \notin but
      <3>1. f[n] = AddUnique(f[n - 1], s[n]) /\ s[n] \in W
        BY <1>3, <1>10, <2>4
      <3>2. f[n] \in V /\ Range(f[n]) = Range(f[n - 1]) \cup {s[n]}
        <4> HIDE DEF W
        <4> QED
          BY <2>1, <3>1, AddedRange
      <3> HIDE DEF upto, V
      <3> QED
        BY <2>1, <2>2, <2>4, <3>2
    <2> QED
      BY <2>3, <2>4
  <1>13. N \in T
    <2> HIDE DEF T, N
    <2>1. 0 .. N \subseteq T
      BY <1>2, <1>11, <1>12, InductTo
    <2> QED
      BY <1>2, <2>1
  <1>14. upto(N) = Range(s)
    BY <1>2 DEF Range
  <1> HIDE DEF upto
  <1> QED
    BY <1>1, <1>13, <1>14

LEMMA ReversedRange ==
  ASSUME NEW S, NEW s \in Seq(S)
  PROVE  Reverse(s) \in Seq(S) /\ Range(Reverse(s)) = Range(s)
  <1> DEFINE N == Len(s)
  <1>1. Reverse(s) = [i \in 1 .. N |-> s[N - i + 1]] /\ N \in Nat /\ DOMAIN s = 1 .. N
    BY DEF Reverse
  <1>2. \A i \in 1 .. N : N - i + 1 \in 1 .. N /\ N - (N - i + 1) + 1 = i
    BY <1>1
  <1>3. Reverse(s) \in Seq(S)
    BY <1>1, <1>2
  <1> HIDE DEF N
  <1>4. ASSUME NEW x \in Range(s) PROVE x \in Range(Reverse(s))
    <2>1. PICK i \in 1 .. N : x = s[i]
      BY <1>1 DEF Range
    <2>2. Reverse(s)[N - i + 1] = x
      BY <1>1, <1>2, <2>1
    <2> QED
      BY <1>1, <1>2, <2>2 DEF Range
  <1>5. ASSUME NEW x \in Range(Reverse(s)) PROVE x \in Range(s)
    <2>1. PICK i \in 1 .. N : x = Reverse(s)[i]
      BY <1>1 DEF Range
    <2> QED
      BY <1>1, <1>2, <2>1 DEF Range
  <1> QED
    BY <1>3, <1>4, <1>5

LEMMA JoinedRange ==
  ASSUME NEW S, NEW s \in Seq(S), NEW t \in Seq(S)
  PROVE  s \o t \in Seq(S) /\ Range(s \o t) = Range(s) \cup Range(t)
  <1>1. DOMAIN (s \o t) = 1 .. Len(s) + Len(t) /\ DOMAIN s = 1 .. Len(s) /\ DOMAIN t = 1 .. Len(t)
    OBVIOUS
  <1>2. \A i \in 1 .. Len(s) + Len(t) : (s \o t)[i] = IF i <= Len(s) THEN s[i] ELSE t[i - Len(s)]
    OBVIOUS
  <1>3. ASSUME NEW x \in Range(s) \cup Range(t) PROVE x \in Range(s \o t)
    <2>1. CASE x \in Range(s)
      <3>1. PICK i \in 1 .. Len(s) : x = s[i]
        BY <2>1 DEF Range
      <3>2. i \in 1 .. Len(s) + Len(t)
        OBVIOUS
      <3> QED
        BY <1>1, <1>2, <3>1, <3>2 DEF Range
    <2>2. CASE x \in Range(t)
      <3>1. PICK i \in 1 .. Len(t) : x = t[i]
        BY <2>2 DEF Range
      <3>2. i + Len(s) \in 1 .. Len(s) + Len(t) /\ ~(i + Len(s) <= Len(s)) /\ (i + Len(s)) - Len(s) = i
        OBVIOUS
      <3> QED
        BY <1>1, <1>2, <3>1, <3>2 DEF Range
    <2> QED
      BY <1>3, <2>1, <2>2
  <1>4. ASSUME NEW x \in Range(s \o t) PROVE x \in Range(s) \cup Range(t)
    <2>1. PICK i \in 1 .. Len(s) + Len(t) : x = (s \o t)[i]
      BY <1>1, <1>4 DEF Range
    <2>2. i > Len(s) => i - Len(s) \in 1 .. Len(t)
      OBVIOUS
    <2> QED
      BY <1>1, <1>2, <2>1, <2>2 DEF Range
  <1>5. s \o t \in Seq(S)
    OBVIOUS
  <1> QED
    BY <1>3, <1>4, <1>5

-------------------------------------------------------------------------------
(* The walk *)

Branched(b) == Range(MergeTargets(b) \o Targets(b))

\* Where the walk came through: the last occurrences of what is not resolved.
Grey(i) ==
  /\ i \in DOMAIN visit_stack /\ visit_stack[i] \in Unresolved
  /\ \A j \in DOMAIN visit_stack : j > i => visit_stack[j] # visit_stack[i]

\* What the parser hands on.
BlocksGiven ==
  /\ IsFiniteSet(DOMAIN blocks) /\ DOMAIN blocks \subseteq Block
  /\ \A b \in DOMAIN blocks : blocks[b].cases \in Seq(Range(blocks[b].cases))

Visits ==
  /\ visit_stack \in Seq(DOMAIN blocks)
  /\ Resolved \subseteq visited_branches /\ visited_branches \subseteq DOMAIN blocks
  /\ \A b \in Resolved : Branched(b) \subseteq visited_branches

\* The entry block is at the bottom of the stack until it is resolved, last.
EntryLast ==
  \/ /\ visit_stack # << >> /\ visit_stack[1] = entry_block /\ entry_block \notin Resolved
     /\ entry_block \notin visited_branches => visited_branches = {} /\ Len(visit_stack) = 1
     /\ \A i \in DOMAIN visit_stack : i # 1 => visit_stack[i] # entry_block
  \/ visit_stack = << >> /\ entry_block \in Resolved /\ visit_order[entry_block] = Len(post_order)

\* What a block on the way branches to is visited, or waits above it.
AllAwaited ==
  \A i \in DOMAIN visit_stack : Grey(i) =>
    \A t \in Branched(visit_stack[i]) :
      t \in visited_branches \/ \E j \in DOMAIN visit_stack : j > i /\ visit_stack[j] = t

\* All but the entry block is on the stack because of a block on the way below it.
AllCalled ==
  \A j \in DOMAIN visit_stack : j # 1 =>
    \E i \in DOMAIN visit_stack : i < j /\ Grey(i) /\ visit_stack[j] \in Branched(visit_stack[i])

\* The way leads through all that is not resolved.
AllOnStack == \A b \in Unresolved : \E i \in DOMAIN visit_stack : Grey(i) /\ visit_stack[i] = b

\* What is resolved has an edge that leads to it, or is to get one.
AllEntered ==
  \A b \in Resolved : b # entry_block =>
    Pred(b) # {} \/ \E i \in DOMAIN visit_stack : Grey(i) /\ b \in Branched(visit_stack[i])

SuccessorsResolved == DOMAIN succeeding_edges \subseteq Resolved

WalkedSoFar ==
  /\ Visits /\ EntryLast /\ AllAwaited /\ AllCalled /\ AllOnStack /\ AllEntered
  /\ Numbered /\ EdgesForward /\ SuccessorsResolved

LEMMA ListsOfBlocks ==
  ASSUME BlocksGiven, NEW b \in DOMAIN blocks
  PROVE  /\ \E S : Targets(b) \in Seq(S) /\ LoopMergeOf(b) \in Seq(S) /\ MergeTargets(b) \in Seq(S)
         /\ Range(LoopMergeOf(b)) \subseteq Range(MergeTargets(b))
         /\ Range(MergeTargets(b)) \subseteq Range(LoopMergeOf(b)) \cup {blocks[b].next_block}
         /\ blocks[b].merge # "Selection" => MergeTargets(b) = LoopMergeOf(b)
         /\ blocks[b].merge = "Selection" => blocks[b].next_block \in Range(MergeTargets(b))
  <1> DEFINE r == blocks[b]
             C == {r.cases[k].block : k \in DOMAIN r.cases}
             S == {r.next_block, r.true_block, r.false_block, r.default_block, r.merge_block} \cup C
  <1>1. r.cases \in Seq(Range(r.cases))
    BY DEF BlocksGiven
  <1>2. Targets(b) \in Seq(S)
    <2> DEFINE list == [k \in DOMAIN r.cases |-> r.cases[k].block]
    <2>1. list \in Seq(S)
      <3>1. DOMAIN r.cases = 1 .. Len(r.cases) /\ Len(r.cases) \in Nat
        BY <1>1
      <3>2. \A k \in DOMAIN r.cases : r.cases[k].block \in S
        OBVIOUS
      <3> HIDE DEF S, C, r
      <3> QED
        BY <3>1, <3>2
    <2>2. r.next_block \in S /\ r.true_block \in S /\ r.false_block \in S /\ r.default_block \in S
      OBVIOUS
    <2>3. Targets(b) \in {<<r.next_block>>, <<r.true_block, r.false_block>>, Append(list, r.default_block), << >>}
      BY DEF Targets
    <2> HIDE DEF list, S, C, r
    <2>4. <<r.next_block>> \in Seq(S) /\ <<r.true_block, r.false_block>> \in Seq(S) /\ << >> \in Seq(S)
      BY <2>2
    <2>5. Append(list, r.default_block) \in Seq(S)
      BY <2>1, <2>2
    <2> QED
      BY <2>3, <2>4, <2>5
  <1>3. LoopMergeOf(b) \in Seq(S) /\ MergeTargets(b) \in Seq(S)
    <2>1. r.next_block \in S /\ r.merge_block \in S
      OBVIOUS
    <2>2. LoopMergeOf(b) \in {<<r.merge_block>>, << >>} /\ MergeTargets(b) \in {<<r.next_block>>, LoopMergeOf(b)}
      BY DEF LoopMergeOf, MergeTargets
    <2> HIDE DEF S, C, r
    <2>3. <<r.next_block>> \in Seq(S) /\ <<r.merge_block>> \in Seq(S) /\ << >> \in Seq(S)
      BY <2>1
    <2> QED
      BY <2>2, <2>3
  <1>4. Range(<<r.next_block>>) = {r.next_block} /\ Range(<< >>) = {}
    BY DEF Range
  <1>5. r.merge = "Selection" => LoopMergeOf(b) = << >> /\ MergeTargets(b) = <<r.next_block>>
    BY DEF LoopMergeOf, MergeTargets
  <1>6. r.merge # "Selection" => MergeTargets(b) = LoopMergeOf(b)
    BY DEF MergeTargets
  <1> HIDE DEF S, C
  <1>7. \E T : Targets(b) \in Seq(T) /\ LoopMergeOf(b) \in Seq(T) /\ MergeTargets(b) \in Seq(T)
    BY <1>2, <1>3
  <1>8. r = blocks[b]
    OBVIOUS
  <1> HIDE DEF r
  <1>9. /\ Range(LoopMergeOf(b)) \subseteq Range(MergeTargets(b))
        /\ Range(MergeTargets(b)) \subseteq Range(LoopMergeOf(b)) \cup {r.next_block}
        /\ r.merge # "Selection" => MergeTargets(b) = LoopMergeOf(b)
        /\ r.merge = "Selection" => r.next_block \in Range(MergeTargets(b))
    <2>1. CASE r.merge = "Selection"
      BY <1>4, <1>5, <2>1
    <2>2. CASE r.merge # "Selection"
      BY <1>6, <2>2
    <2> QED
      BY <2>1, <2>2
  <1> QED
    BY <1>7, <1>8, <1>9

LEMMA BranchedRange ==
  ASSUME BlocksGiven, NEW b \in DOMAIN blocks
  PROVE  /\ Branched(b) = Range(MergeTargets(b)) \cup Range(Targets(b))
         /\ \A but : /\ Branches(b, but) \in Seq(Branched(b) \ but)
                     /\ Range(Branches(b, but)) = Branched(b) \ but
  <1>1. PICK S : Targets(b) \in Seq(S) /\ MergeTargets(b) \in Seq(S)
    BY ListsOfBlocks
  <1>2. /\ MergeTargets(b) \o Targets(b) \in Seq(S)
        /\ Range(MergeTargets(b) \o Targets(b)) = Range(MergeTargets(b)) \cup Range(Targets(b))
    BY <1>1, JoinedRange
  <1>3. ASSUME NEW but
        PROVE  /\ Branches(b, but) \in Seq(Branched(b) \ but)
               /\ Range(Branches(b, but)) = Branched(b) \ but
    BY <1>2, DistinctRange DEF Branches, Branched
  <1> QED
    BY <1>2, <1>3 DEF Branched

\* Nothing but what was resolved gets an edge, and all that a block branches to
\* gets one or has one.
LEMMA EdgesRange ==
  ASSUME BlocksGiven, Visits, EdgesForward, NEW p \in Unresolved, Branched(p) \subseteq visited_branches
  PROVE  /\ Edges(p) \in Seq(Resolved) /\ Range(Edges(p)) \subseteq Branched(p)
         /\ \A b \in Branched(p) \cap Resolved : b \in Range(Edges(p)) \/ Pred(b) # {}
         /\ (Range(LoopMergeOf(p)) \cup Range(Targets(p))) \cap Resolved \subseteq Range(Edges(p))
  <1>1. p \in DOMAIN blocks
    BY DEF Visits, Unresolved
  <1>2. PICK S : Targets(p) \in Seq(S) /\ LoopMergeOf(p) \in Seq(S) /\ MergeTargets(p) \in Seq(S)
    BY <1>1, ListsOfBlocks
  <1> DEFINE F == ForwardEdges(p)
             next == blocks[p].next_block
             some == Range(LoopMergeOf(p)) \cup Range(Targets(p))
  <1>3. F \in Seq(some \ Unresolved) /\ Range(F) = some \ Unresolved
    <2>1. /\ LoopMergeOf(p) \o Targets(p) \in Seq(S)
          /\ Range(LoopMergeOf(p) \o Targets(p)) = some
      BY <1>2, JoinedRange
    <2> HIDE DEF some
    <2> QED
      BY <2>1, DistinctRange DEF ForwardEdges
  <1>4. Branched(p) = Range(MergeTargets(p)) \cup Range(Targets(p))
    BY <1>1, BranchedRange
  <1>5. some \subseteq Branched(p)
    BY <1>1, <1>4, ListsOfBlocks
  <1>6. Branched(p) \ Unresolved \subseteq Resolved
    BY DEF Unresolved, Resolved
  <1> HIDE DEF some
  <1>7. F \in Seq(Resolved)
    <2>1. some \ Unresolved \subseteq Resolved
      BY <1>5, <1>6
    <2> QED
      BY <1>3, <2>1
  <1> HIDE DEF F
  <1>8. NeedsMergeEdge(p) => next \in Branched(p) /\ next \in Resolved
    BY <1>1, <1>4, <1>6, ListsOfBlocks DEF NeedsMergeEdge, IsBackEdge
  <1>9. Edges(p) = IF NeedsMergeEdge(p) THEN AddUnique(F, next) ELSE F
    BY DEF Edges, F
  <1> HIDE DEF next
  <1>10. /\ Edges(p) \in Seq(Resolved)
         /\ Range(Edges(p)) = Range(F) \cup (IF NeedsMergeEdge(p) THEN {next} ELSE {})
    <2>1. CASE NeedsMergeEdge(p)
      BY <1>7, <1>8, <1>9, <2>1, AddedRange
    <2>2. CASE ~NeedsMergeEdge(p)
      BY <1>7, <1>9, <2>2
    <2> QED
      BY <2>1, <2>2
  <1>11. ASSUME NEW b \in Branched(p) \cap Resolved, b \notin Range(Edges(p)) PROVE Pred(b) # {}
    <2>1. b \notin Range(F) /\ b \notin Unresolved
      BY <1>10, <1>11 DEF Unresolved, Resolved
    <2>2. b \notin some
      BY <1>3, <2>1
    <2>3. blocks[p].merge = "Selection" /\ b = next
      <3>1. b \in Range(MergeTargets(p)) /\ b \notin Range(LoopMergeOf(p))
        BY <1>4, <2>2 DEF some
      <3> QED
        BY <1>1, <3>1, ListsOfBlocks DEF next
    <2>4. ~NeedsMergeEdge(p)
      BY <1>10, <1>11, <2>3
    <2>5. EdgesOf(Preceded(preceding_edges, p, F), b) # << >>
      BY <2>1, <2>3, <2>4 DEF NeedsMergeEdge, IsBackEdge, next, F
    <2>6. b \in DOMAIN preceding_edges /\ preceding_edges[b] # << >>
      BY <2>1, <2>5 DEF EdgesOf, Preceded
    <2>7. preceding_edges[b] \in Seq(Resolved)
      BY <2>6 DEF EdgesForward
    <2>8. 1 \in DOMAIN preceding_edges[b]
      BY <2>6, <2>7
    <2> QED
      BY <2>6, <2>8 DEF Pred, EdgesOf, Range
  <1>12. Range(Edges(p)) \subseteq Branched(p)
    BY <1>3, <1>5, <1>8, <1>10
  <1>13. some \cap Resolved \subseteq Range(Edges(p))
    BY <1>3, <1>10 DEF Unresolved, Resolved
  <1> QED
    BY <1>10, <1>11, <1>12, <1>13 DEF some

-------------------------------------------------------------------------------
(* The steps of the walk *)

LEMMA SameBlocks ==
  ASSUME UNCHANGED ir
  PROVE  /\ BlocksGiven => BlocksGiven'
         /\ entry_block' = entry_block /\ blocks' = blocks
         /\ \A b : Branched(b)' = Branched(b)
  BY DEF ir, BlocksGiven, entry_block, Func, Branched, MergeTargets, LoopMergeOf, Targets

LEMMA SameEdges ==
  ASSUME UNCHANGED <<visit_order, post_order, preceding_edges, succeeding_edges>>
  PROVE  /\ Resolved' = Resolved /\ \A b : Pred(b)' = Pred(b) /\ Succ(b)' = Succ(b)
         /\ (Numbered => Numbered') /\ (EdgesForward => EdgesForward')
         /\ (SuccessorsResolved => SuccessorsResolved')
  <1>1. Resolved' = Resolved /\ \A b : Pred(b)' = Pred(b) /\ Succ(b)' = Succ(b)
    BY DEF Resolved, Pred, Succ, EdgesOf
  <1>2. Numbered => Numbered'
    BY <1>1 DEF Numbered
  <1>3. EdgesForward => EdgesForward'
    BY <1>1 DEF EdgesForward
  <1> QED
    BY <1>1, <1>2, <1>3 DEF SuccessorsResolved

LEMMA VisitWalks ==
  ASSUME BlocksGiven, WalkedSoFar, VisitBranches
  PROVE  WalkedSoFar'
  <1> DEFINE s == visit_stack
  <1>0. PICK n : n = Len(s)
    OBVIOUS
  <1> DEFINE p == ToVisit
             seen == visited_branches \cup {p}
             w == Reverse(Branches(p, seen))
  <1>1. /\ s \in Seq(DOMAIN blocks) /\ s # << >> /\ p = s[n] /\ p \notin visited_branches
        /\ visited_branches' = seen /\ visit_stack' = s \o w
        /\ UNCHANGED <<visit_order, post_order, preceding_edges, succeeding_edges>>
        /\ UNCHANGED ir
    BY <1>0 DEF WalkedSoFar, Visits, VisitBranches, Walking, ToVisit
  <1>2. n \in Nat \ {0} /\ DOMAIN s = 1 .. n /\ p \in DOMAIN blocks
    BY <1>0, <1>1
  <1>3. Range(MergeTargets(p) \o Targets(p)) \subseteq DOMAIN blocks
    BY DEF VisitBranches, Dangling
  <1>4. /\ w \in Seq(Branched(p) \ seen) /\ Range(w) = Branched(p) \ seen
        /\ Branched(p) \subseteq DOMAIN blocks
    <2>1. Branches(p, seen) \in Seq(Branched(p) \ seen) /\ Range(Branches(p, seen)) = Branched(p) \ seen
      <3> HIDE DEF p, seen
      <3> QED
        BY <1>2, BranchedRange
    <2> HIDE DEF p, seen
    <2> QED
      BY <1>3, <2>1, ReversedRange DEF Branched
  <1>5. /\ entry_block' = entry_block /\ blocks' = blocks /\ \A b : Branched(b)' = Branched(b)
        /\ Resolved' = Resolved /\ \A b : Pred(b)' = Pred(b)
        /\ Numbered' /\ EdgesForward' /\ SuccessorsResolved'
    <2>1. WalkedSoFar => Numbered /\ EdgesForward /\ SuccessorsResolved
      BY DEF WalkedSoFar
    <2>2. entry_block' = entry_block /\ blocks' = blocks /\ \A b : Branched(b)' = Branched(b)
      BY <1>1, SameBlocks
    <2>3. /\ Resolved' = Resolved /\ \A b : Pred(b)' = Pred(b)
          /\ (Numbered => Numbered') /\ (EdgesForward => EdgesForward')
          /\ (SuccessorsResolved => SuccessorsResolved')
      BY <1>1, SameEdges
    <2> QED
      BY <2>1, <2>2, <2>3
  <1> HIDE DEF s, p, seen, w
  <1> DEFINE m == Len(w)
  <1>6. m \in Nat /\ DOMAIN w = 1 .. m
    BY <1>4
  <1>7. /\ s \o w \in Seq(DOMAIN blocks) /\ DOMAIN (s \o w) = 1 .. n + m
        /\ \A i \in 1 .. n : (s \o w)[i] = s[i]
        /\ \A i \in n + 1 .. n + m : i - n \in 1 .. m /\ (s \o w)[i] = w[i - n]
        /\ \A k \in 1 .. m : k + n \in n + 1 .. n + m /\ (s \o w)[k + n] = w[k]
    <2>1. w \in Seq(DOMAIN blocks) /\ s \in Seq(DOMAIN blocks)
      BY <1>1, <1>4
    <2> QED
      BY <1>0, <1>2, <1>6, <2>1 DEF m
  <1>8. Len(s \o w) = n + m
    BY <1>0, <1>1, <1>4 DEF m
  <1> HIDE DEF m
  <1>9. \A i \in n + 1 .. n + m : (s \o w)[i] \in Branched(p) \ seen
    BY <1>4, <1>6, <1>7 DEF Range
  <1>10. ASSUME NEW t \in Branched(p) \ seen PROVE \E j \in n + 1 .. n + m : (s \o w)[j] = t
    <2>1. PICK k \in 1 .. m : w[k] = t
      BY <1>4, <1>6, <1>10 DEF Range
    <2> QED
      BY <1>7, <2>1
  <1>11. seen = visited_branches \cup {p} /\ Resolved \subseteq visited_branches
         /\ p \in DOMAIN blocks /\ visited_branches \subseteq DOMAIN blocks
    BY <1>2 DEF seen, WalkedSoFar, Visits
  <1>12. Unresolved' = Unresolved \cup {p} /\ Unresolved \subseteq visited_branches
    BY <1>1, <1>11 DEF Unresolved, Resolved
  <1>13. Visits'
    <2>1. \A b \in Resolved : Branched(b) \subseteq seen
      BY <1>11 DEF WalkedSoFar, Visits
    <2> QED
      BY <1>1, <1>5, <1>7, <1>11, <2>1 DEF Visits, s
  <1>14. \A i \in 1 .. n : Grey(i) => i # n /\ Grey(i)'
    <2> SUFFICES ASSUME NEW i \in 1 .. n, Grey(i) PROVE i # n /\ Grey(i)'
      OBVIOUS
    <2>1. s[i] \in Unresolved /\ \A j \in 1 .. n : j > i => s[j] # s[i]
      BY <1>2 DEF Grey, s
    <2>2. i # n
      BY <1>1, <1>12, <2>1
    <2>3. i \in DOMAIN visit_stack' /\ visit_stack'[i] = s[i] /\ visit_stack'[i] \in Unresolved'
      BY <1>1, <1>2, <1>6, <1>7, <1>12, <2>1
    <2>4. ASSUME NEW j \in 1 .. n + m, j > i PROVE visit_stack'[j] # s[i]
      <3>1. CASE j \in 1 .. n
        BY <1>1, <1>7, <2>1, <2>4, <3>1
      <3>2. CASE j \in n + 1 .. n + m
        BY <1>1, <1>9, <1>11, <1>12, <2>1, <3>2
      <3> QED
        BY <1>2, <1>6, <3>1, <3>2
    <2> QED
      BY <1>1, <1>7, <2>2, <2>3, <2>4 DEF Grey
  <1>15. Grey(n)' /\ visit_stack'[n] = p
    <2>1. n \in DOMAIN visit_stack' /\ visit_stack'[n] = p /\ p \in Unresolved'
      BY <1>1, <1>2, <1>6, <1>7, <1>12
    <2>2. \A j \in 1 .. n + m : j > n => visit_stack'[j] # p
      BY <1>1, <1>2, <1>6, <1>9, <1>11
    <2> QED
      BY <1>1, <1>7, <2>1, <2>2 DEF Grey
  <1>16. ASSUME NEW i, Grey(i)' PROVE i \in 1 .. n /\ (i # n => Grey(i))
    <2>1. i \in 1 .. n + m /\ visit_stack'[i] \in Unresolved \cup {p}
      BY <1>1, <1>7, <1>12, <1>16 DEF Grey
    <2>2. i \in 1 .. n
      BY <1>1, <1>2, <1>6, <1>9, <1>11, <1>12, <2>1
    <2>3. ASSUME i # n PROVE Grey(i)
      <3>1. \A j \in 1 .. n : j > i => s[j] # s[i]
        <4> SUFFICES ASSUME NEW j \in 1 .. n, j > i PROVE s[j] # s[i]
          OBVIOUS
        <4>1. j \in DOMAIN visit_stack'
          BY <1>1, <1>2, <1>6, <1>7
        <4>2. visit_stack'[j] # visit_stack'[i]
          BY <1>16, <4>1 DEF Grey
        <4> QED
          BY <1>1, <1>7, <2>2, <4>2
      <3>2. s[n] # s[i] /\ s[i] = visit_stack'[i]
        BY <1>1, <1>2, <1>7, <2>2, <2>3, <3>1
      <3>3. s[i] \in Unresolved
        BY <1>1, <2>1, <3>2
      <3> QED
        BY <1>2, <2>2, <3>1, <3>3 DEF Grey, s
    <2> QED
      BY <2>2, <2>3
  <1>17. EntryLast'
    <2>1. /\ s[1] = entry_block /\ entry_block \notin Resolved
          /\ entry_block \notin visited_branches => visited_branches = {} /\ n = 1
          /\ \A i \in 1 .. n : i # 1 => s[i] # entry_block
      BY <1>0, <1>1, <1>2 DEF WalkedSoFar, EntryLast, s
    <2>2. visit_stack'[1] = entry_block /\ visit_stack' # << >>
      BY <1>1, <1>2, <1>6, <1>7, <1>8, <2>1
    <2>3. entry_block \in seen
      BY <1>1, <1>11, <2>1
    <2>4. \A i \in 1 .. n + m : i # 1 => visit_stack'[i] # entry_block
      <3> SUFFICES ASSUME NEW i \in 1 .. n + m, i # 1 PROVE visit_stack'[i] # entry_block
        OBVIOUS
      <3>1. CASE i \in 1 .. n
        BY <1>1, <1>7, <2>1, <3>1
      <3>2. CASE i \in n + 1 .. n + m
        BY <1>1, <1>9, <2>3, <3>2
      <3> QED
        BY <1>2, <1>6, <3>1, <3>2
    <2> QED
      BY <1>1, <1>5, <1>7, <2>1, <2>2, <2>3, <2>4 DEF EntryLast
  <1>18. AllAwaited'
    <2>0. DOMAIN visit_stack' = 1 .. n + m /\ visited_branches' = seen
      BY <1>1, <1>7
    <2> SUFFICES ASSUME NEW i \in DOMAIN visit_stack', Grey(i)', NEW t \in Branched(visit_stack[i])',
                        t \notin visited_branches'
                 PROVE  \E j \in DOMAIN visit_stack' : j > i /\ visit_stack'[j] = t
      BY DEF AllAwaited
    <2>4. i \in 1 .. n + m /\ t \in Branched(visit_stack'[i]) /\ t \notin seen
      BY <1>5, <2>0
    <2>1. i \in 1 .. n /\ (i # n => Grey(i))
      BY <1>16
    <2>2. CASE i = n
      <3>1. t \in Branched(p) \ seen
        BY <1>15, <2>2, <2>4
      <3>2. PICK j \in n + 1 .. n + m : (s \o w)[j] = t
        BY <1>10, <3>1
      <3>3. j \in 1 .. n + m /\ j > i
        BY <1>2, <1>6, <2>2, <3>2
      <3> QED
        BY <1>1, <2>0, <3>2, <3>3
    <2>3. CASE i # n
      <3>1. Grey(i) /\ t \in Branched(s[i]) /\ t \notin visited_branches
        BY <1>1, <1>7, <1>11, <2>1, <2>3, <2>4
      <3>2. PICK j \in 1 .. n : j > i /\ s[j] = t
        BY <1>2, <2>1, <3>1 DEF WalkedSoFar, AllAwaited, s
      <3>3. j \in 1 .. n + m /\ visit_stack'[j] = t
        BY <1>1, <1>2, <1>6, <1>7, <3>2
      <3> QED
        BY <2>0, <3>2, <3>3
    <2> QED
      BY <2>2, <2>3
  <1>19. AllCalled'
    <2> SUFFICES ASSUME NEW j \in 1 .. n + m, j # 1
                 PROVE  \E i \in 1 .. n + m : i < j /\ Grey(i)' /\ visit_stack'[j] \in Branched(visit_stack'[i])
      BY <1>1, <1>5, <1>7 DEF AllCalled
    <2>1. CASE j \in 1 .. n
      <3>1. PICK i \in 1 .. n : i < j /\ Grey(i) /\ s[j] \in Branched(s[i])
        BY <1>2, <2>1 DEF WalkedSoFar, AllCalled, s
      <3>2. visit_stack'[j] = s[j] /\ visit_stack'[i] = s[i] /\ i \in 1 .. n + m
        BY <1>1, <1>2, <1>6, <1>7, <2>1, <3>1
      <3> QED
        BY <1>14, <3>1, <3>2
    <2>2. CASE j \in n + 1 .. n + m
      <3>1. visit_stack'[j] \in Branched(visit_stack'[n])
        BY <1>1, <1>9, <1>15, <2>2
      <3>2. n \in 1 .. n + m /\ n < j
        BY <1>2, <1>6, <2>2
      <3> QED
        BY <1>15, <3>1, <3>2
    <2> QED
      BY <1>2, <1>6, <2>1, <2>2
  <1>20. AllOnStack'
    <2> SUFFICES ASSUME NEW b \in Unresolved \cup {p} PROVE \E i \in 1 .. n + m : Grey(i)' /\ visit_stack'[i] = b
      BY <1>1, <1>7, <1>12 DEF AllOnStack
    <2>1. CASE b = p
      BY <1>2, <1>6, <1>15, <2>1
    <2>2. CASE b \in Unresolved
      <3>1. PICK i \in 1 .. n : Grey(i) /\ s[i] = b
        BY <1>2, <2>2 DEF WalkedSoFar, AllOnStack, s
      <3>2. visit_stack'[i] = s[i] /\ i \in 1 .. n + m
        BY <1>1, <1>2, <1>6, <1>7, <3>1
      <3> QED
        BY <1>14, <3>1, <3>2
    <2> QED
      BY <2>1, <2>2
  <1>21. AllEntered'
    <2> SUFFICES ASSUME NEW b \in Resolved, b # entry_block, Pred(b) = {}
                 PROVE  \E i \in 1 .. n + m : Grey(i)' /\ b \in Branched(visit_stack'[i])
      BY <1>1, <1>5, <1>7 DEF AllEntered
    <2>1. PICK i \in 1 .. n : Grey(i) /\ b \in Branched(s[i])
      BY <1>2 DEF WalkedSoFar, AllEntered, s
    <2>2. visit_stack'[i] = s[i] /\ i \in 1 .. n + m
      BY <1>1, <1>2, <1>6, <1>7, <2>1
    <2> QED
      BY <1>14, <2>1, <2>2
  <1> QED
    BY <1>5, <1>13, <1>17, <1>18, <1>19, <1>20, <1>21 DEF WalkedSoFar

\* A block that is resolved gets the next number, and edges to blocks that have one.
LEMMA ResolvesNumbered ==
  ASSUME Numbered, NEW p, p \notin Resolved,
         post_order' = Append(post_order, p), visit_order' = Extended(visit_order, p, Len(post_order) + 1)
  PROVE  /\ Numbered' /\ Resolved' = Resolved \cup {p} /\ visit_order'[p] = Len(post_order')
         /\ \A b \in Resolved : visit_order'[b] = visit_order[b] /\ visit_order[b] < visit_order'[p]
  <1>1. PICK n \in Nat : n = Len(post_order)
    BY DEF Numbered
  <1>2. PICK R : R = Resolved
    OBVIOUS
  <1>3. /\ post_order \in Seq(R) /\ visit_order \in [R -> 1 .. n]
        /\ \A k \in 1 .. n : visit_order[post_order[k]] = k
        /\ \A b \in R : post_order[visit_order[b]] = b
    BY <1>1, <1>2 DEF Numbered
  <1>4. /\ DOMAIN visit_order' = R \cup {p} /\ visit_order'[p] = n + 1
        /\ \A b \in R : visit_order'[b] = visit_order[b]
    BY <1>1, <1>2 DEF Extended, Resolved
  <1>5. Resolved' = R \cup {p}
    BY <1>4 DEF Resolved
  <1>6. /\ post_order' \in Seq(R \cup {p}) /\ Len(post_order') = n + 1
        /\ \A k \in 1 .. n : post_order'[k] = post_order[k] /\ post_order[k] \in R
        /\ post_order'[n + 1] = p
    BY <1>1, <1>3
  <1>7. visit_order' \in [R \cup {p} -> 1 .. n + 1]
    <2>1. visit_order' = [i \in R \cup {p} |-> IF i = p THEN n + 1 ELSE visit_order[i]]
      BY <1>1, <1>2 DEF Extended, Resolved
    <2>2. \A b \in R : visit_order[b] \in 1 .. n + 1
      BY <1>3
    <2> QED
      BY <2>1, <2>2
  <1>8. \A k \in 1 .. n + 1 : visit_order'[post_order'[k]] = k
    <2>1. \A k \in 1 .. n : visit_order'[post_order'[k]] = k
      BY <1>3, <1>4, <1>6
    <2> QED
      BY <1>4, <1>6, <2>1
  <1>9. \A b \in R \cup {p} : post_order'[visit_order'[b]] = b
    <2>1. \A b \in R : visit_order[b] \in 1 .. n
      BY <1>3
    <2> QED
      BY <1>3, <1>4, <1>6, <2>1
  <1>10. Numbered'
    BY <1>5, <1>6, <1>7, <1>8, <1>9 DEF Numbered
  <1>11. \A b \in R : visit_order[b] < n + 1
    BY <1>3
  <1> QED
    BY <1>2, <1>4, <1>5, <1>6, <1>10, <1>11

LEMMA ResolvesEdges ==
  ASSUME Numbered, EdgesForward, SuccessorsResolved, NEW p, p \notin Resolved,
         NEW E \in Seq(Resolved),
         post_order' = Append(post_order, p), visit_order' = Extended(visit_order, p, Len(post_order) + 1),
         preceding_edges' = Preceded(preceding_edges, p, E),
         succeeding_edges' = IF E = << >> THEN succeeding_edges ELSE Extended(succeeding_edges, p, E)
  PROVE  /\ EdgesForward' /\ SuccessorsResolved'
         /\ \A b : Pred(b)' = Pred(b) \cup (IF b \in Range(E) THEN {p} ELSE {})
  <1>1. /\ Resolved' = Resolved \cup {p}
        /\ \A b \in Resolved : visit_order'[b] = visit_order[b] /\ visit_order[b] < visit_order'[p]
    BY ResolvesNumbered
  <1>2. PICK R : R = Resolved
    OBVIOUS
  <1>3. /\ DOMAIN preceding_edges \subseteq R /\ DOMAIN succeeding_edges \subseteq R
        /\ \A b \in DOMAIN preceding_edges : preceding_edges[b] \in Seq(R)
        /\ \A a \in R : \A b \in Succ(a) : b \in R /\ visit_order[b] < visit_order[a]
        /\ \A a, b \in R : a \in Pred(b) <=> b \in Succ(a)
    BY <1>2 DEF EdgesForward, SuccessorsResolved
  <1>4. E \in Seq(R) /\ Range(E) \subseteq R
    BY <1>2 DEF Range
  <1>5. \A b : EdgesOf(preceding_edges, b) \in Seq(R) /\ Pred(b) \subseteq R /\ (b \notin R => Pred(b) = {})
    <2>1. << >> \in Seq(R) /\ Range(<< >>) = {}
      BY DEF Range
    <2>2. \A b : EdgesOf(preceding_edges, b) \in Seq(R)
      BY <1>3, <2>1 DEF EdgesOf
    <2>3. \A b : Pred(b) \subseteq R
      BY <2>2 DEF Pred, Range
    <2> QED
      BY <1>3, <2>1, <2>2, <2>3 DEF Pred, EdgesOf
  <1>6. /\ DOMAIN preceding_edges' = DOMAIN preceding_edges \cup Range(E)
        /\ \A b \in Range(E) : preceding_edges'[b] = AddUnique(EdgesOf(preceding_edges, b), p)
        /\ \A b \in DOMAIN preceding_edges \ Range(E) : preceding_edges'[b] = preceding_edges[b]
    BY DEF Preceded
  <1>7. \A b \in Range(E) : /\ preceding_edges'[b] \in Seq(R \cup {p})
                            /\ Range(preceding_edges'[b]) = Pred(b) \cup {p}
    <2> SUFFICES ASSUME NEW b \in Range(E)
                 PROVE  /\ preceding_edges'[b] \in Seq(R \cup {p})
                        /\ Range(preceding_edges'[b]) = Pred(b) \cup {p}
      OBVIOUS
    <2>1. PICK list : list = EdgesOf(preceding_edges, b)
      OBVIOUS
    <2>2. list \in Seq(R)
      BY <1>5, <2>1
    <2>3. list \in Seq(R \cup {p}) /\ p \in R \cup {p}
      BY <2>2
    <2>4. AddUnique(list, p) \in Seq(R \cup {p}) /\ Range(AddUnique(list, p)) = Range(list) \cup {p}
      BY <2>3, AddedRange
    <2> QED
      BY <1>6, <2>1, <2>4 DEF Pred
  <1>8. \A b : Pred(b)' = Pred(b) \cup (IF b \in Range(E) THEN {p} ELSE {})
    <2> SUFFICES ASSUME NEW b PROVE Pred(b)' = Pred(b) \cup (IF b \in Range(E) THEN {p} ELSE {})
      OBVIOUS
    <2>1. Pred(b)' = Range(EdgesOf(preceding_edges', b))
      BY DEF Pred
    <2>2. CASE b \in Range(E)
      BY <1>6, <1>7, <2>1, <2>2 DEF EdgesOf
    <2>3. CASE b \notin Range(E)
      BY <1>6, <2>1, <2>3 DEF EdgesOf, Pred
    <2> QED
      BY <2>2, <2>3
  <1>9. Succ(p)' = Range(E) /\ \A a \in R : Succ(a)' = Succ(a)
    <2>1. CASE E = << >>
      <3>1. p \notin DOMAIN succeeding_edges
        BY <1>2, <1>3
      <3> QED
        BY <2>1, <3>1 DEF Succ, EdgesOf
    <2>2. CASE E # << >>
      <3>1. /\ DOMAIN succeeding_edges' = DOMAIN succeeding_edges \cup {p} /\ succeeding_edges'[p] = E
            /\ \A a \in DOMAIN succeeding_edges : a # p => succeeding_edges'[a] = succeeding_edges[a]
        BY <2>2 DEF Extended
      <3>2. p \notin R
        BY <1>2
      <3> QED
        BY <3>1, <3>2 DEF Succ, EdgesOf
    <2> QED
      BY <2>1, <2>2
  <1>10. SuccessorsResolved'
    <2>1. DOMAIN succeeding_edges' \subseteq DOMAIN succeeding_edges \cup {p}
      BY DEF Extended
    <2> QED
      BY <1>1, <1>2, <1>3, <2>1 DEF SuccessorsResolved
  <1>11. p \notin R /\ Resolved' = R \cup {p}
    BY <1>1, <1>2
  <1>12. \A a \in R \cup {p} : \A b \in Succ(a)' : b \in R \cup {p} /\ visit_order'[b] < visit_order'[a]
    BY <1>1, <1>2, <1>3, <1>4, <1>9
  <1>13. \A a, b \in R \cup {p} : a \in Pred(b)' <=> b \in Succ(a)'
    BY <1>3, <1>4, <1>5, <1>8, <1>9, <1>11
  <1>14. /\ DOMAIN preceding_edges' \subseteq R \cup {p}
         /\ \A b \in DOMAIN preceding_edges' : preceding_edges'[b] \in Seq(R \cup {p})
    BY <1>3, <1>4, <1>6, <1>7
  <1>15. EdgesForward'
    BY <1>11, <1>12, <1>13, <1>14 DEF EdgesForward
  <1> QED
    BY <1>8, <1>10, <1>15

\* What a block branches to has been visited when it is resolved.
LEMMA ResolveReady ==
  ASSUME BlocksGiven, WalkedSoFar, Resolve, NEW p, p = ToVisit
  PROVE  /\ p \in visited_branches /\ p \in DOMAIN blocks
         /\ p \notin Resolved => p \in Unresolved /\ Branched(p) \subseteq visited_branches
  <1>1. visit_stack \in Seq(DOMAIN blocks) /\ visit_stack # << >> /\ p \in visited_branches
    BY DEF WalkedSoFar, Visits, Resolve, Walking
  <1>2. PICK n \in Nat \ {0} : n = Len(visit_stack) /\ DOMAIN visit_stack = 1 .. n
    BY <1>1
  <1>3. n \in 1 .. n /\ p = visit_stack[n]
    BY <1>2 DEF ToVisit
  <1>4. p \in DOMAIN blocks
    BY <1>1, <1>2, <1>3
  <1>5. ASSUME p \notin Resolved PROVE p \in Unresolved /\ Branched(p) \subseteq visited_branches
    <2>1. p \in Unresolved
      BY <1>1, <1>5 DEF Unresolved, Resolved
    <2>2. Grey(n)
      BY <1>2, <1>3, <2>1 DEF Grey
    <2>3. ASSUME NEW t \in Branched(p), t \notin visited_branches PROVE FALSE
      <3>1. PICK j \in 1 .. n : j > n
        BY <1>2, <1>3, <2>2, <2>3 DEF WalkedSoFar, AllAwaited
      <3> QED
        BY <3>1
    <2> QED
      BY <2>1, <2>3
  <1> QED
    BY <1>1, <1>4, <1>5

LEMMA ResolveWalks ==
  ASSUME BlocksGiven, WalkedSoFar, Resolve
  PROVE  WalkedSoFar'
  <1>s. PICK s : s = visit_stack
    OBVIOUS
  <1>0. PICK n \in Nat \ {0}, p \in DOMAIN blocks :
          /\ s = visit_stack /\ n = Len(s) /\ p = s[n] /\ p = ToVisit
          /\ s \in Seq(DOMAIN blocks) /\ DOMAIN s = 1 .. n /\ visit_stack' = SubSeq(s, 1, n - 1)
    <2>1. visit_stack \in Seq(DOMAIN blocks) /\ visit_stack # << >>
      BY DEF WalkedSoFar, Visits, Resolve, Walking
    <2>2. Len(visit_stack) \in Nat \ {0} /\ DOMAIN visit_stack = 1 .. Len(visit_stack)
      BY <2>1
    <2>3. ToVisit \in DOMAIN blocks /\ ToVisit = visit_stack[Len(visit_stack)]
      BY <2>1, <2>2 DEF ToVisit
    <2> QED
      BY <1>s, <2>1, <2>2, <2>3 DEF Resolve, ToVisit
  <1>1. visit_stack = s /\ DOMAIN s = 1 .. n /\ n \in 1 .. n /\ s[n] = p /\ p = ToVisit
    BY <1>0
  <1>2. p \in visited_branches /\ p \in DOMAIN blocks /\ UNCHANGED ir /\ visited_branches' = visited_branches
    <2>1. \A i \in 1 .. n : s[i] \in DOMAIN blocks
      BY <1>0
    <2> QED
      BY <1>1, <2>1 DEF Resolve, ir
  <1>3. /\ entry_block' = entry_block /\ blocks' = blocks /\ \A b : Branched(b)' = Branched(b)
    BY <1>2, SameBlocks
  <1>4. /\ visit_stack' \in Seq(DOMAIN blocks) /\ DOMAIN visit_stack' = 1 .. n - 1
        /\ \A i \in 1 .. n - 1 : visit_stack'[i] = s[i] /\ i \in 1 .. n /\ i # n
        /\ n = 1 => visit_stack' = << >>
    BY <1>0
  <1>5. /\ Resolved \subseteq visited_branches /\ visited_branches \subseteq DOMAIN blocks
        /\ \A b \in Resolved : Branched(b) \subseteq visited_branches
        /\ Numbered /\ EdgesForward /\ SuccessorsResolved /\ Visits
    BY DEF WalkedSoFar, Visits
  <1>6. p \notin Resolved => p \in Unresolved /\ Branched(p) \subseteq visited_branches
    BY <1>1, ResolveReady
  <1>7. /\ Resolved' = Resolved \cup {p} /\ Numbered' /\ EdgesForward' /\ SuccessorsResolved'
        /\ \A b : Pred(b) \subseteq Pred(b)'
        /\ p \notin Resolved => /\ visit_order'[p] = Len(post_order')
                                /\ \A b \in Branched(p) \cap Resolved : Pred(b)' # {}
    <2>1. CASE p \in Resolved
      <3>1. UNCHANGED <<visit_order, post_order, preceding_edges, succeeding_edges>>
        BY <1>0, <2>1 DEF Resolve, Resolved
      <3> QED
        BY <1>5, <2>1, <3>1, SameEdges
    <2>2. CASE p \notin Resolved
      <3>1. PICK E : E = Edges(p)
        OBVIOUS
      <3>2. /\ preceding_edges' = Preceded(preceding_edges, p, E)
            /\ succeeding_edges' = IF E = << >> THEN succeeding_edges ELSE Extended(succeeding_edges, p, E)
            /\ post_order' = Append(post_order, p) /\ visit_order' = Extended(visit_order, p, Len(post_order) + 1)
        BY <1>0, <2>2, <3>1 DEF Resolve, Resolved
      <3>3. E \in Seq(Resolved) /\ \A b \in Branched(p) \cap Resolved : b \in Range(E) \/ Pred(b) # {}
        <4>1. p \in Unresolved
          BY <1>2, <2>2 DEF Unresolved, Resolved
        <4> QED
          BY <1>5, <1>6, <2>2, <3>1, <4>1, EdgesRange
      <3>4. /\ EdgesForward' /\ SuccessorsResolved'
            /\ \A b : Pred(b)' = Pred(b) \cup (IF b \in Range(E) THEN {p} ELSE {})
        BY <1>5, <2>2, <3>2, <3>3, ResolvesEdges
      <3>5. Numbered' /\ Resolved' = Resolved \cup {p} /\ visit_order'[p] = Len(post_order')
        BY <1>5, <2>2, <3>2, ResolvesNumbered
      <3> QED
        BY <3>3, <3>4, <3>5
    <2> QED
      BY <2>1, <2>2
  <1>8. Unresolved' = Unresolved \ {p}
    BY <1>2, <1>7 DEF Unresolved, Resolved
  <1>9. \A i \in 1 .. n - 1 : Grey(i) <=> Grey(i)'
    <2> TAKE i \in 1 .. n - 1
    <2>1. Grey(i)' <=> s[i] \in Unresolved \ {p} /\ \A j \in 1 .. n - 1 : j > i => s[j] # s[i]
      BY <1>4, <1>8 DEF Grey
    <2>2. Grey(i) <=> s[i] \in Unresolved /\ \A j \in 1 .. n : j > i => s[j] # s[i]
      BY <1>0, <1>4 DEF Grey
    <2>3. (\A j \in 1 .. n : j > i => s[j] # s[i]) <=> s[i] # p /\ \A j \in 1 .. n - 1 : j > i => s[j] # s[i]
      <3>1. \A j \in 1 .. n : j \in 1 .. n - 1 \/ j = n
        OBVIOUS
      <3>2. n \in 1 .. n /\ n > i
        OBVIOUS
      <3> QED
        BY <1>0, <1>4, <3>1, <3>2
    <2> QED
      BY <2>1, <2>2, <2>3
  <1>10. Visits'
    <2>1. \A b \in Resolved \cup {p} : Branched(b) \subseteq visited_branches
      BY <1>5, <1>6
    <2> QED
      BY <1>2, <1>3, <1>4, <1>5, <1>7, <2>1 DEF Visits
  <1>11. /\ s[1] = entry_block /\ entry_block \notin Resolved
         /\ \A i \in 1 .. n : i # 1 => s[i] # entry_block
         /\ entry_block \in visited_branches
    BY <1>0, <1>2 DEF WalkedSoFar, EntryLast
  <1>12. EntryLast'
    <2>1. CASE n = 1
      BY <1>0, <1>3, <1>4, <1>7, <1>11, <2>1 DEF EntryLast
    <2>2. CASE n # 1
      <3>1. p # entry_block /\ 1 \in 1 .. n - 1
        BY <1>11, <1>1, <2>2
      <3>2. visit_stack'[1] = entry_block /\ visit_stack' # << >>
        BY <1>4, <1>11, <3>1
      <3>3. entry_block \notin Resolved' /\ entry_block \in visited_branches'
        BY <1>2, <1>7, <1>11, <3>1
      <3>4. \A i \in 1 .. n - 1 : i # 1 => visit_stack'[i] # entry_block
        BY <1>4, <1>11
      <3> QED
        BY <1>3, <1>4, <3>2, <3>3, <3>4 DEF EntryLast
    <2> QED
      BY <2>1, <2>2
  <1>13. AllAwaited'
    <2> SUFFICES ASSUME NEW i \in DOMAIN visit_stack', Grey(i)', NEW t \in Branched(visit_stack[i])',
                        t \notin visited_branches'
                 PROVE  \E j \in DOMAIN visit_stack' : j > i /\ visit_stack'[j] = t
      BY DEF AllAwaited
    <2>1. i \in 1 .. n - 1 /\ i \in 1 .. n /\ t \in Branched(s[i]) /\ t \notin visited_branches
      BY <1>2, <1>3, <1>4
    <2>2. Grey(i)
      BY <1>9, <2>1
    <2>3. PICK j \in 1 .. n : j > i /\ s[j] = t
      BY <1>1, <2>1, <2>2 DEF WalkedSoFar, AllAwaited
    <2>4. j # n
      BY <1>0, <1>2, <2>1, <2>3
    <2>5. j \in 1 .. n - 1
      BY <2>4
    <2> QED
      BY <1>4, <2>3, <2>5
  <1>14. AllCalled'
    <2> SUFFICES ASSUME NEW j \in DOMAIN visit_stack', j # 1
                 PROVE  \E i \in DOMAIN visit_stack' :
                          i < j /\ Grey(i)' /\ visit_stack'[j] \in Branched(visit_stack[i])'
      BY DEF AllCalled
    <2>1. j \in 1 .. n - 1 /\ j \in 1 .. n
      BY <1>4
    <2>2. PICK i \in 1 .. n : i < j /\ Grey(i) /\ s[j] \in Branched(s[i])
      BY <1>0, <2>1 DEF WalkedSoFar, AllCalled
    <2>3. i \in 1 .. n - 1
      BY <2>1, <2>2
    <2>4. visit_stack'[j] \in Branched(visit_stack[i])'
      BY <1>3, <1>4, <2>1, <2>2, <2>3
    <2> QED
      BY <1>4, <1>9, <2>2, <2>3, <2>4
  <1>15. AllOnStack'
    <2> SUFFICES ASSUME NEW b \in Unresolved, b # p
                 PROVE  \E i \in DOMAIN visit_stack' : Grey(i)' /\ visit_stack'[i] = b
      BY <1>8 DEF AllOnStack
    <2>1. PICK i \in 1 .. n : Grey(i) /\ s[i] = b
      BY <1>0 DEF WalkedSoFar, AllOnStack
    <2>2. i # n
      BY <1>1, <2>1
    <2>3. i \in 1 .. n - 1
      BY <2>2
    <2> QED
      BY <1>4, <1>9, <2>1, <2>3
  <1>16. AllEntered'
    <2> SUFFICES ASSUME NEW b \in Resolved', b # entry_block, Pred(b)' = {}
                 PROVE  \E i \in DOMAIN visit_stack' : Grey(i)' /\ b \in Branched(visit_stack[i])'
      BY <1>3 DEF AllEntered
    <2>1. \E i \in 1 .. n - 1 : Grey(i) /\ b \in Branched(s[i])
      <3>1. CASE b \in Resolved
        <4>1. Pred(b) = {}
          BY <1>7
        <4>2. PICK i \in 1 .. n : Grey(i) /\ b \in Branched(s[i])
          BY <1>0, <3>1, <4>1 DEF WalkedSoFar, AllEntered
        <4>3. i # n
          <5> SUFFICES ASSUME i = n PROVE FALSE
            OBVIOUS
          <5>1. p \notin Resolved /\ b \in Branched(p)
            BY <1>0, <4>2 DEF Grey, Unresolved, Resolved
          <5> QED
            BY <1>7, <3>1, <5>1
        <4>4. i \in 1 .. n - 1
          BY <4>3
        <4> QED
          BY <4>2, <4>4
      <3>2. CASE b \notin Resolved
        <4>1. b = p /\ n # 1 /\ n \in 1 .. n
          BY <1>7, <1>11, <1>1, <3>2
        <4>2. PICK i \in 1 .. n : i < n /\ Grey(i) /\ p \in Branched(s[i])
          <5>1. AllCalled
            BY DEF WalkedSoFar
          <5>2. visit_stack = s /\ DOMAIN visit_stack = 1 .. n /\ s[n] = p
            BY <1>0
          <5> QED
            BY <4>1, <5>1, <5>2 DEF AllCalled
        <4>3. i \in 1 .. n - 1
          BY <4>2
        <4> QED
          BY <4>1, <4>2, <4>3
      <3> QED
        BY <3>1, <3>2
    <2>2. PICK i \in 1 .. n - 1 : Grey(i) /\ b \in Branched(s[i])
      BY <2>1
    <2>3. b \in Branched(visit_stack[i])'
      BY <1>3, <1>4, <2>2
    <2> QED
      BY <1>4, <1>9, <2>2, <2>3
  <1> QED
    BY <1>7, <1>10, <1>12, <1>13, <1>14, <1>15, <1>16 DEF WalkedSoFar

-------------------------------------------------------------------------------
(* What the walk starts from *)

IsCases(cases) == cases \in Seq(Range(cases))

\* Blocks have lists of cases, and functions begin with a block.
Made ==
  /\ IsFiniteSet(DOMAIN blocks)
  /\ \A b \in DOMAIN blocks : "cases" \in DOMAIN blocks[b] /\ IsCases(blocks[b].cases)
  /\ \A f \in DOMAIN functions :
       "entry_block" \in DOMAIN functions[f] /\ functions[f].entry_block \in DOMAIN blocks \cup {0}

CasesKept ==
  /\ DOMAIN blocks' = DOMAIN blocks
  /\ \A b \in DOMAIN blocks : "cases" \in DOMAIN blocks[b] =>
       "cases" \in DOMAIN blocks'[b] /\ blocks'[b].cases = blocks[b].cases

EntriesKept ==
  /\ DOMAIN functions' = DOMAIN functions
  /\ \A f \in DOMAIN functions : "entry_block" \in DOMAIN functions[f] =>
       "entry_block" \in DOMAIN functions'[f] /\ functions'[f].entry_block = functions[f].entry_block

LEMMA KeepsMade ==
  ASSUME Made, CasesKept, EntriesKept
  PROVE  Made'
  BY DEF Made, CasesKept, EntriesKept

LEMMA SameFunctions == ASSUME UNCHANGED functions PROVE EntriesKept
  BY DEF EntriesKept

\* The end of a block may give it other cases.
LEMMA EndsMade ==
  ASSUME Made, NEW block, EndBlock(block), "cases" \in DOMAIN block, IsCases(block.cases)
  PROVE  Made'
  <1>1. blocks' = [blocks EXCEPT ![current_block] = block] /\ functions' = functions
    BY DEF EndBlock
  <1>2. /\ DOMAIN blocks' = DOMAIN blocks
        /\ \A b \in DOMAIN blocks : blocks'[b] = blocks[b] \/ blocks'[b] = block
    BY <1>1
  <1>3. \A b \in DOMAIN blocks : "cases" \in DOMAIN blocks'[b] /\ IsCases(blocks'[b].cases)
    BY <1>2 DEF Made
  <1> QED
    BY <1>1, <1>2, <1>3 DEF Made

LEMMA QuietMade ==
  ASSUME Made,
         ParseThrows \/ ParseIgnored \/ ParseEntryPoint \/ ParseFunctionParameter \/ ParseFunctionEnd
           \/ ParseVariable \/ ParsePhi \/ ParseOp \/ ParseSelectionMerge \/ ParseLoopMerge \/ ParseEnd
  PROVE  Made'
  <1>1. EntriesKept
    BY DEF EntriesKept, ir, ParseThrows, ParseIgnored, ParseEntryPoint, ParseFunctionParameter, ParseFunctionEnd,
           ParseVariable, ParsePhi, ParseOp, ParseSelectionMerge, ParseLoopMerge, ParseEnd
  <1>2. CASE ParseThrows \/ ParseIgnored \/ ParseEntryPoint \/ ParseFunctionParameter \/ ParseFunctionEnd
               \/ ParseVariable \/ ParseEnd
    <2>1. UNCHANGED blocks
      BY <1>2 DEF ir, ParseThrows, ParseIgnored, ParseEntryPoint, ParseFunctionParameter, ParseFunctionEnd,
                  ParseVariable, ParseEnd
    <2>2. CasesKept
      BY <2>1 DEF CasesKept
    <2> QED
      BY <1>1, <2>2, KeepsMade
  <1>3. CASE ParsePhi \/ ParseOp
    <2>1. CasesKept
      <3>1. CASE ParsePhi
        BY <3>1 DEF CasesKept, ParsePhi
      <3>2. CASE ParseOp
        BY <3>2 DEF CasesKept, ParseOp
      <3> QED
        BY <1>3, <3>1, <3>2
    <2> QED
      BY <1>1, <2>1, KeepsMade
  <1>4. CASE ParseSelectionMerge \/ ParseLoopMerge
    <2>1. CasesKept
      BY <1>4 DEF CasesKept, ParseSelectionMerge, ParseLoopMerge
    <2> QED
      BY <1>1, <2>1, KeepsMade
  <1> QED
    BY <1>2, <1>3, <1>4

LEMMA FunctionMade ==
  ASSUME Made, ParseFunction
  PROVE  Made'
  <1>1. functions' = Extended(functions, Instruction.id, NewFunction) /\ blocks' = blocks
    BY DEF ParseFunction
  <1>2. /\ DOMAIN functions' = DOMAIN functions \cup {Instruction.id}
        /\ \A f \in DOMAIN functions' : functions'[f] = NewFunction \/ (f \in DOMAIN functions /\ functions'[f] = functions[f])
    BY <1>1 DEF Extended
  <1>3. "entry_block" \in DOMAIN NewFunction /\ NewFunction.entry_block = 0
    BY DEF NewFunction
  <1> QED
    BY <1>1, <1>2, <1>3 DEF Made

LEMMA LabelMade ==
  ASSUME Made, ParseLabel
  PROVE  Made'
  <1> DEFINE id == Instruction.id
  <1>1. /\ blocks' = Extended(blocks, id, NewBlock)
        /\ functions' = [functions EXCEPT
             ![current_function].blocks = Append(@, id),
             ![current_function].entry_block = IF @ = 0 THEN id ELSE @]
    BY DEF ParseLabel
  <1> HIDE DEF id
  <1>2. /\ DOMAIN blocks' = DOMAIN blocks \cup {id}
        /\ \A b \in DOMAIN blocks' : blocks'[b] = NewBlock \/ (b \in DOMAIN blocks /\ blocks'[b] = blocks[b])
    BY <1>1 DEF Extended
  <1>3. IsFiniteSet(DOMAIN blocks')
    BY <1>2, FS_AddElement DEF Made
  <1>4. "cases" \in DOMAIN NewBlock /\ IsCases(NewBlock.cases)
    BY DEF NewBlock, IsCases
  <1>5. \A b \in DOMAIN blocks' : "cases" \in DOMAIN blocks'[b] /\ IsCases(blocks'[b].cases)
    BY <1>2, <1>4 DEF Made
  <1>6. /\ DOMAIN functions' = DOMAIN functions
        /\ \A f \in DOMAIN functions : "entry_block" \in DOMAIN functions[f] =>
             "entry_block" \in DOMAIN functions'[f] /\ functions'[f].entry_block \in {functions[f].entry_block, id}
    BY <1>1
  <1>7. \A f \in DOMAIN functions' :
          "entry_block" \in DOMAIN functions'[f] /\ functions'[f].entry_block \in DOMAIN blocks' \cup {0}
    BY <1>2, <1>6 DEF Made
  <1> QED
    BY <1>3, <1>5, <1>7 DEF Made

LEMMA OpenCases ==
  ASSUME Closed, Made, NEW ops, Parses(ops), ops \subseteq Terminators
  PROVE  "cases" \in DOMAIN Current /\ IsCases(Current.cases)
  BY NeedsOpenBlock, InBlock DEF Made, Current

LEMMA SwitchMade ==
  ASSUME Closed, Made, ParseSwitch
  PROVE  Made'
  <1> DEFINE block == [Current EXCEPT !.terminator = "MultiSelect", !.default_block = Instruction.default,
                                      !.cases = Instruction.cases]
  <1>1. Parses({"Switch"}) /\ {"Switch"} \subseteq Terminators
    BY DEF ParseSwitch, Terminators
  <1>2. EndBlock(block)
    BY DEF ParseSwitch
  <1>3. "cases" \in DOMAIN Current
    BY <1>1, OpenCases
  <1>4. "cases" \in DOMAIN block /\ block.cases = Instruction.cases
    BY <1>3
  <1>5. IsCases(Instruction.cases)
    <2>1. offset \in 1 .. Len(spirv) /\ spirv[offset].op = "Switch" /\ spirv \in Modules
      BY <1>1 DEF Parses, Parsing, Instruction, Closed, FunctionsRead
    <2> QED
      BY <2>1, ModulesAssumption DEF Instruction, IsCases
  <1> HIDE DEF block
  <1> QED
    BY <1>2, <1>4, <1>5, EndsMade

LEMMA TerminatorMade ==
  ASSUME Closed, Made,
         ParsePlainTerminator \/ ParseBranch \/ ParseBranchConditional \/ ParseBogusSelection \/ ParseBogusBranch
  PROVE  Made'
  <1> DEFINE plain == [Current EXCEPT !.terminator = PlainTerminators[Instruction.op]]
             branch == [Current EXCEPT !.terminator = "Direct", !.next_block = Instruction.target]
             select == [Current EXCEPT !.terminator = "Select", !.true_block = Instruction.true,
                                       !.false_block = Instruction.false]
             switch == [Current EXCEPT !.terminator = "MultiSelect", !.default_block = Instruction.true,
                                       !.true_block = Instruction.true, !.false_block = Instruction.true]
             direct == [Current EXCEPT !.terminator = "Direct", !.next_block = Instruction.true,
                                       !.merge = "None", !.merge_block = 0]
  <1>1. PICK ops : Parses(ops) /\ ops \subseteq Terminators
    <2>1. \/ Parses(DOMAIN PlainTerminators) \/ Parses({"Branch"}) \/ Parses({"BranchConditional"})
      BY DEF ParsePlainTerminator, ParseBranch, ParseBranchConditional, ParseBogusSelection, ParseBogusBranch, Bogus
    <2>2. /\ DOMAIN PlainTerminators \subseteq Terminators /\ {"Branch"} \subseteq Terminators
          /\ {"BranchConditional"} \subseteq Terminators
      BY DEF Terminators
    <2> QED
      BY <2>1, <2>2
  <1>2. "cases" \in DOMAIN Current /\ IsCases(Current.cases)
    BY <1>1, OpenCases
  <1>3. EndBlock(plain) \/ EndBlock(branch) \/ EndBlock(select) \/ EndBlock(switch) \/ EndBlock(direct)
    BY DEF ParsePlainTerminator, ParseBranch, ParseBranchConditional, ParseBogusSelection, ParseBogusBranch
  <1>4. /\ "cases" \in DOMAIN plain /\ plain.cases = Current.cases
        /\ "cases" \in DOMAIN branch /\ branch.cases = Current.cases
        /\ "cases" \in DOMAIN select /\ select.cases = Current.cases
        /\ "cases" \in DOMAIN switch /\ switch.cases = Current.cases
        /\ "cases" \in DOMAIN direct /\ direct.cases = Current.cases
    BY <1>2
  <1> HIDE DEF plain, branch, select, switch, direct
  <1>5. PICK r \in {plain, branch, select, switch, direct} : EndBlock(r)
    BY <1>3
  <1>6. "cases" \in DOMAIN r /\ IsCases(r.cases)
    BY <1>2, <1>4
  <1> QED
    BY <1>5, <1>6, EndsMade

LEMMA InitMade == ASSUME ParserInit PROVE Made
  <1>1. DOMAIN blocks = {} /\ DOMAIN functions = {}
    BY DEF ParserInit
  <1> QED
    BY <1>1, FS_EmptySet DEF Made

LEMMA ParseMade == ASSUME Closed, Made, Parse PROVE Made'
  BY QuietMade, FunctionMade, LabelMade, SwitchMade, TerminatorMade DEF Parse

-------------------------------------------------------------------------------
(* From the module to the tree *)

LEMMA StartWalks ==
  ASSUME Closed, Made, CfgInit, StartCfg, phase' = "walk"
  PROVE  BlocksGiven' /\ WalkedSoFar'
  <1>1. PICK e : e = entry_block
    OBVIOUS
  <1>2. /\ default_entry_point \in DOMAIN functions /\ e # 0 /\ visit_stack' = <<e>> /\ UNCHANGED ir
        /\ UNCHANGED <<visited_branches, visit_order, post_order, preceding_edges, succeeding_edges>>
    BY <1>1 DEF StartCfg
  <1>3. e \in DOMAIN blocks
    BY <1>1, <1>2 DEF Made, entry_block, Func
  <1>4. BlocksGiven
    <2>1. DOMAIN blocks \subseteq Block
      BY ListedAreBlocks DEF Closed, BlocksEnded
    <2> QED
      BY <2>1 DEF BlocksGiven, Made, IsCases
  <1>5. BlocksGiven' /\ entry_block' = e /\ blocks' = blocks
    BY <1>1, <1>2, <1>4, SameBlocks
  <1>6. /\ visited_branches' = {} /\ post_order' = << >> /\ DOMAIN visit_order' = {}
        /\ visit_order' = << >> /\ DOMAIN preceding_edges' = {} /\ DOMAIN succeeding_edges' = {}
    BY <1>2 DEF CfgInit
  <1>7. Resolved' = {} /\ Unresolved' = {}
    BY <1>6 DEF Resolved, Unresolved
  <1>8. DOMAIN visit_stack' = {1} /\ visit_stack'[1] = e /\ Len(visit_stack') = 1 /\ visit_stack' # << >>
    BY <1>2
  <1>9. Visits'
    <2>1. visit_stack' \in Seq(DOMAIN blocks')
      BY <1>2, <1>3, <1>5
    <2> QED
      BY <1>6, <1>7, <2>1 DEF Visits
  <1>10. EntryLast'
    BY <1>5, <1>6, <1>7, <1>8 DEF EntryLast
  <1>11. \A i : ~Grey(i)'
    BY <1>7 DEF Grey
  <1>12. AllAwaited' /\ AllCalled' /\ AllOnStack' /\ AllEntered'
    BY <1>7, <1>8, <1>11 DEF AllAwaited, AllCalled, AllOnStack, AllEntered
  <1>13. Numbered'
    <2>1. visit_order' \in [{} -> 1 .. Len(post_order')]
      BY <1>6
    <2>2. post_order' \in Seq({}) /\ Len(post_order') = 0
      BY <1>6
    <2> QED
      BY <1>7, <2>1, <2>2 DEF Numbered
  <1>14. EdgesForward' /\ SuccessorsResolved'
    BY <1>6, <1>7 DEF EdgesForward, SuccessorsResolved
  <1> QED
    BY <1>5, <1>9, <1>10, <1>12, <1>13, <1>14 DEF WalkedSoFar

LEMMA WalkEnds ==
  ASSUME BlocksGiven, WalkedSoFar, visit_stack = << >>
  PROVE  WalkedWhole
  <1>1. \A i : ~Grey(i)
    BY DEF Grey
  <1>2. Unresolved = {}
    BY <1>1 DEF WalkedSoFar, AllOnStack
  <1>3. Resolved \subseteq DOMAIN blocks /\ visited_branches \subseteq Resolved
    BY <1>2 DEF WalkedSoFar, Visits, Unresolved, Resolved
  <1>4. entry_block \in Resolved /\ visit_order[entry_block] = Len(post_order)
    BY DEF WalkedSoFar, EntryLast
  <1>5. \A b \in Resolved : b # entry_block => Pred(b) # {}
    BY <1>1 DEF WalkedSoFar, AllEntered
  <1>6. ASSUME NEW b \in Resolved PROVE Range(Targets(b)) \subseteq Resolved
    <2>1. Branched(b) \subseteq Resolved
      BY <1>3 DEF WalkedSoFar, Visits
    <2> QED
      BY <1>3, <2>1, BranchedRange
  <1> QED
    BY <1>3, <1>4, <1>5, <1>6 DEF WalkedWhole, WalkedSoFar, BlocksGiven

LEMMA SameDominators ==
  ASSUME UNCHANGED <<visit_order, post_order, preceding_edges>>, UNCHANGED ir
  PROVE  Dominators' = Dominators
  BY DEF ir, Dominators, Dominating, CommonDominator, EdgesOf, Extended, entry_block, Func

LEMMA SameWhole ==
  ASSUME WalkedWhole, UNCHANGED <<visit_order, post_order, preceding_edges, succeeding_edges>>, UNCHANGED ir
  PROVE  WalkedWhole'
  <1>1. /\ Resolved' = Resolved /\ Numbered' /\ EdgesForward' /\ \A b : Pred(b)' = Pred(b)
    BY SameEdges DEF WalkedWhole
  <1>2. /\ entry_block' = entry_block /\ blocks' = blocks /\ visit_order' = visit_order /\ post_order' = post_order
    BY SameBlocks
  <1>3. \A b : Targets(b)' = Targets(b)
    BY <1>2 DEF Targets
  <1> QED
    BY <1>1, <1>2, <1>3 DEF WalkedWhole

\* A function is read and then walked through.
CfgSpec == ParserInit /\ CfgInit /\ [][(Parse /\ UNCHANGED cfg) \/ BuildCfg]_<<parser, cfg>>

WalkSound ==
  /\ phase \in {"parse", "parsed"} => Closed /\ Made /\ CfgInit
  /\ phase = "walk" => BlocksGiven /\ WalkedSoFar
  /\ phase = "walked" => WalkedWhole /\ immediate_dominators = Dominators

LEMMA WalkSoundNext ==
  ASSUME WalkSound, [(Parse /\ UNCHANGED cfg) \/ BuildCfg]_<<parser, cfg>>
  PROVE  WalkSound'
  <1>1. CASE UNCHANGED <<parser, cfg>>
    <2>1. UNCHANGED <<visit_order, post_order, preceding_edges, succeeding_edges>> /\ UNCHANGED ir /\ phase' = phase
      BY <1>1 DEF parser, cfg
    <2>2. ASSUME phase \in {"parse", "parsed"} PROVE Closed' /\ Made' /\ CfgInit'
      <3>1. Closed'
        BY <1>1, <2>2, NextClosed DEF WalkSound
      <3>2. Made'
        BY <2>1, <2>2 DEF WalkSound, Made, ir
      <3> QED
        BY <1>1, <2>2, <3>1, <3>2 DEF WalkSound, CfgInit, cfg
    <2>3. ASSUME phase = "walk" PROVE BlocksGiven' /\ WalkedSoFar'
      <3>1. BlocksGiven /\ WalkedSoFar
        BY <2>3 DEF WalkSound
      <3>2. /\ BlocksGiven' /\ entry_block' = entry_block /\ blocks' = blocks /\ \A b : Branched(b)' = Branched(b)
        BY <2>1, <3>1, SameBlocks
      <3>3. /\ Resolved' = Resolved /\ Numbered' /\ EdgesForward' /\ SuccessorsResolved'
            /\ \A b : Pred(b)' = Pred(b)
        BY <2>1, <3>1, SameEdges DEF WalkedSoFar
      <3>4. visit_stack' = visit_stack /\ visited_branches' = visited_branches /\ visit_order' = visit_order
            /\ post_order' = post_order
        BY <1>1 DEF cfg
      <3>5. Unresolved' = Unresolved /\ \A i : Grey(i)' <=> Grey(i)
        BY <3>4 DEF Unresolved, Grey
      <3>6. Visits' /\ EntryLast' /\ AllOnStack'
        BY <3>1, <3>2, <3>3, <3>4, <3>5 DEF WalkedSoFar, Visits, EntryLast, AllOnStack
      <3>7. AllAwaited' /\ AllCalled' /\ AllEntered'
        BY <3>1, <3>2, <3>3, <3>4, <3>5 DEF WalkedSoFar, AllAwaited, AllCalled, AllEntered
      <3> QED
        BY <3>2, <3>3, <3>6, <3>7 DEF WalkedSoFar
    <2>4. ASSUME phase = "walked" PROVE WalkedWhole' /\ immediate_dominators' = Dominators'
      <3>1. WalkedWhole'
        BY <2>1, <2>4, SameWhole DEF WalkSound
      <3>2. Dominators' = Dominators
        BY <2>1, SameDominators
      <3> QED
        BY <1>1, <2>4, <3>1, <3>2 DEF WalkSound, cfg
    <2> QED
      BY <2>1, <2>2, <2>3, <2>4 DEF WalkSound
  <1>2. CASE Parse /\ UNCHANGED cfg
    <2>1. phase = "parse"
      BY <1>2 DEF Parse, ParseThrows, ParseIgnored, ParseEntryPoint, ParseFunction, ParseFunctionParameter,
         ParseFunctionEnd, ParseVariable, ParseLabel, ParsePhi, ParseOp, ParseSelectionMerge, ParseLoopMerge,
         ParsePlainTerminator, ParseBranch, ParseBranchConditional, ParseBogusSelection, ParseBogusBranch,
         ParseSwitch, ParseEnd, Bogus, Parses, Parsing
    <2>2. Closed' /\ Made'
      BY <1>2, <2>1, NextClosed, ParseMade DEF WalkSound
    <2>3. CfgInit'
      BY <1>2, <2>1 DEF WalkSound, CfgInit, cfg
    <2>4. phase' \in {"parse", "parsed", "failed"}
      BY <2>2 DEF Closed, PhaseTold
    <2> QED
      BY <2>2, <2>3, <2>4 DEF WalkSound
  <1>3. CASE StartCfg
    <2>1. phase = "parsed" /\ phase' \in {"walk", "failed"}
      BY <1>3 DEF StartCfg
    <2>2. phase' = "walk" => BlocksGiven' /\ WalkedSoFar'
      BY <1>3, <2>1, StartWalks DEF WalkSound
    <2> QED
      BY <2>1, <2>2 DEF WalkSound
  <1>4. CASE VisitBranches \/ Resolve
    <2>1. phase = "walk" /\ phase' = "walk" /\ UNCHANGED ir
      BY <1>4 DEF VisitBranches, Resolve, Walking, ir
    <2>2. BlocksGiven' /\ WalkedSoFar'
      BY <1>4, <2>1, SameBlocks, VisitWalks, ResolveWalks DEF WalkSound
    <2> QED
      BY <2>1, <2>2 DEF WalkSound
  <1>5. CASE VisitThrows
    <2>1. phase' = "failed"
      BY <1>5 DEF VisitThrows
    <2> QED
      BY <2>1 DEF WalkSound
  <1>6. CASE BuildImmediateDominators
    <2>1. /\ phase = "walk" /\ phase' = "walked" /\ visit_stack = << >> /\ UNCHANGED ir
          /\ immediate_dominators' = Dominators
          /\ UNCHANGED <<visit_order, post_order, preceding_edges, succeeding_edges>>
      BY <1>6 DEF BuildImmediateDominators, ir
    <2>2. WalkedWhole'
      BY <2>1, WalkEnds, SameWhole DEF WalkSound
    <2>3. Dominators' = Dominators
      BY <2>1, SameDominators
    <2> QED
      BY <2>1, <2>2, <2>3 DEF WalkSound
  <1> QED
    BY <1>1, <1>2, <1>3, <1>4, <1>5, <1>6 DEF BuildCfg

LEMMA SoundIsExact ==
  ASSUME WalkSound
  PROVE  DominatorsExact
  <1>1. Walked => DominatorsExact
    BY WholeIsExact DEF WalkSound, Walked
  <1> QED
    BY <1>1 DEF DominatorsExact

\* Whatever the module that is read: when the walk through its function is over,
\* every block that can be reached or merged to was left once and after all it has
\* edges to, each has an immediate dominator later in the order, and in a reducible
\* function the tree has exactly the dominators that all of the function's edges
\* give, back edges included.
THEOREM DominatorsAreExact == CfgSpec => []DominatorsExact
  <1>1. ParserInit /\ CfgInit => WalkSound
    BY InitClosed, InitMade DEF WalkSound, ParserInit
  <1>2. WalkSound /\ [(Parse /\ UNCHANGED cfg) \/ BuildCfg]_<<parser, cfg>> => WalkSound'
    BY WalkSoundNext
  <1>3. WalkSound => DominatorsExact
    BY SoundIsExact
  <1> QED
    BY <1>1, <1>2, <1>3, PTL DEF CfgSpec

-------------------------------------------------------------------------------
(* The order of domination *)

\* What the walk and the tree of dominators say of the edges of a block.
EdgesTold ==
  \A b \in Resolved :
    /\ EdgesOf(succeeding_edges, b) \in Seq(Resolved) /\ Succ(b) \subseteq Branched(b)
    /\ \A t \in (Range(LoopMergeOf(b)) \cup Range(Targets(b))) \cap Resolved :
         visit_order[t] < visit_order[b] => t \in Succ(b)

Analyzed == BlocksGiven /\ WalkedWhole /\ EdgesTold /\ SuccessorsResolved /\ immediate_dominators = Dominators

LEMMA DomsInTree ==
  ASSUME WalkedWhole, NEW b \in Resolved, b # entry_block
  PROVE  Dominators[b] \in Resolved /\ visit_order[Dominators[b]] > visit_order[b] /\ Doms(b) = {b} \cup Doms(Dominators[b])
  <1>1. IsTree(Dominators) /\ DOMAIN Dominators = Resolved
    BY DominatorsTree
  <1> QED
    BY <1>1 DEF IsTree

\* The dominators of a dominator are dominators, and of two dominators of a block
\* one dominates the other.
LEMMA DomsNest ==
  ASSUME WalkedWhole, NEW b \in Resolved, NEW a \in Doms(b)
  PROVE  /\ Doms(a) \subseteq Doms(b)
         /\ \A c \in Doms(b) : a \in Doms(c) \/ c \in Doms(a)
  <1> DEFINE Nests(x) == \A y, z \in Doms(x) : Doms(y) \subseteq Doms(x) /\ (y \in Doms(z) \/ z \in Doms(y))
             S == {x \in Resolved : Nests(x)}
             N == Len(post_order)
  <1>1. N \in Nat /\ visit_order \in [Resolved -> 0 .. N]
    BY Places
  <1>2. ASSUME NEW x \in Resolved, \A y \in Resolved : visit_order[y] > visit_order[x] => y \in S PROVE x \in S
    <2>1. CASE x = entry_block
      BY <2>1, DomsOfEntry
    <2>2. CASE x # entry_block
      <3>1. PICK d : /\ d = Dominators[x] /\ d \in Resolved /\ visit_order[d] > visit_order[x]
                     /\ Doms(x) = {x} \cup Doms(d)
        BY <2>2, DomsInTree
      <3>2. Nests(d)
        BY <1>2, <3>1
      <3> QED
        BY <3>1, <3>2
    <2> QED
      BY <2>1, <2>2
  <1>3. Resolved \subseteq S
    <2> HIDE DEF S, N
    <2> QED
      BY <1>1, <1>2, InductDown
  <1> QED
    BY <1>3

LEMMA DomsPlaced ==
  ASSUME WalkedWhole, NEW b \in Resolved, NEW a \in Doms(b)
  PROVE  /\ a \in Resolved /\ b \in Doms(b) /\ visit_order[a] \in Nat /\ visit_order[b] \in Nat
         /\ visit_order[a] >= visit_order[b] /\ (visit_order[a] = visit_order[b] => a = b)
         /\ b \in Doms(a) => a = b
  <1>1. a \in Resolved /\ (a = b \/ visit_order[a] > visit_order[b])
    BY DomsAbove
  <1>2. b \in Doms(a) => a = b \/ visit_order[b] > visit_order[a]
    BY <1>1, DomsAbove
  <1>3. visit_order[a] \in Nat /\ visit_order[b] \in Nat
    <2>1. visit_order[a] \in 1 .. Len(post_order) /\ visit_order[b] \in 1 .. Len(post_order)
      BY <1>1, Places
    <2> QED
      BY <2>1
  <1>4. b \in Doms(b)
    BY DomsDiffer
  <1> QED
    BY <1>1, <1>2, <1>3, <1>4

-------------------------------------------------------------------------------
(* Loops *)

LEMMA StructuredReduces ==
  ASSUME LoopsStructured
  PROVE  Reducible
  BY DEF LoopsStructured, Reducible, Inside, Dominates

\* With back edges or without.
LEMMA DominatesDoms ==
  ASSUME WalkedWhole, LoopsStructured, NEW a, NEW b
  PROVE  Dominates(a, b) <=> b \in Resolved /\ a \in Doms(b)
  <1>1. Reducible
    BY StructuredReduces
  <1>2. CASE a \in Resolved
    <2>1. All(a) = Around(a)
      BY <1>1, <1>2, ReducibleAround
    <2> QED
      BY <1>2, <2>1 DEF Dominates, DominatedBy, All, Doms, Resolved
  <1>3. CASE a \notin Resolved
    <2>1. Resolved \subseteq All(a)
      <3>1. Follows(AllEdges, All(a), a) /\ entry_block \in All(a) /\ ForwardFlow \subseteq AllEdges
        BY <1>3, AllLeast DEF WalkedWhole
      <3>2. Follows(ForwardFlow, All(a), 0)
        BY <1>3, <3>1 DEF Follows, ForwardFlow
      <3>3. Around(0) \subseteq All(a)
        BY <3>1, <3>2, AroundLeast
      <3> QED
        BY <3>3, AllAround
    <2> QED
      BY <1>3, <2>1 DEF Dominates, DominatedBy, All, Doms, Resolved
  <1> QED
    BY <1>2, <1>3

LEMMA InsideIs ==
  ASSUME WalkedWhole, LoopsStructured, NEW h, NEW b
  PROVE  b \in Inside(h) <=> b \in Resolved /\ h \in Doms(b) /\ blocks[h].merge_block \notin Doms(b)
  <1>1. b \in Inside(h) <=> b \in Resolved /\ Dominates(h, b) /\ ~Dominates(blocks[h].merge_block, b)
    BY DEF Inside, Dominates, DominatedBy, Resolved
  <1> QED
    BY <1>1, DominatesDoms

\* An edge is one of the walk, or goes back to the header of a loop.
LEMMA EdgesBothWays ==
  ASSUME WalkedWhole, LoopsStructured, NEW e \in AllEdges
  PROVE  /\ e[1] \in Resolved /\ e[2] \in Resolved
         /\ \/ e[2] \in Succ(e[1]) /\ e[1] \in Pred(e[2]) /\ visit_order[e[2]] < visit_order[e[1]]
            \/ e[2] \in LoopHeaders /\ e[1] \in Inside(e[2]) /\ e[2] \in Doms(e[1])
  <1>1. e[1] \in Resolved /\ e[2] \in Resolved
    BY AllLeast
  <1>2. CASE e[2] \in Succ(e[1])
    BY <1>1, <1>2 DEF WalkedWhole, EdgesForward
  <1>3. CASE e[2] \notin Succ(e[1])
    <2>1. e[2] \in LoopHeaders /\ e[1] \in Inside(e[2])
      BY <1>3 DEF LoopsStructured, Succ
    <2>2. e[2] \in Doms(e[1])
      BY <2>1, InsideIs
    <2> QED
      BY <1>1, <2>1, <2>2
  <1> QED
    BY <1>1, <1>2, <1>3

\* A loop and its merge block.
LEMMA LoopsMerge ==
  ASSUME Analyzed, LoopsStructured, NEW h \in LoopHeaders
  PROVE  LET m == blocks[h].merge_block
         IN  /\ h \in Resolved /\ m \in Resolved /\ h \in Doms(m) /\ m # h /\ m \notin Doms(h)
             /\ m \in Succ(h) /\ h \in Pred(m) /\ <<h, m>> \in AllEdges
             /\ Inside(h) = {b \in Resolved : h \in Doms(b) /\ m \notin Doms(b)}
             /\ h \in Inside(h) /\ m \notin Inside(h)
  <1> DEFINE m == blocks[h].merge_block
  <1>0. WalkedWhole
    BY DEF Analyzed
  <1>1. h \in Resolved /\ blocks[h].merge = "Loop" /\ m # h /\ Dominates(h, m)
    BY DEF LoopHeaders, LoopsStructured, Reachable, Resolved
  <1>2. m \in Resolved /\ h \in Doms(m)
    BY <1>0, <1>1, DominatesDoms
  <1>3. m \notin Doms(h) /\ visit_order[m] < visit_order[h]
    BY <1>0, <1>1, <1>2, DomsPlaced
  <1>4. m \in Succ(h)
    <2>1. LoopMergeOf(h) = <<m>>
      BY <1>1 DEF LoopMergeOf
    <2>2. m \in Range(LoopMergeOf(h))
      <3>1. 1 \in DOMAIN <<m>> /\ <<m>>[1] = m
        OBVIOUS
      <3> QED
        BY <2>1, <3>1 DEF Range
    <2> QED
      BY <1>1, <1>2, <1>3, <2>2 DEF Analyzed, EdgesTold
  <1>5. h \in Pred(m)
    BY <1>0, <1>1, <1>2, <1>4 DEF WalkedWhole, EdgesForward
  <1>6. <<h, m>> \in AllEdges
    <2>1. <<h, m>> \in ForwardFlow
      BY <1>1, <1>2, <1>4 DEF ForwardFlow
    <2> QED
      BY <1>0, <2>1, AllLeast
  <1>7. Inside(h) = {b \in Resolved : h \in Doms(b) /\ m \notin Doms(b)}
    <2>1. Inside(h) \subseteq Resolved
      BY DEF Inside, DominatedBy, Resolved
    <2> QED
      BY <1>0, <2>1, InsideIs
  <1>8. h \in Doms(h) /\ m \in Doms(m)
    BY <1>0, <1>1, <1>2, DomsDiffer
  <1> QED
    BY <1>1, <1>2, <1>3, <1>4, <1>5, <1>6, <1>7, <1>8

-------------------------------------------------------------------------------
(* The loop around a block *)

\* One step of the way up.
Entered(b)   == EdgesOf(preceding_edges, b)
MergedBy(b)   == Distinct(Entered(b), {p \in Range(Entered(b)) : ~IsMergeOf(b, p)})
Chosen(b)    == IF MergedBy(b) # << >> THEN MergedBy(b)[1] ELSE Entered(b)[1]
FoundHere(b) == blocks[Chosen(b)].merge = "Loop" /\ ~(MergedBy(b) # << >> /\ blocks[Chosen(b)].merge_block = b)

LEMMA FirstInRange ==
  ASSUME NEW S, NEW s \in Seq(S)
  PROVE  /\ s # << >> <=> Range(s) # {}
         /\ s # << >> => s[1] \in Range(s)
  <1>1. DOMAIN s = 1 .. Len(s) /\ Len(s) \in Nat
    OBVIOUS
  <1>2. ASSUME s # << >> PROVE s[1] \in Range(s)
    <2>1. 1 \in DOMAIN s
      BY <1>1, <1>2
    <2> QED
      BY <2>1 DEF Range
  <1>3. s = << >> => Range(s) = {}
    BY DEF Range
  <1> QED
    BY <1>2, <1>3

\* The way up goes from a merge block to its header, and else to some block before.
LEMMA ChosenBefore ==
  ASSUME WalkedWhole, NEW b \in Resolved
  PROVE  /\ Entered(b) # << >> <=> Pred(b) # {}
         /\ Entered(b) # << >> =>
              /\ Chosen(b) \in Pred(b) /\ Chosen(b) \in Resolved /\ visit_order[Chosen(b)] > visit_order[b]
              /\ IF MergedBy(b) # << >> THEN IsMergeOf(b, Chosen(b)) ELSE \A p \in Pred(b) : ~IsMergeOf(b, p)
  <1>1. Entered(b) \in Seq(Resolved)
    BY DEF Entered, EdgesOf, WalkedWhole, EdgesForward
  <1>2. Pred(b) = Range(Entered(b))
    BY DEF Pred, Entered
  <1> DEFINE but == {p \in Range(Entered(b)) : ~IsMergeOf(b, p)}
  <1>3. MergedBy(b) \in Seq(Range(Entered(b)) \ but) /\ Range(MergedBy(b)) = Range(Entered(b)) \ but
    <2> HIDE DEF but
    <2>1. MergedBy(b) = Distinct(Entered(b), but)
      BY DEF MergedBy, but
    <2> QED
      BY <1>1, <2>1, DistinctRange
  <1>4. Entered(b) # << >> <=> Pred(b) # {}
    BY <1>1, <1>2, FirstInRange
  <1>5. ASSUME Entered(b) # << >>, MergedBy(b) # << >> PROVE Chosen(b) \in Pred(b) /\ IsMergeOf(b, Chosen(b))
    <2>1. MergedBy(b)[1] \in Range(MergedBy(b))
      BY <1>3, <1>5, FirstInRange
    <2> QED
      BY <1>2, <1>3, <1>5, <2>1 DEF Chosen
  <1>6. ASSUME Entered(b) # << >>, MergedBy(b) = << >>
        PROVE  Chosen(b) \in Pred(b) /\ \A p \in Pred(b) : ~IsMergeOf(b, p)
    <2>1. Entered(b)[1] \in Range(Entered(b))
      BY <1>1, <1>6, FirstInRange
    <2>2. Range(MergedBy(b)) = {}
      BY <1>3, <1>6, FirstInRange
    <2> QED
      BY <1>2, <1>3, <1>6, <2>1, <2>2 DEF Chosen
  <1>7. Chosen(b) \in Pred(b) => Chosen(b) \in Resolved /\ visit_order[Chosen(b)] > visit_order[b]
    BY PredBefore
  <1> QED
    BY <1>4, <1>5, <1>6, <1>7

\* The recursion is what it says, as the way up ends.
LEMMA FindUnfolds ==
  ASSUME WalkedWhole, Resolved \subseteq Block, NEW b \in Resolved
  PROVE  FindLoopDominator(b) = IF Entered(b) = << >> THEN NoDominator
                                ELSE IF FoundHere(b) THEN Chosen(b) ELSE FindLoopDominator(Chosen(b))
  <1> DEFINE N == Len(post_order)
             R == {x \in Resolved : Entered(x) # << >> /\ ~FoundHere(x)}
             V == Block \cup {NoDominator}
             E(find, x) == IF Entered(x) = << >> THEN NoDominator
                           ELSE IF FoundHere(x) THEN Chosen(x) ELSE find[Chosen(x)]
             fixed(find) == find = [x \in Block |-> E(find, x)]
             f == CHOOSE find : fixed(find)
             val == [x \in Block |-> IF x \in Resolved /\ Entered(x) # << >> THEN Chosen(x) ELSE NoDominator]
             next == [x \in R |-> Chosen(x)]
             o == [x \in Block |-> IF x \in Resolved THEN visit_order[x] ELSE 0]
             G == [x \in R |-> [v \in V |-> v]]
  <1>1. N \in Nat /\ visit_order \in [Resolved -> 0 .. N]
    BY Places
  <1>2. \A x \in Block \ Resolved : Entered(x) = << >>
    BY DEF Entered, EdgesOf, WalkedWhole, EdgesForward
  <1>3. \A x \in Resolved : Entered(x) # << >> => Chosen(x) \in Resolved /\ visit_order[Chosen(x)] > visit_order[x]
    BY ChosenBefore
  <1>4. \E find : IsDescent(find, Block, R, V, val, next, G)
    <2>1. R \in SUBSET Block /\ o \in [Block -> 0 .. N] /\ val \in [Block -> V] /\ next \in [R -> Block]
      BY <1>1, <1>3
    <2>2. G \in [R -> [V -> V]]
      OBVIOUS
    <2>3. \A x \in R : o[next[x]] > o[x]
      BY <1>3
    <2> HIDE DEF N, R, V, val, next, o, G
    <2> QED
      BY <1>1, <2>1, <2>2, <2>3, Descends
  <1>5. PICK g : IsDescent(g, Block, R, V, val, next, G)
    BY <1>4
  <1>6. ASSUME NEW x \in Block PROVE g[x] = E(g, x)
    <2>1. g[x] = IF x \in R THEN G[x][g[next[x]]] ELSE val[x]
      BY <1>5 DEF IsDescent
    <2>2. CASE x \in R
      <3>1. next[x] = Chosen(x) /\ Chosen(x) \in Block
        BY <1>3, <2>2
      <3>2. g[Chosen(x)] \in V
        BY <1>5, <3>1 DEF IsDescent
      <3> QED
        BY <2>1, <2>2, <3>1, <3>2
    <2>3. CASE x \notin R
      BY <1>2, <2>1, <2>3
    <2> QED
      BY <2>2, <2>3
  <1>7. fixed(g)
    <2>1. g = [x \in Block |-> g[x]]
      BY <1>5 DEF IsDescent
    <2> HIDE DEF E
    <2> QED
      BY <1>6, <2>1
  <1>8. fixed(f)
    <2> HIDE DEF fixed
    <2> QED
      BY <1>7
  <1>9. \A x \in Block : FindLoopDominator(x) = f[x]
    BY DEF FindLoopDominator, E, FoundHere, Chosen, MergedBy, Entered
  <1>10. \A x \in Block : f[x] = E(f, x)
    <2> HIDE DEF E, f
    <2> QED
      BY <1>8
  <1> HIDE DEF f
  <1>11. Entered(b) # << >> => Chosen(b) \in Block
    BY <1>3
  <1> QED
    BY <1>9, <1>10, <1>11

LEMMA NoDominatorIsNone ==
  ASSUME Analyzed
  PROVE  Resolved \subseteq Block /\ NoDominator \notin Resolved /\ 0 \notin Resolved
  <1>1. Resolved \subseteq Block
    BY DEF Analyzed, WalkedWhole
  <1>2. NoDominator \notin Block /\ 0 \notin Block
    BY BlockAssumption DEF NoDominator
  <1> QED
    BY <1>1, <1>2

\* The header that is found is that of a loop around the block, and where none is
\* found there is none around it.
IsAround(b, r) ==
  IF r = NoDominator THEN \A h \in LoopHeaders : b \in Inside(h) => b = h
  ELSE r \in LoopHeaders /\ b \in Inside(r) /\ r # b

LEMMA FoundIsAround ==
  ASSUME Analyzed, LoopsStructured, NEW b \in Resolved
  PROVE  IsAround(b, FindLoopDominator(b))
  <1> DEFINE N == Len(post_order)
             S == {x \in Resolved : IsAround(x, FindLoopDominator(x))}
  <1>0. WalkedWhole /\ Resolved \subseteq Block /\ NoDominator \notin Resolved
    BY NoDominatorIsNone DEF Analyzed
  <1>1. N \in Nat /\ visit_order \in [Resolved -> 0 .. N]
    BY <1>0, Places
  <1>2. ASSUME NEW x \in Resolved, \A y \in Resolved : visit_order[y] > visit_order[x] => y \in S
        PROVE  IsAround(x, FindLoopDominator(x))
    <2>1. PICK p : p = Chosen(x)
      OBVIOUS
    <2>2. /\ Entered(x) # << >> <=> Pred(x) # {}
          /\ Entered(x) # << >> =>
               /\ p \in Pred(x) /\ p \in Resolved /\ visit_order[p] > visit_order[x]
               /\ IF MergedBy(x) # << >> THEN IsMergeOf(x, p) ELSE \A q \in Pred(x) : ~IsMergeOf(x, q)
      BY <1>0, <2>1, ChosenBefore
    <2>3. FindLoopDominator(x) = IF Entered(x) = << >> THEN NoDominator
                                 ELSE IF FoundHere(x) THEN p ELSE FindLoopDominator(p)
      BY <1>0, <2>1, FindUnfolds
    <2>4. FoundHere(x) <=> blocks[p].merge = "Loop" /\ ~(MergedBy(x) # << >> /\ blocks[p].merge_block = x)
      BY <2>1 DEF FoundHere
    <2>5. Entered(x) # << >> => <<p, x>> \in AllEdges
      <3>1. ASSUME Entered(x) # << >> PROVE <<p, x>> \in ForwardFlow
        BY <1>0, <2>2, <3>1 DEF ForwardFlow, WalkedWhole, EdgesForward
      <3> QED
        BY <1>0, <3>1, AllLeast
    <2>6. \A h \in LoopHeaders :
            /\ h \in Resolved /\ h \in Inside(h) /\ blocks[h].merge_block \notin Inside(h)
            /\ h \in Pred(blocks[h].merge_block) /\ IsMergeOf(blocks[h].merge_block, h)
            /\ \A q \in Resolved : IsMergeOf(blocks[h].merge_block, q) => q = h
            /\ \A y \in Inside(h) : h \in Doms(y) /\ y \in Resolved
            /\ Entered(x) # << >> /\ x \in Inside(h) /\ x # h => p \in Inside(h)
            /\ Entered(x) # << >> /\ p \in Inside(h) => x \in Inside(h) \/ x = blocks[h].merge_block
      <3> TAKE h \in LoopHeaders
      <3>1. /\ h \in Resolved /\ h \in Inside(h) /\ blocks[h].merge_block \notin Inside(h)
            /\ h \in Pred(blocks[h].merge_block)
            /\ \A y \in Inside(h) : h \in Doms(y) /\ y \in Resolved
        <4>1. PICK m : m = blocks[h].merge_block
          OBVIOUS
        <4>2. /\ h \in Resolved /\ h \in Pred(m) /\ h \in Inside(h) /\ m \notin Inside(h)
              /\ Inside(h) = {y \in Resolved : h \in Doms(y) /\ m \notin Doms(y)}
          BY <4>1, LoopsMerge
        <4> QED
          BY <4>1, <4>2
      <3>2. IsMergeOf(blocks[h].merge_block, h)
        BY DEF IsMergeOf, LoopHeaders
      <3>3. \A q \in Resolved : IsMergeOf(blocks[h].merge_block, q) => q = h
        BY DEF LoopsStructured, Reachable, Resolved
      <3>4. ASSUME Entered(x) # << >>
            PROVE  /\ x \in Inside(h) /\ x # h => p \in Inside(h)
                   /\ p \in Inside(h) => x \in Inside(h) \/ x = blocks[h].merge_block
        <4>1. PICK e \in AllEdges : e = <<p, x>>
          BY <2>5, <3>4
        <4>2. e[1] = p /\ e[2] = x
          BY <4>1
        <4>3. /\ e[2] \in Inside(h) \ {h} => e[1] \in Inside(h)
              /\ e[1] \in Inside(h) => e[2] \in Inside(h) \cup {blocks[h].merge_block}
          BY DEF LoopsStructured
        <4> QED
          BY <4>2, <4>3
      <3> QED
        BY <3>1, <3>2, <3>3, <3>4
    <2>7. CASE Entered(x) = << >>
      <3>1. x = entry_block
        BY <1>0, <2>2, <2>7 DEF WalkedWhole
      <3>2. \A h \in LoopHeaders : x \in Inside(h) => x = h
        BY <1>0, <2>6, <3>1, DomsOfEntry
      <3> QED
        BY <2>3, <2>7, <3>2 DEF IsAround
    <2>8. CASE Entered(x) # << >> /\ FoundHere(x)
      <3>1. p \in LoopHeaders /\ p # NoDominator
        BY <1>0, <2>2, <2>4, <2>8 DEF LoopHeaders, Reachable, Resolved
      <3>2. x # blocks[p].merge_block
        BY <2>2, <2>4, <2>6, <2>8, <3>1
      <3>3. x \in Inside(p)
        BY <2>6, <2>8, <3>1, <3>2
      <3>4. p # x
        BY <1>1, <2>2, <2>8
      <3> QED
        BY <2>3, <2>8, <3>1, <3>3, <3>4 DEF IsAround
    <2>9. CASE Entered(x) # << >> /\ ~FoundHere(x)
      <3>1. PICK r : r = FindLoopDominator(p)
        OBVIOUS
      <3>2. IsAround(p, r) /\ FindLoopDominator(x) = r
        BY <1>2, <2>2, <2>3, <2>9, <3>1
      <3>3. CASE r = NoDominator
        <4>1. ASSUME NEW h \in LoopHeaders, x \in Inside(h), x # h PROVE FALSE
          <5>1. p = h
            BY <2>6, <2>9, <3>2, <3>3, <4>1 DEF IsAround
          <5>2. blocks[h].merge = "Loop"
            BY DEF LoopHeaders
          <5>3. x = blocks[h].merge_block
            BY <2>4, <2>9, <5>1, <5>2
          <5> QED
            BY <2>6, <4>1, <5>3
        <4> QED
          BY <3>2, <3>3, <4>1 DEF IsAround
      <3>4. CASE r # NoDominator
        <4>1. r \in LoopHeaders /\ p \in Inside(r) /\ r # p
          BY <3>2, <3>4 DEF IsAround
        <4>2. x # blocks[r].merge_block
          <5>1. ASSUME x = blocks[r].merge_block PROVE FALSE
            <6>1. r \in Pred(x) /\ IsMergeOf(x, r)
              BY <2>6, <4>1, <5>1
            <6>2. IsMergeOf(x, p)
              BY <2>2, <2>9, <6>1
            <6> QED
              BY <2>2, <2>6, <2>9, <4>1, <5>1, <6>2
          <5> QED
            BY <5>1
        <4>3. x \in Inside(r)
          BY <2>6, <2>9, <4>1, <4>2
        <4>4. r # x
          <5>1. r \in Doms(p) /\ p \in Resolved
            BY <2>6, <4>1
          <5>2. visit_order[r] >= visit_order[p] /\ visit_order[r] \in Nat /\ visit_order[p] \in Nat
            BY <1>0, <5>1, DomsPlaced
          <5>3. visit_order[p] > visit_order[x] /\ visit_order[x] \in 0 .. N
            BY <1>1, <2>2, <2>9
          <5> QED
            BY <5>2, <5>3
        <4> QED
          BY <3>2, <3>4, <4>1, <4>3, <4>4 DEF IsAround
      <3> QED
        BY <3>3, <3>4
    <2> QED
      BY <2>7, <2>8, <2>9
  <1>3. Resolved \subseteq S
    <2> HIDE DEF N
    <2>1. \A x \in Resolved : (\A y \in Resolved : visit_order[y] > visit_order[x] => y \in S) => x \in S
      BY <1>2
    <2> HIDE DEF S
    <2> QED
      BY <1>1, <2>1, InductDown
  <1> QED
    BY <1>3


LEMMA LoopDominatorAround ==
  ASSUME Analyzed, LoopsStructured, NEW b \in Resolved
  PROVE  IsAround(b, LoopDominator(b))
  <1> DEFINE h == continue_block_to_loop_header[b]
             given == b \in DOMAIN continue_block_to_loop_header /\ h # b
  <1>0. WalkedWhole
    BY DEF Analyzed
  <1>1. CASE given
    <2>1. LoopDominator(b) = h
      BY <1>1 DEF LoopDominator
    <2>2. b \in Inside(h) /\ (h \in Resolved => h \in LoopHeaders)
      BY <1>1 DEF LoopsStructured, Reachable, Resolved
    <2>3. h \in Resolved
      <3>1. h \in Doms(b)
        BY <1>0, <2>2, InsideIs
      <3> QED
        BY <3>1 DEF Doms
    <2>4. h # NoDominator
      BY <2>3, NoDominatorIsNone
    <2> QED
      BY <1>1, <2>1, <2>2, <2>3, <2>4 DEF IsAround
  <1>2. CASE ~given
    <2>1. LoopDominator(b) = FindLoopDominator(b)
      BY <1>2 DEF LoopDominator
    <2> QED
      BY <2>1, FoundIsAround
  <1> QED
    BY <1>1, <1>2

\* What the analysis has found of loops.
LoopsFound == \A b \in Resolved : loop_dominator[b] = LoopDominator(b)

LEMMA LoopAbove ==
  ASSUME Analyzed, LoopsStructured, LoopsFound, NEW b \in Resolved
  PROVE  LET r == loop_dominator[b]
         IN  /\ IsAround(b, r)
             /\ r # NoDominator =>
                  r \in LoopHeaders /\ r \in Resolved /\ r \in Doms(b) /\ r # b /\ visit_order[r] > visit_order[b]
  <1> DEFINE r == loop_dominator[b]
  <1>0. WalkedWhole
    BY DEF Analyzed
  <1>1. IsAround(b, r)
    BY LoopDominatorAround DEF LoopsFound
  <1>2. ASSUME r # NoDominator
        PROVE  r \in LoopHeaders /\ r \in Resolved /\ r \in Doms(b) /\ r # b /\ visit_order[r] > visit_order[b]
    <2>1. r \in LoopHeaders /\ b \in Inside(r) /\ r # b
      BY <1>1, <1>2 DEF IsAround
    <2>2. r \in Doms(b)
      BY <1>0, <2>1, InsideIs
    <2>3. r \in Resolved /\ visit_order[r] > visit_order[b]
      BY <1>0, <2>1, <2>2, DomsAbove
    <2> QED
      BY <2>1, <2>2, <2>3
  <1> QED
    BY <1>1, <1>2

LEMMA OutermostUnfolds ==
  ASSUME Analyzed, LoopsStructured, LoopsFound, NEW b \in Resolved
  PROVE  OutermostLoop(b) = IF loop_dominator[b] = NoDominator THEN b ELSE OutermostLoop(loop_dominator[b])
  <1> DEFINE N == Len(post_order)
             R == {x \in Resolved : loop_dominator[x] # NoDominator}
             E(out, x) == IF loop_dominator[x] = NoDominator THEN x ELSE out[loop_dominator[x]]
             fixed(out) == out = [x \in Resolved |-> E(out, x)]
             f == CHOOSE out : fixed(out)
             val == [x \in Resolved |-> x]
             next == [x \in R |-> loop_dominator[x]]
             G == [x \in R |-> [v \in Resolved |-> v]]
  <1>1. N \in Nat /\ visit_order \in [Resolved -> 0 .. N]
    BY Places DEF Analyzed
  <1>3. \A x \in Resolved : loop_dominator[x] # NoDominator =>
          loop_dominator[x] \in Resolved /\ visit_order[loop_dominator[x]] > visit_order[x]
    BY LoopAbove
  <1>4. \E out : IsDescent(out, Resolved, R, Resolved, val, next, G)
    <2>1. R \in SUBSET Resolved /\ val \in [Resolved -> Resolved] /\ next \in [R -> Resolved]
      BY <1>3
    <2>2. G \in [R -> [Resolved -> Resolved]]
      OBVIOUS
    <2>3. \A x \in R : visit_order[next[x]] > visit_order[x]
      BY <1>3
    <2> HIDE DEF N, R, val, next, G
    <2> QED
      BY <1>1, <2>1, <2>2, <2>3, Descends
  <1>5. PICK g : IsDescent(g, Resolved, R, Resolved, val, next, G)
    BY <1>4
  <1>6. ASSUME NEW x \in Resolved PROVE g[x] = E(g, x)
    <2>1. g[x] = IF x \in R THEN G[x][g[next[x]]] ELSE val[x]
      BY <1>5 DEF IsDescent
    <2>2. CASE x \in R
      <3>1. next[x] = loop_dominator[x] /\ loop_dominator[x] \in Resolved
        BY <1>3, <2>2
      <3>2. g[loop_dominator[x]] \in Resolved
        BY <1>5, <3>1 DEF IsDescent
      <3> QED
        BY <2>1, <2>2, <3>1, <3>2
    <2>3. CASE x \notin R
      BY <2>1, <2>3
    <2> QED
      BY <2>2, <2>3
  <1>7. fixed(g)
    <2>1. g = [x \in Resolved |-> g[x]]
      BY <1>5 DEF IsDescent
    <2> HIDE DEF E
    <2> QED
      BY <1>6, <2>1
  <1>8. fixed(f)
    <2> HIDE DEF fixed
    <2> QED
      BY <1>7
  <1>9. \A x : OutermostLoop(x) = f[x]
    BY DEF OutermostLoop, E, Resolved
  <1>10. \A x \in Resolved : f[x] = E(f, x)
    <2> HIDE DEF E, f
    <2> QED
      BY <1>8
  <1> HIDE DEF f
  <1> QED
    BY <1>9, <1>10

LEMMA OutermostAround ==
  ASSUME Analyzed, LoopsStructured, LoopsFound, NEW b \in Resolved
  PROVE  LET o == OutermostLoop(b)
         IN  o \in Resolved /\ o \in Doms(b) /\ loop_dominator[o] = NoDominator
  <1> DEFINE N == Len(post_order)
             Good(x) == /\ OutermostLoop(x) \in Resolved /\ OutermostLoop(x) \in Doms(x)
                        /\ loop_dominator[OutermostLoop(x)] = NoDominator
             S == {x \in Resolved : Good(x)}
  <1>0. WalkedWhole
    BY DEF Analyzed
  <1>1. N \in Nat /\ visit_order \in [Resolved -> 0 .. N]
    BY <1>0, Places
  <1>2. ASSUME NEW x \in Resolved, \A y \in Resolved : visit_order[y] > visit_order[x] => y \in S PROVE Good(x)
    <2>1. PICK r : r = loop_dominator[x]
      OBVIOUS
    <2>2. OutermostLoop(x) = IF r = NoDominator THEN x ELSE OutermostLoop(r)
      BY <2>1, OutermostUnfolds
    <2>3. CASE r = NoDominator
      <3>1. x \in Doms(x)
        BY <1>0, DomsDiffer
      <3> QED
        BY <2>1, <2>2, <2>3, <3>1
    <2>4. CASE r # NoDominator
      <3>1. r \in Resolved /\ r \in Doms(x) /\ visit_order[r] > visit_order[x]
        BY <2>1, <2>4, LoopAbove
      <3>2. Good(r)
        BY <1>2, <3>1
      <3>3. Doms(r) \subseteq Doms(x)
        BY <1>0, <3>1, DomsNest
      <3> QED
        BY <2>2, <2>4, <3>2, <3>3
    <2> QED
      BY <2>3, <2>4
  <1>3. Resolved \subseteq S
    <2>1. \A x \in Resolved : (\A y \in Resolved : visit_order[y] > visit_order[x] => y \in S) => x \in S
      BY <1>2
    <2> HIDE DEF S, N
    <2> QED
      BY <1>1, <2>1, InductDown
  <1> QED
    BY <1>3

\* The loop is above the block, so that it is their common dominator.
LEMMA OutermostIsCommon ==
  ASSUME Analyzed, LoopsStructured, LoopsFound, NEW b \in Resolved
  PROVE  FindCommonDominator(OutermostLoop(b), b) = OutermostLoop(b)
  <1>0. WalkedWhole /\ IsTree(immediate_dominators) /\ DOMAIN immediate_dominators = Resolved
    BY DominatorsTree DEF Analyzed
  <1>1. PICK o : o = OutermostLoop(b) /\ o \in Resolved /\ o \in Doms(b)
    BY OutermostAround
  <1>2. PICK c : c = FindCommonDominator(o, b) /\ c \in Resolved /\ Doms(c) = Doms(o) \cap Doms(b)
    BY <1>0, <1>1, CommonDominatorMeets DEF FindCommonDominator
  <1>3. Doms(o) \subseteq Doms(b)
    BY <1>0, <1>1, DomsNest
  <1>4. c = o
    BY <1>0, <1>1, <1>2, <1>3, DomsDiffer
  <1> QED
    BY <1>1, <1>2, <1>4

-------------------------------------------------------------------------------
(* The block that declares a variable *)

LEMMA EntryDominates ==
  ASSUME WalkedWhole, NEW b \in Resolved
  PROVE  entry_block \in Doms(b)
  <1>1. Around(entry_block) \subseteq {}
    <2>1. Follows(ForwardFlow, {}, entry_block)
      BY DEF Follows
    <2> QED
      BY <2>1, AroundLeast
  <1> QED
    BY <1>1 DEF Doms, WalkedWhole

\* Of blocks that were not all left out, the builder finds the common dominator.
LEMMA DominatorOfMeets ==
  ASSUME Analyzed, NEW set
  PROVE  IF set \cap Resolved = {} THEN DominatorOf(set) = 0
         ELSE DominatorOf(set) \in Resolved /\ \A p \in set \cap Resolved : DominatorOf(set) \in Doms(p)
  <1> DEFINE counted == {b \in set : ImmediateDominator(b) # 0}
             added == Distinct(post_order, DOMAIN visit_order \ counted)
  <1>0. WalkedWhole /\ IsTree(immediate_dominators) /\ DOMAIN immediate_dominators = Resolved
    BY DominatorsTree DEF Analyzed
  <1>1. counted = set \cap Resolved
    <2>1. 0 \notin Resolved
      BY NoDominatorIsNone
    <2>2. immediate_dominators \in [Resolved -> Resolved]
      BY <1>0 DEF IsTree
    <2> QED
      BY <1>0, <2>1, <2>2 DEF ImmediateDominator
  <1>2. post_order \in Seq(Resolved) /\ Range(post_order) = Resolved
    <2>1. /\ post_order \in Seq(Resolved) /\ visit_order \in [Resolved -> 1 .. Len(post_order)]
          /\ \A b \in Resolved : post_order[visit_order[b]] = b
      BY <1>0 DEF WalkedWhole, Numbered
    <2>2. DOMAIN post_order = 1 .. Len(post_order)
      BY <2>1
    <2>3. \A k \in DOMAIN post_order : post_order[k] \in Resolved
      BY <2>1
    <2> QED
      BY <2>1, <2>2, <2>3 DEF Range
  <1>3. added \in Seq(Resolved) /\ Range(added) = set \cap Resolved
    <2>1. PICK but : but = DOMAIN visit_order \ counted
      OBVIOUS
    <2>2. Distinct(post_order, but) \in Seq(Range(post_order) \ but)
          /\ Range(Distinct(post_order, but)) = Range(post_order) \ but
      BY <1>2, DistinctRange
    <2>3. Range(post_order) \ but = set \cap Resolved
      BY <1>1, <1>2, <2>1 DEF Resolved
    <2>4. Distinct(post_order, but) \in Seq(Resolved)
      BY <2>2, <2>3
    <2> QED
      BY <2>1, <2>2, <2>3, <2>4
  <1>4. DominatorOf(set) = IF added = << >> THEN 0 ELSE Dominating(immediate_dominators, added)
    BY DEF DominatorOf
  <1> HIDE DEF added
  <1>5. added # << >> <=> set \cap Resolved # {}
    BY <1>3, FirstInRange
  <1>6. ASSUME added # << >>
        PROVE  /\ Dominating(immediate_dominators, added) \in Resolved
               /\ \A p \in set \cap Resolved : Dominating(immediate_dominators, added) \in Doms(p)
    <2>1. PICK c : c = Dominating(immediate_dominators, added)
      OBVIOUS
    <2>2. c \in Resolved /\ Doms(c) = {a \in Resolved : \A p \in Range(added) : a \in Doms(p)}
      BY <1>0, <1>3, <1>6, <2>1, DominatingMeets
    <2>3. c \in Doms(c)
      BY <1>0, <2>2, DomsDiffer
    <2> QED
      BY <1>3, <2>1, <2>2, <2>3
  <1> QED
    BY <1>4, <1>5, <1>6

\* A block that continues a loop goes back to the header above it.
LEMMA ContinuesBack ==
  ASSUME Analyzed, LoopsStructured, NEW c \in Resolved, IsContinue(c)
  PROVE  LET h == continue_block_to_loop_header[c]
         IN  /\ c \in DOMAIN continue_block_to_loop_header /\ h # c /\ h \in Resolved
             /\ h \in Doms(c) /\ h \in Range(Targets(c)) /\ visit_order[h] > visit_order[c]
  <1>0. WalkedWhole
    BY DEF Analyzed
  <1>1. PICK h : h = continue_block_to_loop_header[c]
    OBVIOUS
  <1>2. c \in FuncBlocks
    BY DEF LoopsStructured, Reachable, Resolved
  <1>3. c \in DOMAIN continue_block_to_loop_header /\ h # c
    BY <1>1, <1>2 DEF LoopsStructured
  <1>4. c \in Inside(h) /\ h \in Range(Targets(c))
    BY <1>1, <1>3 DEF LoopsStructured, Reachable, Resolved
  <1>5. h \in Doms(c)
    BY <1>0, <1>4, InsideIs
  <1>6. h \in Resolved /\ visit_order[h] > visit_order[c]
    BY <1>0, <1>3, <1>5, DomsAbove
  <1> QED
    BY <1>1, <1>3, <1>4, <1>5, <1>6

\* The block is above the uses that can be reached, and continues no loop.
LEMMA LiftedAbove ==
  ASSUME Analyzed, LoopsStructured, NEW v
  PROVE  /\ Lifted(v) # 0 =>
              /\ Lifted(v) \in Resolved /\ ~IsContinue(Lifted(v))
              /\ \A b \in Accesses(v) : Lifted(v) \in Doms(b)
         /\ Accesses(v) # {} => Lifted(v) # 0
  <1>0. WalkedWhole /\ entry_block \in Resolved /\ 0 \notin Resolved
    BY NoDominatorIsNone DEF Analyzed, WalkedWhole
  <1>1. PICK used : used = WithHeaders(accessed_variables_to_block(v))
    OBVIOUS
  <1>2. Accesses(v) \subseteq used \cap Resolved
    BY <1>1 DEF Accesses, WithHeaders, Reachable, Resolved
  <1>3. PICK d : d = DominatorOf(used)
    OBVIOUS
  <1>4. IF used \cap Resolved = {} THEN d = 0 ELSE d \in Resolved /\ \A p \in used \cap Resolved : d \in Doms(p)
    BY <1>3, DominatorOfMeets
  <1>5. Lifted(v) = LiftContinueBlockDominator(d)
    BY <1>1, <1>3 DEF Lifted
  <1>6. CASE used \cap Resolved = {}
    <2>1. Lifted(v) = 0
      BY <1>4, <1>5, <1>6 DEF LiftContinueBlockDominator
    <2> QED
      BY <1>2, <1>6, <2>1
  <1>7. CASE used \cap Resolved # {}
    <2>1. d \in Resolved /\ d # 0
      BY <1>0, <1>4, <1>7
    <2>2. Lifted(v) = entry_block \/ (Lifted(v) = d /\ \A t \in Range(Targets(d)) : ~(visit_order[t] > visit_order[d]))
      BY <1>5, <2>1 DEF LiftContinueBlockDominator
    <2>3. \A b \in Accesses(v) : d \in Doms(b) /\ entry_block \in Doms(b)
      BY <1>0, <1>2, <1>4, <1>7, EntryDominates
    <2>4. ~IsContinue(entry_block)
      <3>1. ASSUME IsContinue(entry_block) PROVE FALSE
        <4>1. PICK h : h # entry_block /\ h \in Doms(entry_block)
          BY <1>0, <3>1, ContinuesBack
        <4> QED
          BY <1>0, <4>1, DomsOfEntry
      <3> QED
        BY <3>1
    <2>5. IsContinue(d) => \E t \in Range(Targets(d)) : visit_order[t] > visit_order[d]
      BY <2>1, ContinuesBack
    <2>6. Lifted(v) \in Resolved /\ Lifted(v) # 0
      BY <1>0, <2>1, <2>2
    <2>7. ~IsContinue(Lifted(v))
      <3>1. PICK l : l = Lifted(v)
        OBVIOUS
      <3>2. l = entry_block \/ (l = d /\ ~IsContinue(d))
        BY <2>2, <2>5, <3>1
      <3>3. ~IsContinue(l)
        BY <2>4, <3>2
      <3> QED
        BY <3>1, <3>3
    <2> QED
      BY <2>2, <2>3, <2>6, <2>7
  <1> QED
    BY <1>6, <1>7

\* What becomes of it when values have to be kept.
LEMMA DeclaredAbove ==
  ASSUME Analyzed, LoopsStructured, LoopsFound, NEW v, Lifted(v) # 0
  PROVE  LET d == PreservedAcrossIterations(v, Lifted(v))
         IN  /\ d \in Resolved /\ d \in Doms(Lifted(v)) /\ ~IsContinue(d)
             /\ \A b \in Accesses(v) : d \in Doms(b)
             /\ \/ locals[v].phi_variable
                \/ ~MayReadUndefinedVariableInBlock(d, v)
                \/ loop_dominator[d] = NoDominator
  <1>0. WalkedWhole
    BY DEF Analyzed
  <1>1. PICK l : l = Lifted(v)
    OBVIOUS
  <1>2. l # 0 /\ l \in Resolved /\ ~IsContinue(l) /\ \A b \in Accesses(v) : l \in Doms(b)
    BY <1>1, LiftedAbove
  <1>3. l \in Doms(l)
    BY <1>0, <1>2, DomsDiffer
  <1>4. PICK d : d = PreservedAcrossIterations(v, l)
    OBVIOUS
  <1>5. CASE locals[v].phi_variable \/ ~MayReadUndefinedVariableInBlock(l, v)
    <2>1. d = l
      BY <1>4, <1>5 DEF PreservedAcrossIterations
    <2> QED
      BY <1>1, <1>2, <1>3, <1>4, <1>5, <2>1
  <1>6. CASE ~(locals[v].phi_variable \/ ~MayReadUndefinedVariableInBlock(l, v))
    <2>1. d = FindCommonDominator(OutermostLoop(l), l)
      BY <1>2, <1>4, <1>6 DEF PreservedAcrossIterations
    <2>2. d = OutermostLoop(l)
      BY <1>2, <2>1, OutermostIsCommon
    <2>3. d \in Resolved /\ d \in Doms(l) /\ loop_dominator[d] = NoDominator
      BY <1>2, <2>2, OutermostAround
    <2>4. ASSUME NEW b \in Accesses(v) PROVE d \in Doms(b)
      <3>1. b \in Resolved /\ l \in Doms(b)
        BY <1>2 DEF Accesses, Reachable, Resolved
      <3>2. Doms(l) \subseteq Doms(b)
        BY <1>0, <3>1, DomsNest
      <3> QED
        BY <2>3, <3>2
    <2>5. ASSUME IsContinue(d) PROVE FALSE
      <3>1. PICK h : /\ h = continue_block_to_loop_header[d] /\ h # d /\ h \in Resolved
                     /\ d \in DOMAIN continue_block_to_loop_header
        BY <2>3, <2>5, ContinuesBack
      <3>2. LoopDominator(d) = h
        BY <3>1 DEF LoopDominator
      <3>3. h = NoDominator
        BY <2>3, <3>2 DEF LoopsFound
      <3> QED
        BY <3>1, <3>3, NoDominatorIsNone
    <2> QED
      BY <1>1, <1>4, <2>3, <2>4, <2>5
  <1> QED
    BY <1>5, <1>6

-------------------------------------------------------------------------------
(* Values that are kept *)

\* The variables of the function that are used, and where they are declared.
VariablesFound ==
  /\ DOMAIN dominator = {v \in Range(Func.local_variables) : accessed_variables_to_block(v) # {}}
  /\ \A v \in DOMAIN dominator : dominator[v] = PreservedAcrossIterations(v, Lifted(v))

LEMMA UsedIsDeclared ==
  ASSUME Analyzed, LoopsStructured, LoopsFound, VariablesFound,
         NEW v \in Range(Func.local_variables), Accesses(v) # {}
  PROVE  /\ v \in DOMAIN dominator /\ dominator[v] \in Resolved /\ ~IsContinue(dominator[v])
         /\ \A b \in Accesses(v) : dominator[v] \in Doms(b)
         /\ \/ locals[v].phi_variable
            \/ ~MayReadUndefinedVariableInBlock(dominator[v], v)
            \/ loop_dominator[dominator[v]] = NoDominator
  <1>1. v \in DOMAIN dominator
    BY DEF VariablesFound, Accesses
  <1>2. dominator[v] = PreservedAcrossIterations(v, Lifted(v))
    BY <1>1 DEF VariablesFound
  <1>3. Lifted(v) # 0
    BY LiftedAbove
  <1> QED
    BY <1>1, <1>2, <1>3, DeclaredAbove

LEMMA DeclaredAboveAll ==
  ASSUME Analyzed, LoopsStructured, LoopsFound, VariablesFound
  PROVE  DeclaredAboveUses
  <1> SUFFICES ASSUME NEW v \in Range(Func.local_variables), Accesses(v) # {}
               PROVE  /\ v \in DOMAIN dominator /\ dominator[v] \in Resolved
                      /\ \A b \in Accesses(v) : Dominates(dominator[v], b)
    BY DEF DeclaredAboveUses, Reachable, Resolved
  <1>1. /\ v \in DOMAIN dominator /\ dominator[v] \in Resolved
        /\ \A b \in Accesses(v) : dominator[v] \in Doms(b)
    BY UsedIsDeclared
  <1>2. \A b \in Accesses(v) : b \in Resolved
    BY DEF Accesses, Reachable, Resolved
  <1> QED
    BY <1>1, <1>2, DominatesDoms DEF Analyzed

\* What the edges of the function reach from some blocks, or part of them.
LEMMA ReachesWithin ==
  ASSUME WalkedWhole, NEW edges \in SUBSET AllEdges, NEW from \in SUBSET Resolved, NEW avoided,
         NEW T, from \ {avoided} \subseteq T, Follows(edges, T, avoided)
  PROVE  Reaches(edges, from, avoided) \subseteq T
  <1>1. IsFiniteSet(DOMAIN blocks) /\ Resolved \subseteq DOMAIN blocks
    BY DEF WalkedWhole
  <1>2. \A e \in edges : e[2] \in DOMAIN blocks
    BY <1>1, AllLeast
  <1>3. from \in SUBSET DOMAIN blocks
    BY <1>1
  <1> QED
    BY <1>1, <1>2, <1>3, ReachesLeast

\* The first access of a block is one of them.
LEMMA FirstIsOne ==
  ASSUME NEW b, NEW v, OpsOn(b, v) # {}
  PROVE  \E k \in OpsOn(b, v) : FirstOp(b, v) = blocks[b].ops[k].op
  <1>1. OpsOn(b, v) \in SUBSET Nat
    BY DEF OpsOn
  <1>2. \E k \in OpsOn(b, v) : \A l \in OpsOn(b, v) : k <= l
    <2> HIDE DEF OpsOn
    <2> QED
      BY <1>1, Least
  <1>3. PICK k \in OpsOn(b, v) : k = CHOOSE j \in OpsOn(b, v) : \A l \in OpsOn(b, v) : j <= l
    BY <1>2
  <1> QED
    BY <1>3 DEF FirstOp

\* A block that writes the variable first shows no other block an older value.
LEMMA WrittenFirst ==
  ASSUME Analyzed, LoopsStructured, NEW v, NEW d \in Resolved, ~MayReadUndefinedVariableInBlock(d, v)
  PROVE  \A b \in SeenFrom(v, d) : ~ReadsFirst(v, b)
  <1>0. WalkedWhole
    BY DEF Analyzed
  <1>1. OpsOn(d, v) # {} /\ FirstOp(d, v) \notin Reads
    BY DEF MayReadUndefinedVariableInBlock
  <1>2. d \in complete_write_variables_to_block(v)
    <2>1. PICK k \in OpsOn(d, v) : FirstOp(d, v) = blocks[d].ops[k].op
      BY <1>1, FirstIsOne
    <2>2. blocks[d].ops[k].op \in Writes
      BY <1>1, <2>1 DEF OpsOn
    <2>3. d \in FuncBlocks
      BY DEF LoopsStructured, Reachable, Resolved
    <2> QED
      BY <2>2, <2>3 DEF complete_write_variables_to_block
  <1>3. SeenFrom(v, d) \subseteq {d}
    <2>1. PICK edges : edges = {e \in AllEdges : e[1] \in Reachable \ complete_write_variables_to_block(v)}
      OBVIOUS
    <2>2. Follows(edges, {d}, 0)
      BY <1>2, <2>1 DEF Follows
    <2>3. Reaches(edges, {d}, 0) \subseteq {d}
      BY <1>0, <2>1, <2>2, ReachesWithin
    <2> QED
      BY <2>1, <2>3 DEF SeenFrom
  <1> QED
    BY <1>1, <1>3 DEF ReadsFirst


\* Where a loop is entered and left, in terms of the order.
LEMMA LoopEdges ==
  ASSUME Analyzed, LoopsStructured, NEW h \in LoopHeaders, NEW e \in AllEdges
  PROVE  /\ e[2] \in Inside(h) /\ e[2] # h => e[1] \in Inside(h)
         /\ e[1] \in Inside(h) => e[2] \in Inside(h) \/ e[2] = blocks[h].merge_block
         /\ \A b \in Inside(h) : b \in Resolved /\ h \in Doms(b) /\ blocks[h].merge_block \notin Doms(b)
  <1>1. PICK m : m = blocks[h].merge_block
    OBVIOUS
  <1>2. \A b \in Inside(h) : b \in Resolved /\ h \in Doms(b) /\ m \notin Doms(b)
    BY <1>1, InsideIs DEF Analyzed
  <1>3. /\ e[2] \in Inside(h) \ {h} => e[1] \in Inside(h)
        /\ e[1] \in Inside(h) => e[2] \in Inside(h) \cup {m}
    BY <1>1 DEF LoopsStructured
  <1> QED
    BY <1>1, <1>2, <1>3

\* Once control is in a block with no loop around, it does not get into a loop that
\* begins before that block.
LEMMA NotBack ==
  ASSUME Analyzed, LoopsStructured, NEW d \in Resolved,
         \A h \in LoopHeaders : d \in Inside(h) => d = h,
         NEW from \in SUBSET Resolved, \A b \in from : d \in Doms(b),
         NEW e \in AllEdges, e[1] \in Reaches(AllEdges, from, 0), e[2] = d
  PROVE  d \in LoopHeaders /\ d \in Doms(e[1])
  <1> DEFINE N == Len(post_order)
             Z == {b \in Resolved : visit_order[b] <= visit_order[d] /\
                     \A h \in LoopHeaders : visit_order[h] > visit_order[d] => b \notin Inside(h)}
  <1>0. WalkedWhole
    BY DEF Analyzed
  <1>1. N \in Nat /\ visit_order \in [Resolved -> 0 .. N]
    BY <1>0, Places
  <1>h. \A h \in LoopHeaders : h \in Resolved
    BY DEF LoopHeaders, Reachable, Resolved
  <1>2. from \subseteq Z
    <2> SUFFICES ASSUME NEW b \in from PROVE b \in Z
      OBVIOUS
    <2>1. b \in Resolved /\ d \in Doms(b)
      OBVIOUS
    <2>2. visit_order[b] <= visit_order[d]
      BY <1>0, <2>1, DomsPlaced
    <2>3. ASSUME NEW h \in LoopHeaders, visit_order[h] > visit_order[d], b \in Inside(h) PROVE FALSE
      <3>1. PICK m : m = blocks[h].merge_block
        OBVIOUS
      <3>2. \A x : x \in Inside(h) <=> x \in Resolved /\ h \in Doms(x) /\ m \notin Doms(x)
        BY <1>0, <3>1, InsideIs
      <3>3. h \in Doms(b) /\ m \notin Doms(b)
        BY <2>3, <3>2
      <3>4. Doms(d) \subseteq Doms(b) /\ (h \in Doms(d) \/ d \in Doms(h))
        BY <1>0, <2>1, <3>3, DomsNest
      <3>5. d \notin Doms(h)
        <4>1. ASSUME d \in Doms(h) PROVE FALSE
          <5>1. visit_order[d] >= visit_order[h]
            BY <1>0, <1>h, <4>1, DomsPlaced
          <5>2. visit_order[d] \in 0 .. N /\ visit_order[h] \in 0 .. N
            BY <1>1, <1>h
          <5> QED
            BY <1>1, <2>3, <5>1, <5>2
        <4> QED
          BY <4>1
      <3>6. d \in Inside(h)
        BY <3>2, <3>3, <3>4, <3>5
      <3>7. d = h
        BY <3>6
      <3> QED
        BY <1>1, <2>3, <3>7
    <2> QED
      BY <2>1, <2>2, <2>3
  <1>3. Follows(AllEdges, Z, 0)
    <2> SUFFICES ASSUME NEW f \in AllEdges, f[1] \in Z PROVE f[2] \in Z
      BY DEF Follows
    <2>1. PICK x, y : x = f[1] /\ y = f[2]
      OBVIOUS
    <2>2. /\ x \in Resolved /\ y \in Resolved
          /\ visit_order[y] < visit_order[x] \/ (y \in LoopHeaders /\ x \in Inside(y))
      BY <1>0, <2>1, EdgesBothWays
    <2>3. visit_order[x] \in 0 .. N /\ visit_order[y] \in 0 .. N /\ visit_order[d] \in 0 .. N
      BY <1>1, <2>2
    <2>4. visit_order[y] <= visit_order[d]
      <3>1. CASE visit_order[y] < visit_order[x]
        BY <1>1, <2>1, <2>3, <3>1
      <3>2. CASE y \in LoopHeaders /\ x \in Inside(y)
        BY <1>1, <2>1, <2>3, <3>2
      <3> QED
        BY <2>2, <3>1, <3>2
    <2>5. ASSUME NEW h \in LoopHeaders, visit_order[h] > visit_order[d], y \in Inside(h) PROVE FALSE
      <3>1. y # h
        <4>1. visit_order[h] \in 0 .. N
          BY <1>1, <1>h
        <4> QED
          BY <1>1, <2>3, <2>4, <2>5, <4>1
      <3>2. x \in Inside(h)
        BY <2>1, <2>5, <3>1, LoopEdges
      <3> QED
        BY <2>1, <2>5, <3>2
    <2> QED
      BY <2>1, <2>2, <2>4, <2>5
  <1>4. e[1] \in Z
    <2> HIDE DEF Z
    <2>1. Reaches(AllEdges, from, 0) \subseteq Z
      BY <1>0, <1>2, <1>3, ReachesWithin
    <2> QED
      BY <2>1
  <1>5. PICK x : x = e[1] /\ x \in Resolved /\ visit_order[x] <= visit_order[d]
    BY <1>4
  <1>6. visit_order[d] < visit_order[x] \/ (d \in LoopHeaders /\ d \in Doms(x))
    BY <1>0, <1>5, EdgesBothWays
  <1>7. visit_order[x] \in 0 .. N /\ visit_order[d] \in 0 .. N
    BY <1>1, <1>5
  <1> QED
    BY <1>1, <1>5, <1>6, <1>7

LEMMA ValuesSurvive ==
  ASSUME Analyzed, LoopsStructured, LoopsFound, VariablesFound,
         NEW v \in Range(Func.local_variables), Accesses(v) # {}, ~locals[v].phi_variable
  PROVE  ValueSurvives(v)
  <1>0. WalkedWhole
    BY DEF Analyzed
  <1>1. PICK d : d = dominator[v]
    OBVIOUS
  <1>2. /\ d \in Resolved /\ \A b \in Accesses(v) : d \in Doms(b)
        /\ ~MayReadUndefinedVariableInBlock(d, v) \/ loop_dominator[d] = NoDominator
    BY <1>1, UsedIsDeclared
  <1> SUFFICES ASSUME NEW e \in AllEdges, Declares(v, e), e[1] \in Reaches(AllEdges, Changes(v), 0),
                      NEW b \in SeenFrom(v, e[2])
               PROVE  ~ReadsFirst(v, b)
    BY DEF ValueSurvives
  <1>3. e[2] = d /\ (blocks[d].merge = "Loop" => ~Dominates(d, e[1]))
    BY <1>1 DEF Declares
  <1>4. CASE ~MayReadUndefinedVariableInBlock(d, v)
    BY <1>2, <1>3, <1>4, WrittenFirst
  <1>5. CASE loop_dominator[d] = NoDominator
    <2>1. \A h \in LoopHeaders : d \in Inside(h) => d = h
      <3>1. IsAround(d, loop_dominator[d])
        BY <1>2, LoopAbove
      <3> QED
        BY <1>5, <3>1 DEF IsAround
    <2>2. Changes(v) \subseteq Accesses(v)
      <3>1. Reachable \subseteq FuncBlocks
        BY DEF LoopsStructured
      <3> QED
        BY <3>1 DEF Changes, Accesses, accessed_variables_to_block
    <2>3. Changes(v) \in SUBSET Resolved /\ \A x \in Changes(v) : d \in Doms(x)
      BY <1>2, <2>2 DEF Accesses, Reachable, Resolved
    <2>4. d \in LoopHeaders /\ d \in Doms(e[1])
      BY <1>2, <1>3, <2>1, <2>3, NotBack
    <2>5. e[1] \in Resolved
      BY <1>0, AllLeast
    <2>6. Dominates(d, e[1])
      BY <1>0, <2>4, <2>5, DominatesDoms
    <2> QED
      BY <1>3, <2>4, <2>6 DEF LoopHeaders
  <1> QED
    BY <1>2, <1>4, <1>5

-------------------------------------------------------------------------------
(* Parameters *)

PreservedFound ==
  \A v \in Range(Func.arguments) :
    accessed_variables_to_block(v) # {} /\ MustPreserve(v) => v \in preserved

LEMMA ReturnsEnd ==
  ASSUME Analyzed, LoopsStructured, NEW b \in Resolved, blocks[b].terminator = "Return"
  PROVE  EdgesOf(succeeding_edges, b) = << >>
  <1>1. blocks[b].merge = "None"
    BY DEF LoopsStructured, Reachable, Resolved
  <1>2. Targets(b) = << >> /\ MergeTargets(b) = << >>
    BY <1>1 DEF Targets, MergeTargets, LoopMergeOf
  <1>3. Branched(b) = {}
    <2>1. MergeTargets(b) \o Targets(b) = << >>
      BY <1>2
    <2> QED
      BY <2>1 DEF Branched, Range
  <1>4. EdgesOf(succeeding_edges, b) \in Seq(Resolved) /\ Succ(b) = {}
    BY <1>3 DEF Analyzed, EdgesTold
  <1> QED
    BY <1>4, FirstInRange DEF Succ

LEMMA NeededIsPreserved ==
  ASSUME Analyzed, LoopsStructured, NEW v, CallersValueNeeded(v)
  PROVE  MustPreserve(v)
  <1> DEFINE written == complete_write_variables_to_block(v)
             open == {b \in Resolved : b \notin written}
             edges == {e \in open \X open : e[2] \in Range(EdgesOf(succeeding_edges, e[1]))}
             S == Reaches(edges, {entry_block}, 0)
             taken == {e \in AllEdges : e[1] \in open}
  <1>0. WalkedWhole /\ entry_block \in Resolved /\ 0 \notin Resolved
    BY NoDominatorIsNone DEF Analyzed, WalkedWhole
  <1>1. PICK r \in Reaches(taken, {entry_block}, 0) : blocks[r].terminator = "Return" /\ r \notin written
    <2>1. SeenFrom(v, entry_block) = Reaches(taken, {entry_block}, 0)
      BY DEF SeenFrom, Reachable, Resolved
    <2> QED
      BY <2>1 DEF CallersValueNeeded
  <1>2. edges \subseteq ForwardFlow /\ ForwardFlow \subseteq AllEdges
    BY <1>0, AllLeast DEF ForwardFlow, Succ
  <1>3. /\ IsFiniteSet(DOMAIN blocks) /\ Resolved \subseteq DOMAIN blocks
        /\ \A e \in AllEdges : e[1] \in Resolved /\ e[2] \in Resolved
    BY <1>0, AllLeast DEF WalkedWhole
  <1>4. /\ entry_block \in S /\ Follows(edges, S, 0)
        /\ \A T : {entry_block} \ {0} \subseteq T /\ Follows(edges, T, 0) => S \subseteq T
    <2>1. \A e \in edges : e[2] \in DOMAIN blocks
      BY <1>3
    <2>2. {entry_block} \in SUBSET DOMAIN blocks
      BY <1>0, <1>3
    <2> HIDE DEF edges
    <2>3. /\ {entry_block} \ {0} \subseteq S /\ Follows(edges, S, 0)
          /\ \A T : {entry_block} \ {0} \subseteq T /\ Follows(edges, T, 0) => S \subseteq T
      BY <1>3, <2>1, <2>2, ReachesLeast
    <2> QED
      BY <1>0, <2>3
  <1>5. CASE entry_block \notin open
    <2>1. Reaches(taken, {entry_block}, 0) \subseteq {entry_block}
      <3>1. Follows(taken, {entry_block}, 0)
        BY <1>5 DEF Follows
      <3>2. taken \in SUBSET AllEdges /\ {entry_block} \in SUBSET Resolved
        BY <1>0
      <3> HIDE DEF taken
      <3> QED
        BY <1>0, <3>1, <3>2, ReachesWithin
    <2> QED
      BY <1>0, <1>1, <1>5, <2>1
  <1>6. CASE entry_block \in open
    <2>1. S \subseteq open
      <3>1. Follows(edges, open, 0)
        BY DEF Follows
      <3> HIDE DEF S, open, edges
      <3> QED
        BY <1>4, <1>6, <3>1
    <2>2. Follows(taken, S \cup written, 0)
      <3> SUFFICES ASSUME NEW e \in taken, e[1] \in S \cup written PROVE e[2] \in S \cup written
        BY DEF Follows
      <3>1. PICK x, y : x = e[1] /\ y = e[2] /\ x \in Resolved /\ y \in Resolved /\ x \in open /\ x \in S
        BY <1>3
      <3>2. CASE y \in Succ(x)
        <4>1. CASE y \in open
          <5>1. PICK f \in edges : f = <<x, y>>
            BY <3>1, <3>2, <4>1 DEF Succ
          <5>2. f[1] = x /\ f[2] = y /\ y # 0
            BY <1>0, <3>1, <5>1
          <5>3. y \in S
            <6> HIDE DEF edges, S
            <6> QED
              BY <1>4, <3>1, <5>2 DEF Follows
          <5> QED
            BY <3>1, <5>3
        <4>2. CASE y \notin open
          BY <3>1, <4>2
        <4> QED
          BY <4>1, <4>2
      <3>3. CASE y \in Doms(x)
        <4>1. ASSUME y \notin S PROVE FALSE
          <5>1. S \subseteq Around(y)
            <6>1. entry_block # y
              BY <1>4, <4>1
            <6>2. entry_block \in Around(y) /\ Follows(ForwardFlow, Around(y), y)
              BY <1>0, <6>1, AroundLeast
            <6>3. Follows(edges, S \cap Around(y), 0)
              <7> SUFFICES ASSUME NEW f \in edges, f[1] \in S \cap Around(y), f[2] # 0
                           PROVE  f[2] \in S \cap Around(y)
                BY DEF Follows
              <7>1. f \in ForwardFlow
                BY <1>2
              <7> HIDE DEF edges, S
              <7>2. f[2] \in S
                BY <1>4 DEF Follows
              <7>3. f[2] \in Around(y)
                BY <4>1, <6>2, <7>1, <7>2 DEF Follows
              <7> QED
                BY <7>2, <7>3
            <6> HIDE DEF S, edges
            <6>4. S \subseteq S \cap Around(y)
              BY <1>4, <6>2, <6>3
            <6> QED
              BY <6>4
          <5>2. x \in Around(y)
            BY <3>1, <5>1
          <5> QED
            BY <3>3, <5>2 DEF Doms
        <4> QED
          BY <3>1, <4>1
      <3>4. y \in Succ(x) \/ y \in Doms(x)
        BY <1>0, <3>1, EdgesBothWays
      <3> QED
        BY <3>2, <3>3, <3>4
    <2>3. r \in S
      <3>1. Reaches(taken, {entry_block}, 0) \subseteq S \cup written
        <4> HIDE DEF S, written
        <4>1. taken \in SUBSET AllEdges /\ {entry_block} \in SUBSET Resolved
          BY <1>0
        <4> HIDE DEF taken
        <4> QED
          BY <1>0, <1>4, <2>2, <4>1, ReachesWithin
      <3> QED
        BY <1>1, <3>1
    <2>4. EdgesOf(succeeding_edges, r) = << >>
      BY <1>1, <2>1, <2>3, ReturnsEnd
    <2>5. ExistsUnaccessedPathToReturn(written)
      BY <1>6, <2>3, <2>4 DEF ExistsUnaccessedPathToReturn, Resolved
    <2> QED
      BY <2>5 DEF MustPreserve
  <1> QED
    BY <1>5, <1>6

LEMMA PreservesParameters ==
  ASSUME Analyzed, LoopsStructured, PreservedFound
  PROVE  ParametersPreserved
  <1> SUFFICES ASSUME NEW v \in Range(Func.arguments), Accesses(v) # {}, CallersValueNeeded(v) PROVE v \in preserved
    BY DEF ParametersPreserved
  <1>1. accessed_variables_to_block(v) # {}
    BY DEF Accesses
  <1>2. MustPreserve(v)
    BY NeededIsPreserved
  <1> QED
    BY <1>1, <1>2 DEF PreservedFound

-------------------------------------------------------------------------------
(* Loop variables *)

\* One step of the line that goes on to a header.
Forth(b)  == EdgesOf(succeeding_edges, b)
Leads(b) == Len(Forth(b)) = 1 /\ preceding_edges[Forth(b)[1]] = <<b>>

LEMMA LineUnfolds ==
  ASSUME Analyzed, NEW header, NEW b \in Resolved
  PROVE  /\ StraightTo(header, b) =
              IF b = header THEN {b}
              ELSE IF Leads(b) /\ StraightTo(header, Forth(b)[1]) # {} THEN {b} \cup StraightTo(header, Forth(b)[1])
              ELSE {}
         /\ Leads(b) => Forth(b)[1] \in Succ(b) /\ Succ(b) = {Forth(b)[1]}
  <1> DEFINE N == Len(post_order)
             V == SUBSET Block
             R == {x \in Resolved : x # header /\ Leads(x)}
             E(line, x) == IF x = header THEN {x}
                           ELSE IF Len(Forth(x)) = 1 /\ preceding_edges[Forth(x)[1]] = <<x>> /\ line[Forth(x)[1]] # {}
                           THEN {x} \cup line[Forth(x)[1]] ELSE {}
             fixed(line) == line = [x \in Block |-> E(line, x)]
             f == CHOOSE line : fixed(line)
             val == [x \in Block |-> IF x = header THEN {x} ELSE {}]
             next == [x \in R |-> Forth(x)[1]]
             o == [x \in Block |-> IF x \in Resolved THEN N - visit_order[x] ELSE 0]
             G == [x \in R |-> [w \in V |-> IF w # {} THEN {x} \cup w ELSE {}]]
  <1>0. WalkedWhole /\ Resolved \subseteq Block
    BY NoDominatorIsNone DEF Analyzed
  <1>1. N \in Nat /\ visit_order \in [Resolved -> 0 .. N]
    BY <1>0, Places
  <1>2. \A x \in Block \ Resolved : Forth(x) = << >>
    BY DEF Forth, EdgesOf, Analyzed, SuccessorsResolved
  <1>3. \A x \in Resolved : Leads(x) =>
          /\ Forth(x)[1] \in Resolved /\ visit_order[Forth(x)[1]] < visit_order[x]
          /\ Forth(x)[1] \in Succ(x) /\ Succ(x) = {Forth(x)[1]}
    <2> SUFFICES ASSUME NEW x \in Resolved, Leads(x)
                 PROVE  /\ Forth(x)[1] \in Resolved /\ visit_order[Forth(x)[1]] < visit_order[x]
                        /\ Forth(x)[1] \in Succ(x) /\ Succ(x) = {Forth(x)[1]}
      OBVIOUS
    <2>1. PICK s : s = Forth(x) /\ s \in Seq(Resolved) /\ Len(s) = 1 /\ Succ(x) = Range(s)
      BY DEF Forth, Leads, Analyzed, EdgesTold, Succ
    <2>2. Range(s) = {s[1]}
      <3>1. DOMAIN s = {1}
        BY <2>1
      <3> QED
        BY <3>1 DEF Range
    <2>3. s[1] \in Succ(x)
      BY <2>1, <2>2
    <2>4. s[1] \in Resolved /\ visit_order[s[1]] < visit_order[x]
      BY <1>0, <2>3 DEF WalkedWhole, EdgesForward
    <2> QED
      BY <2>1, <2>2, <2>3, <2>4
  <1>4. \E line : IsDescent(line, Block, R, V, val, next, G)
    <2>1. R \in SUBSET Block /\ next \in [R -> Block] /\ val \in [Block -> V]
      BY <1>0, <1>3
    <2>2. G \in [R -> [V -> V]]
      BY <1>0
    <2>3. o \in [Block -> 0 .. N]
      <3>1. \A x \in Resolved : visit_order[x] \in 0 .. N /\ N - visit_order[x] \in 0 .. N
        BY <1>1
      <3> QED
        BY <1>1, <3>1
    <2>4. \A x \in R : o[next[x]] > o[x]
      <3> SUFFICES ASSUME NEW x \in R PROVE o[next[x]] > o[x]
        OBVIOUS
      <3>1. PICK y : y = Forth(x)[1] /\ y \in Resolved /\ visit_order[y] < visit_order[x]
        BY <1>3
      <3>2. o[y] = N - visit_order[y] /\ o[x] = N - visit_order[x] /\ next[x] = y
        BY <1>0, <3>1
      <3>3. visit_order[y] \in 0 .. N /\ visit_order[x] \in 0 .. N
        BY <1>1, <3>1
      <3> QED
        BY <1>1, <3>1, <3>2, <3>3
    <2> HIDE DEF N, R, V, val, next, o, G
    <2> QED
      BY <1>1, <2>1, <2>2, <2>3, <2>4, Descends
  <1>5. PICK g : IsDescent(g, Block, R, V, val, next, G)
    BY <1>4
  <1>6. ASSUME NEW x \in Block PROVE g[x] = E(g, x)
    <2>1. g[x] = IF x \in R THEN G[x][g[next[x]]] ELSE val[x]
      BY <1>5 DEF IsDescent
    <2>2. CASE x \in R
      <3>1. PICK y : y = Forth(x)[1]
        OBVIOUS
      <3>2. next[x] = y /\ y \in Block
        BY <1>0, <1>3, <2>2, <3>1
      <3>3. PICK w : w = g[y]
        OBVIOUS
      <3>4. w \in V
        BY <1>5, <3>2, <3>3 DEF IsDescent
      <3>5. g[x] = IF w # {} THEN {x} \cup w ELSE {}
        <4>1. G[x][w] = IF w # {} THEN {x} \cup w ELSE {}
          BY <2>2, <3>4
        <4> HIDE DEF G
        <4> QED
          BY <2>1, <2>2, <3>2, <3>3, <4>1
      <3>6. x # header /\ Len(Forth(x)) = 1 /\ preceding_edges[Forth(x)[1]] = <<x>>
        BY <2>2 DEF Leads
      <3>7. E(g, x) = IF w # {} THEN {x} \cup w ELSE {}
        BY <3>1, <3>3, <3>6
      <3> QED
        BY <3>5, <3>7
    <2>3. CASE x \notin R
      <3>1. g[x] = IF x = header THEN {x} ELSE {}
        BY <2>1, <2>3
      <3>2. x = header \/ ~(Len(Forth(x)) = 1 /\ preceding_edges[Forth(x)[1]] = <<x>>)
        BY <1>2, <2>3 DEF Leads
      <3> QED
        BY <3>1, <3>2
    <2> QED
      BY <2>2, <2>3
  <1>7. fixed(g)
    <2>1. g = [x \in Block |-> g[x]]
      BY <1>5 DEF IsDescent
    <2> HIDE DEF E
    <2> QED
      BY <1>6, <2>1
  <1>8. fixed(f)
    <2> HIDE DEF fixed
    <2> QED
      BY <1>7
  <1>9. \A x : StraightTo(header, x) = f[x]
    BY DEF StraightTo, E, Forth
  <1>10. \A x \in Block : f[x] = E(f, x)
    <2> HIDE DEF E, f
    <2> QED
      BY <1>8
  <1> HIDE DEF f
  <1>11. f[b] = E(f, b)
    BY <1>0, <1>10
  <1>12. StraightTo(header, b) = f[b] /\ StraightTo(header, Forth(b)[1]) = f[Forth(b)[1]]
    BY <1>9
  <1> QED
    BY <1>3, <1>11, <1>12 DEF Leads

\* All that leads from a block to the header is a line of blocks with one way on.
OnLine(header, b) ==
  /\ header \in Resolved /\ b \in Doms(header)
  /\ \A x \in Doms(header) :
       b \in Doms(x) => x = header \/ \E t : Succ(x) = {t} /\ t \in Doms(header)

LEMMA LineDominates ==
  ASSUME Analyzed, NEW header, NEW b \in Resolved, StraightTo(header, b) # {}
  PROVE  OnLine(header, b)
  <1> DEFINE N == Len(post_order)
             S == {x \in Resolved : StraightTo(header, x) # {} => OnLine(header, x)}
             o == [x \in Resolved |-> N - visit_order[x]]
  <1>0. WalkedWhole
    BY DEF Analyzed
  <1>1. N \in Nat /\ visit_order \in [Resolved -> 0 .. N]
    BY <1>0, Places
  <1>2. ASSUME NEW x \in Resolved, \A y \in Resolved : visit_order[y] < visit_order[x] => y \in S,
               StraightTo(header, x) # {}
        PROVE  OnLine(header, x)
    <2>1. CASE x = header
      <3>1. header \in Doms(header)
        BY <1>0, <2>1, DomsDiffer
      <3>2. \A y \in Doms(header) : header \in Doms(y) => y = header
        BY <1>0, <2>1, DomsPlaced
      <3> QED
        BY <2>1, <3>1, <3>2 DEF OnLine
    <2>2. CASE x # header
      <3>1. PICK t : t = Forth(x)[1]
        OBVIOUS
      <3>2. Leads(x) /\ StraightTo(header, t) # {} /\ t \in Succ(x) /\ Succ(x) = {t}
        BY <1>2, <2>2, <3>1, LineUnfolds
      <3>3. t \in Resolved /\ visit_order[t] < visit_order[x] /\ x \in Pred(t)
        BY <1>0, <3>2 DEF WalkedWhole, EdgesForward
      <3>4. Pred(t) = {x}
        <4>1. preceding_edges[t] = <<x>>
          BY <3>1, <3>2 DEF Leads
        <4>2. t \in DOMAIN preceding_edges
          BY <3>3 DEF Pred, EdgesOf, Range
        <4>3. EdgesOf(preceding_edges, t) = <<x>>
          BY <4>1, <4>2 DEF EdgesOf
        <4>4. Range(<<x>>) = {x}
          BY DEF Range
        <4> QED
          BY <4>3, <4>4 DEF Pred
      <3>5. t # entry_block
        BY <1>0, <3>3, EntryFirst
      <3>6. Doms(t) = {t} \cup Doms(x)
        <4>1. Doms(t) = {t} \cup {a \in Resolved : a \in Doms(x)}
          BY <1>0, <3>3, <3>4, <3>5, DomsOfOther
        <4> QED
          BY <4>1 DEF Doms
      <3>7. OnLine(header, t)
        BY <1>2, <3>2, <3>3
      <3>8. header \in Resolved /\ t \in Doms(header)
        BY <3>7 DEF OnLine
      <3>9. x \in Doms(header)
        <4>1. x \in Doms(x)
          BY <1>0, DomsDiffer
        <4>2. Doms(t) \subseteq Doms(header)
          BY <1>0, <3>8, DomsNest
        <4> QED
          BY <3>6, <4>1, <4>2
      <3>10. ASSUME NEW y \in Doms(header), x \in Doms(y)
             PROVE  y = header \/ \E u : Succ(y) = {u} /\ u \in Doms(header)
        <4>1. t \in Doms(y) \/ y \in Doms(t)
          BY <1>0, <3>8, DomsNest
        <4>2. CASE t \in Doms(y)
          BY <3>7, <4>2 DEF OnLine
        <4>3. CASE y = t
          <5>1. t \in Doms(t)
            BY <1>0, <3>3, DomsDiffer
          <5> QED
            BY <3>7, <4>3, <5>1 DEF OnLine
        <4>4. CASE y \in Doms(x)
          <5>1. y = x
            BY <1>0, <3>10, <4>4, DomsPlaced
          <5> QED
            BY <3>2, <3>8, <5>1
        <4> QED
          BY <3>6, <4>1, <4>2, <4>3, <4>4
      <3> QED
        BY <3>8, <3>9, <3>10 DEF OnLine
    <2> QED
      BY <2>1, <2>2
  <1>3. Resolved \subseteq S
    <2>1. o \in [Resolved -> 0 .. N] /\ \A x, y \in Resolved : o[y] > o[x] <=> visit_order[y] < visit_order[x]
      <3>1. \A x \in Resolved : visit_order[x] \in 0 .. N /\ N - visit_order[x] \in 0 .. N /\ o[x] = N - visit_order[x]
        BY <1>1
      <3> HIDE DEF o, N
      <3>2. \A x, y \in Resolved : o[y] > o[x] <=> visit_order[y] < visit_order[x]
        BY <1>1, <3>1
      <3>3. o \in [Resolved -> 0 .. N]
        <4>1. o = [x \in Resolved |-> o[x]]
          BY DEF o
        <4> QED
          BY <3>1, <4>1
      <3> QED
        BY <3>2, <3>3
    <2>2. \A x \in Resolved : (\A y \in Resolved : o[y] > o[x] => y \in S) => x \in S
      <3> SUFFICES ASSUME NEW x \in Resolved, \A y \in Resolved : o[y] > o[x] => y \in S PROVE x \in S
        OBVIOUS
      <3> HIDE DEF o
      <3>1. \A y \in Resolved : visit_order[y] < visit_order[x] => y \in S
        BY <2>1
      <3>2. StraightTo(header, x) # {} => OnLine(header, x)
        BY <1>2, <3>1
      <3> QED
        BY <3>2
    <2> HIDE DEF S, N, o
    <2> QED
      BY <1>1, <2>1, <2>2, InductDown
  <1> QED
    BY <1>3


\* What comes after a block outside of a loop that begins before it is outside, too.
LEMMA NotIntoAgain ==
  ASSUME Analyzed, LoopsStructured, NEW m \in Resolved, NEW y \in LoopHeaders,
         m \notin Inside(y), visit_order[y] > visit_order[m]
  PROVE  Reaches(ForwardFlow, {m}, 0) \cap Inside(y) = {}
  <1> DEFINE N == Len(post_order)
             T == {b \in Resolved : visit_order[b] <= visit_order[m] /\ b \notin Inside(y)}
  <1>0. WalkedWhole /\ ForwardFlow \subseteq AllEdges
    BY AllLeast DEF Analyzed
  <1>1. N \in Nat /\ visit_order \in [Resolved -> 0 .. N]
    BY <1>0, Places
  <1>2. {m} \ {0} \subseteq T
    BY <1>1
  <1>3. Follows(ForwardFlow, T, 0)
    <2> SUFFICES ASSUME NEW e \in ForwardFlow, e[1] \in T PROVE e[2] \in T
      BY DEF Follows
    <2>1. e[1] \in Resolved /\ e[2] \in Resolved /\ visit_order[e[2]] < visit_order[e[1]]
      BY <1>0 DEF ForwardFlow, WalkedWhole, EdgesForward
    <2>2. visit_order[e[1]] \in 0 .. N /\ visit_order[e[2]] \in 0 .. N /\ visit_order[m] \in 0 .. N
      BY <1>1, <2>1
    <2>3. visit_order[e[1]] <= visit_order[m] /\ e[1] \notin Inside(y)
      OBVIOUS
    <2>4. visit_order[e[2]] <= visit_order[m]
      BY <1>1, <2>1, <2>2, <2>3
    <2>5. e[2] # y
      BY <1>1, <2>2, <2>4
    <2>6. e[2] \notin Inside(y)
      BY <1>0, <2>3, <2>5, LoopEdges
    <2> QED
      BY <2>1, <2>4, <2>6
  <1>4. Reaches(ForwardFlow, {m}, 0) \subseteq T
    <2>1. ForwardFlow \in SUBSET AllEdges /\ {m} \in SUBSET Resolved
      BY <1>0
    <2> HIDE DEF T
    <2> QED
      BY <1>0, <1>2, <1>3, <2>1, ReachesWithin
  <1> QED
    BY <1>4

\* After a loop that a line of blocks leads to, what is below the line's beginning and
\* not behind the loop is reached through the beginning only.
LEMMA ThroughTheLine ==
  ASSUME Analyzed, LoopsStructured, NEW h \in LoopHeaders, NEW d \in Resolved, OnLine(h, d)
  PROVE  LET m == blocks[h].merge_block
             W == Reaches(ForwardFlow, {m}, 0)
         IN  Reaches(AllEdges, {m}, d) \subseteq W \cup {t \in Resolved : d \notin Doms(t)}
  <1> DEFINE N == Len(post_order)
  <1>0. WalkedWhole /\ ForwardFlow \subseteq AllEdges
    BY AllLeast DEF Analyzed
  <1>1. N \in Nat /\ visit_order \in [Resolved -> 0 .. N]
    BY <1>0, Places
  <1>2. PICK m : /\ m = blocks[h].merge_block /\ h \in Resolved /\ m \in Resolved /\ h \in Doms(m)
                 /\ h \in Pred(m) /\ m # h /\ visit_order[m] < visit_order[h]
    <2>1. PICK m : m = blocks[h].merge_block
      OBVIOUS
    <2>2. h \in Resolved /\ m \in Resolved /\ h \in Doms(m) /\ h \in Pred(m) /\ m # h
      BY <2>1, LoopsMerge
    <2>3. visit_order[m] < visit_order[h]
      BY <1>0, <2>2, DomsAbove
    <2> QED
      BY <2>1, <2>2, <2>3
  <1>3. PICK W : W = Reaches(ForwardFlow, {m}, 0)
    OBVIOUS
  <1> DEFINE Q == W \cup {t \in Resolved : d \notin Doms(t)}
  <1>4. m \in W /\ Follows(ForwardFlow, W, 0) /\ W \subseteq Resolved
    <2>1. IsFiniteSet(DOMAIN blocks) /\ Resolved \subseteq DOMAIN blocks /\ 0 \notin Resolved
      BY <1>0, NoDominatorIsNone DEF WalkedWhole
    <2>2. \A e \in ForwardFlow : e[2] \in DOMAIN blocks /\ e[2] \in Resolved
      BY <2>1 DEF ForwardFlow
    <2>3. {m} \in SUBSET DOMAIN blocks /\ m # 0
      BY <1>2, <2>1
    <2>4. /\ {m} \ {0} \subseteq W /\ Follows(ForwardFlow, W, 0)
          /\ \A T : {m} \ {0} \subseteq T /\ Follows(ForwardFlow, T, 0) => W \subseteq T
      BY <1>3, <2>1, <2>2, <2>3, ReachesLeast
    <2>5. Follows(ForwardFlow, Resolved, 0)
      BY <2>2 DEF Follows
    <2> QED
      BY <1>2, <2>3, <2>4, <2>5
  <1>5. ASSUME NEW y \in LoopHeaders, NEW x \in W, x \in Inside(y), d \in Doms(y) PROVE y \in W
    <2>1. y \in Resolved /\ x \in Resolved /\ y \in Doms(x)
      BY <1>0, <1>4, <1>5, InsideIs DEF LoopHeaders, Reachable, Resolved
    <2>2. ASSUME y \notin W PROVE FALSE
      <3>1. y \in Doms(m)
        <4>1. ASSUME m \in Around(y) PROVE FALSE
          <5>1. y # entry_block
            <6>1. ASSUME y = entry_block PROVE FALSE
              <7>1. entry_block \in Doms(m)
                BY <1>0, <1>2, EntryDominates
              <7> QED
                BY <4>1, <6>1, <7>1 DEF Doms
            <6> QED
              BY <6>1
          <5>2. Follows(ForwardFlow, Around(y), y)
            BY <1>0, AroundLeast
          <5>3. Follows(ForwardFlow, W \cap Around(y), 0)
            <6> SUFFICES ASSUME NEW e \in ForwardFlow, e[1] \in W \cap Around(y), e[2] # 0
                         PROVE  e[2] \in W \cap Around(y)
              BY DEF Follows
            <6>1. e[2] \in W
              BY <1>4 DEF Follows
            <6>2. e[2] # y
              BY <2>2, <6>1
            <6> QED
              BY <5>2, <6>1, <6>2 DEF Follows
          <5>4. W \subseteq W \cap Around(y)
            <6>1. ForwardFlow \in SUBSET AllEdges /\ {m} \in SUBSET Resolved /\ {m} \ {0} \subseteq W \cap Around(y)
              BY <1>0, <1>2, <1>4, <4>1
            <6> QED
              BY <1>0, <1>3, <5>3, <6>1, ReachesWithin
          <5> QED
            BY <2>1, <5>4 DEF Doms
        <4> QED
          BY <1>2, <2>1, <4>1 DEF Doms
      <3>2. y # m
        BY <1>4, <2>2
      <3>3. y \in Doms(h)
        <4>1. m # entry_block
          BY <1>0, <1>2, <3>1, <3>2, DomsOfEntry
        <4> QED
          BY <1>0, <1>2, <3>1, <3>2, <4>1, DomsOfOther
      <3>4. PICK n : n = blocks[y].merge_block /\ n \in Succ(y)
        BY LoopsMerge
      <3>5. y = h \/ n \in Doms(h)
        BY <1>5, <3>3, <3>4 DEF OnLine
      <3>6. n \in Doms(m)
        <4>1. m \in Doms(m)
          BY <1>0, <1>2, DomsDiffer
        <4>2. Doms(h) \subseteq Doms(m)
          BY <1>0, <1>2, DomsNest
        <4> QED
          BY <1>2, <3>4, <3>5, <4>1, <4>2
      <3>7. m \notin Inside(y)
        BY <1>0, <3>4, <3>6, InsideIs
      <3>8. visit_order[y] > visit_order[m]
        BY <1>0, <1>2, <3>1, <3>2, DomsAbove
      <3> QED
        BY <1>2, <1>3, <1>5, <3>7, <3>8, NotIntoAgain
    <2> QED
      BY <2>2
  <1>6. Follows(AllEdges, Q, d)
    <2> SUFFICES ASSUME NEW e \in AllEdges, e[1] \in Q, e[2] # d PROVE e[2] \in Q
      BY DEF Follows
    <2>1. PICK x, y : x = e[1] /\ y = e[2] /\ x \in Resolved /\ y \in Resolved /\ y # d
      BY <1>0, AllLeast
    <2>2. \/ y \in Succ(x) /\ x \in Pred(y)
          \/ y \in LoopHeaders /\ x \in Inside(y) /\ y \in Doms(x)
      BY <1>0, <2>1, EdgesBothWays
    <2>3. CASE y \in Succ(x) /\ x \in Pred(y)
      <3>1. CASE x \in W
        <4>1. PICK f \in ForwardFlow : f[1] = x /\ f[2] = y
          <5>1. <<x, y>> \in ForwardFlow
            BY <2>1, <2>3 DEF ForwardFlow
          <5> QED
            BY <5>1
        <4>2. y # 0
          BY <2>1, NoDominatorIsNone
        <4> QED
          BY <1>4, <2>1, <3>1, <4>1, <4>2 DEF Follows
      <3>2. CASE d \notin Doms(x)
        <4>1. d \notin Doms(y)
          <5>1. CASE y = entry_block
            BY <1>0, <2>1, <5>1, DomsOfEntry
          <5>2. CASE y # entry_block
            BY <1>0, <2>1, <2>3, <3>2, <5>2, DomsOfOther
          <5> QED
            BY <5>1, <5>2
        <4> QED
          BY <2>1, <4>1
      <3> QED
        BY <2>1, <3>1, <3>2
    <2>4. CASE y \in LoopHeaders /\ x \in Inside(y) /\ y \in Doms(x)
      <3>1. CASE d \in Doms(y) /\ x \in W
        BY <1>5, <2>1, <2>4, <3>1
      <3>2. CASE d \notin Doms(y)
        BY <2>1, <3>2
      <3>3. CASE d \in Doms(y) /\ d \notin Doms(x)
        <4>1. Doms(y) \subseteq Doms(x)
          BY <1>0, <2>1, <2>4, DomsNest
        <4> QED
          BY <3>3, <4>1
      <3> QED
        BY <2>1, <3>1, <3>2, <3>3
    <2> QED
      BY <2>2, <2>3, <2>4
  <1>7. Reaches(AllEdges, {m}, d) \subseteq Q
    <2>1. {m} \ {d} \subseteq Q /\ {m} \in SUBSET Resolved
      BY <1>2, <1>4
    <2> HIDE DEF Q
    <2> QED
      BY <1>0, <1>6, <2>1, ReachesWithin
  <1> QED
    BY <1>2, <1>3, <1>7

\* What the analysis has found of variables that continue blocks use.
PotentialsFound ==
  \A v \in DOMAIN potential_loop_variables :
    v \in DOMAIN dominator /\ potential_loop_variables[v] \in FuncBlocks /\ IsContinue(potential_loop_variables[v])

LoopVariablesFound ==
  \A h \in Block : \A v \in loop_variables[h] :
    /\ v \in DOMAIN potential_loop_variables /\ h = continue_block_to_loop_header[potential_loop_variables[v]]
    /\ BecomesLoopVariable(v, h, StraightTo(h, dominator[v]))

LEMMA LoopVariablesLocal ==
  ASSUME Analyzed, LoopsStructured, LoopsFound, VariablesFound, PotentialsFound, LoopVariablesFound,
         NEW h \in Block, NEW v \in loop_variables[h]
  PROVE  LoopVariableIsLocal(v, h)
  <1>0. WalkedWhole /\ Resolved \subseteq Block
    BY NoDominatorIsNone DEF Analyzed
  <1> SUFFICES ASSUME Accesses(v) # {} PROVE LoopVariableIsLocal(v, h)
    BY DEF LoopVariableIsLocal
  <1>1. PICK c : /\ c = potential_loop_variables[v] /\ c \in FuncBlocks /\ IsContinue(c)
                 /\ h = continue_block_to_loop_header[c] /\ v \in DOMAIN dominator
                 /\ BecomesLoopVariable(v, h, StraightTo(h, dominator[v]))
    BY DEF PotentialsFound, LoopVariablesFound
  <1>2. v \in Range(Func.local_variables)
    BY <1>1 DEF VariablesFound
  <1>3. PICK d : d = dominator[v] /\ d \in Resolved /\ \A b \in Accesses(v) : d \in Doms(b)
    BY <1>2, UsedIsDeclared
  <1>4. OnLine(h, d)
    <2>1. StraightTo(h, d) # {}
      BY <1>1, <1>3 DEF BecomesLoopVariable
    <2> QED
      BY <1>3, <2>1, LineDominates
  <1>5. h \in LoopHeaders
    <2>1. c \in DOMAIN continue_block_to_loop_header
      BY <1>1 DEF LoopsStructured
    <2>2. h \in Resolved
      BY <1>4 DEF OnLine
    <2> QED
      BY <1>1, <2>1, <2>2 DEF LoopsStructured, Reachable, Resolved
  <1>6. PICK m : m = blocks[h].merge_block
    OBVIOUS
  <1>7. Reaches(ForwardFlow, {m}, 0) \cap accessed_variables_to_block(v) = {}
    <2> DEFINE edges == {e \in Block \X Block : e[2] \in Range(EdgesOf(succeeding_edges, e[1]))}
    <2>1. edges = ForwardFlow
      <3>1. ASSUME NEW e \in edges PROVE e \in ForwardFlow
        <4>1. PICK x, y \in Block : e = <<x, y>> /\ y \in Range(EdgesOf(succeeding_edges, x))
          OBVIOUS
        <4>2. x \in Resolved
          <5>1. x \in DOMAIN succeeding_edges
            BY <4>1 DEF EdgesOf, Range
          <5> QED
            BY <5>1 DEF Analyzed, SuccessorsResolved
        <4>3. y \in Succ(x) /\ y \in Resolved
          BY <1>0, <4>1, <4>2 DEF Succ, WalkedWhole, EdgesForward
        <4> QED
          BY <4>1, <4>2, <4>3 DEF ForwardFlow
      <3>2. ForwardFlow \subseteq edges
        BY <1>0 DEF ForwardFlow, Succ
      <3> QED
        BY <3>1, <3>2
    <2>2. Reaches(edges, {m}, 0) \cap accessed_variables_to_block(v) = {}
      BY <1>1, <1>6 DEF BecomesLoopVariable
    <2> QED
      BY <2>1, <2>2
  <1>8. Reaches(AllEdges, {m}, d) \subseteq Reaches(ForwardFlow, {m}, 0) \cup {t \in Resolved : d \notin Doms(t)}
    BY <1>3, <1>4, <1>5, <1>6, ThroughTheLine
  <1>9. Accesses(v) \cap Reaches(AllEdges, {m}, d) = {}
    <2>1. Accesses(v) \subseteq accessed_variables_to_block(v)
      BY DEF Accesses
    <2> QED
      BY <1>3, <1>7, <1>8, <2>1
  <1> QED
    BY <1>3, <1>6, <1>9 DEF LoopVariableIsLocal

LEMMA AllScopesSound ==
  ASSUME Analyzed, LoopsStructured, PreservedFound, LoopsFound, VariablesFound, PotentialsFound, LoopVariablesFound
  PROVE  ScopesSound
  <1>1. DeclaredAboveUses
    BY DeclaredAboveAll
  <1>2. ParametersPreserved
    BY PreservesParameters
  <1>3. ASSUME NEW v \in Range(Func.local_variables), Accesses(v) # {}
        PROVE  ~IsContinue(dominator[v]) /\ (~locals[v].phi_variable => ValueSurvives(v))
    BY <1>3, UsedIsDeclared, ValuesSurvive
  <1>4. \A h \in Block : \A v \in loop_variables[h] : LoopVariableIsLocal(v, h)
    BY LoopVariablesLocal
  <1> QED
    BY <1>1, <1>2, <1>3, <1>4 DEF ScopesSound

-------------------------------------------------------------------------------
(* From the module to the declarations *)

LEMMA SameTold ==
  ASSUME EdgesTold, UNCHANGED <<visit_order, succeeding_edges>>, UNCHANGED ir
  PROVE  EdgesTold'
  <1>1. blocks' = blocks /\ \A b : Branched(b)' = Branched(b)
    BY SameBlocks
  <1>2. Resolved' = Resolved /\ \A b : Succ(b)' = Succ(b) /\ EdgesOf(succeeding_edges, b)' = EdgesOf(succeeding_edges, b)
    BY DEF Resolved, Succ, EdgesOf
  <1>3. \A b : LoopMergeOf(b)' = LoopMergeOf(b) /\ Targets(b)' = Targets(b)
    BY <1>1 DEF LoopMergeOf, Targets
  <1> QED
    BY <1>1, <1>2, <1>3 DEF EdgesTold

LEMMA ResolveTold ==
  ASSUME BlocksGiven, WalkedSoFar, EdgesTold, Resolve
  PROVE  EdgesTold'
  <1>1. PICK p : p = ToVisit
    OBVIOUS
  <1>2. /\ p \in visited_branches /\ p \in DOMAIN blocks
        /\ p \notin Resolved => p \in Unresolved /\ Branched(p) \subseteq visited_branches
    BY <1>1, ResolveReady
  <1>3. Visits /\ Numbered /\ EdgesForward /\ SuccessorsResolved /\ UNCHANGED ir
    BY DEF WalkedSoFar, Resolve, ir
  <1>4. CASE p \in Resolved
    <2>1. UNCHANGED <<visit_order, succeeding_edges>>
      BY <1>1, <1>4 DEF Resolve, Resolved
    <2> QED
      BY <1>3, <2>1, SameTold
  <1>5. CASE p \notin Resolved
    <2>1. PICK E : E = Edges(p)
      OBVIOUS
    <2>2. /\ E \in Seq(Resolved) /\ Range(E) \subseteq Branched(p)
          /\ (Range(LoopMergeOf(p)) \cup Range(Targets(p))) \cap Resolved \subseteq Range(E)
      BY <1>2, <1>3, <1>5, <2>1, EdgesRange
    <2>3. /\ post_order' = Append(post_order, p) /\ visit_order' = Extended(visit_order, p, Len(post_order) + 1)
          /\ succeeding_edges' = IF E = << >> THEN succeeding_edges ELSE Extended(succeeding_edges, p, E)
      BY <1>1, <1>5, <2>1 DEF Resolve, Resolved
    <2>4. /\ Numbered' /\ Resolved' = Resolved \cup {p}
          /\ \A b \in Resolved : visit_order'[b] = visit_order[b] /\ visit_order[b] < visit_order'[p]
      BY <1>3, <1>5, <2>3, ResolvesNumbered
    <2>5. PICK R, vo : R = Resolved /\ vo = visit_order /\ p \notin R
      BY <1>5
    <2>6. \A b \in R : EdgesOf(succeeding_edges', b) = EdgesOf(succeeding_edges, b)
      BY <2>3, <2>5 DEF EdgesOf, Extended
    <2>7. EdgesOf(succeeding_edges', p) = E
      BY <1>3, <2>3, <2>5 DEF EdgesOf, Extended, SuccessorsResolved
    <2>8. /\ blocks' = blocks
          /\ \A b : Branched(b)' = Branched(b) /\ LoopMergeOf(b)' = LoopMergeOf(b) /\ Targets(b)' = Targets(b)
      <3>1. blocks' = blocks /\ \A b : Branched(b)' = Branched(b)
        BY <1>3, SameBlocks
      <3> QED
        BY <3>1 DEF LoopMergeOf, Targets
    <2>9. \A b \in R : /\ vo[b] \in Nat /\ visit_order'[b] = vo[b] /\ vo[b] < visit_order'[p]
      <3>1. visit_order' \in [Resolved' -> 1 .. Len(post_order')]
        BY <2>4 DEF Numbered
      <3>2. \A b \in R : visit_order'[b] \in 1 .. Len(post_order')
        BY <2>4, <2>5, <3>1
      <3> QED
        BY <2>4, <2>5, <3>2
    <2>10. visit_order'[p] \in Nat
      <3>1. visit_order' \in [Resolved' -> 1 .. Len(post_order')]
        BY <2>4 DEF Numbered
      <3>2. visit_order'[p] \in 1 .. Len(post_order')
        BY <2>4, <3>1
      <3> QED
        BY <3>2
    <2>11. ASSUME NEW b \in R
           PROVE  /\ EdgesOf(succeeding_edges', b) \in Seq(R \cup {p}) /\ Range(EdgesOf(succeeding_edges', b)) \subseteq Branched(b)
                  /\ \A t \in (Range(LoopMergeOf(b)) \cup Range(Targets(b))) \cap (R \cup {p}) :
                       visit_order'[t] < visit_order'[b] => t \in Range(EdgesOf(succeeding_edges', b))
      <3>1. PICK s : s = EdgesOf(succeeding_edges, b) /\ s = EdgesOf(succeeding_edges', b)
        BY <2>6
      <3>2. /\ s \in Seq(R) /\ Range(s) \subseteq Branched(b)
            /\ \A t \in (Range(LoopMergeOf(b)) \cup Range(Targets(b))) \cap R : vo[t] < vo[b] => t \in Range(s)
        BY <2>5, <3>1 DEF EdgesTold, Succ
      <3>3. s \in Seq(R \cup {p})
        BY <3>2
      <3>4. \A t \in (Range(LoopMergeOf(b)) \cup Range(Targets(b))) \cap (R \cup {p}) :
              visit_order'[t] < visit_order'[b] => t \in Range(s)
        <4> SUFFICES ASSUME NEW t \in R \cup {p}, t \in Range(LoopMergeOf(b)) \cup Range(Targets(b)),
                            visit_order'[t] < visit_order'[b]
                     PROVE  t \in Range(s)
          OBVIOUS
        <4>1. t # p
          BY <2>9, <2>10
        <4> QED
          BY <2>9, <3>2, <4>1
      <3> QED
        BY <3>1, <3>2, <3>3, <3>4
    <2>12. /\ EdgesOf(succeeding_edges', p) \in Seq(R \cup {p}) /\ Range(EdgesOf(succeeding_edges', p)) \subseteq Branched(p)
           /\ \A t \in (Range(LoopMergeOf(p)) \cup Range(Targets(p))) \cap (R \cup {p}) :
                visit_order'[t] < visit_order'[p] => t \in Range(EdgesOf(succeeding_edges', p))
      <3>1. E \in Seq(R \cup {p})
        BY <2>2, <2>5
      <3>2. ~(visit_order'[p] < visit_order'[p])
        BY <2>10
      <3> QED
        BY <2>2, <2>5, <2>7, <3>1, <3>2
    <2>13. Resolved' = R \cup {p}
      BY <2>4, <2>5
    <2>14. \A b : Succ(b)' = Range(EdgesOf(succeeding_edges', b)) /\ EdgesOf(succeeding_edges, b)' = EdgesOf(succeeding_edges', b)
      BY DEF Succ, EdgesOf
    <2>15. \A b \in R \cup {p} :
             /\ EdgesOf(succeeding_edges', b) \in Seq(R \cup {p}) /\ Range(EdgesOf(succeeding_edges', b)) \subseteq Branched(b)
             /\ \A t \in (Range(LoopMergeOf(b)) \cup Range(Targets(b))) \cap (R \cup {p}) :
                  visit_order'[t] < visit_order'[b] => t \in Range(EdgesOf(succeeding_edges', b))
      BY <2>11, <2>12
    <2> QED
      BY <2>8, <2>13, <2>14, <2>15 DEF EdgesTold
  <1> QED
    BY <1>4, <1>5

LEMMA SameAnalysis ==
  ASSUME Analyzed, UNCHANGED <<ir, cfg>>
  PROVE  Analyzed'
  <1>1. UNCHANGED <<visit_order, post_order, preceding_edges, succeeding_edges, immediate_dominators>> /\ UNCHANGED ir
    BY DEF cfg
  <1>2. BlocksGiven' /\ WalkedWhole' /\ EdgesTold' /\ SuccessorsResolved'
    BY <1>1, SameBlocks, SameWhole, SameTold, SameEdges DEF Analyzed
  <1>3. Dominators' = Dominators
    BY <1>1, SameDominators
  <1> QED
    BY <1>1, <1>2, <1>3 DEF Analyzed

\* What is found in one step is so in the next.
LEMMA SameAccesses ==
  ASSUME UNCHANGED <<ir, cfg>>
  PROVE  /\ FuncBlocks' = FuncBlocks /\ Func' = Func /\ blocks' = blocks
         /\ continue_block_to_loop_header' = continue_block_to_loop_header
         /\ \A b : IsContinue(b)' = IsContinue(b)
         /\ \A v : accessed_variables_to_block(v)' = accessed_variables_to_block(v)
         /\ \A v : MustPreserve(v)' = MustPreserve(v)
  <1>1. /\ FuncBlocks' = FuncBlocks /\ Func' = Func /\ blocks' = blocks
        /\ continue_block_to_loop_header' = continue_block_to_loop_header
        /\ \A b : IsContinue(b)' = IsContinue(b)
    BY DEF ir, FuncBlocks, Func, IsContinue
  <1>2. \A v, b : OpsOn(b, v)' = OpsOn(b, v)
    BY <1>1 DEF OpsOn
  <1>3. \A v : PhiEdges(v)' = PhiEdges(v)
    BY <1>1 DEF PhiEdges, Targets
  <1>4. \A v : accessed_variables_to_block(v)' = accessed_variables_to_block(v)
    BY <1>1, <1>2, <1>3 DEF accessed_variables_to_block
  <1>5. \A v : MustPreserve(v)' = MustPreserve(v)
    BY DEF ir, cfg, MustPreserve, ExistsUnaccessedPathToReturn, complete_write_variables_to_block, OpsOn,
       FuncBlocks, Func, Reaches, EdgesOf, entry_block
  <1> QED
    BY <1>1, <1>4, <1>5

LEMMA SameLoops ==
  ASSUME UNCHANGED <<ir, cfg>>
  PROVE  \A b : LoopDominator(b)' = LoopDominator(b)
  BY DEF ir, cfg, LoopDominator, FindLoopDominator, EdgesOf, Distinct, AddUnique, IsMergeOf

LEMMA SameDeclarations ==
  ASSUME UNCHANGED <<ir, cfg, loop_dominator>>
  PROVE  \A v : PreservedAcrossIterations(v, Lifted(v))' = PreservedAcrossIterations(v, Lifted(v))
  <1>1. \A v, b : PreservedAcrossIterations(v, b)' = PreservedAcrossIterations(v, b)
    BY DEF ir, cfg, PreservedAcrossIterations, OpsOn, MayReadUndefinedVariableInBlock, FirstOp,
       FindCommonDominator, CommonDominator, OutermostLoop
  <1>2. \A b : LiftContinueBlockDominator(b)' = LiftContinueBlockDominator(b)
    BY DEF ir, cfg, LiftContinueBlockDominator, Targets, entry_block, Func
  <1>3. \A set : DominatorOf(set)' = DominatorOf(set)
    BY DEF cfg, DominatorOf, ImmediateDominator, Distinct, AddUnique, Dominating, CommonDominator
  <1>4. \A v : WithHeaders(accessed_variables_to_block(v))' = WithHeaders(accessed_variables_to_block(v))
    BY SameAccesses DEF ir, WithHeaders, IsContinue
  <1> TAKE v
  <1>5. PICK set : set = WithHeaders(accessed_variables_to_block(v)) /\ set = WithHeaders(accessed_variables_to_block(v))'
    BY <1>4
  <1>6. PICK d : d = DominatorOf(set) /\ d = DominatorOf(set)'
    BY <1>3
  <1>7. PICK l : l = LiftContinueBlockDominator(d) /\ l = LiftContinueBlockDominator(d)'
    BY <1>2
  <1>8. Lifted(v) = l
    BY <1>5, <1>6, <1>7 DEF Lifted
  <1>9. Lifted(v)' = l
    BY <1>5, <1>6, <1>7 DEF Lifted
  <1> QED
    BY <1>1, <1>8, <1>9

LEMMA SameLines ==
  ASSUME UNCHANGED <<ir, cfg>>
  PROVE  \A v, h, b : BecomesLoopVariable(v, h, StraightTo(h, b))' = BecomesLoopVariable(v, h, StraightTo(h, b))
  BY DEF ir, cfg, BecomesLoopVariable, StraightTo, Reaches, EdgesOf,
     accessed_variables_to_block, OpsOn, PhiEdges, Targets, FuncBlocks, Func


\* A function is read and walked through, and its variables are given their places.
ScopeSpec ==
  ParserInit /\ CfgInit /\ ScopeInit /\
    [][\/ Parse /\ UNCHANGED <<cfg, scope>>
       \/ BuildCfg /\ UNCHANGED scope
       \/ AnalyzeVariableScope]_<<parser, cfg, scope>>

LoopsGiven == loop_dominator = [b \in Block |-> IF b \in FuncBlocks THEN LoopDominator(b) ELSE 0]

\* What holds when the analysis has come to a phase stays so in those that follow.
AnalysisSound ==
  /\ phase \in {"walked", "preserved", "loops", "variables", "scoped"} => Analyzed
  /\ phase \in {"preserved", "loops", "variables", "scoped"} => PreservedFound
  /\ phase \in {"loops", "variables", "scoped"} => LoopsGiven
  /\ phase \in {"variables", "scoped"} => VariablesFound /\ PotentialsFound
  /\ phase = "scoped" => LoopVariablesFound

ScopeSound == WalkSound /\ (phase = "walk" => EdgesTold) /\ AnalysisSound

LEMMA KeepsPreserved ==
  ASSUME PreservedFound, UNCHANGED <<ir, cfg, preserved>>
  PROVE  PreservedFound'
  BY SameAccesses DEF PreservedFound

LEMMA KeepsLoops ==
  ASSUME LoopsGiven, UNCHANGED <<ir, cfg, loop_dominator>>
  PROVE  LoopsGiven'
  BY SameAccesses, SameLoops DEF LoopsGiven

LEMMA KeepsVariables ==
  ASSUME VariablesFound, UNCHANGED <<ir, cfg, loop_dominator, dominator>>
  PROVE  VariablesFound'
  BY SameAccesses, SameDeclarations DEF VariablesFound

LEMMA KeepsPotentials ==
  ASSUME PotentialsFound, UNCHANGED <<ir, cfg, dominator, potential_loop_variables>>
  PROVE  PotentialsFound'
  BY SameAccesses DEF PotentialsFound

LEMMA KeepsLoopVariables ==
  ASSUME LoopVariablesFound, UNCHANGED <<ir, cfg, dominator, potential_loop_variables, loop_variables>>
  PROVE  LoopVariablesFound'
  BY SameAccesses, SameLines DEF LoopVariablesFound

\* The steps of the analysis.
LEMMA PreservationFound ==
  ASSUME AnalyzeParameterPreservation
  PROVE  PreservedFound'
  BY SameAccesses DEF AnalyzeParameterPreservation, ir, PreservedFound

LEMMA LoopsAreGiven ==
  ASSUME FindLoopDominators
  PROVE  LoopsGiven'
  BY SameAccesses, SameLoops DEF FindLoopDominators, ir, LoopsGiven

LEMMA VariablesAreFound ==
  ASSUME AnalyzeVariables
  PROVE  VariablesFound' /\ PotentialsFound'
  <1> DEFINE used == {v \in Range(Func.local_variables) : accessed_variables_to_block(v) # {}}
             candidates == {w \in used : Lifted(w) # 0 /\ ContinueCandidate(w, Lifted(w)) # {}}
  <1>1. /\ dominator' = [v \in used |-> PreservedAcrossIterations(v, Lifted(v))]
        /\ potential_loop_variables' = [v \in candidates |-> CHOOSE b \in ContinueCandidate(v, Lifted(v)) : TRUE]
        /\ UNCHANGED <<ir, cfg, loop_dominator>>
    BY DEF AnalyzeVariables
  <1>2. used = {v \in Range(Func.local_variables)' : accessed_variables_to_block(v)' # {}}
    BY <1>1, SameAccesses
  <1>3. VariablesFound'
    BY <1>1, <1>2, SameDeclarations DEF VariablesFound
  <1>4. ASSUME NEW v \in candidates PROVE potential_loop_variables'[v] \in FuncBlocks /\ IsContinue(potential_loop_variables'[v])
    <2>1. PICK set : set = ContinueCandidate(v, Lifted(v)) /\ set # {}
      BY <1>4
    <2>2. PICK b \in set : b = CHOOSE c \in set : TRUE
      BY <2>1
    <2>3. potential_loop_variables'[v] = b
      BY <1>1, <1>4, <2>1, <2>2
    <2>4. b \in accessed_variables_to_block(v) /\ IsContinue(b)
      BY <2>1, <2>2 DEF ContinueCandidate
    <2>5. b \in FuncBlocks
      BY <2>4 DEF accessed_variables_to_block
    <2> QED
      BY <2>3, <2>4, <2>5
  <1>5. DOMAIN potential_loop_variables' = candidates /\ DOMAIN dominator' = used /\ candidates \subseteq used
    BY <1>1
  <1>6. FuncBlocks' = FuncBlocks /\ \A b : IsContinue(b)' = IsContinue(b)
    BY <1>1, SameAccesses
  <1> HIDE DEF candidates, used
  <1>7. \A v \in candidates : /\ v \in DOMAIN dominator' /\ potential_loop_variables'[v] \in FuncBlocks
                              /\ IsContinue(potential_loop_variables'[v])
    BY <1>4, <1>5
  <1>8. \A v \in DOMAIN potential_loop_variables' :
          /\ v \in DOMAIN dominator' /\ potential_loop_variables'[v] \in FuncBlocks'
          /\ IsContinue(potential_loop_variables[v])'
    BY <1>5, <1>6, <1>7 DEF IsContinue, ir
  <1> QED
    BY <1>3, <1>8 DEF PotentialsFound

LEMMA LoopVariablesAreFound ==
  ASSUME FindLoopVariables
  PROVE  LoopVariablesFound'
  <1> DEFINE header(v) == continue_block_to_loop_header[potential_loop_variables[v]]
             found == {v \in DOMAIN potential_loop_variables :
                         BecomesLoopVariable(v, header(v), StraightTo(header(v), dominator[v]))}
  <1>1. /\ loop_variables' = [b \in Block |-> {v \in found : header(v) = b}]
        /\ UNCHANGED <<ir, cfg, dominator, potential_loop_variables>>
    BY DEF FindLoopVariables
  <1>2. ASSUME NEW h \in Block, NEW v \in loop_variables'[h]
        PROVE  /\ v \in DOMAIN potential_loop_variables /\ h = continue_block_to_loop_header[potential_loop_variables[v]]
               /\ BecomesLoopVariable(v, h, StraightTo(h, dominator[v]))
    BY <1>1, <1>2
  <1>3. LoopVariablesFound' <=>
          \A h \in Block : \A v \in loop_variables'[h] :
             /\ v \in DOMAIN potential_loop_variables /\ h = continue_block_to_loop_header[potential_loop_variables[v]]
             /\ BecomesLoopVariable(v, h, StraightTo(h, dominator[v]))
    BY <1>1, SameLines DEF LoopVariablesFound, ir
  <1> QED
    BY <1>2, <1>3


Analyzing == {"walked", "preserved", "loops", "variables", "scoped"}

LEMMA ScopeSoundSame ==
  ASSUME ScopeSound, UNCHANGED <<parser, cfg, scope>>
  PROVE  ScopeSound'
  <1>1. UNCHANGED <<ir, cfg>> /\ phase' = phase
    BY DEF parser
  <1>2. UNCHANGED <<preserved, loop_dominator, dominator, potential_loop_variables, loop_variables>>
    BY DEF scope
  <1>3. WalkSound'
    BY WalkSoundNext DEF ScopeSound
  <1>4. phase' = "walk" => EdgesTold'
    <2>1. UNCHANGED <<visit_order, succeeding_edges>>
      BY <1>1 DEF cfg
    <2> QED
      BY <1>1, <2>1, SameTold DEF ScopeSound
  <1>5. AnalysisSound'
    <2>1. phase' \in Analyzing => Analyzed'
      BY <1>1, SameAnalysis DEF ScopeSound, AnalysisSound, Analyzing
    <2>2. phase' \in {"preserved", "loops", "variables", "scoped"} => PreservedFound'
      BY <1>1, <1>2, KeepsPreserved DEF ScopeSound, AnalysisSound
    <2>3. phase' \in {"loops", "variables", "scoped"} => LoopsGiven'
      BY <1>1, <1>2, KeepsLoops DEF ScopeSound, AnalysisSound
    <2>4. phase' \in {"variables", "scoped"} => VariablesFound' /\ PotentialsFound'
      BY <1>1, <1>2, KeepsVariables, KeepsPotentials DEF ScopeSound, AnalysisSound
    <2>5. phase' = "scoped" => LoopVariablesFound'
      BY <1>1, <1>2, KeepsLoopVariables DEF ScopeSound, AnalysisSound
    <2> QED
      BY <2>1, <2>2, <2>3, <2>4, <2>5 DEF AnalysisSound, Analyzing
  <1> QED
    BY <1>3, <1>4, <1>5 DEF ScopeSound

LEMMA ParseScopeSound ==
  ASSUME ScopeSound, Parse /\ UNCHANGED <<cfg, scope>>
  PROVE  ScopeSound'
  <1>1. WalkSound'
    BY WalkSoundNext DEF ScopeSound
  <1>2. phase = "parse"
    BY DEF Parse, ParseThrows, ParseIgnored, ParseEntryPoint, ParseFunction, ParseFunctionParameter,
       ParseFunctionEnd, ParseVariable, ParseLabel, ParsePhi, ParseOp, ParseSelectionMerge, ParseLoopMerge,
       ParsePlainTerminator, ParseBranch, ParseBranchConditional, ParseBogusSelection, ParseBogusBranch,
       ParseSwitch, ParseEnd, Bogus, Parses, Parsing
  <1>3. phase' \in {"parse", "parsed", "failed"}
    <2>1. Closed'
      BY <1>2, NextClosed DEF ScopeSound, WalkSound
    <2> QED
      BY <2>1 DEF Closed, PhaseTold
  <1> QED
    BY <1>1, <1>3 DEF ScopeSound, AnalysisSound

LEMMA BuildScopeSound ==
  ASSUME ScopeSound, BuildCfg, UNCHANGED scope
  PROVE  ScopeSound'
  <1>1. WalkSound'
    BY WalkSoundNext DEF ScopeSound
  <1>2. CASE StartCfg
    <2>1. phase = "parsed" /\ phase' \in {"walk", "failed"} /\ UNCHANGED visit_order
      BY <1>2 DEF StartCfg
    <2>2. Resolved' = {}
      BY <2>1 DEF ScopeSound, WalkSound, CfgInit, Resolved
    <2>3. EdgesTold'
      BY <2>2 DEF EdgesTold
    <2> QED
      BY <1>1, <2>1, <2>3 DEF ScopeSound, AnalysisSound
  <1>3. CASE VisitBranches
    <2>1. phase = "walk" /\ phase' = "walk" /\ UNCHANGED ir /\ UNCHANGED <<visit_order, succeeding_edges>>
      BY <1>3 DEF VisitBranches, Walking, ir
    <2>2. EdgesTold'
      BY <2>1, SameTold DEF ScopeSound
    <2> QED
      BY <1>1, <2>1, <2>2 DEF ScopeSound, AnalysisSound
  <1>4. CASE Resolve
    <2>1. phase = "walk" /\ phase' = "walk"
      BY <1>4 DEF Resolve, Walking
    <2>2. EdgesTold'
      BY <1>4, <2>1, ResolveTold DEF ScopeSound, WalkSound
    <2> QED
      BY <1>1, <2>1, <2>2 DEF ScopeSound, AnalysisSound
  <1>5. CASE VisitThrows
    <2>1. phase' = "failed"
      BY <1>5 DEF VisitThrows
    <2> QED
      BY <1>1, <2>1 DEF ScopeSound, AnalysisSound
  <1>6. CASE BuildImmediateDominators
    <2>1. /\ phase = "walk" /\ phase' = "walked" /\ UNCHANGED ir
          /\ UNCHANGED <<visit_order, post_order, preceding_edges, succeeding_edges>>
      BY <1>6 DEF BuildImmediateDominators, ir
    <2>2. BlocksGiven' /\ EdgesTold' /\ SuccessorsResolved'
      BY <2>1, SameBlocks, SameTold, SameEdges DEF ScopeSound, WalkSound, WalkedSoFar
    <2>3. WalkedWhole' /\ immediate_dominators' = Dominators'
      BY <1>1, <2>1 DEF WalkSound
    <2> QED
      BY <1>1, <2>1, <2>2, <2>3 DEF ScopeSound, AnalysisSound, Analyzed
  <1> QED
    BY <1>2, <1>3, <1>4, <1>5, <1>6 DEF BuildCfg

LEMMA AnalyzeScopeSound ==
  ASSUME ScopeSound, AnalyzeVariableScope
  PROVE  ScopeSound'
  <1>1. UNCHANGED <<ir, cfg>> /\ phase \in Analyzing /\ phase' \in Analyzing \ {"walked"}
    BY DEF AnalyzeVariableScope, AnalyzeParameterPreservation, FindLoopDominators, AnalyzeVariables,
       FindLoopVariables, Analyzing
  <1>2. Analyzed'
    BY <1>1, SameAnalysis DEF ScopeSound, AnalysisSound, Analyzing
  <1>3. WalkSound' /\ phase' # "walk"
    BY <1>1 DEF WalkSound, Analyzing
  <1>4. CASE AnalyzeParameterPreservation
    <2>1. phase' = "preserved"
      BY <1>4 DEF AnalyzeParameterPreservation
    <2> QED
      BY <1>2, <1>3, <1>4, <2>1, PreservationFound DEF ScopeSound, AnalysisSound
  <1>5. CASE FindLoopDominators
    <2>1. phase = "preserved" /\ phase' = "loops" /\ UNCHANGED preserved
      BY <1>5 DEF FindLoopDominators
    <2>2. PreservedFound'
      BY <1>1, <2>1, KeepsPreserved DEF ScopeSound, AnalysisSound
    <2> QED
      BY <1>2, <1>3, <1>5, <2>1, <2>2, LoopsAreGiven DEF ScopeSound, AnalysisSound
  <1>6. CASE AnalyzeVariables
    <2>1. phase = "loops" /\ phase' = "variables" /\ UNCHANGED <<preserved, loop_dominator>>
      BY <1>6 DEF AnalyzeVariables
    <2>2. PreservedFound' /\ LoopsGiven'
      BY <1>1, <2>1, KeepsPreserved, KeepsLoops DEF ScopeSound, AnalysisSound
    <2> QED
      BY <1>2, <1>3, <1>6, <2>1, <2>2, VariablesAreFound DEF ScopeSound, AnalysisSound
  <1>7. CASE FindLoopVariables
    <2>1. /\ phase = "variables" /\ phase' = "scoped"
          /\ UNCHANGED <<preserved, loop_dominator, dominator, potential_loop_variables>>
      BY <1>7 DEF FindLoopVariables
    <2>2. PreservedFound' /\ LoopsGiven' /\ VariablesFound' /\ PotentialsFound'
      BY <1>1, <2>1, KeepsPreserved, KeepsLoops, KeepsVariables, KeepsPotentials DEF ScopeSound, AnalysisSound
    <2> QED
      BY <1>2, <1>3, <1>7, <2>1, <2>2, LoopVariablesAreFound DEF ScopeSound, AnalysisSound
  <1> QED
    BY <1>4, <1>5, <1>6, <1>7 DEF AnalyzeVariableScope

LEMMA SoundScopes ==
  ASSUME ScopeSound, LoopsStructured
  PROVE  ScopesSound
  <1>1. CASE phase = "scoped"
    <2>1. /\ Analyzed /\ PreservedFound /\ LoopsGiven /\ VariablesFound /\ PotentialsFound /\ LoopVariablesFound
      BY <1>1 DEF ScopeSound, AnalysisSound
    <2>2. LoopsFound
      <3>1. Resolved \subseteq Block
        BY <2>1, NoDominatorIsNone
      <3>2. Resolved \subseteq FuncBlocks
        BY DEF LoopsStructured, Reachable, Resolved
      <3> QED
        BY <2>1, <3>1, <3>2 DEF LoopsGiven, LoopsFound
    <2> QED
      BY <2>1, <2>2, AllScopesSound
  <1>2. CASE phase # "scoped"
    BY <1>2 DEF ScopesSound, Scoped
  <1> QED
    BY <1>1, <1>2

\* Whatever the module that is read, if its flow of control follows SPIR-V's rules:
\* when the analysis is over, every variable is declared above all of its uses and in
\* no continue block, no jump brings control from a write over the declaration to a
\* read, variables of for loops are not used with their values after the loop, and
\* parameters that may come back unwritten are preserved.
THEOREM ScopesAreSound == ScopeSpec => [](LoopsStructured => ScopesSound)
  <1>1. ParserInit /\ CfgInit /\ ScopeInit => ScopeSound
    <2>1. ParserInit /\ CfgInit => WalkSound
      BY InitClosed, InitMade DEF WalkSound, ParserInit
    <2>2. ParserInit => phase = "parse"
      BY DEF ParserInit
    <2> QED
      BY <2>1, <2>2 DEF ScopeSound, AnalysisSound
  <1>2. ScopeSound /\ [\/ Parse /\ UNCHANGED <<cfg, scope>>
                       \/ BuildCfg /\ UNCHANGED scope
                       \/ AnalyzeVariableScope]_<<parser, cfg, scope>> => ScopeSound'
    BY ScopeSoundSame, ParseScopeSound, BuildScopeSound, AnalyzeScopeSound
  <1>3. ScopeSound => (LoopsStructured => ScopesSound)
    BY SoundScopes
  <1> QED
    BY <1>1, <1>2, <1>3, PTL DEF ScopeSpec
===============================================================================
