-------------------------- MODULE SplitGroupProofs --------------------------
(***************************************************************************)
(* Proofs about SPLIT mode's grouping for every set of databases and      *)
(* tables and every bound: the grouper's state keeps its type, and the    *)
(* groups are the maximal runs of spec.md 4.8.                            *)
(*                                                                         *)
(* SplitIsMaximalRuns is not inductive by itself: the statement appended  *)
(* next gets position fed + 1, which must come after every recorded one.  *)
(* SplitInv adds that every recorded position is at most fed, and that     *)
(* group numbers never decrease along the batch (so a statement recorded  *)
(* in the last group is followed only by statements of that group).       *)
(***************************************************************************)
EXTENDS SplitGroup, SequenceTheorems, TLAPS

PosBound == \A i \in 1..Len(placed) : placed[i].pos <= fed

GMono == \A i, j \in 1..Len(placed) : i <= j => placed[i].g <= placed[j].g

SplitInv == TypeOK /\ SplitIsMaximalRuns /\ PosBound /\ GMono

(* The conjuncts of SplitIsMaximalRuns, one name each. *)
InGroup ==
  \A i \in 1..Len(placed) :
    /\ placed[i].g \in 1..Len(nodes)
    /\ placed[i].idx \in 1..Len(nodes[placed[i].g].stmts)
    /\ nodes[placed[i].g].stmts[placed[i].idx] = placed[i].pos
    /\ nodes[placed[i].g].key = placed[i].key
    /\ (i = Len(placed) \/ placed[i+1].g # placed[i].g)
         => placed[i].idx = Len(nodes[placed[i].g].stmts)
FirstPlaced == Len(placed) > 0 => placed[1].g = 1 /\ placed[1].idx = 1
Consecutive ==
  \A i \in 2..Len(placed) :
    /\ placed[i-1].pos < placed[i].pos
    /\ \/ placed[i].g = placed[i-1].g /\ placed[i].idx = placed[i-1].idx + 1
       \/ placed[i].g = placed[i-1].g + 1 /\ placed[i].idx = 1
GroupCount == Len(nodes) = IF placed = << >> THEN 0 ELSE placed[Len(placed)].g
FlagsMatch ==
  \A g \in 1..Len(nodes) :
    nodes[g].flag = 1 <=>
      \E i \in 1..Len(placed) :
        placed[i].g = g /\ placed[i].cmd \in {"alter", "drop"}
NeighboursDiffer == \A g \in 1..Len(nodes) - 1 : nodes[g].key # nodes[g+1].key

LEMMA RunsParts ==
  /\ SplitIsMaximalRuns <=> InGroup /\ FirstPlaced /\ Consecutive /\ GroupCount
                            /\ FlagsMatch /\ NeighboursDiffer
  /\ SplitIsMaximalRuns' <=> InGroup' /\ FirstPlaced' /\ Consecutive'
                             /\ GroupCount' /\ FlagsMatch' /\ NeighboursDiffer'
BY DEF SplitIsMaximalRuns, InGroup, FirstPlaced, Consecutive, GroupCount,
       FlagsMatch, NeighboursDiffer


(* What the history records of one grouped statement. *)
PlacedRec == [pos : 1..MaxStmts, key : Keys,
              cmd : TableCmds \cup {"createdb", "select"}, g : Nat, idx : Nat]

-----------------------------------------------------------------------------
(***************************************************************************)
(* A statement whose key is the last group's joins that group: the group  *)
(* keeps its key, gets the statement's position appended and its ddlflag  *)
(* raised by an ALTER or DROP TABLE; the others are untouched.            *)
(***************************************************************************)
LEMMA MergeStep ==
  ASSUME TypeOK, SplitIsMaximalRuns, PosBound, GMono,
         NEW k, NEW c, NEW e \in PlacedRec, fed + 1 \in 1..MaxStmts,
         nodes # << >>, nodes[Len(nodes)].key = k,
         Len(nodes') = Len(nodes),
         \A g \in 1..Len(nodes) - 1 : nodes'[g] = nodes[g],
         nodes'[Len(nodes)].key = k,
         nodes'[Len(nodes)].stmts = Append(nodes[Len(nodes)].stmts, fed + 1),
         nodes'[Len(nodes)].flag =
           IF c \in {"alter", "drop"} THEN 1 ELSE nodes[Len(nodes)].flag,
         placed' = Append(placed, e),
         e.pos = fed + 1, e.key = k, e.cmd = c, e.g = Len(nodes),
         e.idx = Len(nodes[Len(nodes)].stmts) + 1,
         fed' = fed + 1
  PROVE  SplitIsMaximalRuns' /\ PosBound' /\ GMono'
<1> DEFINE L == Len(nodes)
           P == Len(placed)
           S == nodes[L].stmts
<1> USE SplitAssumption
<1>0. InGroup /\ FirstPlaced /\ Consecutive /\ GroupCount /\ FlagsMatch
      /\ NeighboursDiffer
  BY RunsParts
<1>1. /\ L \in Nat \ {0} /\ P \in Nat /\ fed \in Nat
      /\ nodes \in Seq(Groups) /\ placed \in Seq(PlacedRec)
      /\ nodes[L] \in Groups /\ S \in Seq(1..MaxStmts) /\ Len(S) \in Nat
  <2>1. nodes \in Seq(Groups) /\ placed \in Seq(PlacedRec) /\ fed \in Nat
    BY DEF TypeOK, PlacedRec
  <2>2. L \in Nat \ {0} /\ P \in Nat
    BY <2>1, EmptySeq, LenProperties
  <2>3. nodes[L] \in Groups
    BY <2>1, <2>2, ElementOfSeq
  <2>4. S \in Seq(1..MaxStmts)
    BY <2>3 DEF Groups
  <2>. QED
    BY <2>1, <2>2, <2>3, <2>4, LenProperties
<1>2. P \in Nat \ {0} /\ placed[P].g = L /\ placed[P].idx = Len(S)
  <2>1. placed # << >>
    BY <1>0, <1>1 DEF GroupCount
  <2>2. P \in Nat \ {0}
    BY <1>1, <2>1, EmptySeq
  <2>3. placed[P].g = L
    BY <1>0, <2>1 DEF GroupCount
  <2>. QED
    BY <1>0, <2>2, <2>3 DEF InGroup
<1>3. /\ Len(placed') = P + 1
      /\ \A i \in 1..P : placed'[i] = placed[i]
      /\ placed'[P + 1] = e
  BY <1>1, AppendProperties
<1>4. /\ Len(nodes'[L].stmts) = Len(S) + 1
      /\ \A m \in 1..Len(S) : nodes'[L].stmts[m] = S[m]
      /\ nodes'[L].stmts[Len(S) + 1] = fed + 1
  BY <1>1, AppendProperties
<1>5. \A i \in 1..P : placed[i].g \in 1..L
  BY <1>0 DEF InGroup
<1>6. InGroup'
  <2> SUFFICES ASSUME NEW i \in 1..P + 1
               PROVE  /\ placed'[i].g \in 1..Len(nodes')
                      /\ placed'[i].idx \in 1..Len(nodes'[placed'[i].g].stmts)
                      /\ nodes'[placed'[i].g].stmts[placed'[i].idx] = placed'[i].pos
                      /\ nodes'[placed'[i].g].key = placed'[i].key
                      /\ (i = Len(placed') \/ placed'[i+1].g # placed'[i].g)
                           => placed'[i].idx = Len(nodes'[placed'[i].g].stmts)
    BY <1>3 DEF InGroup
  <2>1. CASE i = P + 1
    <3>1. placed'[i] = e
      BY <1>3, <2>1
    <3>2. /\ e.g = L /\ L \in 1..Len(nodes') /\ i = Len(placed')
          /\ e.idx = Len(nodes'[L].stmts) /\ e.idx \in 1..Len(nodes'[L].stmts)
          /\ nodes'[L].stmts[e.idx] = e.pos /\ nodes'[L].key = e.key
      BY <1>1, <1>3, <1>4, <2>1
    <3>. QED
      BY <3>1, <3>2, Zenon
  <2>2. CASE i \in 1..P /\ placed[i].g # L
    <3>1. placed'[i] = placed[i] /\ placed[i].g \in 1..L - 1
      BY <1>1, <1>3, <1>5, <2>2
    <3>2. nodes'[placed[i].g] = nodes[placed[i].g]
      BY <3>1
    <3>3. i # P
      BY <1>2, <2>2
    <3>4. i + 1 \in 1..P /\ placed'[i+1] = placed[i+1]
      BY <1>1, <1>3, <2>2, <3>3
    <3>5. /\ placed[i].idx \in 1..Len(nodes[placed[i].g].stmts)
          /\ nodes[placed[i].g].stmts[placed[i].idx] = placed[i].pos
          /\ nodes[placed[i].g].key = placed[i].key
          /\ placed[i+1].g # placed[i].g
               => placed[i].idx = Len(nodes[placed[i].g].stmts)
      BY <1>0, <2>2 DEF InGroup
    <3>. QED
      BY <1>1, <1>3, <2>2, <3>1, <3>2, <3>4, <3>5
  <2>3. CASE i \in 1..P /\ placed[i].g = L
    <3>1. placed'[i] = placed[i]
      BY <1>3, <2>3
    <3>2. /\ placed[i].idx \in 1..Len(S)
          /\ S[placed[i].idx] = placed[i].pos
          /\ nodes[L].key = placed[i].key
      BY <1>0, <2>3 DEF InGroup
    <3>3. placed'[i+1].g = L
      <4>1. CASE i = P
        BY <1>3, <4>1
      <4>2. CASE i < P
        <5>1. i + 1 \in 2..P /\ placed'[i+1] = placed[i+1]
          BY <1>1, <1>3, <2>3, <4>2
        <5>2. placed[i+1].g <= placed[P].g
          <6>1. i + 1 \in 1..P /\ P \in 1..P /\ i + 1 <= P
            BY <1>2, <5>1
          <6>. QED
            BY <6>1 DEF GMono
        <5>3. placed[i+1].g = placed[i].g \/ placed[i+1].g = placed[i].g + 1
          <6>1. (i + 1) - 1 = i
            BY <1>1, <2>3
          <6>. QED
            BY <1>0, <5>1, <6>1 DEF Consecutive
        <5>4. placed[i+1].g \in Nat
          <6>1. placed[i+1] \in PlacedRec
            BY <1>1, <5>1, ElementOfSeq
          <6>. QED
            BY <6>1 DEF PlacedRec
        <5>. QED
          BY <1>1, <1>2, <2>3, <5>1, <5>2, <5>3, <5>4
      <4>. QED
        BY <2>3, <4>1, <4>2
    <3>4. Len(S) \in Nat /\ placed[i].idx \in 1..Len(S)
      BY <1>1, <3>2
    <3>. QED
      <4>1. placed'[i].g = L /\ placed'[i].idx \in 1..Len(S)
        BY <2>3, <3>1, <3>4
      <4>2. nodes'[L].stmts[placed'[i].idx] = placed'[i].pos
        BY <1>4, <3>1, <3>2, <4>1
      <4>3. placed'[i].idx # Len(nodes'[L].stmts)
        BY <1>4, <3>4, <4>1
      <4>4. i # Len(placed')
        BY <1>1, <1>3, <2>3
      <4>5. /\ L \in 1..Len(nodes')
            /\ placed'[i].idx \in 1..Len(nodes'[L].stmts)
            /\ nodes'[L].key = placed'[i].key
            /\ ~(i = Len(placed') \/ placed'[i+1].g # L)
        BY <1>1, <1>4, <3>1, <3>2, <3>3, <3>4, <4>1, <4>4
      <4>. QED
        BY <4>1, <4>2, <4>5, Zenon
  <2>4. i = P + 1 \/ (i \in 1..P /\ placed[i].g # L) \/ (i \in 1..P /\ placed[i].g = L)
    BY <1>2
  <2>. QED
    BY <2>1, <2>2, <2>3, <2>4, Zenon
<1>7. FirstPlaced' /\ GroupCount'
  <2>1. placed' # << >> /\ Len(placed') = P + 1 /\ placed'[P + 1].g = L
    <3>1. Len(placed') = P + 1 /\ placed'[P + 1] = e
      BY <1>3
    <3>2. placed' # << >>
      BY <1>1, <3>1, EmptySeq
    <3>3. e.g = L
      OBVIOUS
    <3>. QED
      BY <3>1, <3>2, <3>3
  <2>2. placed'[1] = placed[1]
    BY <1>2, <1>3
  <2>3. FirstPlaced'
    <3>1. placed[1].g = 1 /\ placed[1].idx = 1
      BY <1>0, <1>2 DEF FirstPlaced
    <3>. QED
      BY <2>2, <3>1 DEF FirstPlaced
  <2>4. GroupCount'
    <3>1. placed'[Len(placed')].g = L
      BY <2>1
    <3>2. Len(nodes') = L
      OBVIOUS
    <3>. QED
      BY <2>1, <3>1, <3>2, Zenon DEF GroupCount
  <2>. QED
    BY <2>3, <2>4
<1>8. Consecutive'
  <2> SUFFICES ASSUME NEW i \in 2..P + 1
               PROVE  /\ placed'[i-1].pos < placed'[i].pos
                      /\ \/ placed'[i].g = placed'[i-1].g
                            /\ placed'[i].idx = placed'[i-1].idx + 1
                         \/ placed'[i].g = placed'[i-1].g + 1 /\ placed'[i].idx = 1
    BY <1>3 DEF Consecutive
  <2>1. CASE i = P + 1
    <3>1. placed'[i-1] = placed[P] /\ placed'[i] = e
      BY <1>2, <1>3, <2>1
    <3>2. placed[P].pos <= fed
      BY <1>2 DEF PosBound
    <3>3. placed[P].pos \in Nat /\ placed[P].g \in Nat /\ placed[P].idx \in Nat
      <4>1. placed[P] \in PlacedRec
        BY <1>1, <1>2, ElementOfSeq
      <4>. QED
        BY <4>1 DEF PlacedRec
    <3>4. placed'[i-1].pos < placed'[i].pos
      BY <1>1, <3>1, <3>2, <3>3
    <3>5. placed'[i].g = placed'[i-1].g /\ placed'[i].idx = placed'[i-1].idx + 1
      BY <1>2, <3>1
    <3>. QED
      BY <3>4, <3>5
  <2>2. CASE i \in 2..P
    <3>1. placed'[i-1] = placed[i-1] /\ placed'[i] = placed[i]
      BY <1>3, <2>2
    <3>. QED
      BY <1>0, <2>2, <3>1 DEF Consecutive
  <2>. QED
    BY <1>1, <2>1, <2>2
<1>9. FlagsMatch'
  <2> SUFFICES ASSUME NEW g \in 1..L
               PROVE  nodes'[g].flag = 1 <=>
                        \E i \in 1..P + 1 :
                          placed'[i].g = g /\ placed'[i].cmd \in {"alter", "drop"}
    BY <1>3 DEF FlagsMatch
  <2>1. nodes[g].flag \in {0, 1}
    <3>1. nodes[g] \in Groups
      BY <1>1, ElementOfSeq
    <3>. QED
      BY <3>1 DEF Groups
  <2>2. (\E i \in 1..P + 1 : placed'[i].g = g /\ placed'[i].cmd \in {"alter", "drop"})
          <=> \/ \E i \in 1..P : placed[i].g = g /\ placed[i].cmd \in {"alter", "drop"}
              \/ g = L /\ c \in {"alter", "drop"}
    <3>1. ASSUME NEW i \in 1..P + 1, placed'[i].g = g,
                 placed'[i].cmd \in {"alter", "drop"}
          PROVE  \/ \E j \in 1..P : placed[j].g = g /\ placed[j].cmd \in {"alter", "drop"}
                 \/ g = L /\ c \in {"alter", "drop"}
      <4>1. CASE i = P + 1
        <5>1. placed'[i] = e
          BY <1>3, <4>1
        <5>. QED
          BY <3>1, <5>1, Zenon
      <4>2. CASE i \in 1..P
        <5>1. placed'[i] = placed[i]
          BY <1>3, <4>2
        <5>. QED
          BY <3>1, <4>2, <5>1, Zenon
      <4>. QED
        BY <1>1, <4>1, <4>2
    <3>2. ASSUME NEW j \in 1..P, placed[j].g = g, placed[j].cmd \in {"alter", "drop"}
          PROVE  \E i \in 1..P + 1 : placed'[i].g = g /\ placed'[i].cmd \in {"alter", "drop"}
      <4>1. j \in 1..P + 1 /\ placed'[j] = placed[j]
        BY <1>1, <1>3
      <4>. QED
        BY <3>2, <4>1, Zenon
    <3>3. ASSUME g = L, c \in {"alter", "drop"}
          PROVE  \E i \in 1..P + 1 : placed'[i].g = g /\ placed'[i].cmd \in {"alter", "drop"}
      <4>1. P + 1 \in 1..P + 1 /\ placed'[P + 1] = e
        BY <1>1, <1>3
      <4>. QED
        BY <3>3, <4>1, Zenon
    <3>. QED
      BY <3>1, <3>2, <3>3
  <2>3. nodes[g].flag = 1 <=>
          \E i \in 1..P : placed[i].g = g /\ placed[i].cmd \in {"alter", "drop"}
    BY <1>0 DEF FlagsMatch
  <2>4. CASE g = L
    BY <2>1, <2>2, <2>3, <2>4
  <2>5. CASE g # L
    <3>0. g \in 1..Len(nodes) - 1
      BY <1>1, <2>5
    <3>1. nodes'[g] = nodes[g]
      BY <3>0
    <3>. QED
      BY <2>2, <2>3, <2>5, <3>1
  <2>. QED
    BY <2>4, <2>5
<1>10. NeighboursDiffer'
  <2>1. ASSUME NEW g \in 1..L PROVE nodes'[g].key = nodes[g].key
    <3>1. CASE g = L
      BY <3>1
    <3>2. CASE g # L
      <4>1. g \in 1..Len(nodes) - 1
        BY <1>1, <3>2
      <4>. QED
        BY <4>1
    <3>. QED
      BY <3>1, <3>2
  <2>. QED
    BY <1>0, <1>1, <2>1 DEF NeighboursDiffer
<1>11. PosBound'
  <2> SUFFICES ASSUME NEW i \in 1..P + 1 PROVE placed'[i].pos <= fed + 1
    BY <1>3 DEF PosBound
  <2>1. CASE i = P + 1
    BY <1>3, <2>1
  <2>2. CASE i \in 1..P
    <3>1. placed'[i] = placed[i] /\ placed[i].pos <= fed
      BY <1>3, <2>2 DEF PosBound
    <3>. QED
      <4>1. placed[i] \in PlacedRec
        BY <1>1, <2>2, ElementOfSeq
      <4>. QED
        BY <1>1, <3>1, <4>1 DEF PlacedRec
  <2>. QED
    BY <1>1, <2>1, <2>2
<1>12. GMono'
  <2> SUFFICES ASSUME NEW i \in 1..P + 1, NEW j \in 1..P + 1, i <= j
               PROVE  placed'[i].g <= placed'[j].g
    BY <1>3 DEF GMono
  <2>1. CASE j = P + 1
    <3>1. CASE i = P + 1
      BY <2>1, <3>1
    <3>2. CASE i \in 1..P
      BY <1>1, <1>3, <1>5, <2>1, <3>2
    <3>. QED
      BY <1>1, <3>1, <3>2
  <2>2. CASE j \in 1..P
    <3>1. i \in 1..P
      BY <1>1, <2>2
    <3>. QED
      BY <1>3, <2>2, <3>1 DEF GMono
  <2>. QED
    BY <1>1, <2>1, <2>2
<1>. QED
  BY <1>6, <1>7, <1>8, <1>9, <1>10, <1>11, <1>12, RunsParts


(***************************************************************************)
(* A statement whose key differs from the last group's (or the first one) *)
(* starts a new group holding its position alone, with its own ddlflag.   *)
(***************************************************************************)
LEMMA NewGroupStep ==
  ASSUME TypeOK, SplitIsMaximalRuns, PosBound, GMono,
         NEW k, NEW c, NEW e \in PlacedRec, fed + 1 \in 1..MaxStmts,
         nodes = << >> \/ nodes[Len(nodes)].key # k,
         Len(nodes') = Len(nodes) + 1,
         \A g \in 1..Len(nodes) : nodes'[g] = nodes[g],
         nodes'[Len(nodes) + 1].key = k,
         nodes'[Len(nodes) + 1].stmts = << fed + 1 >>,
         nodes'[Len(nodes) + 1].flag = IF c \in {"alter", "drop"} THEN 1 ELSE 0,
         placed' = Append(placed, e),
         e.pos = fed + 1, e.key = k, e.cmd = c, e.g = Len(nodes) + 1, e.idx = 1,
         fed' = fed + 1
  PROVE  SplitIsMaximalRuns' /\ PosBound' /\ GMono'
<1> USE SplitAssumption
<1> DEFINE L == Len(nodes)
           P == Len(placed)
<1>0. InGroup /\ FirstPlaced /\ Consecutive /\ GroupCount /\ FlagsMatch
      /\ NeighboursDiffer
  BY RunsParts
<1>1. /\ L \in Nat /\ P \in Nat /\ fed \in Nat
      /\ nodes \in Seq(Groups) /\ placed \in Seq(PlacedRec)
  <2>1. nodes \in Seq(Groups) /\ placed \in Seq(PlacedRec) /\ fed \in Nat
    BY DEF TypeOK, PlacedRec
  <2>. QED
    BY <2>1, LenProperties
<1>2. /\ P = 0 => L = 0
      /\ P # 0 => placed[P].g = L /\ placed[P].idx = Len(nodes[L].stmts)
  <2>1. P = 0 <=> placed = << >>
    BY <1>1, EmptySeq
  <2>2. P = 0 => L = 0
    BY <1>0, <2>1 DEF GroupCount
  <2>3. P # 0 => placed[P].g = L
    BY <1>0, <2>1 DEF GroupCount
  <2>4. P # 0 => placed[P].idx = Len(nodes[placed[P].g].stmts)
    <3>1. \A i \in 1..Len(placed) :
            (i = Len(placed) \/ placed[i+1].g # placed[i].g)
              => placed[i].idx = Len(nodes[placed[i].g].stmts)
      BY <1>0 DEF InGroup
    <3>2. P # 0 => P \in 1..Len(placed)
      BY <1>1
    <3>. QED
      BY <3>1, <3>2, Zenon
  <2>. QED
    BY <2>2, <2>3, <2>4
<1>3. /\ Len(placed') = P + 1
      /\ \A i \in 1..P : placed'[i] = placed[i]
      /\ placed'[P + 1] = e
  BY <1>1, AppendProperties
<1>4. /\ Len(nodes'[L + 1].stmts) = 1 /\ nodes'[L + 1].stmts[1] = fed + 1
  OBVIOUS
<1>5. \A i \in 1..P : placed[i].g \in 1..L
  BY <1>0 DEF InGroup
<1>6. InGroup'
  <2> SUFFICES ASSUME NEW i \in 1..P + 1
               PROVE  /\ placed'[i].g \in 1..Len(nodes')
                      /\ placed'[i].idx \in 1..Len(nodes'[placed'[i].g].stmts)
                      /\ nodes'[placed'[i].g].stmts[placed'[i].idx] = placed'[i].pos
                      /\ nodes'[placed'[i].g].key = placed'[i].key
                      /\ (i = Len(placed') \/ placed'[i+1].g # placed'[i].g)
                           => placed'[i].idx = Len(nodes'[placed'[i].g].stmts)
    BY <1>3 DEF InGroup
  <2>1. CASE i = P + 1
    <3>1. placed'[i] = e /\ i = Len(placed')
      BY <1>3, <2>1
    <3>2. /\ L + 1 \in 1..Len(nodes')
          /\ placed'[i].idx \in 1..Len(nodes'[L + 1].stmts)
          /\ nodes'[L + 1].stmts[placed'[i].idx] = placed'[i].pos
          /\ nodes'[L + 1].key = placed'[i].key
          /\ placed'[i].idx = Len(nodes'[L + 1].stmts)
      BY <1>1, <1>4, <3>1
    <3>3. placed'[i].g = L + 1
      BY <3>1
    <3>. QED
      BY <3>1, <3>2, <3>3
  <2>2. CASE i \in 1..P
    <3>1. placed'[i] = placed[i] /\ placed[i].g \in 1..L
      BY <1>3, <1>5, <2>2
    <3>2. nodes'[placed[i].g] = nodes[placed[i].g]
      BY <3>1
    <3>3. /\ placed[i].idx \in 1..Len(nodes[placed[i].g].stmts)
          /\ nodes[placed[i].g].stmts[placed[i].idx] = placed[i].pos
          /\ nodes[placed[i].g].key = placed[i].key
          /\ (i = P \/ placed[i+1].g # placed[i].g)
               => placed[i].idx = Len(nodes[placed[i].g].stmts)
      BY <1>0, <2>2 DEF InGroup
    <3>4. i # P => i + 1 \in 1..P /\ placed'[i+1] = placed[i+1]
      BY <1>1, <1>3, <2>2
    <3>5. i # Len(placed')
      BY <1>1, <1>3, <2>2
    <3>. QED
      BY <3>1, <3>2, <3>3, <3>4, <3>5
  <2>. QED
    BY <1>1, <2>1, <2>2
<1>7. FirstPlaced' /\ GroupCount'
  <2>1. placed' # << >> /\ Len(placed') = P + 1 /\ placed'[P + 1].g = L + 1
    BY <1>1, <1>3, AppendProperties
  <2>2. CASE P = 0
    BY <1>2, <1>3, <2>1, <2>2 DEF FirstPlaced, GroupCount
  <2>3. CASE P # 0
    <3>1. 1 \in 1..P /\ placed'[1] = placed[1]
      BY <1>1, <1>3, <2>3
    <3>. QED
      BY <1>0, <2>1, <2>3, <3>1 DEF FirstPlaced, GroupCount
  <2>. QED
    BY <2>2, <2>3
<1>8. Consecutive'
  <2> SUFFICES ASSUME NEW i \in 2..P + 1
               PROVE  /\ placed'[i-1].pos < placed'[i].pos
                      /\ \/ placed'[i].g = placed'[i-1].g
                            /\ placed'[i].idx = placed'[i-1].idx + 1
                         \/ placed'[i].g = placed'[i-1].g + 1 /\ placed'[i].idx = 1
    BY <1>3 DEF Consecutive
  <2>1. CASE i = P + 1
    <3>1. P # 0 /\ P \in 1..P
      BY <1>1, <2>1
    <3>2. placed'[i-1] = placed[P] /\ placed'[i] = e
      BY <1>3, <2>1, <3>1
    <3>3. placed[P].pos <= fed /\ placed[P].g = L
      BY <1>2, <3>1 DEF PosBound
    <3>4. placed[P].pos \in Nat
      <4>1. placed[P] \in PlacedRec
        BY <1>1, <3>1, ElementOfSeq
      <4>. QED
        BY <4>1 DEF PlacedRec
    <3>. QED
      BY <1>1, <3>2, <3>3, <3>4
  <2>2. CASE i \in 2..P
    <3>1. placed'[i-1] = placed[i-1] /\ placed'[i] = placed[i]
      BY <1>3, <2>2
    <3>. QED
      BY <1>0, <2>2, <3>1 DEF Consecutive
  <2>. QED
    BY <1>1, <2>1, <2>2
<1>9. FlagsMatch'
  <2> SUFFICES ASSUME NEW g \in 1..L + 1
               PROVE  nodes'[g].flag = 1 <=>
                        \E i \in 1..P + 1 :
                          placed'[i].g = g /\ placed'[i].cmd \in {"alter", "drop"}
    BY <1>3 DEF FlagsMatch
  <2>1. (\E i \in 1..P + 1 : placed'[i].g = g /\ placed'[i].cmd \in {"alter", "drop"})
          <=> \/ \E i \in 1..P : placed[i].g = g /\ placed[i].cmd \in {"alter", "drop"}
              \/ g = L + 1 /\ c \in {"alter", "drop"}
    BY <1>1, <1>3
  <2>2. CASE g = L + 1
    <3>1. ~\E i \in 1..P : placed[i].g = g
      BY <1>1, <1>5, <2>2
    <3>. QED
      BY <2>1, <2>2, <3>1
  <2>3. CASE g \in 1..L
    <3>1. nodes'[g] = nodes[g]
      BY <2>3
    <3>2. nodes[g].flag = 1 <=>
            \E i \in 1..P : placed[i].g = g /\ placed[i].cmd \in {"alter", "drop"}
      BY <1>0, <2>3 DEF FlagsMatch
    <3>. QED
      BY <1>1, <2>1, <2>3, <3>1, <3>2
  <2>4. g = L + 1 \/ g \in 1..L
    BY <1>1
  <2>. QED
    BY <2>2, <2>3, <2>4
<1>10. NeighboursDiffer'
  <2> SUFFICES ASSUME NEW g \in 1..L PROVE nodes'[g].key # nodes'[g+1].key
    BY <1>1 DEF NeighboursDiffer
  <2>1. CASE g = L
    <3>1. nodes # << >>
      BY <1>1, <2>1, EmptySeq
    <3>. QED
      BY <2>1, <3>1
  <2>2. CASE g # L
    <3>1. g + 1 \in 1..L /\ g \in 1..L - 1
      BY <1>1, <2>2
    <3>. QED
      BY <1>0, <3>1 DEF NeighboursDiffer
  <2>. QED
    BY <2>1, <2>2
<1>11. PosBound'
  <2> SUFFICES ASSUME NEW i \in 1..P + 1 PROVE placed'[i].pos <= fed + 1
    BY <1>3 DEF PosBound
  <2>1. CASE i = P + 1
    BY <1>3, <2>1
  <2>2. CASE i \in 1..P
    <3>1. placed'[i] = placed[i] /\ placed[i].pos <= fed
      BY <1>3, <2>2 DEF PosBound
    <3>2. placed[i] \in PlacedRec
      BY <1>1, <2>2, ElementOfSeq
    <3>. QED
      BY <1>1, <3>1, <3>2 DEF PlacedRec
  <2>. QED
    BY <1>1, <2>1, <2>2
<1>12. GMono'
  <2> SUFFICES ASSUME NEW i \in 1..P + 1, NEW j \in 1..P + 1, i <= j
               PROVE  placed'[i].g <= placed'[j].g
    BY <1>3 DEF GMono
  <2>1. CASE j = P + 1
    <3>1. CASE i = P + 1
      BY <2>1, <3>1
    <3>2. CASE i \in 1..P
      BY <1>1, <1>3, <1>5, <2>1, <3>2
    <3>. QED
      BY <1>1, <3>1, <3>2
  <2>2. CASE j \in 1..P
    <3>1. i \in 1..P
      BY <1>1, <2>2
    <3>. QED
      BY <1>3, <2>2, <3>1 DEF GMono
  <2>. QED
    BY <1>1, <2>1, <2>2
<1>. QED
  BY <1>6, <1>7, <1>8, <1>9, <1>10, <1>11, <1>12, RunsParts


-----------------------------------------------------------------------------
(* What a statement that reaches the grouper carries. *)
LEMMA StmtKey ==
  ASSUME TypeOK, NEW s \in Stmts, s.cmd \notin {"use", "set"}
  PROVE  /\ KeyOf(s) \in Keys
         /\ s.cmd \in TableCmds \cup {"createdb", "select"}
         /\ DdlFlag(s) \in {0, 1}
         /\ DdlFlag(s) = 1 <=> s.cmd \in {"alter", "drop"}
         /\ (IF usedb # NoName THEN usedb ELSE KeyOf(s).db) \in Dbs \cup {NoName}
BY DEF TypeOK, Stmts, KeyOf, StmtDb, IsDdl, DdlFlag, Keys, TableCmds

(* Raising a group's ddlflag and appending to its statements keeps its   *)
(* key and USE database.                                                  *)
RaiseAppend(r, a, b) == [r EXCEPT !.flag = a, !.stmts = b]

LEMMA GroupExcept ==
  ASSUME NEW r \in Groups, NEW a \in {0, 1}, NEW b \in Seq(1..MaxStmts)
  PROVE  /\ RaiseAppend(r, a, b) \in Groups
         /\ RaiseAppend(r, a, b).key = r.key
         /\ RaiseAppend(r, a, b).flag = a
         /\ RaiseAppend(r, a, b).stmts = b
BY DEF Groups, RaiseAppend

(* TypeOK in the next state, from the type of each variable. *)
LEMMA TypeNext ==
  ASSUME usedb' \in Dbs \cup {NoName}, thddb' \in Dbs \cup {NoName},
         nodes' \in Seq(Groups), fed' \in 0..MaxStmts, placed' \in Seq(PlacedRec)
  PROVE  TypeOK'
BY Zenon DEF TypeOK, PlacedRec

(* The initial state satisfies the strengthened invariant. *)
LEMMA InitSplit == Init => SplitInv
<1> SUFFICES ASSUME Init PROVE SplitInv
  OBVIOUS
<1> USE SplitAssumption
<1>1. TypeOK
  BY EmptySeq DEF Init, TypeOK
<1>2. SplitIsMaximalRuns /\ PosBound /\ GMono
  BY DEF Init, SplitIsMaximalRuns, PosBound, GMono
<1>. QED
  BY <1>1, <1>2 DEF SplitInv

(* Every step of the grouper keeps the strengthened invariant. *)
LEMMA NextSplit == SplitInv /\ [Next]_vars => SplitInv'
<1> SUFFICES ASSUME SplitInv, [Next]_vars PROVE SplitInv'
  OBVIOUS
<1> USE SplitAssumption
<1>0. /\ TypeOK /\ SplitIsMaximalRuns /\ PosBound /\ GMono
      /\ nodes \in Seq(Groups) /\ placed \in Seq(PlacedRec) /\ fed \in Nat
  BY DEF SplitInv, TypeOK, PlacedRec
<1>1. CASE Commit
  <2>1. nodes' = << >> /\ placed' = << >> /\ fed' = 0 /\ usedb' = NoName
        /\ thddb' = thddb
    BY <1>1 DEF Commit
  <2>2. TypeOK'
    BY <1>0, <2>1, EmptySeq DEF TypeOK
  <2>. QED
    BY <2>1, <2>2 DEF SplitInv, SplitIsMaximalRuns, PosBound, GMono
<1>2. CASE UNCHANGED vars
  BY <1>0, <1>2 DEF vars, SplitInv, TypeOK, SplitIsMaximalRuns, PosBound, GMono
<1>3. CASE Intercept
  <2>1. PICK s \in Stmts : Parses(s) /\ (SplitUse(s) \/ SplitSet(s) \/ SplitAppend(s))
    BY <1>3 DEF Intercept
  <2>2. fed < MaxStmts /\ fed' = fed + 1 /\ fed + 1 \in 1..MaxStmts
    BY <1>0, <1>3 DEF Intercept
  <2>3. CASE SplitUse(s) \/ SplitSet(s)
    <3>1. /\ UNCHANGED <<nodes, placed>>
          /\ usedb' \in Dbs \cup {NoName} /\ thddb' \in Dbs \cup {NoName}
      BY <1>0, <2>3 DEF SplitUse, SplitSet, Stmts, TypeOK
    <3>2. TypeOK'
      BY <1>0, <2>2, <3>1 DEF TypeOK
    <3>3. SplitIsMaximalRuns'
      BY <1>0, <3>1 DEF SplitIsMaximalRuns
    <3>4. PosBound' /\ GMono'
      <4>1. \A i \in 1..Len(placed) : placed[i].pos \in Nat /\ placed[i].g \in Nat
        <5> SUFFICES ASSUME NEW i \in 1..Len(placed)
                     PROVE  placed[i].pos \in Nat /\ placed[i].g \in Nat
          OBVIOUS
        <5>1. placed[i] \in PlacedRec
          BY <1>0, ElementOfSeq
        <5>. QED
          BY <5>1 DEF PlacedRec
      <4>. QED
        BY <1>0, <2>2, <3>1, <4>1 DEF PosBound, GMono
    <3>. QED
      BY <3>2, <3>3, <3>4 DEF SplitInv
  <2>4. CASE SplitAppend(s)
    <3> DEFINE k == KeyOf(s)
               L == Len(nodes)
               merge == nodes # << >> /\ SameGroup(nodes[L], k)
               e == [pos |-> fed + 1, key |-> k, cmd |-> s.cmd, g |-> Len(nodes'),
                     idx |-> Len(nodes'[Len(nodes')].stmts)]
    <3>1. /\ s.cmd \notin {"use", "set"}
          /\ placed' = Append(placed, e)
          /\ usedb' = usedb /\ thddb' = thddb
      BY <2>4 DEF SplitAppend
    <3>2. /\ k \in Keys /\ s.cmd \in TableCmds \cup {"createdb", "select"}
          /\ DdlFlag(s) \in {0, 1}
          /\ DdlFlag(s) = 1 <=> s.cmd \in {"alter", "drop"}
          /\ (IF usedb # NoName THEN usedb ELSE k.db) \in Dbs \cup {NoName}
      BY <1>0, <3>1, StmtKey
    <3>3. L \in Nat
      BY <1>0, LenProperties
    <3>4. CASE merge
      <4> DEFINE S == nodes[L].stmts
                 nl == RaiseAppend(nodes[L],
                         IF DdlFlag(s) = 1 THEN 1 ELSE nodes[L].flag,
                         Append(nodes[L].stmts, fed + 1))
      <4>1. L \in 1..L /\ nodes[L] \in Groups
        BY <1>0, <3>3, <3>4, EmptySeq, ElementOfSeq
      <4>2. S \in Seq(1..MaxStmts) /\ Append(S, fed + 1) \in Seq(1..MaxStmts)
            /\ Len(Append(S, fed + 1)) = Len(S) + 1 /\ Len(S) \in Nat
        BY <2>2, <4>1, AppendProperties, LenProperties DEF Groups
      <4>3. nl \in Groups /\ nl.key = nodes[L].key /\ nl.stmts = Append(S, fed + 1)
            /\ nl.flag = IF s.cmd \in {"alter", "drop"} THEN 1 ELSE nodes[L].flag
        <5>1. (IF DdlFlag(s) = 1 THEN 1 ELSE nodes[L].flag) \in {0, 1}
          BY <3>2, <4>1 DEF Groups
        <5>2. /\ nl \in Groups /\ nl.key = nodes[L].key /\ nl.stmts = Append(S, fed + 1)
              /\ nl.flag = IF DdlFlag(s) = 1 THEN 1 ELSE nodes[L].flag
          <6> DEFINE a0 == IF DdlFlag(s) = 1 THEN 1 ELSE nodes[L].flag
                     b0 == Append(S, fed + 1)
                     r0 == nodes[L]
          <6>1. r0 \in Groups /\ a0 \in {0, 1} /\ b0 \in Seq(1..MaxStmts)
            BY <4>1, <4>2, <5>1
          <6>2. /\ RaiseAppend(r0, a0, b0) \in Groups
                /\ RaiseAppend(r0, a0, b0).key = r0.key
                /\ RaiseAppend(r0, a0, b0).flag = a0
                /\ RaiseAppend(r0, a0, b0).stmts = b0
            <7> HIDE DEF a0, b0, r0
            <7>. QED
              BY <6>1, GroupExcept
          <6>. QED
            BY <6>2
        <5>3. (IF DdlFlag(s) = 1 THEN 1 ELSE nodes[L].flag)
                = IF s.cmd \in {"alter", "drop"} THEN 1 ELSE nodes[L].flag
          BY <3>2
        <5>. QED
          BY <5>2, <5>3
      <4>4. nodes' = [nodes EXCEPT ![L] = nl]
        <5>1. nodes' = [nodes EXCEPT ![L].flag = IF DdlFlag(s) = 1 THEN 1 ELSE @,
                                     ![L].stmts = Append(@, fed + 1)]
          BY <2>4, <3>4 DEF SplitAppend
        <5>. QED
          BY <5>1 DEF RaiseAppend
      <4>5. /\ nodes' \in Seq(Groups) /\ Len(nodes') = L
            /\ \A g \in 1..L : nodes'[g] = IF g = L THEN nl ELSE nodes[g]
        BY <1>0, <4>1, <4>3, <4>4, ExceptSeq
      <4>6. /\ e.pos = fed + 1 /\ e.key = k /\ e.cmd = s.cmd /\ e.g = L
            /\ e.idx = Len(S) + 1
        BY <4>1, <4>2, <4>3, <4>5
      <4>7. e \in PlacedRec
        BY <2>2, <3>2, <3>3, <4>2, <4>6 DEF PlacedRec
      <4>8. nodes[L].key = k
        BY <3>4 DEF SameGroup
      <4>9. SplitIsMaximalRuns' /\ PosBound' /\ GMono'
        <5>1. /\ nodes # << >>
              /\ \A g \in 1..L - 1 : nodes'[g] = nodes[g]
              /\ nodes'[L].key = k
              /\ nodes'[L].stmts = Append(S, fed + 1)
              /\ nodes'[L].flag =
                   IF s.cmd \in {"alter", "drop"} THEN 1 ELSE nodes[L].flag
          BY <3>3, <3>4, <4>1, <4>3, <4>5, <4>8
        <5>. QED
          BY <1>0, <2>2, <3>1, <4>5, <4>6, <4>7, <4>8, <5>1, MergeStep, ZenonT(60)
      <4>10. TypeOK'
        <5>1. placed' \in Seq(PlacedRec)
          BY <1>0, <3>1, <4>7, AppendProperties
        <5>2. usedb' \in Dbs \cup {NoName} /\ thddb' \in Dbs \cup {NoName}
          BY <1>0, <3>1 DEF TypeOK
        <5>3. fed' \in 0..MaxStmts
          BY <2>2
        <5>. QED
          BY <4>5, <5>1, <5>2, <5>3, TypeNext
      <4>. QED
        BY <4>9, <4>10 DEF SplitInv
    <3>5. CASE ~merge
      <4> DEFINE ng == [key |-> k, flag |-> DdlFlag(s),
                        use |-> IF usedb # NoName THEN usedb ELSE k.db,
                        stmts |-> << fed + 1 >>]
      <4>1. ng \in Groups /\ ng.key = k /\ ng.stmts = << fed + 1 >>
            /\ ng.flag = IF s.cmd \in {"alter", "drop"} THEN 1 ELSE 0
        BY <2>2, <3>2 DEF Groups
      <4>2. nodes' = Append(nodes, ng)
        BY <2>4, <3>5 DEF SplitAppend
      <4>3. /\ nodes' \in Seq(Groups) /\ Len(nodes') = L + 1
            /\ \A g \in 1..L : nodes'[g] = nodes[g]
            /\ nodes'[L + 1] = ng
        BY <1>0, <4>1, <4>2, AppendProperties
      <4>4. /\ e.pos = fed + 1 /\ e.key = k /\ e.cmd = s.cmd /\ e.g = L + 1
            /\ e.idx = 1
        BY <4>1, <4>3
      <4>5. e \in PlacedRec
        BY <2>2, <3>2, <3>3, <4>4 DEF PlacedRec
      <4>6. nodes = << >> \/ nodes[L].key # k
        BY <3>5 DEF SameGroup
      <4>7. SplitIsMaximalRuns' /\ PosBound' /\ GMono'
        BY <1>0, <2>2, <3>1, <4>1, <4>3, <4>4, <4>5, <4>6, NewGroupStep
      <4>8. TypeOK'
        <5>1. placed' \in Seq(PlacedRec)
          BY <1>0, <3>1, <4>5, AppendProperties
        <5>2. usedb' \in Dbs \cup {NoName} /\ thddb' \in Dbs \cup {NoName}
          BY <1>0, <3>1 DEF TypeOK
        <5>3. fed' \in 0..MaxStmts
          BY <2>2
        <5>. QED
          BY <4>3, <5>1, <5>2, <5>3, TypeNext
      <4>. QED
        BY <4>7, <4>8 DEF SplitInv
    <3>. QED
      BY <3>4, <3>5
  <2>. QED
    BY <2>1, <2>3, <2>4
<1>. QED
  BY <1>1, <1>2, <1>3 DEF Next

-----------------------------------------------------------------------------
(* The grouper's state keeps its type for every set of databases and      *)
(* tables and every bound: groups hold keys, ddlflags in {0, 1} and      *)
(* positions of the batch.                                                *)
THEOREM SplitTypeCorrect == Spec => []TypeOK
<1>1. SplitInv => TypeOK
  BY DEF SplitInv
<1>. QED
  BY <1>1, InitSplit, NextSplit, PTL DEF Spec

(* spec.md 4.8 for every set of databases and tables and every bound:     *)
(* SPLIT mode's split_nodes are exactly the maximal runs of consecutive   *)
(* grouped statements with one (db, table, DDL/DML class), USE and SET   *)
(* never break a run, and a group's ddlflag says whether it holds an      *)
(* ALTER or DROP TABLE.                                                   *)
THEOREM SplitGroupsCorrect == Spec => []SplitIsMaximalRuns
<1>1. SplitInv => SplitIsMaximalRuns
  BY DEF SplitInv
<1>. QED
  BY <1>1, InitSplit, NextSplit, PTL DEF Spec


=============================================================================
