------------------------- MODULE AlterAlgorithmProofs -------------------------
(***************************************************************************)
(* predict_alter_algorithm agrees with spec.md's table for every set of   *)
(* flags it names, on every server version: a statement about all        *)
(* 2^24 flag sets, of which the TLC run checks 2^11.                     *)
(***************************************************************************)
EXTENDS AlterAlgorithm, TLAPS

(* The level of a set of operations: 2 if one is a COPY, else 1 if one *)
(* is an INPLACE, else 0.                                               *)
Lvl(copy, inplace) == IF copy THEN 2 ELSE IF inplace THEN 1 ELSE 0

(* Worse is the maximum of two levels. *)
LEMMA WorseMax ==
  ASSUME NEW w \in 0..2, NEW l \in 0..2
  PROVE  Worse[w][l] = IF l > w THEN l ELSE w
BY DEF Worse

(***************************************************************************)
(* For every combination of the Alter_info flags the code tests, the level *)
(* its chain of raise() calls ends with is the worst level of spec.md's  *)
(* table over the combined operations.                                    *)
(***************************************************************************)
LEMMA PredictMatchesTable ==
  ASSUME NEW f \in SUBSET CodeFlags, NEW is80 \in BOOLEAN, NEW eng \in BOOLEAN
  PROVE  PredictAlterAlgorithm(f, is80, eng) = SpecAlgorithm(f, is80, eng)
<1> DEFINE cp == f \cap PartitionFlags # {}
           ct == f \cap {"DISCARD_TABLESPACE", "IMPORT_TABLESPACE"} # {}
           copy == \/ "CHANGE_COLUMN" \in f \/ "ORDER" \in f
                   \/ "RECREATE" \in f \/ cp \/ (eng /\ "OPTIONS" \in f)
           inplace == \/ "DROP_COLUMN" \in f \/ "COLUMN_ORDER" \in f
                      \/ "ADD_INDEX" \in f \/ "DROP_INDEX" \in f
                      \/ "RENAME_INDEX" \in f \/ "INDEX_VISIBILITY" \in f
                      \/ "KEYS_ONOFF" \in f \/ ct
                      \/ (~is80 /\ "ADD_COLUMN" \in f)
<1>1. f \cap OtherPartitionFlags = {}
  BY DEF CodeFlags, PartitionFlags, OtherPartitionFlags
<1>2. (f \cap CopyOps(is80, eng) # {}) <=> copy
  BY <1>1 DEF CopyOps
<1>3. (f \cap InplaceOps(is80) # {}) <=> inplace
  BY DEF InplaceOps
<1>4. SpecAlgorithm(f, is80, eng) = Lvl(copy, inplace)
  BY <1>2, <1>3 DEF SpecAlgorithm, Lvl
<1>5. PredictAlterAlgorithm(f, is80, eng) = Lvl(copy, inplace)
  (* w1 .. w17: the running level after each test of the code. *)
  <2> DEFINE w1 == Raise(0, "ADD_COLUMN" \in f, IF is80 THEN 0 ELSE 1)
             w2 == Raise(w1, "DROP_COLUMN" \in f, 1)
             w3 == Raise(w2, "CHANGE_COLUMN" \in f, 2)
             w4 == Raise(w3, "CHANGE_COLUMN_DEFAULT" \in f, 0)
             w5 == Raise(w4, "COLUMN_ORDER" \in f, 1)
             w6 == Raise(w5, "ADD_INDEX" \in f, 1)
             w7 == Raise(w6, "DROP_INDEX" \in f, 1)
             w8 == Raise(w7, "RENAME_INDEX" \in f, 1)
             w9 == Raise(w8, "INDEX_VISIBILITY" \in f, 1)
             w10 == Raise(w9, "RENAME" \in f, 0)
             w11 == Raise(w10, "ORDER" \in f, 2)
             w12 == Raise(w11, "OPTIONS" \in f, IF eng THEN 2 ELSE 0)
             w13 == Raise(w12, "KEYS_ONOFF" \in f, 1)
             w14 == Raise(w13, "RECREATE" \in f, 2)
             w15 == Raise(w14, cp, 2)
             w16 == Raise(w15, ct, 1)
             w17 == Raise(w16, "COLUMN_VISIBILITY" \in f, 0)
  <2>0. PredictAlterAlgorithm(f, is80, eng) = w17
    BY DEF PredictAlterAlgorithm
  (* c<k> / i<k>: some COPY / INPLACE bit among the first k tests. *)
  <2> DEFINE i1 == ("ADD_COLUMN" \in f /\ ~is80)
             i2 == i1 \/ "DROP_COLUMN" \in f
             c3 == "CHANGE_COLUMN" \in f
             i5 == i2 \/ "COLUMN_ORDER" \in f
             i6 == i5 \/ "ADD_INDEX" \in f
             i7 == i6 \/ "DROP_INDEX" \in f
             i8 == i7 \/ "RENAME_INDEX" \in f
             i9 == i8 \/ "INDEX_VISIBILITY" \in f
             c11 == c3 \/ "ORDER" \in f
             c12 == c11 \/ ("OPTIONS" \in f /\ eng)
             i13 == i9 \/ "KEYS_ONOFF" \in f
             c14 == c12 \/ "RECREATE" \in f
             c15 == c14 \/ cp
             i16 == i13 \/ ct
  (* After each test, the level is that of the bits tested so far. *)
  <2>1. w1 = Lvl(FALSE, i1)
    BY WorseMax DEF Lvl, Raise
  <2> HIDE DEF w1
  <2>2. w2 = Lvl(FALSE, i2)
    BY <2>1, WorseMax DEF Lvl, Raise
  <2> HIDE DEF w2
  <2>3. w3 = Lvl(c3, i2)
    BY <2>2, WorseMax DEF Lvl, Raise
  <2> HIDE DEF w3
  <2>4. w4 = Lvl(c3, i2)
    BY <2>3, WorseMax DEF Lvl, Raise
  <2> HIDE DEF w4
  <2>5. w5 = Lvl(c3, i5)
    BY <2>4, WorseMax DEF Lvl, Raise
  <2> HIDE DEF w5
  <2>6. w6 = Lvl(c3, i6)
    BY <2>5, WorseMax DEF Lvl, Raise
  <2> HIDE DEF w6
  <2>7. w7 = Lvl(c3, i7)
    BY <2>6, WorseMax DEF Lvl, Raise
  <2> HIDE DEF w7
  <2>8. w8 = Lvl(c3, i8)
    BY <2>7, WorseMax DEF Lvl, Raise
  <2> HIDE DEF w8
  <2>9. w9 = Lvl(c3, i9)
    BY <2>8, WorseMax DEF Lvl, Raise
  <2> HIDE DEF w9
  <2>10. w10 = Lvl(c3, i9)
    BY <2>9, WorseMax DEF Lvl, Raise
  <2> HIDE DEF w10
  <2>11. w11 = Lvl(c11, i9)
    BY <2>10, WorseMax DEF Lvl, Raise
  <2> HIDE DEF w11
  <2>12. w12 = Lvl(c12, i9)
    BY <2>11, WorseMax DEF Lvl, Raise
  <2> HIDE DEF w12
  <2>13. w13 = Lvl(c12, i13)
    BY <2>12, WorseMax DEF Lvl, Raise
  <2> HIDE DEF w13
  <2>14. w14 = Lvl(c14, i13)
    BY <2>13, WorseMax DEF Lvl, Raise
  <2> HIDE DEF w14
  <2>15. w15 = Lvl(c15, i13)
    BY <2>14, WorseMax DEF Lvl, Raise
  <2> HIDE DEF w15
  <2>16. w16 = Lvl(c15, i16)
    BY <2>15, WorseMax DEF Lvl, Raise
  <2> HIDE DEF w16
  <2>17. w17 = Lvl(c15, i16)
    BY <2>16, WorseMax DEF Lvl, Raise
  <2> HIDE DEF w17
  <2>18. QED
    BY <2>0, <2>17 DEF Lvl
<1>6. QED
  BY <1>4, <1>5

(* The inductive invariant: the types, and the code's and the spec's     *)
(* levels equal.                                                         *)
AlgoInv == TypeOK /\ algo = specAlgo

(***************************************************************************)
(* Whenever the Alter_info flags an ALTER sets are among those             *)
(* predict_alter_algorithm tests, the ddl_algorithm label audit_alter_table *)
(* records is the one spec.md's table gives, for any server version.      *)
(***************************************************************************)
THEOREM PredictionCorrect ==
  Flags \subseteq CodeFlags => (Spec => []PredictionMatchesSpec)
<1> SUFFICES ASSUME Flags \subseteq CodeFlags
             PROVE  Spec => []PredictionMatchesSpec
  OBVIOUS
<1>1. Init => AlgoInv
  <2> SUFFICES ASSUME Init PROVE AlgoInv
    OBVIOUS
  <2>1. engine \in BOOLEAN
    BY Zenon DEF Init
  <2>2. flags \subseteq Flags /\ major \in Majors /\ algo \in 0..2
        /\ specAlgo \in 0..2 /\ algo = specAlgo
    BY DEF Init
  <2>3. QED
    BY <2>1, <2>2 DEF AlgoInv, TypeOK
<1>2. AlgoInv /\ [Next]_vars => AlgoInv'
  <2> SUFFICES ASSUME AlgoInv, [Next]_vars PROVE AlgoInv'
    OBVIOUS
  <2>1. CASE AuditAlter
    <3>1. PICK f \in (SUBSET Flags) \ {{}}, m \in Majors, e \in BOOLEAN :
                /\ flags' = f
                /\ major' = m
                /\ engine' = e
                /\ algo' = PredictAlterAlgorithm(f, m >= 8, e)
                /\ specAlgo' = SpecAlgorithm(f, m >= 8, e)
      BY <2>1 DEF AuditAlter
    <3>2. algo' = specAlgo'
      <4>1. f \in SUBSET CodeFlags
        BY <3>1
      <4>2. (m >= 8) \in BOOLEAN
        OBVIOUS
      <4>3. PredictAlterAlgorithm(f, m >= 8, e) = SpecAlgorithm(f, m >= 8, e)
        BY <4>1, <4>2, PredictMatchesTable
      <4>4. QED
        BY <3>1, <4>3
    <3>3. specAlgo' \in 0..2
      BY <3>1 DEF SpecAlgorithm
    <3>4. QED
      BY <3>1, <3>2, <3>3 DEF AlgoInv, TypeOK
  <2>2. CASE NextStatement
    <3>1. engine' \in BOOLEAN
      BY <2>2, Zenon DEF NextStatement
    <3>2. QED
      BY <2>2, <3>1 DEF NextStatement, AlgoInv, TypeOK
  <2>3. CASE UNCHANGED vars
    BY <2>3 DEF vars, AlgoInv, TypeOK
  <2>4. QED
    BY <2>1, <2>2, <2>3 DEF Next
<1>3. AlgoInv => PredictionMatchesSpec
  BY DEF AlgoInv, PredictionMatchesSpec
<1>4. QED
  BY <1>1, <1>2, <1>3, PTL DEF Spec
====
