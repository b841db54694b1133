-------------------------- MODULE CardinalityLemmas --------------------------
(* Facts about the cardinality of sets that change by one element, for the
   proofs that count references and reservations. *)
EXTENDS Integers, FiniteSets, TLAPS, FiniteSetTheorems

(* A set that gains or loses one element has one element more or less: a
   thread that gets or drops a reference changes the count by one. *)
LEMMA OneElement ==
  ASSUME NEW S, NEW T, NEW t, IsFiniteSet(S), S \ {t} = T \ {t}
  PROVE  /\ Cardinality(S) \in Nat /\ Cardinality(T) \in Nat
         /\ Cardinality(T) + (IF t \in S THEN 1 ELSE 0)
              = Cardinality(S) + (IF t \in T THEN 1 ELSE 0)
<1> DEFINE R == S \ {t}
<1>1. IsFiniteSet(R) /\ Cardinality(R) \in Nat
  BY FS_RemoveElement, FS_CardinalityType
<1>2. IsFiniteSet(R \cup {t}) /\ Cardinality(R \cup {t}) = Cardinality(R) + 1
  BY <1>1, FS_AddElement
<1>3. \A X : X \ {t} = R =>
        Cardinality(X) = Cardinality(R) + (IF t \in X THEN 1 ELSE 0)
  <2> SUFFICES ASSUME NEW X, X \ {t} = R
               PROVE  Cardinality(X) = Cardinality(R) + (IF t \in X THEN 1 ELSE 0)
    OBVIOUS
  <2> HIDE DEF R
  <2>1. CASE t \in X
    <3>1. X = R \cup {t}
      BY <2>1
    <3> QED BY <1>2, <2>1, <3>1
  <2>2. CASE t \notin X
    <3>1. X = R
      BY <2>2
    <3> QED BY <1>1, <2>2, <3>1
  <2> QED BY <2>1, <2>2
<1>4. /\ Cardinality(S) = Cardinality(R) + (IF t \in S THEN 1 ELSE 0)
      /\ Cardinality(T) = Cardinality(R) + (IF t \in T THEN 1 ELSE 0)
  BY <1>3
<1> HIDE DEF R
<1> QED BY <1>1, <1>4

(* A part of a finite set is finite; if it has an element, its cardinality is
   positive: what somebody holds is counted. *)
LEMMA PartOfFinite ==
  ASSUME NEW S, IsFiniteSet(S)
  PROVE  \A T \in SUBSET S :
           /\ IsFiniteSet(T) /\ Cardinality(T) \in Nat
           /\ \A x \in T : Cardinality(T) > 0
<1> SUFFICES ASSUME NEW T \in SUBSET S
             PROVE  /\ IsFiniteSet(T) /\ Cardinality(T) \in Nat
                    /\ \A x \in T : Cardinality(T) > 0
  OBVIOUS
<1>1. IsFiniteSet(T) /\ Cardinality(T) \in Nat
  BY FS_Subset, FS_CardinalityType
<1>2. T # {} => Cardinality(T) # 0
  BY <1>1, FS_EmptySet
<1> QED BY <1>1, <1>2
==============================================================================
