---------------------------- MODULE PrivateBeliefs ----------------------------
(***************************************************************************)
(* The subjective probabilities a seat keeps (agent/cognition.py): how a   *)
(* model's update is reconciled with the role facts the seat can see and   *)
(* with the number of wolves in the game.                                  *)
(*                                                                         *)
(* Probabilities are exact fractions over one denominator:                 *)
(* [num |-> [Others -> Nat], den |-> Nat].  The source uses floats; the    *)
(* projection below never needs rounding because a share is                *)
(* remaining * weight / total, whose denominator is the total weight.      *)
(* likely_role, confidence, evidence and the plans are left out.           *)
(***************************************************************************)
EXTENDS Naturals, Integers, FiniteSets

CONSTANTS
    Others,        \* the seats visible to this one, itself excluded ("allowed")
    Wolves,        \* the seats of Others that are wolves
    TotalWolves,   \* observation.role_counts["werewolf"]
    OwnerIsWolf    \* the seat's own role

ASSUME BeliefsAssumption ==
    /\ IsFiniteSet(Others)
    /\ Wolves \subseteq Others
    /\ OwnerIsWolf \in BOOLEAN
    /\ TotalWolves = Cardinality(Wolves) + (IF OwnerIsWolf THEN 1 ELSE 0)

Least(a, b) == IF a <= b THEN a ELSE b
Most(a, b)  == IF a >= b THEN a ELSE b

\* Sum of f over the finite set S of its domain.
Total(f, S) ==
    LET Sum[T \in SUBSET DOMAIN f] ==
          IF T = {} THEN 0
          ELSE LET s == CHOOSE t \in T : TRUE IN f[s] + Sum[T \ {s}]
    IN Sum[S]

\* The same fractions over the smallest denominator.
Reduced(b) ==
    LET Divides(k) == b.den % k = 0 /\ \A s \in DOMAIN b.num : b.num[s] % k = 0
        gcd == CHOOSE k \in 1..b.den : Divides(k) /\ \A j \in k..b.den : Divides(j) => j = k
    IN [num |-> [s \in DOMAIN b.num |-> b.num[s] \div gcd], den |-> b.den \div gcd]

\* _uninformed_belief: one half for every seat nothing is known about.
Uninformed == [num |-> [s \in Others |-> 1], den |-> 2]

\* _project_probability_mass: give the seats of U a mass of target in the
\* proportion of their weights, no seat more than 1.  A round saturates every
\* seat whose share reaches 1 and divides what remains among the rest.
ProjectMass(w, U, target) ==
    LET Remaining(A) == target - Cardinality(U \ A)
        Saturated(A) == {s \in A : Remaining(A) * w[s] >= Total(w, A)}
        Active[A \in SUBSET U] ==
            IF Total(w, A) = 0 \/ Saturated(A) = {} THEN A ELSE Active[A \ Saturated(A)]
        rest == Active[U]
        even == Total(w, rest) = 0
        den  == IF rest = {} THEN 1 ELSE IF even THEN Cardinality(rest) ELSE Total(w, rest)
    IN  IF target <= 0 THEN [num |-> [s \in U |-> 0], den |-> 1]
        ELSE IF target >= Cardinality(U) THEN [num |-> [s \in U |-> 1], den |-> 1]
        ELSE [num |-> [s \in U |-> IF s \notin rest THEN den
                                   ELSE Remaining(rest) * (IF even THEN 1 ELSE w[s])],
              den |-> den]

\* Mutant: the wolves that were found are placed again.
MassOfAllWolves(known) ==
    Most(0, Least(Cardinality(Others \ known), TotalWolves - (IF OwnerIsWolf THEN 1 ELSE 0)))

\* The wolves that remain to be found among the seats nothing is known about.
MassToPlace(known) ==
    Most(0, Least(Cardinality(Others \ known),
                  TotalWolves - (IF OwnerIsWolf THEN 1 ELSE 0) - Cardinality(Wolves \cap known)))

\* The belief after a patch (seat -> half-units 0..2, a partial function on
\* Others) is laid over b and the whole is made to fit the facts known.
Reconciled(b, patch, known) ==
    LET weight == [s \in Others |-> IF s \in DOMAIN patch THEN patch[s] * b.den ELSE 2 * b.num[s]]
        placed == ProjectMass(weight, Others \ known, MassToPlace(known))
    IN  Reduced([num |-> [s \in Others |-> IF s \in Wolves \cap known THEN placed.den
                                           ELSE IF s \in known THEN 0
                                           ELSE placed.num[s]],
                 den |-> placed.den])

\* A patch that says of a known seat something else than the fact.
Contradicts(patch, known) ==
    \E s \in DOMAIN patch \cap known : patch[s] # (IF s \in Wolves THEN 2 ELSE 0)

\* apply_model_update: a fact overrides what the patch says of a known seat.
ModelUpdate(b, patch, known) == Reconciled(b, patch, known)

\* update_beliefs: committed as a whole; refused before if it contradicts a fact.
BeliefsUpdate(b, patch, known) == Reconciled(b, patch, known)

\* What a belief must satisfy once it was reconciled with the facts known.
Fits(b, known) ==
    /\ \A s \in Others \cap known : b.num[s] = (IF s \in Wolves THEN b.den ELSE 0)
    /\ \A s \in Others : b.num[s] \in 0..b.den
    /\ Total(b.num, Others) = TotalWolves * b.den - (IF OwnerIsWolf THEN b.den ELSE 0)
===============================================================================
