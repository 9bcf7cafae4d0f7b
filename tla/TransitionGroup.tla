-------------------------- MODULE TransitionGroup --------------------------
(***************************************************************************)
(* The matrices carried by cluster transitions, atom symmetries and grain  *)
(* links.  The code composes them (tBC.tm * tAB.tm), inverts them and      *)
(* compares them up to CA_TRANSITION_MATRIX_EPSILON.  What its algorithms  *)
(* rely on is the group structure, so a matrix is an element of an         *)
(* arbitrary group and the comparison is equality.                         *)
(***************************************************************************)

CONSTANTS Tm,          \* the transition matrices
          Id,          \* Matrix3::Identity()
          Mul(_, _),   \* Mul(a, b) is the matrix product a * b
          Inv(_)       \* Matrix3::inverse()

\* Products and inverses of rotation and reflection matrices form a group.
ASSUME GroupAxioms ==
    /\ Id \in Tm
    /\ \A a \in Tm : /\ Inv(a) \in Tm
                     /\ Mul(Inv(a), a) = Id
                     /\ Mul(a, Inv(a)) = Id
                     /\ Mul(Id, a) = a
                     /\ Mul(a, Id) = a
    /\ \A a, b \in Tm : Mul(a, b) \in Tm
    /\ \A a, b, c \in Tm : Mul(Mul(a, b), c) = Mul(a, Mul(b, c))
=============================================================================
