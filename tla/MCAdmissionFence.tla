-------------------------- MODULE MCAdmissionFence --------------------------
(***************************************************************************)
(* A small instance of AdmissionFence: three stores in two scopes, two     *)
(* batches that claim the same key under one delegation and one approval.  *)
(***************************************************************************)
EXTENDS AdmissionFence

CONSTANTS q1, q2, q3, scopeA, scopeB, s1, s2, key, d1, ap1, o1, o2

TwoRequesters == {q1, q2}
ThreeRequesters == {q1, q2, q3}
TwoSessions == {o1, o2}
OneSession == {o1}
TwoSpecs == {s1, s2}
OneDelegation == {d1}
OneApproval == {ap1}

AAndB     == [w \in Requesters |-> IF w = q3 THEN scopeB ELSE scopeA]
SameKey   == [s \in Specs |-> key]
OfD1      == [s \in Specs |-> d1]
OfAp1     == [s \in Specs |-> ap1]
FirstAndAmended == [s \in Specs |-> IF s = s1 THEN 1 ELSE 2]
=============================================================================
