--------------------------- MODULE MCControlState ---------------------------
(* Two calls at once on a project of at most three contexts, by two sessions *)
(* of one principal. q1 and q2 are begun by s1 under two keys, q3 has the    *)
(* event_id of q1 under the key of q2, q4 is begun by s2.                    *)
EXTENDS ControlState

CONSTANTS s1, s2, q1, q2, q3, q4, root, a, b, k1, k2, i1, i2, me

MCPrincipalOf == [s \in Sessions |-> me]
MCSessionOf == [q \in Requests |-> IF q = q4 THEN s2 ELSE s1]
MCKeyOf == [q \in Requests |-> IF q \in {q2, q3} THEN k2 ELSE k1]
MCIdOf == [q \in Requests |-> IF q = q2 THEN i2 ELSE i1]

Op(op, c, at) == [op |-> op, ctx |-> c, at |-> at, from |-> a]
Dir(ops, f, bind) == [ops |-> ops, focus |-> f, binding |-> bind]

Open == Dir(<<Op("CREATE_CHILD", a, root), Op("SET_CONTROL_CONDITION", a, a),
              Op("PARK_STABLE_UNKNOWN", a, a)>>, Keep, Keep)
Enter == Dir(<<>>, a, a)
Below == Dir(<<Op("CREATE_CHILD", b, a), Op("SET_DEFAULT_CONTEXT", b, b)>>, Keep, Keep)
Return == Dir(<<Op("REOPEN_STABLE_UNKNOWN", a, a), Op("RETURN_CONTEXT", a, root)>>, Keep, Keep)
Settle == Dir(<<Op("APPLY_JOIN_DISPOSITION", a, a), Op("CLOSE_CONTEXT", a, a),
                Op("CREATE_DERIVED_CONTEXT", b, root), Op("CANCEL_CONTEXT", b, b)>>, Keep, Keep)

MCDirectives == {Open, Enter, Below, Return, Settle}
=============================================================================
