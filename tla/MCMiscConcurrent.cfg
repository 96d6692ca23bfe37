SPECIFICATION Spec
CONSTANT Proc = {p1, p2}
INVARIANT UsersExact
