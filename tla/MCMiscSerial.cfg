SPECIFICATION SerialSpec
CONSTANT Proc = {p1, p2, p3, p4}
SYMMETRY Symmetry
INVARIANTS UsersExact IrqWhileOpen FreesOwnIrq GoneIsGone
