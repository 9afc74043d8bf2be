\* Three registrations, two faults (a changed password, a registrar that forgets), in
\* units of 10 s (a binding is shortened from 300 s).
SPECIFICATION Spec
CONSTANTS
  Clients = {c1, c2, c3}
  Nil = Nil
  Period = 3
  KeepTime = 2
  RegisterTime = 2
  LeaveTime = 1
  Lifetime = 6
  Delay = 1
  MaxFaults = 2
SYMMETRY Symmetry
INVARIANTS LossNoticed LogoutUnbinds
PROPERTY AccountSpec
