-------------------------- MODULE MCRegisterMapping --------------------------
EXTENDS RegisterMapping

\* Two types that can be written, one that cannot, one that does not exist, an
\* address that does not, and one past the last, which is cut to the first.
SomeItems ==
  [type : {"coil"}, address : 0..2]
    \cup [type : {"holding_register"}, address : 0..1]
    \cup {[type |-> "input_register", address |-> 1],
           [type |-> "unsupported", address |-> 1], [type |-> "coil", address |-> -1]}

\* Below and above what a register holds, three quarters that round up to the
\* most it holds, a half and a zero; counted in quarters.  Each channel has other
\* commands than its neighbours and, in the next cycle, than before.
SomeCommands == {<<0, 262139, 2>>, <<262145, -3, 0>>}

\* Two coils in a row are too many to write at a time, two holding registers too
\* many to read.
SomeReadLimit == [t \in Types |-> IF t = "coil" THEN 2 ELSE 1]
SomeWriteLimit == [t \in Types |-> IF t = "coil" THEN 1 ELSE 2]
=============================================================================
