------------------------ MODULE MCInterfaceEditors ------------------------
EXTENDS InterfaceEditors, MCSettingsPage

Stored(kind, items, seconds, legacy) ==
  [kind |-> kind, instance |-> "plc", items |-> items, interval |-> seconds, legacy |-> legacy]

PlainItem(type, register) ==
  [type |-> type, register |-> register, channel |-> "c", readback |-> NoChannel]

\* A type left out, register 0, a readback channel, an old task and new ones.
SomeTasks ==
  {Stored("read", <<PlainItem(NoType, 0), PlainItem("coil", 1)>>, NoInterval, FALSE),
   Stored("read", <<>>, NoInterval, TRUE),
   Stored("write", <<PlainItem(NoType, 1), [PlainItem("coil", 0) EXCEPT !.readback = "readback"]>>,
          1, FALSE),
   Stored("write", <<>>, NoInterval, FALSE)}
=============================================================================
