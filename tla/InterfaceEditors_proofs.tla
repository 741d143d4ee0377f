----------------------- MODULE InterfaceEditors_proofs -----------------------
(***************************************************************************)
(* Proofs about the two editors of the interface: what the task editor     *)
(* saves is what its form says, for any task, rows and words typed, and a  *)
(* module editor without changes shows what is stored, for any instances   *)
(* and parameters.                                                         *)
(***************************************************************************)
EXTENDS InterfaceEditors, NaturalsInduction, WellFoundedInduction, TLAPS

-----------------------------------------------------------------------------
(***************************************************************************)
(* The filter of cleanMappings.  It is a recursive function, and the       *)
(* arguments are by the least position at which a fact fails.              *)
(***************************************************************************)
LEMMA LeastOne ==
  ASSUME NEW S, S \subseteq Nat, S # {}
  PROVE  \E n \in S : \A m \in S : n <= m
<1>1. PICK n \in S : \A m \in S : ~(<<m, n>> \in OpToRel(<, Nat))
  BY NatLessThanWellFounded, WFMin
<1>2. \A m \in S : ~(m < n)
  BY <1>1 DEF OpToRel
<1> QED
  BY <1>2

\* What the filter does at one position.
Filter(list, u, n) ==
  IF n = 0 THEN <<>> ELSE IF Kept(list[n]) THEN Append(u[n - 1], list[n]) ELSE u[n - 1]

LEMMA FilterExists ==
  ASSUME NEW list, NEW size \in Nat
  PROVE  \E u : u = [n \in 0..size |-> Filter(list, u, n)]
<1> DEFINE Fails == {m \in 0..size : ~\E u : u = [n \in 0..m |-> Filter(list, u, n)]}
<1>1. ASSUME Fails # {} PROVE FALSE
  <2>1. PICK m \in Fails : \A k \in Fails : m <= k
    <3>1. Fails \subseteq Nat
      OBVIOUS
    <3> HIDE DEF Fails
    <3> QED
      BY <1>1, <3>1, LeastOne
  <2>2. CASE m = 0
    <3> DEFINE v == [n \in 0..0 |-> <<>>]
    <3>1. v = [n \in 0..0 |-> Filter(list, v, n)]
      BY DEF Filter
    <3> QED
      BY <2>1, <2>2, <3>1
  <2>3. CASE m # 0
    <3>1. m - 1 \in 0..size /\ m - 1 \notin Fails /\ m \in Nat
      BY <2>1, <2>3
    <3>2. PICK u : u = [n \in 0..(m - 1) |-> Filter(list, u, n)]
      BY <3>1
    <3> DEFINE v == [n \in 0..m |-> Filter(list, u, n)]
    <3>3. \A n \in 0..(m - 1) : v[n] = u[n]
      BY <3>1, <3>2
    <3>4. \A n \in 0..m : v[n] = Filter(list, v, n)
      <4> SUFFICES ASSUME NEW n \in 0..m PROVE v[n] = Filter(list, v, n)
        OBVIOUS
      <4>1. v[n] = Filter(list, u, n)
        OBVIOUS
      <4> HIDE DEF v
      <4>2. ASSUME n # 0 PROVE v[n - 1] = u[n - 1]
        <5>1. n - 1 \in 0..(m - 1)
          BY <3>1, <4>2
        <5> QED
          BY <3>3, <5>1
      <4> QED
        BY <4>1, <4>2 DEF Filter
    <3>5. v = [n \in 0..m |-> v[n]]
      OBVIOUS
    <3> HIDE DEF v
    <3>6. v = [n \in 0..m |-> Filter(list, v, n)]
      BY <3>4, <3>5
    <3> QED
      BY <2>1, <3>6
  <2> QED
    BY <2>2, <2>3
<1> QED
  BY <1>1

LEMMA KeptRowsIs ==
  ASSUME NEW S, NEW list \in Seq(S)
  PROVE  \E u : /\ u = [n \in 0..Len(list) |-> Filter(list, u, n)]
                /\ KeptRows(list) = u[Len(list)]
<1> DEFINE w == CHOOSE u : u = [n \in 0..Len(list) |-> Filter(list, u, n)]
<1>1. w = [n \in 0..Len(list) |-> Filter(list, w, n)]
  <2>1. Len(list) \in Nat
    OBVIOUS
  <2>2. \E u : u = [n \in 0..Len(list) |-> Filter(list, u, n)]
    BY <2>1, FilterExists
  <2> QED
    BY <2>2, Zenon
<1>2. KeptRows(list) = w[Len(list)]
  BY DEF KeptRows, Filter
<1> QED
  BY <1>1, <1>2

LEMMA SetOfAppend ==
  ASSUME NEW S, NEW list \in Seq(S), NEW e \in S
  PROVE  Append(list, e) \in Seq(S) /\ ToSet(Append(list, e)) = ToSet(list) \cup {e}
<1> DEFINE longer == Append(list, e)
<1>1. longer \in Seq(S) /\ DOMAIN longer = 1..(Len(list) + 1) /\ DOMAIN list = 1..Len(list) /\ Len(list) \in Nat
  OBVIOUS
<1>2. longer[Len(list) + 1] = e /\ \A i \in 1..Len(list) : longer[i] = list[i]
  OBVIOUS
<1> HIDE DEF longer
<1>3. \A i \in DOMAIN longer : i \in 1..Len(list) \/ i = Len(list) + 1
  BY <1>1
<1>4. ToSet(longer) \subseteq ToSet(list) \cup {e}
  BY <1>1, <1>2, <1>3 DEF ToSet
<1>5. ToSet(list) \subseteq ToSet(longer) /\ e \in ToSet(longer)
  BY <1>1, <1>2 DEF ToSet
<1> QED
  BY <1>1, <1>4, <1>5 DEF longer

\* What the filter keeps of a list: its elements that are kept, and the whole
\* list in its order where all of it is.
LEMMA FilterKeeps ==
  ASSUME NEW S, NEW list \in Seq(S)
  PROVE  /\ KeptRows(list) \in Seq(S)
         /\ ToSet(KeptRows(list)) = {row \in ToSet(list) : Kept(row)}
         /\ (\A row \in ToSet(list) : Kept(row)) => KeptRows(list) = list
<1>1. PICK u : u = [n \in 0..Len(list) |-> Filter(list, u, n)] /\ KeptRows(list) = u[Len(list)]
  BY KeptRowsIs
<1>2. Len(list) \in Nat /\ DOMAIN list = 1..Len(list) /\ \A i \in 1..Len(list) : list[i] \in S
  OBVIOUS
<1>3. \A n \in 0..Len(list) : u[n] = Filter(list, u, n)
  BY <1>1
<1>4. u[0] = <<>>
  BY <1>2, <1>3 DEF Filter
<1>5. \A n \in 1..Len(list) : u[n] = IF Kept(list[n]) THEN Append(u[n - 1], list[n]) ELSE u[n - 1]
  BY <1>2, <1>3 DEF Filter
<1> DEFINE Right(n) ==
             /\ u[n] \in Seq(S)
             /\ ToSet(u[n]) = {list[i] : i \in {j \in 1..n : Kept(list[j])}}
             /\ (\A i \in 1..n : Kept(list[i])) => Len(u[n]) = n /\ \A i \in 1..n : u[n][i] = list[i]
           Wrong == {n \in 0..Len(list) : ~Right(n)}
<1>6. Right(0)
  BY <1>4 DEF ToSet
<1>7. ASSUME NEW n \in 1..Len(list), Right(n - 1) PROVE Right(n)
  <2> DEFINE old == u[n - 1]
  <2>1. old \in Seq(S) /\ list[n] \in S /\ n \in Nat /\ 1..n = (1..(n - 1)) \cup {n}
    BY <1>2, <1>7
  <2>2. ToSet(old) = {list[i] : i \in {j \in 1..(n - 1) : Kept(list[j])}}
    BY <1>7
  <2>3. (\A i \in 1..(n - 1) : Kept(list[i])) => Len(old) = n - 1 /\ \A i \in 1..(n - 1) : old[i] = list[i]
    BY <1>7
  <2>4. CASE Kept(list[n])
    <3>1. u[n] = Append(old, list[n])
      BY <1>5, <2>4
    <3> HIDE DEF old
    <3>2. u[n] \in Seq(S) /\ ToSet(u[n]) = ToSet(old) \cup {list[n]}
      BY <2>1, <3>1, SetOfAppend
    <3>3. {j \in 1..n : Kept(list[j])} = {j \in 1..(n - 1) : Kept(list[j])} \cup {n}
      BY <2>1, <2>4
    <3>4. ToSet(u[n]) = {list[i] : i \in {j \in 1..n : Kept(list[j])}}
      BY <2>2, <3>2, <3>3
    <3>5. ASSUME \A i \in 1..n : Kept(list[i])
          PROVE  Len(u[n]) = n /\ \A i \in 1..n : u[n][i] = list[i]
      <4>1. Len(old) = n - 1 /\ \A i \in 1..(n - 1) : old[i] = list[i]
        BY <2>1, <2>3, <3>5
      <4> QED
        BY <2>1, <3>1, <4>1
    <3> QED
      BY <3>2, <3>4, <3>5
  <2>5. CASE ~Kept(list[n])
    <3>1. u[n] = old
      BY <1>5, <2>5
    <3>2. {j \in 1..n : Kept(list[j])} = {j \in 1..(n - 1) : Kept(list[j])}
      BY <2>1, <2>5
    <3>3. ~\A i \in 1..n : Kept(list[i])
      BY <2>1, <2>5
    <3> QED
      BY <2>1, <2>2, <3>1, <3>2, <3>3
  <2> QED
    BY <2>4, <2>5
<1>8. ASSUME Wrong # {} PROVE FALSE
  <2>1. PICK n \in Wrong : \A k \in Wrong : n <= k
    <3>1. Wrong \subseteq Nat
      OBVIOUS
    <3> HIDE DEF Wrong
    <3> QED
      BY <1>8, <3>1, LeastOne
  <2>2. n \in 1..Len(list)
    <3> HIDE DEF Right
    <3> QED
      BY <1>6, <2>1
  <2>3. n - 1 \in 0..Len(list) /\ n - 1 \notin Wrong
    <3> HIDE DEF Right
    <3> QED
      BY <1>2, <2>1, <2>2
  <2> HIDE DEF Right
  <2>4. Right(n - 1)
    BY <2>3
  <2> QED
    BY <1>7, <2>1, <2>2, <2>4
<1>9. Right(Len(list))
  <2> HIDE DEF Right
  <2> QED
    BY <1>2, <1>8
<1> DEFINE kept == KeptRows(list)
<1>10. kept = u[Len(list)]
  BY <1>1
<1>11. ToSet(list) = {list[i] : i \in 1..Len(list)}
  BY <1>2 DEF ToSet
<1>12. ASSUME \A row \in ToSet(list) : Kept(row) PROVE kept = list
  <2>1. Len(kept) = Len(list) /\ \A i \in 1..Len(list) : kept[i] = list[i]
    BY <1>9, <1>10, <1>11, <1>12
  <2>2. kept \in Seq(S)
    BY <1>9, <1>10
  <2> HIDE DEF kept
  <2> QED
    BY <2>1, <2>2
<1>13. ToSet(kept) = {row \in ToSet(list) : Kept(row)}
  <2>1. ToSet(kept) = {list[i] : i \in {j \in 1..Len(list) : Kept(list[j])}}
    BY <1>9, <1>10
  <2> HIDE DEF kept
  <2> QED
    BY <1>11, <2>1
<1> QED
  BY <1>9, <1>10, <1>12, <1>13

-----------------------------------------------------------------------------
(***************************************************************************)
(* The task editor.  A form in which nothing was typed shows the task the  *)
(* engine holds, also after a save whose answer was lost.                  *)
(***************************************************************************)
EditorTypes ==
  /\ task \in Task
  /\ editor \in {"closed", "editing", "saving"}
  /\ selected \in Instances \cup {NoInstance}
  /\ interval \in Intervals \cup {Blank, Negative}
  /\ rows \in Seq(Row)
  /\ touched \in BOOLEAN

UntouchedForm ==
  editor # "closed" /\ ~touched =>
    /\ selected = task.instance
    /\ rows = Normalized(task)
    /\ task.kind = "write" => interval = ReadbackInterval(task)

TaskEditorInv == EditorTypes /\ UntouchedForm

\* What cleanMappings makes of a row it keeps.
Clean(row) == [type |-> row.type, register |-> Number(row.register), channel |-> row.channel,
               readback |-> NoChannel]

LEMMA TaskParts ==
  ASSUME NEW t \in Task
  PROVE  /\ t.kind \in {"read", "write"} /\ t.instance \in Instances \cup {NoInstance}
         /\ t.items \in Seq(Item) /\ t.interval \in Intervals \cup {NoInterval} /\ t.legacy \in BOOLEAN
         /\ DOMAIN t.items = 1..Len(t.items) /\ Len(t.items) \in Nat
         /\ \A i \in DOMAIN t.items :
              /\ t.items[i] \in Item /\ t.items[i].type \in ReadTypes \cup {NoType}
              /\ t.items[i].register \in Nat /\ t.items[i].channel \in Channels
         /\ FallbackType(t.kind) \in ReadTypes
<1>1. t.items \in Seq(Item) /\ t.kind \in {"read", "write"}
  BY DEF Task
<1>2. \A i \in DOMAIN t.items : t.items[i] \in Item
  BY <1>1
<1>3. FallbackType(t.kind) \in ReadTypes
  BY DEF FallbackType, ReadTypes, WriteTypes
<1>4. DOMAIN t.items = 1..Len(t.items) /\ Len(t.items) \in Nat
  BY <1>1
<1> QED
  BY <1>1, <1>2, <1>3, <1>4 DEF Task, Item

LEMMA RowParts ==
  ASSUME NEW row \in Row
  PROVE  /\ row.type \in ReadTypes /\ row.type # NoType
         /\ row.register \in Nat \cup {Blank, Fraction, Negative}
         /\ row.channel \in Channels \cup {NoChannel}
BY NoneAssumption DEF Row

\* The form made of a task: rows that are all complete.
LEMMA NormalizedRows ==
  ASSUME NEW t \in Task
  PROVE  /\ Normalized(t) \in Seq(Row) /\ DOMAIN Normalized(t) = DOMAIN t.items
         /\ \A row \in ToSet(Normalized(t)) : Kept(row)
         /\ \A i \in DOMAIN t.items :
              /\ Normalized(t)[i].type = Parsed(t)[i].type
              /\ Normalized(t)[i].register = t.items[i].register
              /\ Normalized(t)[i].channel = t.items[i].channel
              /\ Number(t.items[i].register) = t.items[i].register
<1> DEFINE list == Normalized(t)
<1>1. \A i \in DOMAIN t.items :
        list[i] = [type     |-> IF t.items[i].type = NoType THEN FallbackType(t.kind) ELSE t.items[i].type,
                   register |-> t.items[i].register,
                   channel  |-> t.items[i].channel]
  BY DEF Normalized, EditorFallback
<1>2. DOMAIN list = 1..Len(t.items) /\ DOMAIN list = DOMAIN t.items /\ Len(t.items) \in Nat
      /\ list = [i \in 1..Len(t.items) |-> list[i]]
  BY TaskParts DEF Normalized
<1> HIDE DEF list
<1>3. \A i \in DOMAIN t.items : Number(t.items[i].register) = t.items[i].register
  BY TaskParts, WordsAssumption DEF Number
<1>4. ASSUME NEW i \in DOMAIN t.items
      PROVE  /\ list[i].type = IF t.items[i].type = NoType THEN FallbackType(t.kind) ELSE t.items[i].type
             /\ list[i].register = t.items[i].register /\ list[i].channel = t.items[i].channel
             /\ list[i] \in Row /\ Kept(list[i])
  <2> DEFINE item == t.items[i]
             type == IF item.type = NoType THEN FallbackType(t.kind) ELSE item.type
  <2>1. item.type \in ReadTypes \cup {NoType} /\ item.register \in Nat /\ item.channel \in Channels
        /\ FallbackType(t.kind) \in ReadTypes
    BY TaskParts
  <2>2. type \in ReadTypes
    BY <2>1
  <2>3. list[i] = [type |-> type, register |-> item.register, channel |-> item.channel]
    BY <1>1
  <2>4. Number(item.register) = item.register
    BY <1>3
  <2> HIDE DEF item, type
  <2>5. list[i].type = type /\ list[i].register = item.register /\ list[i].channel = item.channel
    BY <2>3
  <2>6. list[i] \in Row
    BY <2>1, <2>2, <2>3 DEF Row
  <2>7. Kept(list[i])
    BY <2>1, <2>4, <2>5, WordsAssumption, NoneAssumption DEF Kept
  <2> QED
    BY <2>5, <2>6, <2>7 DEF item, type
<1>5. list \in Seq(Row)
  <2>1. \A i \in 1..Len(t.items) : list[i] \in Row
    BY <1>2, <1>4
  <2> QED
    BY <1>2, <2>1
<1>6. \A i \in DOMAIN t.items : Kept(list[i])
  BY <1>4
<1>7. \A row \in ToSet(list) : Kept(row)
  BY <1>2, <1>6 DEF ToSet
<1>8. \A i \in DOMAIN t.items :
        Parsed(t)[i].type = IF t.items[i].type = NoType THEN FallbackType(t.kind) ELSE t.items[i].type
  <2> SUFFICES ASSUME NEW i \in DOMAIN t.items
               PROVE  Parsed(t)[i].type = IF t.items[i].type = NoType THEN FallbackType(t.kind) ELSE t.items[i].type
    OBVIOUS
  <2>1. t.items[i] \in Item
    BY TaskParts
  <2> QED
    BY <2>1 DEF Parsed, Item
<1>9. ASSUME NEW i \in DOMAIN t.items
      PROVE  list[i].type = Parsed(t)[i].type
  BY <1>4, <1>8
<1> QED
  BY <1>2, <1>3, <1>4, <1>5, <1>7, <1>9 DEF list

\* What is saved of a form, element by element.
LEMMA CleanElements ==
  ASSUME NEW list \in Seq(Row)
  PROVE  /\ KeptRows(list) \in Seq(Row) /\ Len(KeptRows(list)) \in Nat
         /\ DOMAIN CleanMappings(list) = 1..Len(KeptRows(list))
         /\ CleanMappings(list) = [i \in 1..Len(KeptRows(list)) |-> Clean(KeptRows(list)[i])]
<1>1. KeptRows(list) \in Seq(Row)
  BY FilterKeeps
<1>2. DOMAIN KeptRows(list) = 1..Len(KeptRows(list)) /\ Len(KeptRows(list)) \in Nat
  BY <1>1
<1> QED
  BY <1>1, <1>2 DEF CleanMappings, Clean

LEMMA PayloadParts ==
  /\ Payload.kind = task.kind /\ Payload.instance = selected
  /\ Payload.items = CleanMappings(rows) /\ Payload.legacy = FALSE
  /\ Payload.interval = IF task.kind = "read" THEN NoInterval
                        ELSE IF interval \in {Blank, Negative} THEN 0 ELSE interval
BY DEF Payload

\* The engine's mappings after a save, position by position.
LEMMA ParsedPayload ==
  ASSUME EditorTypes
  PROVE  /\ KeptRows(rows) \in Seq(Row)
         /\ Parsed(Payload) = [i \in 1..Len(KeptRows(rows)) |-> Clean(KeptRows(rows)[i])]
<1> DEFINE kept == KeptRows(rows)
<1>1. kept \in Seq(Row) /\ Len(kept) \in Nat /\ Payload.items = [i \in 1..Len(kept) |-> Clean(kept[i])]
  BY CleanElements, PayloadParts DEF EditorTypes
<1> HIDE DEF kept
<1>2. ASSUME NEW i \in 1..Len(kept)
      PROVE  [Payload.items[i] EXCEPT !.type = IF @ = NoType THEN FallbackType(Payload.kind) ELSE @] = Clean(kept[i])
  <2>1. kept[i] \in Row /\ Payload.items[i] = Clean(kept[i])
    BY <1>1
  <2>2. kept[i].type # NoType
    BY <2>1, RowParts
  <2> QED
    BY <2>1, <2>2 DEF Clean
<1>3. DOMAIN Payload.items = 1..Len(kept)
  BY <1>1
<1>4. Parsed(Payload) = [i \in 1..Len(kept) |-> Clean(kept[i])]
  BY <1>2, <1>3 DEF Parsed
<1> QED
  BY <1>1, <1>4 DEF kept

LEMMA SavedMappings ==
  ASSUME EditorTypes
  PROVE  EngineMappings(Payload) = {Clean(row) : row \in {r \in ToSet(rows) : Kept(r)}}
<1> DEFINE kept == KeptRows(rows)
<1>1. kept \in Seq(Row) /\ ToSet(kept) = {r \in ToSet(rows) : Kept(r)}
  BY FilterKeeps DEF EditorTypes
<1>2. Parsed(Payload) = [i \in 1..Len(kept) |-> Clean(kept[i])]
  BY ParsedPayload
<1> HIDE DEF kept
<1>3. ToSet(kept) = {kept[i] : i \in 1..Len(kept)}
  BY <1>1 DEF ToSet
<1>4. EngineMappings(Payload) = {Clean(kept[i]) : i \in 1..Len(kept)}
  BY <1>2 DEF EngineMappings, ToSet
<1> QED
  BY <1>1, <1>3, <1>4

\* The engine accepts no mapping without a register.
LEMMA AcceptedRegisters ==
  ASSUME EditorTypes, Accepted(Payload), NEW row \in ToSet(rows), Kept(row)
  PROVE  Number(row.register) \in Nat
<1> DEFINE kept == KeptRows(rows)
<1>1. kept \in Seq(Row) /\ row \in ToSet(kept)
  BY FilterKeeps DEF EditorTypes
<1>2. Payload.items = [i \in 1..Len(kept) |-> Clean(kept[i])]
  BY CleanElements, PayloadParts DEF EditorTypes
<1> HIDE DEF kept
<1>3. PICK i \in 1..Len(kept) : row = kept[i]
  BY <1>1 DEF ToSet
<1>4. Payload.items[i].register \in Nat
  BY <1>2, <1>3 DEF Accepted
<1> QED
  BY <1>2, <1>3, <1>4 DEF Clean

LEMMA PayloadIsTask ==
  ASSUME EditorTypes, Accepted(Payload) PROVE Payload \in Task
<1> DEFINE kept == KeptRows(rows)
<1>1. kept \in Seq(Row) /\ Payload.items = [i \in 1..Len(kept) |-> Clean(kept[i])] /\ Len(kept) \in Nat
      /\ ToSet(kept) = {r \in ToSet(rows) : Kept(r)}
  BY CleanElements, PayloadParts, FilterKeeps DEF EditorTypes
<1> HIDE DEF kept
<1>2. ASSUME NEW i \in 1..Len(kept) PROVE Clean(kept[i]) \in Item
  <2>1. kept[i] \in Row /\ kept[i] \in ToSet(kept)
    BY <1>1 DEF ToSet
  <2>2. kept[i] \in ToSet(rows) /\ Kept(kept[i])
    BY <1>1, <2>1
  <2>3. Number(kept[i].register) \in Nat /\ kept[i].channel \in Channels /\ kept[i].type \in ReadTypes
    BY <2>1, <2>2, AcceptedRegisters, RowParts DEF Kept
  <2> QED
    BY <2>3 DEF Clean, Item
<1>3. Payload.items \in Seq(Item)
  BY <1>1, <1>2
<1>4. Payload.interval \in Intervals \cup {NoInterval}
  BY PayloadParts, AddressesAssumption DEF EditorTypes
<1>5. task.kind \in {"read", "write"} /\ selected \in Instances \cup {NoInstance}
  BY TaskParts DEF EditorTypes
<1> QED
  BY <1>3, <1>4, <1>5, PayloadParts DEF Payload, Task

\* A save of a form in which nothing was typed.
LEMMA UntouchedPayload ==
  ASSUME TaskEditorInv, editor # "closed", ~touched
  PROVE  /\ KeptRows(rows) = rows /\ Len(rows) = Len(task.items)
         /\ Parsed(Payload) = [i \in DOMAIN task.items |-> [Parsed(task)[i] EXCEPT !.readback = NoChannel]]
         /\ Payload.instance = task.instance
         /\ task.kind = "write" => Payload.interval = interval /\ ReadbackInterval(Payload) = interval
                                   /\ interval = ReadbackInterval(task)
<1>1. task \in Task /\ rows = Normalized(task) /\ selected = task.instance
  BY DEF TaskEditorInv, EditorTypes, UntouchedForm
<1>2. rows \in Seq(Row) /\ DOMAIN rows = DOMAIN task.items /\ \A row \in ToSet(rows) : Kept(row)
  BY <1>1, NormalizedRows
<1>3. KeptRows(rows) = rows
  BY <1>2, FilterKeeps
<1>4. DOMAIN task.items = 1..Len(rows) /\ Len(rows) = Len(task.items)
  BY <1>1, <1>2, TaskParts
<1>5. ASSUME NEW i \in DOMAIN task.items
      PROVE  Clean(rows[i]) = [Parsed(task)[i] EXCEPT !.readback = NoChannel]
  <2>1. task.items[i] \in Item
    BY <1>1, TaskParts
  <2>2. /\ rows[i].type = Parsed(task)[i].type /\ rows[i].channel = task.items[i].channel
        /\ Number(rows[i].register) = task.items[i].register
    BY <1>1, NormalizedRows
  <2>3. Parsed(task)[i] = [task.items[i] EXCEPT !.type = Parsed(task)[i].type]
    BY <2>1 DEF Parsed, Item
  <2> QED
    BY <2>1, <2>2, <2>3 DEF Clean, Item
<1>6. Parsed(Payload) = [i \in 1..Len(rows) |-> Clean(rows[i])]
  BY <1>3, ParsedPayload DEF TaskEditorInv
<1>7. Parsed(Payload) = [i \in DOMAIN task.items |-> [Parsed(task)[i] EXCEPT !.readback = NoChannel]]
  BY <1>4, <1>5, <1>6
<1>8. ASSUME task.kind = "write"
      PROVE  Payload.interval = interval /\ ReadbackInterval(Payload) = interval
             /\ interval = ReadbackInterval(task)
  <2>1. interval = ReadbackInterval(task)
    BY <1>8 DEF TaskEditorInv, UntouchedForm
  <2>2. interval \in Nat
    BY <1>1, <2>1, TaskParts, AddressesAssumption DEF ReadbackInterval
  <2>3. Payload.interval = interval
    BY <1>8, <2>2, PayloadParts, WordsAssumption
  <2>4. interval # NoInterval \/ interval = 0
    BY <2>1 DEF ReadbackInterval
  <2> QED
    BY <2>1, <2>3, <2>4 DEF ReadbackInterval
<1> QED
  BY <1>1, <1>3, <1>4, <1>7, <1>8, PayloadParts

-----------------------------------------------------------------------------
(***************************************************************************)
(* The steps of the task editor.                                           *)
(***************************************************************************)
LEMMA ClosedEditor ==
  ASSUME CloseEditor, task' \in Task PROVE TaskEditorInv'
<1>1. <<>> \in Seq(Row) /\ 0 \in Intervals
  BY AddressesAssumption
<1> QED
  BY <1>1 DEF CloseEditor, TaskEditorInv, EditorTypes, UntouchedForm

LEMMA SavedKeepsEditor ==
  ASSUME TaskEditorInv, TaskSaved \/ SaveUnanswered
  PROVE  TaskEditorInv' /\ task' = Payload /\ Accepted(Payload) /\ editor # "closed"
<1>1. Accepted(Payload) /\ task' = Payload /\ editor = "saving"
  BY DEF TaskSaved, SaveUnanswered
<1>2. Payload \in Task
  BY <1>1, PayloadIsTask DEF TaskEditorInv
<1>3. CASE TaskSaved
  <2>1. TaskEditorInv'
    BY <1>1, <1>2, <1>3, ClosedEditor DEF TaskSaved
  <2> QED
    BY <1>1, <2>1
<1>4. CASE SaveUnanswered
  <2> USE <1>4 DEF SaveUnanswered, form
  <2>1. EditorTypes'
    BY <1>1, <1>2 DEF EditorTypes, TaskEditorInv
  <2>2. ASSUME ~touched PROVE UntouchedForm'
    <3>1. /\ KeptRows(rows) = rows
          /\ Payload.instance = task.instance /\ selected = task.instance
          /\ task.kind = "write" => ReadbackInterval(Payload) = interval
      BY <1>1, <2>2, UntouchedPayload DEF TaskEditorInv, UntouchedForm
    <3>2. rows \in Seq(Row) /\ rows = Normalized(task) /\ task \in Task
      BY <1>1, <2>2 DEF TaskEditorInv, EditorTypes, UntouchedForm
    <3>3. Normalized(Payload) = rows
      <4>1. Payload.items = [i \in 1..Len(rows) |-> Clean(rows[i])]
        BY <3>1, <3>2, CleanElements, PayloadParts
      <4>2. Len(rows) \in Nat /\ DOMAIN rows = 1..Len(rows) /\ rows = [i \in 1..Len(rows) |-> rows[i]]
            /\ DOMAIN rows = DOMAIN task.items
        BY <3>2, NormalizedRows
      <4>3. ASSUME NEW i \in 1..Len(rows)
            PROVE  [type     |-> IF Payload.items[i].type = NoType THEN EditorFallback(Payload.kind)
                                 ELSE Payload.items[i].type,
                    register |-> Payload.items[i].register,
                    channel  |-> Payload.items[i].channel] = rows[i]
        <5>1. rows[i] \in Row /\ Payload.items[i] = Clean(rows[i]) /\ i \in DOMAIN task.items
          BY <3>2, <4>1, <4>2
        <5>2. Number(rows[i].register) = rows[i].register
          BY <3>2, <5>1, NormalizedRows
        <5>3. rows[i].type # NoType
          BY <5>1, RowParts
        <5> QED
          BY <5>1, <5>2, <5>3 DEF Clean, Row
      <4> QED
        BY <4>1, <4>2, <4>3 DEF Normalized
    <3> QED
      BY <1>1, <3>1, <3>3, PayloadParts DEF UntouchedForm
  <2> QED
    BY <1>1, <2>1, <2>2 DEF TaskEditorInv, UntouchedForm
<1> QED
  BY <1>1, <1>3, <1>4

\* A change of the form, by which it is touched.
LEMMA EditKeepsEditor ==
  ASSUME TaskEditorInv, UNCHANGED <<task, editor>>, touched' = TRUE,
         selected' \in Instances \cup {NoInstance}, interval' \in Intervals \cup {Blank, Negative},
         rows' \in Seq(Row)
  PROVE  TaskEditorInv'
BY DEF TaskEditorInv, EditorTypes, UntouchedForm

LEMMA EditRowsKeepsEditor ==
  ASSUME TaskEditorInv, NEW list \in Seq(Row), EditRows(list)
  PROVE  TaskEditorInv'
BY EditKeepsEditor DEF EditRows, TaskEditorInv, EditorTypes

LEMMA ChangedRow ==
  ASSUME TaskEditorInv, NEW i \in DOMAIN rows, NEW row \in Row, ChangeRow(i, row)
  PROVE  TaskEditorInv'
<1>1. [rows EXCEPT ![i] = row] \in Seq(Row)
  BY DEF TaskEditorInv, EditorTypes
<1> QED
  BY <1>1, EditRowsKeepsEditor DEF ChangeRow

LEMMA NextKeepsEditor == TaskEditorInv /\ [TaskEditorNext]_taskVars => TaskEditorInv'
<1> SUFFICES ASSUME TaskEditorInv, [TaskEditorNext]_taskVars PROVE TaskEditorInv'
  OBVIOUS
<1>0. task \in Task /\ rows \in Seq(Row) /\ EditorTypes
  BY DEF TaskEditorInv, EditorTypes
<1>1. CASE OpenEditor
  <2>1. /\ Normalized(task) \in Seq(Row) /\ task.instance \in Instances \cup {NoInstance}
        /\ ReadbackInterval(task) \in Intervals
    BY <1>0, NormalizedRows, TaskParts, AddressesAssumption DEF ReadbackInterval
  <2>2. EditorTypes'
    BY <1>0, <1>1, <2>1 DEF OpenEditor, EditorTypes
  <2> QED
    BY <1>1, <2>2 DEF OpenEditor, TaskEditorInv, UntouchedForm
<1>2. CASE Cancel
  BY <1>0, <1>2, ClosedEditor DEF Cancel
<1>3. CASE AddRow
  <2> DEFINE type == IF task.kind = "read" THEN "discrete_input" ELSE "coil"
             row == [type |-> type, register |-> Blank, channel |-> NoChannel]
  <2>1. row \in Row
    BY DEF Row, ReadTypes, WriteTypes
  <2> HIDE DEF row
  <2>2. Append(rows, row) \in Seq(Row)
    BY <1>0, <2>1
  <2> QED
    BY <1>3, <2>2, EditRowsKeepsEditor DEF AddRow, row
<1>4. CASE SaveTask
  BY <1>0, <1>4 DEF SaveTask, form, TaskEditorInv, EditorTypes, UntouchedForm
<1>5. CASE TaskSaved \/ SaveUnanswered
  BY <1>5, SavedKeepsEditor
<1>6. CASE SaveRefused
  BY <1>0, <1>6 DEF SaveRefused, form, TaskEditorInv, EditorTypes, UntouchedForm
<1>7. ASSUME NEW i \in DOMAIN rows, RemoveRow(i) PROVE TaskEditorInv'
  <2>1. i \in 1..Len(rows) /\ Len(rows) \in Nat
    BY <1>0
  <2>2. SubSeq(rows, 1, i - 1) \in Seq(Row) /\ SubSeq(rows, i + 1, Len(rows)) \in Seq(Row)
    BY <1>0, <2>1
  <2>3. RemoveAt(rows, i) \in Seq(Row)
    BY <2>2 DEF RemoveAt
  <2> QED
    BY <1>7, <2>3, EditRowsKeepsEditor DEF RemoveRow
<1>8. \A i \in DOMAIN rows : rows[i] \in Row
  BY <1>0
<1>9. ASSUME NEW i \in DOMAIN rows, NEW type \in TypesOf(task.kind), ChangeRow(i, [rows[i] EXCEPT !.type = type])
      PROVE  TaskEditorInv'
  <2>1. type \in ReadTypes
    BY DEF TypesOf, ReadTypes
  <2>2. [rows[i] EXCEPT !.type = type] \in Row
    BY <1>8, <2>1 DEF Row
  <2> QED
    BY <1>9, <2>2, ChangedRow
<1>10. ASSUME NEW i \in DOMAIN rows, NEW text \in Addresses \cup {Blank, Fraction, Negative},
              ChangeRow(i, [rows[i] EXCEPT !.register = text])
       PROVE  TaskEditorInv'
  <2>1. [rows[i] EXCEPT !.register = text] \in Row
    BY <1>8, AddressesAssumption DEF Row
  <2> QED
    BY <1>10, <2>1, ChangedRow
<1>11. ASSUME NEW i \in DOMAIN rows, NEW channel \in Channels, ChangeRow(i, [rows[i] EXCEPT !.channel = channel])
       PROVE  TaskEditorInv'
  <2>1. [rows[i] EXCEPT !.channel = channel] \in Row
    BY <1>8 DEF Row
  <2> QED
    BY <1>11, <2>1, ChangedRow
<1>12. ASSUME NEW m \in Instances, SelectInstance(m) PROVE TaskEditorInv'
  BY <1>0, <1>12, EditKeepsEditor DEF SelectInstance, EditorTypes
<1>13. ASSUME NEW text \in Intervals \cup {Blank, Negative}, ChangeInterval(text) PROVE TaskEditorInv'
  BY <1>0, <1>13, EditKeepsEditor DEF ChangeInterval, EditorTypes
<1>14. CASE UNCHANGED taskVars
  BY <1>0, <1>14 DEF taskVars, form, TaskEditorInv, EditorTypes, UntouchedForm
<1> QED
  BY <1>1, <1>2, <1>3, <1>4, <1>5, <1>6, <1>7, <1>9, <1>10, <1>11, <1>12, <1>13, <1>14 DEF TaskEditorNext

\* Only a save changes the task.
LEMMA OnlySavesChangeTask ==
  ASSUME [TaskEditorNext]_taskVars, task' # task PROVE TaskSaved \/ SaveUnanswered
BY DEF TaskEditorNext, OpenEditor, Cancel, AddRow, SaveTask, SaveRefused, RemoveRow, ChangeRow, EditRows,
   SelectInstance, ChangeInterval, taskVars

LEMMA InitEditor == TaskEditorInit => TaskEditorInv
<1>1. <<>> \in Seq(Row) /\ 0 \in Intervals
  BY AddressesAssumption
<1> QED
  BY <1>1, TasksAssumption DEF TaskEditorInit, TaskEditorInv, EditorTypes, UntouchedForm

LEMMA AlwaysEditor == TaskEditorSpec => []TaskEditorInv
BY InitEditor, NextKeepsEditor, PTL DEF TaskEditorSpec

-----------------------------------------------------------------------------
(***************************************************************************)
(* The module editor: its copy is what is stored for the instance shown,   *)
(* unless the history says that it may not be.  Whether the fields are as  *)
(* the copy is no part of it.                                              *)
(***************************************************************************)
CopyInv == ~misled => savedParameters = stored[name]

ModuleEditorInv == ModuleEditorTypeOK /\ CopyInv

\* What a save stores.
LEMMA StoreTypes ==
  ASSUME ModuleEditorTypeOK, request # NoRequest, Store
  PROVE  /\ stored' \in [Names -> Parameters]
         /\ request.name \in Names
         /\ stored'[request.name] = request.parameters
         /\ \A n \in Names \ {request.name} : stored'[n] = stored[n]
BY DEF ModuleEditorTypeOK, Store

LEMMA TypesKept ==
  ASSUME ModuleEditorTypeOK, [ModuleEditorNext]_moduleEditorVars
  PROVE  ModuleEditorTypeOK'
<1> USE DEF ModuleEditorTypeOK
<1>1. ASSUME NEW n \in Names, ShowInstance(n) PROVE ModuleEditorTypeOK'
  BY <1>1 DEF ShowInstance
<1>2. ASSUME NEW p \in Parameters, UpdateParameterField(p) PROVE ModuleEditorTypeOK'
  BY <1>2 DEF UpdateParameterField
<1>3. CASE HandleSave
  BY <1>3 DEF HandleSave, Shown
<1>4. CASE ConfigSaved
  <2>1. misled' \in BOOLEAN
    BY <1>4 DEF ConfigSaved
  <2> QED
    BY <1>4, <2>1, StoreTypes DEF ConfigSaved
<1>5. CASE ConfigUnanswered
  <2>1. misled' \in BOOLEAN
    BY <1>5 DEF ConfigUnanswered
  <2> QED
    BY <1>5, <2>1, StoreTypes DEF ConfigUnanswered
<1>6. CASE ConfigNotSaved
  BY <1>6 DEF ConfigNotSaved
<1>7. CASE UNCHANGED moduleEditorVars
  BY <1>7 DEF moduleEditorVars
<1> QED
  BY <1>1, <1>2, <1>3, <1>4, <1>5, <1>6, <1>7 DEF ModuleEditorNext

LEMMA CopyKept ==
  ASSUME ModuleEditorInv, [ModuleEditorNext]_moduleEditorVars
  PROVE  CopyInv'
<1> USE DEF CopyInv, ModuleEditorInv
<1>1. ASSUME NEW n \in Names, ShowInstance(n) PROVE CopyInv'
  BY <1>1 DEF ShowInstance
<1>2. CASE UNCHANGED <<stored, name, savedParameters, misled>>
  BY <1>2
<1>3. CASE ConfigSaved
  <2> SUFFICES ASSUME ~misled' PROVE savedParameters' = stored'[name']
    OBVIOUS
  <2>1. request = Shown
    BY <1>3 DEF ConfigSaved
  <2>2. request.name = name /\ request.parameters = parameters
    BY <2>1 DEF Shown
  <2> QED
    BY <1>3, <2>2, StoreTypes DEF ConfigSaved
<1>4. CASE ConfigUnanswered
  <2> SUFFICES ASSUME ~misled' PROVE savedParameters' = stored'[name']
    OBVIOUS
  <2>1. ~misled /\ request.name # name
    BY <1>4 DEF ConfigUnanswered
  <2> QED
    BY <1>4, <2>1, StoreTypes DEF ConfigUnanswered, ModuleEditorTypeOK
<1> QED
  BY <1>1, <1>2, <1>3, <1>4
  DEF ModuleEditorNext, UpdateParameterField, HandleSave, ConfigNotSaved, moduleEditorVars

\* Types, and the copy: it is what is stored for the instance shown, unless the
\* page was misled (moduleConfigs.tsx:50-88).
THEOREM EditorInvariant == ModuleEditorSpec => []ModuleEditorInv
<1>1. ModuleEditorInit => ModuleEditorInv
  BY DEF ModuleEditorInit, ModuleEditorInv, ModuleEditorTypeOK, CopyInv
<1>2. ModuleEditorInv /\ [ModuleEditorNext]_moduleEditorVars => ModuleEditorInv'
  BY TypesKept, CopyKept DEF ModuleEditorInv
<1> QED
  BY <1>1, <1>2, PTL DEF ModuleEditorSpec

-----------------------------------------------------------------------------
(***************************************************************************)
(* A behaviour of the two editors is one of each.                          *)
(***************************************************************************)
LEMMA EachEditor == Spec => TaskEditorSpec /\ ModuleEditorSpec
<1>1. Init => TaskEditorInit /\ ModuleEditorInit
  BY DEF Init
<1>2. [Next]_vars => [TaskEditorNext]_taskVars /\ [ModuleEditorNext]_moduleEditorVars
  BY DEF Next, vars
<1> QED
  BY <1>1, <1>2, PTL DEF Spec, TaskEditorSpec, ModuleEditorSpec

\* A page without changes to save shows what is stored, for any instances and
\* parameters, but for the cases the history names (moduleConfigs.tsx:76-88).
THEOREM CleanCorrect == Spec => []CleanMeansStored
<1>1. ModuleEditorInv => CleanMeansStored
  BY DEF ModuleEditorInv, CopyInv, CleanMeansStored, Dirty
<1> QED
  BY <1>1, EachEditor, EditorInvariant, PTL

\* Opening a task and saving it as it is, once or after saves whose answers were
\* lost, leaves the engine with the same mappings, instance and interval, but
\* for the readback channels, whatever the arguments leave to defaults
\* (shared.ts:20-54 against modbus_tcp_client_module.cpp:86-125).
THEOREM UntouchedSaves == Spec => UntouchedSaveKeepsTask
<1>1. TaskEditorInv /\ [TaskEditorNext]_taskVars =>
        [task' # task /\ ~touched =>
           /\ Parsed(task') = [i \in DOMAIN task.items |-> [Parsed(task)[i] EXCEPT !.readback = NoChannel]]
           /\ task'.instance = task.instance
           /\ task'.kind = "write" => ReadbackInterval(task') = ReadbackInterval(task)]_taskVars
  <2> SUFFICES ASSUME TaskEditorInv, [TaskEditorNext]_taskVars, task' # task, ~touched
               PROVE  /\ Parsed(task') = [i \in DOMAIN task.items |-> [Parsed(task)[i] EXCEPT !.readback = NoChannel]]
                      /\ task'.instance = task.instance
                      /\ task'.kind = "write" => ReadbackInterval(task') = ReadbackInterval(task)
    OBVIOUS
  <2>1. task' = Payload /\ editor # "closed"
    BY OnlySavesChangeTask, SavedKeepsEditor
  <2>2. /\ Parsed(Payload) = [i \in DOMAIN task.items |-> [Parsed(task)[i] EXCEPT !.readback = NoChannel]]
        /\ Payload.instance = task.instance
        /\ task.kind = "write" => ReadbackInterval(Payload) = ReadbackInterval(task)
    BY <2>1, UntouchedPayload
  <2>3. Payload.kind = task.kind
    BY PayloadParts
  <2> QED
    BY <2>1, <2>2, <2>3
<1> QED
  BY <1>1, EachEditor, AlwaysEditor, PTL DEF TaskEditorSpec, UntouchedSaveKeepsTask

\* A save stores every complete row, whatever was typed in the others, and of
\* those only rows whose address is blank get into the task, as register 0
\* (shared.ts:47-54).
THEOREM CompleteSaves == Spec => CompleteRowsSaved
<1>1. TaskEditorInv /\ [TaskEditorNext]_taskVars =>
        [task' # task =>
           /\ {Mapping(row) : row \in CompleteRows} \subseteq EngineMappings(task')
           /\ \A m \in EngineMappings(task') \ {Mapping(row) : row \in CompleteRows} :
                m.register = 0 /\ \E row \in ToSet(rows) : row.register = Blank /\ row.channel = m.channel]_taskVars
  <2> SUFFICES ASSUME TaskEditorInv, [TaskEditorNext]_taskVars, task' # task
               PROVE  /\ {Mapping(row) : row \in CompleteRows} \subseteq EngineMappings(task')
                      /\ \A m \in EngineMappings(task') \ {Mapping(row) : row \in CompleteRows} :
                           m.register = 0 /\ \E row \in ToSet(rows) : row.register = Blank /\ row.channel = m.channel
    OBVIOUS
  <2>1. task' = Payload /\ Accepted(Payload) /\ EditorTypes
    BY OnlySavesChangeTask, SavedKeepsEditor DEF TaskEditorInv
  <2>2. EngineMappings(Payload) = {Clean(row) : row \in {r \in ToSet(rows) : Kept(r)}}
    BY <2>1, SavedMappings
  <2>3. \A row \in ToSet(rows) : row \in Row
    BY <2>1 DEF EditorTypes, ToSet
  <2>4. ASSUME NEW row \in CompleteRows PROVE Mapping(row) = Clean(row) /\ Kept(row) /\ row \in ToSet(rows)
    <3>1. row \in ToSet(rows) /\ row.register \in Nat /\ row.channel # NoChannel
      BY DEF CompleteRows
    <3>2. Number(row.register) = row.register /\ row.register # Negative
      BY <3>1, WordsAssumption DEF Number
    <3> QED
      BY <3>1, <3>2 DEF Mapping, Clean, Kept
  <2>5. {Mapping(row) : row \in CompleteRows} \subseteq EngineMappings(Payload)
    BY <2>2, <2>4
  <2>6. ASSUME NEW m \in EngineMappings(Payload), m \notin {Mapping(row) : row \in CompleteRows}
        PROVE  m.register = 0 /\ \E row \in ToSet(rows) : row.register = Blank /\ row.channel = m.channel
    <3>1. PICK row \in ToSet(rows) : Kept(row) /\ m = Clean(row)
      BY <2>2
    <3>2. Number(row.register) \in Nat /\ row \in Row
      BY <2>1, <2>3, <3>1, AcceptedRegisters
    <3>3. row \notin CompleteRows
      BY <2>4, <2>6, <3>1
    <3>4. row.register \notin Nat
      BY <3>1, <3>3 DEF CompleteRows, Kept
    <3>5. row.register = Blank
      BY <3>2, <3>4 DEF Number
    <3>6. m.register = Number(row.register) /\ m.channel = row.channel
      BY <3>1 DEF Clean
    <3> QED
      BY <3>1, <3>5, <3>6 DEF Number
  <2> QED
    BY <2>1, <2>5, <2>6
<1> QED
  BY <1>1, EachEditor, AlwaysEditor, PTL DEF TaskEditorSpec, CompleteRowsSaved

=============================================================================
