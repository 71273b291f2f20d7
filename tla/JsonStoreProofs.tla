-------------------------- MODULE JsonStoreProofs ---------------------------
(***************************************************************************)
(* For any number of processes that set, get and are killed, a JsonStore   *)
(* keeps what its docstring promises (StoreIsAtomic): it implements the    *)
(* Register.  The invariant says which sets disturb nobody: a set that is  *)
(* alone works on the inode of <db>.bak, which no get has open.            *)
(***************************************************************************)
EXTENDS JsonStore, TLAPS

\* What a process has open while it is in a set or a get.
Holding ==
  \A p \in Procs :
    /\ op[p] # "idle" => fd[p] \in Inodes
    /\ op[p] \in {"opened", "closed"} => arg[p] \in Values
    /\ op[p] = "reading" => fd[p] # bak

\* A set that is alone works on the file that it will rename.
Alone ==
  \A p \in Procs : alone[p] =>
    /\ InSet = {p}
    /\ fd[p] = bak
    /\ content[bak] = IF op[p] = "opened" THEN Empty ELSE arg[p]

StoreInv == StoreTypeOK /\ Holding /\ Alone
-----------------------------------------------------------------------------
\* The invariant holds initially.
LEMMA StoreInitInv == StoreInit => StoreInv
  BY StoreAssumption DEF StoreInit, StoreInv, StoreTypeOK, Holding, Alone, InSet

\* Who is in a set after a process has gone on to another place.
LEMMA InSetAfter ==
  ASSUME StoreTypeOK, NEW p \in Procs, NEW place, op' = [op EXCEPT ![p] = place]
  PROVE  InSet' = IF place \in {"opened", "closed"} THEN InSet \cup {p} ELSE InSet \ {p}
  BY DEF StoreTypeOK, InSet

\* What a set or a get that ends leaves behind.
LEMMA DoneFacts ==
  ASSUME StoreTypeOK, NEW p \in Procs, Done(p)
  PROVE  /\ InSet' = InSet \ {p}
         /\ fd' \in [Procs -> Inodes \cup {None}]
         /\ \A i \in Inodes : i \in {path', bak'} => content'[i] = content[i]
         /\ \A q \in Procs \ {p} : /\ op'[q] = op[q] /\ fd'[q] = fd[q] /\ arg'[q] = arg[q]
                                   /\ alone'[q] = alone[q]
                                   /\ fd[q] \in Inodes => content'[fd[q]] = content[fd[q]]
         /\ op'[p] = "idle" /\ ~alone'[p]
<1> USE DEF Done, StoreTypeOK
<1>1. InSet' = InSet \ {p}
  BY InSetAfter
<1>2. fd' \in [Procs -> Inodes \cup {None}] /\ op'[p] = "idle" /\ ~alone'[p]
  OBVIOUS
<1>3. \A i \in Inodes : i \in InUse' => content'[i] = content[i]
  OBVIOUS
<1>4. \A i \in Inodes : i \in {path', bak'} => content'[i] = content[i]
  BY <1>3 DEF InUse
<1>5. ASSUME NEW q \in Procs \ {p}
      PROVE  /\ op'[q] = op[q] /\ fd'[q] = fd[q] /\ arg'[q] = arg[q]
             /\ alone'[q] = alone[q]
             /\ fd[q] \in Inodes => content'[fd[q]] = content[fd[q]]
  <2>1. op'[q] = op[q] /\ fd'[q] = fd[q] /\ arg'[q] = arg[q]
    OBVIOUS
  <2>2. alone'[q] = alone[q]
    OBVIOUS
  <2>3. fd[q] \in InUse'
    BY <2>1 DEF InUse
  <2> QED
    BY <1>3, <2>1, <2>2, <2>3
<1> QED
  BY <1>1, <1>2, <1>4, <1>5

\* What is in the files and at the processes after p has opened <db>.bak.
LEMMA OpenFacts ==
  ASSUME StoreInv, NEW p \in Procs, NEW v \in Values, SetOpen(p, v)
  PROVE  /\ bak' \in Inodes /\ bak' # path /\ path' = path
         /\ \A q \in Procs : op[q] = "reading" => fd[q] # bak'
         /\ content'[bak'] = Empty
         /\ \A i \in Inodes \ {bak'} : content'[i] = content[i]
         /\ op'[p] = "opened" /\ fd'[p] = bak' /\ arg'[p] = v
         /\ \A q \in Procs \ {p} : op'[q] = op[q] /\ fd'[q] = fd[q] /\ arg'[q] = arg[q]
         /\ InSet' = InSet \cup {p} /\ op[p] = "idle"
<1> USE StoreAssumption DEF StoreInv, StoreTypeOK, Holding, SetOpen, OpenBackup
<1>1. bak' \in Inodes /\ bak' # path /\ \A q \in Procs : op[q] = "reading" => fd[q] # bak'
  <2>1. CASE bak = None
    BY <2>1 DEF InUse
  <2>2. CASE bak # None
    BY <2>2
  <2> QED
    BY <2>1, <2>2
<1>2. InSet' = InSet \cup {p}
  BY InSetAfter
<1> QED
  BY <1>1, <1>2

\* Every step keeps the invariant.
LEMMA StoreStepInv ==
  ASSUME StoreInv, [StoreNext]_storeVars
  PROVE  StoreInv'
<1> USE StoreAssumption DEF StoreInv
<1>1. ASSUME NEW p \in Procs, NEW v \in Values, SetOpen(p, v)
      PROVE  StoreInv'
  <2> USE <1>1, OpenFacts
  <2>1. StoreTypeOK'
    BY DEF SetOpen, OpenBackup, StoreTypeOK
  <2>2. Holding'
    BY DEF Holding
  <2>3. \A q \in Procs : alone'[q] => q = p /\ InSet = {}
    BY DEF SetOpen
  <2>4. Alone'
    BY <2>3 DEF Alone
  <2> QED
    BY <2>1, <2>2, <2>4
<1>2. ASSUME NEW p \in Procs, SetWrite(p)
      PROVE  StoreInv'
  <2>1. PICK c \in Written(content[fd[p]], arg[p]) : content' = [content EXCEPT ![fd[p]] = c]
    BY <1>2 DEF SetWrite
  <2>2. /\ op[p] = "opened" /\ op' = [op EXCEPT ![p] = "closed"]
        /\ UNCHANGED <<path, bak, fd, arg, alone>>
    BY <1>2 DEF SetWrite
  <2>3. fd[p] \in Inodes /\ arg[p] \in Values /\ p \in InSet
    BY <2>2 DEF Holding, InSet
  <2>4. InSet' = InSet
    <3>1. InSet' = InSet \cup {p}
      BY <2>2, InSetAfter
    <3> QED
      BY <2>3, <3>1
  <2>5. c \in Values \cup {Torn}
    BY <2>1, <2>3 DEF Written
  <2>6. StoreTypeOK'
    BY <2>1, <2>2, <2>5 DEF StoreTypeOK
  <2>7. Holding'
    BY <2>2 DEF Holding, StoreTypeOK
  <2>8. ASSUME NEW q \in Procs, alone[q]
        PROVE  q = p /\ fd[p] = bak /\ c = arg[p]
    <3>1. InSet = {q} /\ q = p
      BY <2>3, <2>8 DEF Alone
    <3>2. fd[p] = bak /\ content[bak] = Empty
      BY <2>2, <2>8, <3>1 DEF Alone
    <3> QED
      BY <2>1, <3>1, <3>2 DEF Written
  <2>9. Alone'
    <3> SUFFICES ASSUME NEW q \in Procs, alone'[q]
                 PROVE  /\ InSet' = {q} /\ fd'[q] = bak'
                        /\ content'[bak'] = IF op'[q] = "opened" THEN Empty ELSE arg'[q]
      BY DEF Alone
    <3>1. q = p /\ fd[p] = bak /\ c = arg[p] /\ InSet = {q}
      BY <2>2, <2>8 DEF Alone
    <3>2. content'[bak] = arg[p] /\ op'[p] = "closed"
      BY <2>1, <2>2, <2>3, <3>1 DEF StoreTypeOK
    <3> QED
      BY <2>2, <2>4, <3>1, <3>2
  <2> QED
    BY <2>6, <2>7, <2>9
<1>3. ASSUME NEW p \in Procs, SetRename(p)
      PROVE  StoreInv'
  <2>1. /\ op[p] = "closed" /\ Done(p)
        /\ IF bak # None THEN path' = bak /\ bak' = None ELSE UNCHANGED <<path, bak>>
    BY <1>3 DEF SetRename
  <2> USE <2>1, DoneFacts
  <2>2. bak' = None /\ path' \in Inodes \cup {None}
    BY DEF StoreTypeOK
  <2>3. StoreTypeOK'
    BY <2>2 DEF StoreTypeOK, Done
  <2>4. Holding'
    BY <2>2 DEF Holding
  <2>5. p \in InSet
    BY DEF InSet
  <2>6. \A q \in Procs : ~alone'[q] \/ (alone[q] /\ q # p)
    BY DEF StoreTypeOK
  <2>7. \A q \in Procs : ~alone'[q]
    BY <2>5, <2>6 DEF Alone
  <2> QED
    BY <2>3, <2>4, <2>7 DEF Alone
<1>4. ASSUME NEW p \in Procs, GetOpen(p)
      PROVE  StoreInv'
  <2>1. /\ op[p] = "idle" /\ path # None
        /\ op' = [op EXCEPT ![p] = "reading"] /\ fd' = [fd EXCEPT ![p] = path]
        /\ UNCHANGED <<path, bak, content, arg, alone>>
    BY <1>4 DEF GetOpen
  <2>2. p \notin InSet /\ InSet' = InSet
    BY <2>1, InSetAfter DEF InSet
  <2>3. StoreTypeOK'
    BY <2>1 DEF StoreTypeOK
  <2>4. Holding'
    BY <2>1 DEF Holding, StoreTypeOK
  <2>5. Alone'
    <3>1. \A q \in Procs : alone[q] => q # p
      BY <2>2 DEF Alone
    <3>2. \A q \in Procs \ {p} : fd'[q] = fd[q] /\ op'[q] = op[q]
      BY <2>1 DEF StoreTypeOK
    <3> QED
      BY <2>1, <2>2, <3>1, <3>2 DEF Alone
  <2> QED
    BY <2>3, <2>4, <2>5
<1>5. ASSUME NEW p \in Procs, GetRead(p) \/ Cut(p)
      PROVE  StoreInv'
  <2>1. UNCHANGED <<path, bak>> /\ Done(p)
    BY <1>5 DEF GetRead, Cut
  <2> USE <2>1, DoneFacts
  <2>2. StoreTypeOK'
    BY DEF StoreTypeOK, Done
  <2>3. Holding'
    BY DEF Holding
  <2>4. Alone'
    <3> SUFFICES ASSUME NEW q \in Procs, alone'[q]
                 PROVE  /\ InSet' = {q} /\ fd'[q] = bak'
                        /\ content'[bak'] = IF op'[q] = "opened" THEN Empty ELSE arg'[q]
      BY DEF Alone
    <3>1. q # p /\ alone[q]
      OBVIOUS
    <3>2. InSet = {q} /\ fd[q] = bak /\ bak \in Inodes
      BY <3>1 DEF Alone, Holding, InSet
    <3>3. content[bak] = IF op[q] = "opened" THEN Empty ELSE arg[q]
      BY <3>1 DEF Alone
    <3> QED
      BY <3>1, <3>2, <3>3
  <2> QED
    BY <2>2, <2>3, <2>4
<1>6. CASE UNCHANGED storeVars
  BY <1>6 DEF storeVars, StoreTypeOK, Holding, Alone, InSet
<1> QED
  BY <1>1, <1>2, <1>3, <1>4, <1>5, <1>6 DEF StoreNext, StoreStep
-----------------------------------------------------------------------------
(* The register *)

\* What the processes do, and with which values.
Doings == [p \in Procs |-> Doing(p)]
Vals == [p \in Procs |-> Value(p)]

\* A store begins as the register does.
LEMMA RegisterInitially == StoreInit => Promised!RegisterInit
  BY StoreAssumption DEF StoreInit, Promised!RegisterInit, Load, Doing, Value

\* Who is in a set, in the words of the register.
LEMMA SameSets ==
  ASSUME StoreTypeOK
  PROVE  Promised!Sets = InSet
  BY DEF StoreTypeOK, Promised!Sets, InSet, Doing

\* What loads and values are.
LEMMA ValueTypes ==
  ASSUME StoreTypeOK
  PROVE  Load(path) \in Values \cup {None} /\ \A p \in Procs : Value(p) \in Values \cup {None}
  BY DEF StoreTypeOK, Load, Value

\* A process that neither begins nor ends anything, and whose file keeps its
\* content, does the same as before with the same value.
LEMMA SameToOthers ==
  ASSUME NEW q \in Procs, op'[q] = op[q], fd'[q] = fd[q], arg'[q] = arg[q],
         op[q] = "reading" /\ fd[q] \in Inodes => content'[fd[q]] = content[fd[q]]
  PROVE  Doing(q)' = Doing(q) /\ Value(q)' = Value(q)
  BY DEF Doing, Value, Load

\* A step that the register sees as the end of what p does.
LEMMA EndOfCall ==
  ASSUME StoreInv, NEW p \in Procs, Done(p)
  PROVE  Promised!Ends(p)
<1> USE DEF StoreInv
<1>1. Doing(p)' = "idle" /\ Value(p)' = None /\ alone' = [alone EXCEPT ![p] = FALSE]
  BY DoneFacts DEF Doing, Value, Done, StoreTypeOK
<1>2. \A q \in Procs \ {p} : Doing(q)' = Doing(q) /\ Value(q)' = Value(q)
  BY DoneFacts, SameToOthers
<1>3. Doings' = [Doings EXCEPT ![p] = "idle"] /\ Vals' = [Vals EXCEPT ![p] = None]
  BY <1>1, <1>2 DEF Doings, Vals
<1> QED
  BY <1>1, <1>3 DEF Promised!Ends, Doings, Vals

\* Every step of the store is a step of the register, or is invisible in it.
LEMMA StoreStepsRegister ==
  ASSUME StoreInv, [StoreNext]_storeVars
  PROVE  [Promised!RegisterNext]_Promised!registerVars
<1> USE StoreAssumption DEF StoreInv
<1>1. ASSUME NEW p \in Procs, NEW v \in Values, SetOpen(p, v)
      PROVE  Promised!SetBegins(p, v)
  <2> USE <1>1, OpenFacts
  <2>1. Load(path)' = Load(path)
    BY DEF Load
  <2>2. Doing(p) = "idle" /\ Doing(p)' = "set" /\ Value(p)' = v
    BY DEF Doing, Value
  <2>3. \A q \in Procs \ {p} : Doing(q)' = Doing(q) /\ Value(q)' = Value(q)
    BY SameToOthers
  <2>4. Doings' = [Doings EXCEPT ![p] = "set"] /\ Vals' = [Vals EXCEPT ![p] = v]
    BY <2>2, <2>3 DEF Doings, Vals
  <2>5. alone' = [q \in Procs |-> q = p /\ Promised!Sets = {}]
    BY SameSets DEF SetOpen
  <2> QED
    BY <2>1, <2>2, <2>4, <2>5 DEF Promised!SetBegins, Promised!Begins, Doings, Vals
<1>2. ASSUME NEW p \in Procs, SetWrite(p)
      PROVE  Promised!SetDisturbs(p) \/ UNCHANGED Promised!registerVars
  <2>1. /\ op[p] = "opened" /\ op' = [op EXCEPT ![p] = "closed"]
        /\ UNCHANGED <<path, bak, fd, arg, alone>>
        /\ \E c \in Written(content[fd[p]], arg[p]) : content' = [content EXCEPT ![fd[p]] = c]
    BY <1>2 DEF SetWrite
  <2>2. \A q \in Procs : Doing(q)' = Doing(q)
    BY <2>1 DEF Doing, StoreTypeOK
  <2>3. Doings' = Doings
    BY <2>2 DEF Doings
  <2>4. CASE alone[p]
    <3>1. fd[p] = bak /\ bak \in Inodes
      BY <2>1, <2>4 DEF Alone, Holding
    <3>2. \A i \in Inodes \ {bak} : content'[i] = content[i]
      BY <2>1, <3>1 DEF StoreTypeOK
    <3>3. Load(path)' = Load(path)
      BY <2>1, <3>1, <3>2 DEF Load, StoreTypeOK
    <3>4. \A q \in Procs : Value(q)' = Value(q)
      <4> SUFFICES ASSUME NEW q \in Procs PROVE Value(q)' = Value(q)
        OBVIOUS
      <4>1. CASE q = p
        BY <2>1, <4>1 DEF Value, StoreTypeOK
      <4>2. CASE q # p
        <5>1. op'[q] = op[q]
          BY <2>1, <4>2 DEF StoreTypeOK
        <5> QED
          BY <2>1, <3>2, <5>1, SameToOthers DEF Holding
      <4> QED
        BY <4>1, <4>2
    <3>5. Vals' = Vals
      BY <3>4 DEF Vals
    <3> QED
      BY <2>1, <2>3, <3>3, <3>5 DEF Promised!registerVars, Doings, Vals
  <2>5. CASE ~alone[p]
    <3>1. StoreTypeOK'
      BY StoreStepInv, <1>2 DEF StoreNext, StoreStep
    <3>2. Load(path)' \in Values \cup {None} /\ Vals' \in [Procs -> Values \cup {None}]
      BY <3>1, ValueTypes DEF Vals, Value, Load, StoreTypeOK
    <3>3. Doing(p) = "set"
      BY <2>1 DEF Doing
    <3>4. \A q \in Procs : Doing(q) # "get" => Value(q)' = Value(q)
      BY <2>1 DEF Doing, Value, StoreTypeOK
    <3> QED
      BY <2>1, <2>3, <2>5, <3>2, <3>3, <3>4 DEF Promised!SetDisturbs, Doings, Vals
  <2> QED
    BY <2>4, <2>5
<1>3. ASSUME NEW p \in Procs, SetRename(p)
      PROVE  Promised!SetEnds(p)
  <2>1. /\ op[p] = "closed" /\ Done(p)
        /\ IF bak # None THEN path' = bak /\ bak' = None ELSE UNCHANGED <<path, bak>>
    BY <1>3 DEF SetRename
  <2>2. Doing(p) = "set" /\ Value(p) = arg[p]
    BY <2>1 DEF Doing, Value
  <2>3. CASE alone[p]
    <3>1. bak \in Inodes /\ content[bak] = arg[p] /\ arg[p] \in Values
      BY <2>1, <2>3 DEF Alone, Holding
    <3>2. path' = bak /\ content'[bak] = arg[p]
      BY <2>1, <3>1, DoneFacts
    <3>3. Load(path)' = Value(p)
      BY <2>2, <3>1, <3>2 DEF Load
    <3> QED
      BY <2>1, <2>2, <2>3, <3>3, EndOfCall DEF Promised!SetEnds
  <2>4. CASE ~alone[p]
    <3>1. StoreTypeOK'
      BY StoreStepInv, <1>3 DEF StoreNext, StoreStep
    <3>2. Load(path)' \in Values \cup {None}
      BY <3>1 DEF Load, StoreTypeOK
    <3> QED
      BY <2>1, <2>2, <2>4, <3>2, EndOfCall DEF Promised!SetEnds
  <2> QED
    BY <2>3, <2>4
<1>4. ASSUME NEW p \in Procs, GetOpen(p)
      PROVE  Promised!GetBegins(p)
  <2>1. /\ op[p] = "idle" /\ path # None
        /\ op' = [op EXCEPT ![p] = "reading"] /\ fd' = [fd EXCEPT ![p] = path]
        /\ UNCHANGED <<path, bak, content, arg, alone>>
    BY <1>4 DEF GetOpen
  <2>2. Load(path)' = Load(path)
    BY <2>1 DEF Load
  <2>3. Doing(p) = "idle" /\ Doing(p)' = "get" /\ Value(p)' = Load(path)
    BY <2>1 DEF Doing, Value, Load, StoreTypeOK
  <2>4. \A q \in Procs \ {p} : Doing(q)' = Doing(q) /\ Value(q)' = Value(q)
    BY <2>1, SameToOthers DEF StoreTypeOK
  <2>5. Doings' = [Doings EXCEPT ![p] = "get"] /\ Vals' = [Vals EXCEPT ![p] = Load(path)]
    BY <2>3, <2>4 DEF Doings, Vals
  <2> QED
    BY <2>1, <2>2, <2>3, <2>5 DEF Promised!GetBegins, Promised!Begins, Doings, Vals
<1>5. ASSUME NEW p \in Procs, GetRead(p) \/ Cut(p)
      PROVE  Promised!EndsQuietly(p)
  <2>1. UNCHANGED <<path, bak>> /\ Done(p)
    BY <1>5 DEF GetRead, Cut
  <2>2. Load(path)' = Load(path)
    BY <2>1, DoneFacts DEF Load
  <2> QED
    BY <2>1, <2>2, EndOfCall DEF Promised!EndsQuietly
<1>6. CASE UNCHANGED storeVars
  <2>1. Load(path)' = Load(path) /\ Doings' = Doings /\ Vals' = Vals /\ alone' = alone
    BY <1>6 DEF storeVars, Load, Doings, Vals, Doing, Value
  <2> QED
    BY <2>1 DEF Promised!registerVars, Doings, Vals
<1> QED
  BY <1>1, <1>2, <1>3, <1>4, <1>5, <1>6
  DEF StoreNext, StoreStep, Promised!RegisterNext, Promised!RegisterStep

\* "persist JSON-based data atomically": for any processes, values and kills,
\* the store is a register for every set that no other set overlaps.
THEOREM StoreIsAtomic == StoreSpec => StoresAtomically
<1>1. StoreInv /\ [StoreNext]_storeVars => StoreInv'
  BY StoreStepInv
<1>2. StoreInv /\ [StoreNext]_storeVars => [Promised!RegisterNext]_Promised!registerVars
  BY StoreStepsRegister
<1> QED
  BY <1>1, <1>2, StoreInitInv, RegisterInitially, PTL
     DEF StoreSpec, StoresAtomically, Promised!RegisterSpec
=============================================================================
